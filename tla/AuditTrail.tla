----------------------------- MODULE AuditTrail -----------------------------
(***************************************************************************)
(* What an audit trail promises, with no hash, lock, sequence or           *)
(* transaction in sight:                                                   *)
(*                                                                         *)
(*   - it only grows, at its end, by one entry at a time;                  *)
(*   - an operation has at most one entry, and none before its work;       *)
(*   - the work of a fail-closed operation and its entry appear in the     *)
(*     same step; the entry of any other may come later, or never.         *)
(*                                                                         *)
(* AuditChain implements this specification.                               *)
(***************************************************************************)
EXTENDS Sequences

CONSTANTS Operations, FailClosed

VARIABLES
    entries,  \* the operations recorded, in the order of their entries
    worked    \* the operations whose work is done

vars == <<entries, worked>>

Recorded(o) == \E i \in DOMAIN entries : entries[i] = o

Init == entries = <<>> /\ worked = {}

WorkAndRecord(o) ==
    /\ o \in FailClosed
    /\ o \notin worked
    /\ worked' = worked \cup {o}
    /\ entries' = Append(entries, o)

Work(o) ==
    /\ o \notin FailClosed
    /\ o \notin worked
    /\ worked' = worked \cup {o}
    /\ UNCHANGED entries

Record(o) ==
    /\ o \notin FailClosed
    /\ o \in worked
    /\ ~Recorded(o)
    /\ entries' = Append(entries, o)
    /\ UNCHANGED worked

Next == \E o \in Operations : WorkAndRecord(o) \/ Work(o) \/ Record(o)

Spec == Init /\ [][Next]_vars

=============================================================================
