----------------------------- MODULE AuditChain -----------------------------
(***************************************************************************)
(* The hash-chained audit log of the API.  Operations append one entry     *)
(* each; a transaction-scoped advisory lock serialises the appends, the    *)
(* row's seq comes from a PostgreSQL sequence (which no rollback gives     *)
(* back) and the chain head is stored in a table of its own.  A verifier   *)
(* recomputes the chain from two separate reads.                           *)
(*                                                                         *)
(* The isolation level is READ COMMITTED: what a transaction wrote is seen *)
(* by others at its commit.  Changes of stored rows from outside the       *)
(* program are not modelled: here nobody edits, deletes or reorders a row. *)
(***************************************************************************)
EXTENDS Naturals, Sequences

CONSTANTS
    Operations,   \* the operations that are audited, each once
    FailClosed,   \* those that pass their transaction to log()
    MaxRollbacks, \* bound on failed transactions
    NoOperation, NoHead

ASSUME AuditAssumption ==
    /\ FailClosed \subseteq Operations
    /\ NoOperation \notin Operations
    /\ MaxRollbacks \in Nat
    /\ NoHead \notin [seq: Nat, entryHash: Seq(Operations)]

VARIABLES
    rows,      \* AuditLog, ordered by seq: what is committed
    head,      \* AuditChainHead
    nextSeq,   \* the sequence behind AuditLog.seq
    lock,      \* the holder of AUDIT_CHAIN_LOCK
    op,        \* the operations
    worked,    \* the operations whose own rows are committed
    rollbacks, \* transactions failed so far
    verifier   \* one verifyChain call at a time

vars == <<rows, head, nextSeq, lock, op, worked, rollbacks, verifier>>

\* sha256 over the entry and prevHash tells entries and chains apart: a hash is
\* the list of everything chained into it, 'GENESIS' the empty list.
Genesis == <<>>
Hash(prevHash, content) == Append(prevHash, content)
Hashes == Seq(Operations)

Row == [seq: Nat, content: Operations, prevHash: Hashes, entryHash: Hashes]
ChainHead == [seq: Nat, entryHash: Hashes]

Operation ==
    [pc: {"idle", "lock", "read", "insert", "commit", "done", "failed"},
     prevHash: Hashes, seq: Nat]
Idle == [pc |-> "idle", prevHash |-> Genesis, seq |-> 0]

Verdicts == {"none", "valid", "cleared", "gap", "link", "hash", "head"}
Verifier ==
    [pc: {"idle", "reading", "done"}, readRows: BOOLEAN, readHead: BOOLEAN,
     rows: Seq(Row), head: ChainHead \cup {NoHead}, verdict: Verdicts]
IdleVerifier ==
    [pc |-> "idle", readRows |-> FALSE, readHead |-> FALSE, rows |-> <<>>,
     head |-> NoHead, verdict |-> "none"]

Init ==
    /\ rows = <<>>
    /\ head = NoHead
    /\ nextSeq = 1
    /\ lock = NoOperation
    /\ op = [o \in Operations |-> Idle]
    /\ worked = {}
    /\ rollbacks = 0
    /\ verifier = IdleVerifier

-----------------------------------------------------------------------------
(* Appending: log, writeEntry *)

\* Without tx the operation's own rows are committed before log() is called;
\* with tx they are written in the transaction that writes the entry.
Begin(o) ==
    /\ op[o].pc = "idle"
    /\ op' = [op EXCEPT ![o].pc = "lock"]
    /\ worked' = IF o \in FailClosed THEN worked ELSE worked \cup {o}
    /\ UNCHANGED <<rows, head, nextSeq, lock, rollbacks, verifier>>

\* Mutant: nobody waits for the lock.
LockChainWithoutWaiting(o) ==
    /\ op[o].pc = "lock"
    /\ lock' = o
    /\ op' = [op EXCEPT ![o].pc = "read"]
    /\ UNCHANGED <<rows, head, nextSeq, worked, rollbacks, verifier>>

\* lockChain waits for pg_advisory_xact_lock.  A FailClosed operation takes it
\* as its first statement; taking it again in writeEntry changes nothing.
LockChain(o) ==
    /\ op[o].pc = "lock"
    /\ lock = NoOperation
    /\ lock' = o
    /\ op' = [op EXCEPT ![o].pc = "read"]
    /\ UNCHANGED <<rows, head, nextSeq, worked, rollbacks, verifier>>

LastHash == IF rows = <<>> THEN Genesis ELSE rows[Len(rows)].entryHash

ReadLast(o) ==
    /\ op[o].pc = "read"
    /\ op' = [op EXCEPT ![o].pc = "insert", ![o].prevHash = LastHash]
    /\ UNCHANGED <<rows, head, nextSeq, lock, worked, rollbacks, verifier>>

\* auditLog.create draws the seq; nobody sees the row yet.
Insert(o) ==
    /\ op[o].pc = "insert"
    /\ op' = [op EXCEPT ![o].pc = "commit", ![o].seq = nextSeq]
    /\ nextSeq' = nextSeq + 1
    /\ UNCHANGED <<rows, head, lock, worked, rollbacks, verifier>>

NewRow(o) ==
    [seq |-> op[o].seq, content |-> o, prevHash |-> op[o].prevHash,
     entryHash |-> Hash(op[o].prevHash, o)]

\* Mutant: a caller that writes its entry again after the commit.
CommitAndRetry(o) ==
    /\ op[o].pc = "commit"
    /\ rows' = Append(rows, NewRow(o))
    /\ head' = [seq |-> NewRow(o).seq, entryHash |-> NewRow(o).entryHash]
    /\ worked' = worked \cup {o}
    /\ lock' = NoOperation
    /\ op' = [op EXCEPT ![o].pc = "lock"]
    /\ UNCHANGED <<nextSeq, rollbacks, verifier>>

\* The head's upsert and the commit: the row, the head and, with tx, the
\* operation's own rows appear together and the lock is released.
Commit(o) ==
    /\ op[o].pc = "commit"
    /\ rows' = Append(rows, NewRow(o))
    /\ head' = [seq |-> NewRow(o).seq, entryHash |-> NewRow(o).entryHash]
    /\ worked' = worked \cup {o}
    /\ lock' = NoOperation
    /\ op' = [op EXCEPT ![o].pc = "done"]
    /\ UNCHANGED <<nextSeq, rollbacks, verifier>>

\* Mutants: a session lock, which outlives the transaction; a caller that
\* swallows the failure of log() although it passed its transaction.
RollBackHoldingLock(o) ==
    /\ op[o].pc \in {"lock", "read", "insert", "commit"}
    /\ rollbacks < MaxRollbacks
    /\ rollbacks' = rollbacks + 1
    /\ op' = [op EXCEPT ![o].pc = "failed"]
    /\ UNCHANGED <<rows, head, nextSeq, lock, worked, verifier>>

RollBackKeepingWork(o) ==
    /\ op[o].pc \in {"lock", "read", "insert", "commit"}
    /\ rollbacks < MaxRollbacks
    /\ rollbacks' = rollbacks + 1
    /\ lock' = IF lock = o THEN NoOperation ELSE lock
    /\ op' = [op EXCEPT ![o].pc = "failed"]
    /\ worked' = worked \cup {o}
    /\ UNCHANGED <<rows, head, nextSeq, verifier>>

\* The transaction fails at any statement or with its process; the sequence
\* keeps the value it gave out.  Without tx the caller goes on unaware.
RollBack(o) ==
    /\ op[o].pc \in {"lock", "read", "insert", "commit"}
    /\ rollbacks < MaxRollbacks
    /\ rollbacks' = rollbacks + 1
    /\ lock' = IF lock = o THEN NoOperation ELSE lock
    /\ op' = [op EXCEPT ![o].pc = "failed"]
    /\ UNCHANGED <<rows, head, nextSeq, worked, verifier>>

-----------------------------------------------------------------------------
(* Verifying: verifyChain, verifyAuditChainRows *)

PrevHash(table, i) == IF i = 1 THEN Genesis ELSE table[i - 1].entryHash

HasGap(table) ==
    \E i \in 2..Len(table) : table[i].seq # table[i - 1].seq + 1

BrokenLink(table) ==
    \E i \in 1..Len(table) : table[i].prevHash # PrevHash(table, i)

WrongHash(table) ==
    \E i \in 1..Len(table) :
        table[i].entryHash # Hash(table[i].prevHash, table[i].content)

HeadDiffers(table, h) ==
    /\ h # NoHead
    /\ LET last == table[Len(table)]
       IN  last.seq # h.seq \/ last.entryHash # h.entryHash

\* The checks in the code's order.  Every row here carries a hash, so the
\* unchained rows of the code do not occur; of a table with a broken link and
\* a wrong hash the code reports the earlier one, here the link.
Verdict(table, h) ==
    IF table = <<>> THEN IF h = NoHead THEN "valid" ELSE "cleared"
    ELSE IF HasGap(table) THEN "gap"
    ELSE IF BrokenLink(table) THEN "link"
    ELSE IF WrongHash(table) THEN "hash"
    ELSE IF HeadDiffers(table, h) THEN "head"
    ELSE "valid"

StartVerify ==
    /\ verifier.pc # "reading"
    /\ verifier' = [IdleVerifier EXCEPT !.pc = "reading"]
    /\ UNCHANGED <<rows, head, nextSeq, lock, op, worked, rollbacks>>

\* Promise.all: two statements on two connections, in either order.
ReadRows ==
    /\ verifier.pc = "reading" /\ ~verifier.readRows
    /\ verifier' = [verifier EXCEPT !.readRows = TRUE, !.rows = rows]
    /\ UNCHANGED <<rows, head, nextSeq, lock, op, worked, rollbacks>>

ReadHead ==
    /\ verifier.pc = "reading" /\ ~verifier.readHead
    /\ verifier' = [verifier EXCEPT !.readHead = TRUE, !.head = head]
    /\ UNCHANGED <<rows, head, nextSeq, lock, op, worked, rollbacks>>

Conclude ==
    /\ verifier.pc = "reading" /\ verifier.readRows /\ verifier.readHead
    /\ verifier' = [verifier EXCEPT
                      !.pc = "done",
                      !.verdict = Verdict(verifier.rows, verifier.head)]
    /\ UNCHANGED <<rows, head, nextSeq, lock, op, worked, rollbacks>>

-----------------------------------------------------------------------------
WriteEntry(o) == LockChain(o) \/ ReadLast(o) \/ Insert(o) \/ Commit(o)

Next ==
    \/ \E o \in Operations : Begin(o) \/ WriteEntry(o) \/ RollBack(o)
    \/ StartVerify \/ ReadRows \/ ReadHead \/ Conclude

Spec == Init /\ [][Next]_vars

\* A transaction that can go on does, and PostgreSQL grants the lock in the
\* order of the requests.
Fairness ==
    \A o \in Operations :
        /\ SF_vars(LockChain(o))
        /\ WF_vars(ReadLast(o) \/ Insert(o) \/ Commit(o))

FairSpec == Spec /\ Fairness

-----------------------------------------------------------------------------
(* Properties *)

TypeOK ==
    /\ rows \in Seq(Row)
    /\ head \in ChainHead \cup {NoHead}
    /\ nextSeq \in Nat \ {0}
    /\ lock \in Operations \cup {NoOperation}
    /\ op \in [Operations -> Operation]
    /\ worked \subseteq Operations
    /\ rollbacks \in Nat
    /\ verifier \in Verifier

\* However the appends interleave and fail, what is committed verifies: no fork
\* of prevHash, no head that is behind its row.  The one break that occurs is a
\* gap, and only after a transaction was rolled back.
CommittedLogVerifies ==
    /\ Verdict(rows, head) \in {"valid", "gap"}
    /\ Verdict(rows, head) = "gap" => rollbacks > 0

\* An operation that passes its transaction has an entry exactly when its work
\* is committed; any other has no entry without the work.
EntriesMatchWork ==
    \A o \in Operations :
        LET recorded == \E i \in 1..Len(rows) : rows[i].content = o
        IN  /\ recorded => o \in worked
            /\ o \in FailClosed /\ o \in worked => recorded

\* What the log says and what was done, read as one trail: entries are appended
\* and never lost, doubled or reordered, whoever commits first; a fail-closed
\* operation takes effect in the step that records it.
Contents == [i \in 1..Len(rows) |-> rows[i].content]

Trail == INSTANCE AuditTrail WITH entries <- Contents

ImplementsTrail == Trail!Spec

\* audit-log.service.ts:332: "A break means a row was edited, deleted or
\* reordered after the fact."
BreaksAreReal ==
    verifier.pc = "done" => verifier.verdict = "valid"

\* The lock is always given back: an operation that starts comes to its end.
OperationsFinish ==
    \A o \in Operations : op[o].pc # "idle" ~> op[o].pc \in {"done", "failed"}

=============================================================================
