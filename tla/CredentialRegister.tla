------------------------- MODULE CredentialRegister -------------------------
(***************************************************************************)
(* What the institution's register promises, with no request, file, batch  *)
(* or queue in sight:                                                      *)
(*                                                                         *)
(*   - an id is issued once, to a student and a degree that has no other   *)
(*     live credential at that moment;                                     *)
(*   - a credential is deleted only after it was revoked;                  *)
(*   - nothing comes back: neither from revoked nor from deleted.          *)
(*                                                                         *)
(* Issuance implements this specification.                                 *)
(***************************************************************************)
CONSTANTS Credentials, Pairs, None

VARIABLES
    standing,  \* what the register says of each credential
    holder     \* the student and the degree it is for

vars == <<standing, holder>>

Init ==
    /\ standing = [c \in Credentials |-> "absent"]
    /\ holder = [c \in Credentials |-> None]

Issue(c, pair) ==
    /\ standing[c] = "absent"
    /\ \A d \in Credentials : standing[d] = "live" => holder[d] # pair
    /\ standing' = [standing EXCEPT ![c] = "live"]
    /\ holder' = [holder EXCEPT ![c] = pair]

Revoke(c) ==
    /\ standing[c] = "live"
    /\ standing' = [standing EXCEPT ![c] = "revoked"]
    /\ UNCHANGED holder

Delete(c) ==
    /\ standing[c] = "revoked"
    /\ standing' = [standing EXCEPT ![c] = "deleted"]
    /\ UNCHANGED holder

Next ==
    \E c \in Credentials :
        (\E pair \in Pairs : Issue(c, pair)) \/ Revoke(c) \/ Delete(c)

Spec == Init /\ [][Next]_vars

=============================================================================
