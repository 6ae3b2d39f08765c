--------------------------- MODULE ChainLifecycle ---------------------------
(***************************************************************************)
(* What the anchoring pipeline promises about one register of credentials  *)
(* and one public chain, with no queue, worker or request in sight:        *)
(*                                                                         *)
(*   - the chain only ever holds credentials the institution issued;       *)
(*   - the chain only ever revokes a credential the institution has        *)
(*     already revoked, and only one it holds;                             *)
(*   - neither an issuance, a revocation nor a chain entry is undone.      *)
(*                                                                         *)
(* AnchorPipeline implements this specification.                           *)
(***************************************************************************)
CONSTANT Credentials

VARIABLES
    issued,   \* the credentials the institution issued
    revoked,  \* those it revoked
    chain     \* credential -> what the chain says of it

vars == <<issued, revoked, chain>>

Init ==
    /\ issued = {}
    /\ revoked = {}
    /\ chain = [c \in Credentials |-> "absent"]

Issue(c) ==
    /\ issued' = issued \cup {c}
    /\ UNCHANGED <<revoked, chain>>

Revoke(c) ==
    /\ c \in issued
    /\ revoked' = revoked \cup {c}
    /\ UNCHANGED <<issued, chain>>

Anchor(c) ==
    /\ c \in issued
    /\ chain[c] = "absent"
    /\ chain' = [chain EXCEPT ![c] = "active"]
    /\ UNCHANGED <<issued, revoked>>

RevokeOnChain(c) ==
    /\ c \in revoked
    /\ chain[c] = "active"
    /\ chain' = [chain EXCEPT ![c] = "revoked"]
    /\ UNCHANGED <<issued, revoked>>

Next ==
    \E c \in Credentials :
        Issue(c) \/ Revoke(c) \/ Anchor(c) \/ RevokeOnChain(c)

Spec == Init /\ [][Next]_vars

=============================================================================
