---------------------------- MODULE SigningKeys ----------------------------
(***************************************************************************)
(* SigningKeyService and the rotation of the secret its keys are stored    *)
(* under.  An issuance signs with the institution's newest active key and  *)
(* makes one if there is none, without a lock; an administrator's rotation *)
(* retires the active keys and makes another, in a transaction under the   *)
(* audit log's lock; and an operator who follows the runbook of DEPLOY.md  *)
(* seals every key again with a new secret while the API is running, and   *)
(* then restarts the API with it.                                          *)
(***************************************************************************)
EXTENDS Naturals, Sequences, FiniteSets

CONSTANTS
    Handlers,      \* requests of the API that may be served at a time
    MaxRotations,  \* how many times the active key is rotated
    MaxFaults,     \* how many requests and runs of the script end early, or
                   \* entries of the log are lost
    None

ASSUME SigningKeysAssumption ==
    /\ None \notin Handlers
    /\ MaxRotations \in Nat
    /\ MaxFaults \in Nat

VARIABLES
    keys,       \* the institution's issuer_signing_keys, in the order created
    rotated,    \* the SIGNING_KEY_ROTATED entries of the audit log
    lock,       \* who holds the audit log's lock
    secret,     \* the secret the API runs with
    requests,   \* the requests being served
    runbook,    \* where the operator is in the runbook
    plan,       \* the keys the script will seal again
    rotations,  \* how many of MaxRotations have begun
    faults,     \* how many of MaxFaults have happened
    slipped,    \* history: retired by a rotation that had not found them
    extra       \* history: made by an issuance while another key was active

operator == <<runbook, plan>>
bounds == <<rotations, faults>>
history == <<slipped, extra>>
vars == <<keys, rotated, lock, secret, requests, operator, bounds, history>>

Secrets == {"old", "new"}
Ids == 1..Len(keys)
Key == [active: BOOLEAN, secret: Secrets]
NewKey(sealed) == [active |-> TRUE, secret |-> sealed]

Active == {k \in Ids : keys[k].active}

\* findFirst, newest first.
Newest(k) == k \in Active /\ \A l \in Active : l <= k

Request ==
    [pc: {"idle", "create", "auditKey", "sign", "rotate", "commit"},
     sealed: Secrets \cup {None}, found: SUBSET Nat]
Idle == [pc |-> "idle", sealed |-> None, found |-> {}]

Init ==
    /\ keys = <<>>
    /\ rotated = {}
    /\ lock = None
    /\ secret = "old"
    /\ requests = [h \in Handlers |-> Idle]
    /\ runbook = "none"
    /\ plan = {}
    /\ rotations = 0
    /\ faults = 0
    /\ slipped = {}
    /\ extra = {}

At(h, pc) == requests[h].pc = pc
Becomes(h, request) == requests' = [requests EXCEPT ![h] = request]

Fault == faults < MaxFaults /\ faults' = faults + 1

-----------------------------------------------------------------------------
(* signCredential and getOrCreateActiveKey *)

\* The key is read as it is stored, and decrypted when it is to sign.
FindKey(h) ==
    /\ At(h, "idle")
    /\ \E k \in Ids :
          /\ Newest(k)
          /\ Becomes(h, [Idle EXCEPT !.pc = "sign",
                                     !.sealed = keys[k].secret])
    /\ UNCHANGED <<keys, rotated, lock, secret, operator, bounds, history>>

\* There is none: a keypair is made, sealed with the API's secret.
FindNoKey(h) ==
    /\ At(h, "idle")
    /\ Active = {}
    /\ Becomes(h, [Idle EXCEPT !.pc = "create", !.sealed = secret])
    /\ UNCHANGED <<keys, rotated, lock, secret, operator, bounds, history>>

\* Whatever others have made since is not looked at.
CreateKey(h) ==
    /\ At(h, "create")
    /\ keys' = Append(keys, NewKey(requests[h].sealed))
    /\ requests' = [requests EXCEPT ![h].pc = "auditKey"]
    /\ extra' = IF Active = {} THEN extra ELSE extra \cup {Len(keys) + 1}
    /\ UNCHANGED <<rotated, lock, secret, operator, bounds, slipped>>

\* The entry SIGNING_KEY_GENERATED waits for the log's lock, in a transaction
\* of its own; log() swallows its failure.
AuditKey(h) ==
    /\ At(h, "auditKey")
    /\ \/ lock = None /\ UNCHANGED faults
       \/ Fault
    /\ requests' = [requests EXCEPT ![h].pc = "sign"]
    /\ UNCHANGED <<keys, rotated, lock, secret, operator, rotations, history>>

Opens(h) == requests[h].sealed = secret

\* The credential is issued.  It may be the one that ends the runbook.
Sign(h) ==
    /\ At(h, "sign")
    /\ Opens(h)
    /\ Becomes(h, Idle)
    /\ runbook' = IF runbook = "verify" THEN "done" ELSE runbook
    /\ UNCHANGED <<keys, rotated, lock, secret, plan, bounds, history>>

\* Nothing is issued, and the operator runs the script again.
SignFails(h) ==
    /\ At(h, "sign")
    /\ ~Opens(h)
    /\ Becomes(h, Idle)
    /\ runbook' = IF runbook = "verify" THEN "plan" ELSE runbook
    /\ UNCHANGED <<keys, rotated, lock, secret, plan, bounds, history>>

-----------------------------------------------------------------------------
(* rotateActiveKey *)

\* The keypair is made before the transaction.
Rotate(h) ==
    /\ At(h, "idle")
    /\ rotations < MaxRotations
    /\ rotations' = rotations + 1
    /\ Becomes(h, [Idle EXCEPT !.pc = "rotate", !.sealed = secret])
    /\ UNCHANGED <<keys, rotated, lock, secret, operator, faults, history>>

\* Mutant: the transaction does not lock.
FindWithoutLock(h) ==
    /\ At(h, "rotate")
    /\ lock' = lock
    /\ Becomes(h, [requests[h] EXCEPT !.pc = "commit", !.found = Active])
    /\ UNCHANGED <<keys, rotated, secret, operator, bounds, history>>

\* The log's lock, and the keys that the entry will name.
LockAndFind(h) ==
    /\ At(h, "rotate")
    /\ lock = None
    /\ lock' = h
    /\ Becomes(h, [requests[h] EXCEPT !.pc = "commit", !.found = Active])
    /\ UNCHANGED <<keys, rotated, secret, operator, bounds, history>>

Retire(set) ==
    [k \in Ids |-> [keys[k] EXCEPT !.active = @ /\ k \notin set]]

\* Mutant: the keys to retire are those that were found.
CommitFound(h) ==
    /\ At(h, "commit")
    /\ keys' = Append(Retire(requests[h].found), NewKey(requests[h].sealed))
    /\ rotated' = rotated \cup {[created |-> Len(keys) + 1,
                                 retired |-> requests[h].found]}
    /\ lock' = None
    /\ Becomes(h, Idle)
    /\ UNCHANGED <<secret, operator, bounds, history>>

\* The keys that are active now are retired, found or not, another is made, and
\* the entry is written with them.
Commit(h) ==
    /\ At(h, "commit")
    /\ keys' = Append(Retire(Active), NewKey(requests[h].sealed))
    /\ rotated' = rotated \cup {[created |-> Len(keys) + 1,
                                 retired |-> requests[h].found]}
    /\ slipped' = slipped \cup (Active \ requests[h].found)
    /\ lock' = None
    /\ Becomes(h, Idle)
    /\ UNCHANGED <<secret, operator, bounds, extra>>

-----------------------------------------------------------------------------
(* Failures, and the runbook with the script rekey-signing-secret *)

\* A request ends where it is, its transaction rolled back.
Dies(h) ==
    /\ ~At(h, "idle")
    /\ Becomes(h, Idle)
    /\ lock' = IF lock = h THEN None ELSE lock
    /\ Fault
    /\ UNCHANGED <<keys, rotated, secret, operator, rotations, history>>

StartRunbook ==
    /\ runbook = "none"
    /\ runbook' = "plan"
    /\ UNCHANGED <<keys, rotated, lock, secret, requests, plan, bounds, history>>

\* Mutant: a key that opens with the new secret stops the script.
PlanStrict ==
    /\ runbook = "plan"
    /\ \A k \in Ids : keys[k].secret = "old"
    /\ plan' = Ids
    /\ runbook' = "apply"
    /\ UNCHANGED <<keys, rotated, lock, secret, requests, bounds, history>>

\* Every key is read; those that open with the new secret are skipped.
Plan ==
    /\ runbook = "plan"
    /\ plan' = {k \in Ids : keys[k].secret = "old"}
    /\ runbook' = "apply"
    /\ UNCHANGED <<keys, rotated, lock, secret, requests, bounds, history>>

\* One transaction writes what was planned, and nothing but the sealed key.
Apply ==
    /\ runbook = "apply"
    /\ keys' = [k \in Ids |-> [keys[k] EXCEPT
                   !.secret = IF k \in plan THEN "new" ELSE @]]
    /\ plan' = {}
    /\ runbook' = IF secret = "old" THEN "restart" ELSE "verify"
    /\ UNCHANGED <<rotated, lock, secret, requests, bounds, history>>

\* The script dies and is started again.
ScriptDies ==
    /\ runbook = "apply"
    /\ plan' = {}
    /\ runbook' = "plan"
    /\ Fault
    /\ UNCHANGED <<keys, rotated, lock, secret, requests, rotations, history>>

\* Mutant: requests of the old process are served to their end.
RestartRolling ==
    /\ runbook = "restart"
    /\ secret' = "new"
    /\ runbook' = "verify"
    /\ UNCHANGED <<keys, rotated, lock, requests, plan, bounds, history>>

\* The API's container is replaced, and its requests end.
Restart ==
    /\ runbook = "restart"
    /\ secret' = "new"
    /\ requests' = [h \in Handlers |-> Idle]
    /\ lock' = None
    /\ runbook' = "verify"
    /\ UNCHANGED <<keys, rotated, plan, bounds, history>>

-----------------------------------------------------------------------------
Serve(h) ==
    \/ FindKey(h) \/ FindNoKey(h) \/ CreateKey(h) \/ AuditKey(h)
    \/ Sign(h) \/ SignFails(h)
    \/ Rotate(h) \/ LockAndFind(h) \/ Commit(h)

Next ==
    \/ \E h \in Handlers : Serve(h) \/ Dies(h)
    \/ StartRunbook \/ Plan \/ Apply \/ ScriptDies \/ Restart

\* A request that was begun goes on, and the operator, once started, carries
\* the runbook through: to check the result is to issue a credential.
Continue(h) == ~At(h, "idle") /\ Serve(h)
Check(h) == runbook = "verify" /\ (FindKey(h) \/ FindNoKey(h))

Spec == Init /\ [][Next]_vars

FairSpec ==
    /\ Spec
    /\ \A h \in Handlers : WF_vars(Continue(h)) /\ WF_vars(Check(h))
    /\ WF_vars(Plan) /\ WF_vars(Apply) /\ WF_vars(Restart)

-----------------------------------------------------------------------------
(* Properties *)

TypeOK ==
    /\ keys \in Seq(Key)
    /\ rotated \subseteq [created: Nat, retired: SUBSET Nat]
    /\ lock \in Handlers \cup {None}
    /\ secret \in Secrets
    /\ requests \in [Handlers -> Request]
    /\ runbook \in {"none", "plan", "apply", "restart", "verify", "done"}
    /\ plan \subseteq Ids
    /\ rotations \in 0..MaxRotations
    /\ faults \in 0..MaxFaults
    /\ slipped \subseteq Ids
    /\ extra \subseteq Ids

Retired == Ids \ Active

\* The audit log accounts for every key that no longer signs: the entries of
\* the rotations name each retired key once and no other, whatever rotations,
\* first issuances and the script do to the table at the same time.  The one
\* key an entry may miss is one that an issuance made after the rotation had
\* looked and before it wrote.
RetirementsAreLogged ==
    /\ Retired = slipped \cup UNION {e.retired : e \in rotated}
    /\ \A e \in rotated : e.retired \cap slipped = {}
    /\ \A e, f \in rotated : e # f => e.retired \cap f.retired = {}

\* There is one key to sign with, however many rotations overlap, but for those
\* that overlapping first issuances made each for itself; a rotation retires
\* these too.
OneSigner == \A k, l \in Active \ extra : k = l

\* Once a credential was issued after the restart, the runbook's last step, the
\* key that signs the next one opens with the secret the API has, although keys
\* may have been made while the script ran that it did not seal again.
VerifiedMeansUsable ==
    runbook = "done" => \A k \in Ids : Newest(k) => keys[k].secret = secret

\* The runbook comes to its end: with the script run again while the check
\* fails, the institution issues credentials under the new secret.
SigningResumes == runbook = "plan" ~> runbook = "done"

=============================================================================
