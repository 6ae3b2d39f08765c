-------------------------- MODULE Issuance_proofs --------------------------
(***************************************************************************)
(* Proofs about Issuance, for any number of credentials, requests and      *)
(* failures.  WellFormed says what a request holds at each step; every     *)
(* other invariant is a condition on the stores at the steps of a request  *)
(* together with the property it leads to.                                 *)
(***************************************************************************)
EXTENDS Issuance, FiniteSetTheorems, TLAPS

-----------------------------------------------------------------------------
(* Types, and what a request holds *)

Issues == {"create", "bulkIssue"}
Revokes == {"revoke", "bulkRevoke"}

\* The kind of a request at each step, and whether it has a credential.
Role(r) ==
    /\ r.pc = "idle" => r.kind = "none" /\ r.credential = None
    /\ r.pc \in {"batch", "rows"} => r.kind = "bulkIssue" /\ r.credential = None
    /\ r.pc = "assets" => r.kind \in Issues /\ r.credential = None
    /\ r.pc \in {"insert", "enqueue", "mark", "cleanup", "readBack"} =>
          r.kind \in Issues /\ r.credential \in Credentials
    /\ r.pc = "auditIssue" => r.kind = "create" /\ r.credential \in Credentials
    /\ r.pc = "revoke" => r.kind \in Revokes /\ r.credential = None
    /\ r.pc \in {"auditRevoke", "metadata"} =>
          r.kind = "revoke" /\ r.credential \in Credentials
    /\ r.pc \in {"enqueueRevoke", "markRevoke"} =>
          r.kind \in Revokes /\ r.credential \in Credentials
    /\ r.pc = "remove" => r.kind = "remove" /\ r.credential = None
    /\ r.pc = "auditRemove" => r.kind = "remove" /\ r.credential \in Credentials
    /\ r.pc \in {"regenerate", "refresh"} =>
          r.kind = "regenerate" /\ r.credential \in Credentials

WellFormed == \A h \in Handlers : Role(requests[h])

TypeInv == TypeOK /\ WellFormed

\* A request's next state, if it is well formed, keeps all of them well formed.
LEMMA Moves ==
    ASSUME TypeInv, NEW h \in Handlers, NEW r \in Request, Role(r),
           requests' = [requests EXCEPT ![h] = r]
    PROVE  requests' \in [Handlers -> Request] /\ WellFormed'
  BY DEF TypeInv, TypeOK, WellFormed

LEMMA NoRowIsRow == NoRow \in Row /\ NoFiles \in Files /\ NoBatch \in Batch
  BY DEF NoRow, Row, NoFiles, Files, NoBatch, Batch

LEMMA IdleIsRequest == Idle \in Request /\ Role(Idle)
  BY NoRowIsRow DEF Idle, Request, Role

LEMMA EndsWell ==
    ASSUME TypeInv, NEW h \in Handlers, Ends(h)
    PROVE  requests' \in [Handlers -> Request] /\ WellFormed'
  BY Moves, IdleIsRequest DEF Ends

\* A step within the request.
LEMMA GoesWell ==
    ASSUME TypeInv, NEW h \in Handlers, NEW pc, Goto(h, pc),
           [requests[h] EXCEPT !.pc = pc] \in Request,
           Role([requests[h] EXCEPT !.pc = pc])
    PROVE  requests' \in [Handlers -> Request] /\ WellFormed'
<1>1. requests' = [requests EXCEPT ![h] = [requests[h] EXCEPT !.pc = pc]]
  BY DEF Goto
<1> QED
  BY <1>1, Moves

\* The end of a row.
LEMMA RowEndsWell ==
    ASSUME TypeInv, NEW h \in Handlers, NEW result, RowEnds(h, result),
           requests[h].kind \in Issues,
           result = "ISSUED" => requests[h].credential \in Credentials
    PROVE  requests' \in [Handlers -> Request] /\ WellFormed'
<1> DEFINE q == requests[h]
           more == [Idle EXCEPT
                      !.pc = "rows", !.kind = "bulkIssue", !.csv = q.csv,
                      !.issuedRows = q.issuedRows
                                        + IF result = "ISSUED" THEN 1 ELSE 0,
                      !.failedRows = q.failedRows
                                        + IF result = "FAILED" THEN 1 ELSE 0]
           last == [q EXCEPT !.pc = "auditIssue"]
<1>1. q \in Request
  BY DEF TypeInv, TypeOK
<1>2. CASE q.kind = "bulkIssue"
  <2>1. requests' = [requests EXCEPT ![h] = more]
    BY <1>2 DEF RowEnds
  <2>2. more \in Request /\ Role(more)
    <3>1. /\ more.pc = "rows" /\ more.kind = "bulkIssue"
          /\ more.credential = None
      BY DEF Idle
    <3>2. /\ q.issuedRows + (IF result = "ISSUED" THEN 1 ELSE 0) \in Nat
          /\ q.failedRows + (IF result = "FAILED" THEN 1 ELSE 0) \in Nat
          /\ q.csv \in SUBSET Pairs
      BY <1>1 DEF Request
    <3> QED
      BY <3>1, <3>2, NoRowIsRow DEF Idle, Request, Role, Issues
  <2> QED
    BY <2>1, <2>2, Moves
<1>3. CASE q.kind # "bulkIssue" /\ result = "ISSUED"
  <2>1. requests' = [requests EXCEPT ![h] = last]
    BY <1>3 DEF RowEnds
  <2>2. last \in Request /\ Role(last)
    BY <1>1, <1>3 DEF Request, Role, Issues
  <2> QED
    BY <2>1, <2>2, Moves
<1>4. CASE q.kind # "bulkIssue" /\ result # "ISSUED"
  <2>1. requests' = [requests EXCEPT ![h] = Idle]
    BY <1>4 DEF RowEnds
  <2> QED
    BY <2>1, IdleIsRequest, Moves
<1> QED
  BY <1>2, <1>3, <1>4

\* On to the next credential of a bulk.
LEMMA NextWell ==
    ASSUME TypeInv, NEW h \in Handlers, NEW c \in Credentials, Next1(h, c),
           requests[h].kind \in Revokes \cup {"remove"}
    PROVE  requests' \in [Handlers -> Request] /\ WellFormed'
<1> DEFINE q == requests[h]
           r == [Idle EXCEPT
                   !.pc = IF q.kind = "remove" THEN "remove" ELSE "revoke",
                   !.kind = q.kind, !.ids = q.ids \ {c}]
<1>1. q \in Request
  BY DEF TypeInv, TypeOK
<1>2. r \in Request /\ Role(r)
  <2>1. /\ r.pc = IF q.kind = "remove" THEN "remove" ELSE "revoke"
        /\ r.kind = q.kind /\ r.credential = None
    BY DEF Idle
  <2>2. q.kind \in Revokes \cup {"remove"} /\ q.ids \ {c} \subseteq Credentials
    BY <1>1 DEF Request
  <2>3. r \in Request
    BY <2>2, NoRowIsRow DEF Idle, Request, Revokes
  <2> QED
    BY <2>1, <2>2, <2>3 DEF Role, Revokes
<1>3. requests' = [requests EXCEPT ![h] = IF q.ids = {c} THEN Idle ELSE r]
  BY DEF Next1
<1>4. CASE q.ids = {c}
  BY <1>3, <1>4, IdleIsRequest, Moves
<1>5. CASE q.ids # {c}
  BY <1>2, <1>3, <1>5, Moves
<1> QED
  BY <1>4, <1>5

\* What log() writes, or fails to, has its types.
LEMMA Logging ==
    ASSUME TypeOK, NEW c \in Credentials, NEW d \in Credentials \cup {None},
           NEW action \in {"ISSUED", "REVOKED", "BULK_REVOKED", "DELETED"},
           Logs(Logged(action, c), d)
    PROVE  /\ audit' \subseteq
                 [action: {"ISSUED", "REVOKED", "BULK_REVOKED", "DELETED"},
                  credential: Credentials]
           /\ UNCHANGED <<served, overlapped>>
           /\ faults' \in 0..MaxFaults
           /\ unfinished' \subseteq Credentials
  BY IssuanceAssumption DEF TypeOK, Logs, Logged, Smooth, Fault, history

\* The steps of an issuance keep types and roles.
LEMMA IssueTypes ==
    ASSUME TypeInv, NEW h \in Handlers, Issue(h)
    PROVE  TypeInv'
<1> USE DEF TypeInv, TypeOK
<1>0. requests[h] \in Request /\ Role(requests[h])
  BY DEF WellFormed
<1>1. ASSUME NEW pair \in Pairs, Create(h, pair)
      PROVE  TypeInv'
  <2> DEFINE r == [Idle EXCEPT !.pc = "assets", !.kind = "create",
                              !.pair = pair]
  <2>1. r \in Request /\ Role(r)
    BY IdleIsRequest DEF Idle, Request, Role, Issues
  <2>2. requests' = [requests EXCEPT ![h] = r]
    BY <1>1 DEF Create
  <2>3. requests' \in [Handlers -> Request] /\ WellFormed'
    BY <2>1, <2>2, Moves
  <2>4. served' \in 0..MaxRequests
    BY <1>1, IssuanceAssumption DEF Create, Begins
  <2> QED
    BY <1>1, <2>3, <2>4 DEF Create, Begins, stores
<1>2. ASSUME NEW pair \in Pairs, NextRow(h, pair)
      PROVE  TypeInv'
  <2> DEFINE r == [requests[h] EXCEPT !.pc = "assets", !.pair = pair,
                                      !.csv = requests[h].csv \ {pair}]
  <2>1. r \in Request /\ Role(r)
    BY <1>0, <1>2 DEF NextRow, At, Request, Role, Issues
  <2>2. requests' = [requests EXCEPT ![h] = r]
    BY <1>2 DEF NextRow
  <2> QED
    BY <1>2, <2>1, <2>2, Moves DEF NextRow, Smooth, history, stores
<1>3. ASSUME NEW csv \in SUBSET Pairs, BulkIssue(h, csv)
      PROVE  TypeInv'
  <2> DEFINE r == [Idle EXCEPT !.pc = "batch", !.kind = "bulkIssue",
                              !.csv = Unknown(csv)]
  <2>1. r \in Request /\ Role(r)
    BY IdleIsRequest DEF Idle, Request, Role, Unknown
  <2>2. requests' = [requests EXCEPT ![h] = r]
    BY <1>3 DEF BulkIssue
  <2>3. requests' \in [Handlers -> Request] /\ WellFormed'
    BY <2>1, <2>2, Moves
  <2>4. served' \in 0..MaxRequests
    BY <1>3, IssuanceAssumption DEF BulkIssue, Begins
  <2> QED
    BY <1>3, <2>3, <2>4 DEF BulkIssue, Begins, stores
<1>4. CASE CreateBatch(h)
  <2>1. requests' \in [Handlers -> Request] /\ WellFormed'
    BY <1>0, <1>4, GoesWell DEF CreateBatch, At, Request, Role
  <2> QED
    BY <1>4, <2>1 DEF CreateBatch, Batch, Smooth, history
<1>5. CASE FinishBatch(h)
  <2>1. requests' \in [Handlers -> Request] /\ WellFormed'
    BY <1>5, EndsWell DEF FinishBatch
  <2> QED
    BY ZenonT(60), <1>0, <1>5, <2>1 DEF FinishBatch, Batch, Request, Smooth, history
<1>6. ASSUME NEW c \in Credentials, PersistAssets(h, c)
      PROVE  TypeInv'
  <2> DEFINE r == [requests[h] EXCEPT !.pc = "insert", !.credential = c]
  <2>1. r \in Request /\ Role(r)
    BY <1>0, <1>6 DEF PersistAssets, At, Request, Role
  <2>2. requests' = [requests EXCEPT ![h] = r]
    BY <1>6 DEF PersistAssets
  <2> QED
    BY <1>6, <2>1, <2>2, Moves DEF PersistAssets, Files, Smooth, history
<1>7. ASSUME NEW c \in Credentials, NEW f \in Files, PersistAssetsFails(h, c, f)
      PROVE  TypeInv'
  <2>1. requests' \in [Handlers -> Request] /\ WellFormed'
    BY <1>0, <1>7, RowEndsWell DEF PersistAssetsFails, At, Role
  <2> QED
    BY <1>7, <2>1, IssuanceAssumption DEF PersistAssetsFails, Fault
<1>8. ASSUME Inserted(h)
      PROVE  row' \in [Credentials -> Row]
  BY <1>0, <1>8, NoRowIsRow DEF Inserted, Row, NoRow, Request
<1>9. CASE Insert(h)
  <2> DEFINE r == [requests[h] EXCEPT !.pc = "cleanup", !.conflict = TRUE]
  <2>1. r \in Request /\ Role(r)
    BY <1>0, <1>9 DEF Insert, At, Request, Role
  <2>2. CASE Taken(requests[h].pair)
    <3>1. requests' = [requests EXCEPT ![h] = r]
      BY <1>9, <2>2 DEF Insert
    <3> QED
      BY <1>9, <2>1, <2>2, <3>1, Moves DEF Insert, Smooth, history
  <2>3. CASE ~Taken(requests[h].pair)
    <3>1. requests' \in [Handlers -> Request] /\ WellFormed'
      BY ZenonT(60), <1>0, <1>9, <2>3, GoesWell DEF Insert, At, Request, Role
    <3> QED
      BY <1>8, <1>9, <2>3, <3>1 DEF Insert, Smooth, history
  <2> QED
    BY <2>2, <2>3
<1>10. CASE InsertFails(h)
  <2>1. requests' \in [Handlers -> Request] /\ WellFormed'
    BY ZenonT(60), <1>0, <1>10, GoesWell DEF InsertFails, At, Request, Role
  <2>2. row' \in [Credentials -> Row]
    BY <1>8, <1>10 DEF InsertFails
  <2> QED
    BY <1>0, <1>10, <2>1, <2>2, IssuanceAssumption
    DEF InsertFails, Fault, Request
<1>11. CASE EnqueueAnchor(h)
  <2>1. requests' \in [Handlers -> Request] /\ WellFormed'
    BY ZenonT(60), <1>0, <1>11, GoesWell DEF EnqueueAnchor, At, Request, Role
  <2> QED
    BY <1>11, <2>1 DEF EnqueueAnchor, Smooth, history
<1>12. CASE EnqueueAnchorFails(h)
  <2>1. requests' \in [Handlers -> Request] /\ WellFormed'
    BY ZenonT(60), <1>0, <1>12, GoesWell DEF EnqueueAnchorFails, At, Request, Role
  <2> QED
    BY <1>12, <2>1, IssuanceAssumption DEF EnqueueAnchorFails, Fault, stores
<1>13. CASE MarkQueueFailure(h)
  <2>1. requests' \in [Handlers -> Request] /\ WellFormed'
    BY ZenonT(60), <1>0, <1>13, GoesWell DEF MarkQueueFailure, At, Request, Role
  <2> QED
    BY <1>13, <2>1 DEF MarkQueueFailure, Smooth, history
<1>14. CASE MarkQueueFailureFails(h)
  <2>1. requests' \in [Handlers -> Request] /\ WellFormed'
    BY ZenonT(60), <1>0, <1>14, GoesWell DEF MarkQueueFailureFails, At, Request, Role
  <2>2. requests[h].credential \in Credentials
    BY <1>0, <1>14 DEF MarkQueueFailureFails, At, WellFormed, Role
  <2> QED
    BY <1>14, <2>1, <2>2 DEF MarkQueueFailureFails, FollowingFault, stores
<1>15. CASE Cleanup(h)
  <2>1. requests' \in [Handlers -> Request] /\ WellFormed'
    BY <1>0, <1>15, RowEndsWell DEF Cleanup, At, Role
  <2> QED
    BY <1>15, <2>1, NoRowIsRow DEF Cleanup, Smooth, history
<1>16. CASE CleanupFails(h)
  <2>1. requests' \in [Handlers -> Request] /\ WellFormed'
    BY <1>0, <1>16, RowEndsWell DEF CleanupFails, At, Role
  <2> QED
    BY <1>0, <1>16, <2>1, IssuanceAssumption
    DEF CleanupFails, Fault, stores, Request
<1>17. CASE ReadBack(h)
  <2>1. requests' \in [Handlers -> Request] /\ WellFormed'
    BY <1>0, <1>17, RowEndsWell DEF ReadBack, At, Role
  <2> QED
    BY <1>17, <2>1 DEF ReadBack, Smooth, history, stores
<1>18. CASE ReadBackFails(h)
  <2>1. requests' \in [Handlers -> Request] /\ WellFormed'
    BY <1>0, <1>18, RowEndsWell DEF ReadBackFails, At, Role
  <2> QED
    BY <1>0, <1>18, <2>1, IssuanceAssumption
    DEF ReadBackFails, Fault, stores, Request
<1>19. CASE AuditIssue(h)
  <2>1. requests' \in [Handlers -> Request] /\ WellFormed'
    BY <1>19, EndsWell DEF AuditIssue
  <2> QED
    BY <1>0, <1>19, <2>1, IssuanceAssumption, Logging
    DEF AuditIssue, At, Role
<1> QED
  BY <1>1, <1>2, <1>3, <1>4, <1>5, <1>6, <1>7, <1>9, <1>10, <1>11, <1>12,
     <1>13, <1>14, <1>15, <1>16, <1>17, <1>18, <1>19 DEF Issue

\* A row that is replaced by another leaves the table well typed.
LEMMA RowReplaced ==
    ASSUME TypeInv, NEW c, NEW r, c \in Credentials => r \in Row,
           row' = [row EXCEPT ![c] = r]
    PROVE  row' \in [Credentials -> Row]
  BY DEF TypeInv, TypeOK

\* The beginning of a revocation or a deletion.
LEMMA BeginsWell ==
    ASSUME TypeInv, NEW h \in Handlers, NEW kind, NEW pc, NEW ids,
           Begin(h, kind, pc, ids), ids \subseteq Credentials,
           \/ kind \in Revokes /\ pc = "revoke"
           \/ kind = "remove" /\ pc = "remove"
    PROVE  TypeInv'
<1> DEFINE r == [Idle EXCEPT !.pc = pc, !.kind = kind, !.ids = ids]
<1>1. r \in Request
  BY NoRowIsRow DEF Idle, Request, Revokes
<1>2. r.pc = pc /\ r.kind = kind /\ r.credential = None
  BY DEF Idle
<1>3. Role(r)
  BY <1>2 DEF Role, Revokes
<1>4. requests' = [requests EXCEPT ![h] = r]
  BY DEF Begin
<1>5. requests' \in [Handlers -> Request] /\ WellFormed'
  BY <1>1, <1>3, <1>4, Moves
<1>6. served' \in 0..MaxRequests
  BY IssuanceAssumption DEF Begin, Begins, TypeInv, TypeOK
<1> QED
  BY <1>5, <1>6 DEF Begin, Begins, stores, TypeInv, TypeOK

\* A step on a credential of a bulk.
LEMMA ProceedsWell ==
    ASSUME TypeInv, NEW h \in Handlers, NEW c \in Credentials, NEW pc,
           Proceed(h, c, pc),
           \/ pc = "auditRevoke" /\ requests[h].kind = "revoke"
           \/ pc = "enqueueRevoke" /\ requests[h].kind \in Revokes
           \/ pc = "auditRemove" /\ requests[h].kind = "remove"
    PROVE  requests' \in [Handlers -> Request] /\ WellFormed'
<1> DEFINE r == [requests[h] EXCEPT !.pc = pc, !.credential = c]
<1>0. requests[h] \in Request
  BY DEF TypeInv, TypeOK
<1>1. r \in Request
  BY <1>0 DEF Request
<1>2. r.pc = pc /\ r.kind = requests[h].kind /\ r.credential = c
  BY DEF TypeInv, TypeOK, Request
<1>3. Role(r)
  BY <1>2 DEF Role, Revokes
<1>4. requests' = [requests EXCEPT ![h] = r]
  BY DEF Proceed
<1> QED
  BY <1>1, <1>3, <1>4, Moves

\* The steps of a revocation or a deletion keep types and roles.
LEMMA WithdrawTypes ==
    ASSUME TypeInv, NEW h \in Handlers, Withdraw(h)
    PROVE  TypeInv'
<1> USE DEF TypeInv, TypeOK
<1>0. requests[h] \in Request /\ Role(requests[h])
  BY DEF WellFormed
<1>1. ASSUME NEW c \in Credentials, Revoke(h, c)
      PROVE  TypeInv'
  BY <1>1, BeginsWell DEF Revoke, Revokes
<1>2. ASSUME NEW ids \in SUBSET Credentials, BulkRevoke(h, ids)
      PROVE  TypeInv'
  BY <1>2, BeginsWell DEF BulkRevoke, Revokes
<1>3. ASSUME NEW ids \in SUBSET Credentials, Remove(h, ids)
      PROVE  TypeInv'
  BY <1>3, BeginsWell DEF Remove
<1>4. ASSUME NEW c \in Credentials, RevokeRow(h, c)
      PROVE  TypeInv'
  <2> DEFINE r == [row[c] EXCEPT !.revoked = TRUE]
  <2>0. row[c] \in Row
    OBVIOUS
  <2>a. r \in Row
    BY <2>0 DEF Row
  <2>b. row' = [row EXCEPT ![c] = r]
    BY <1>4 DEF RevokeRow
  <2>1. row' \in [Credentials -> Row]
    BY <2>a, <2>b, RowReplaced
  <2>2. overlapped' \subseteq Credentials /\ UNCHANGED <<served, faults, unfinished>>
    BY <1>4 DEF RevokeRow, Overtakes
  <2>3. requests[h].kind \in Revokes
    BY <1>0, <1>4 DEF RevokeRow, At, Role
  <2>4. CASE requests[h].kind = "revoke"
    BY <1>4, <2>1, <2>2, <2>4, ProceedsWell DEF RevokeRow
  <2>5. CASE requests[h].kind # "revoke"
    BY <1>4, <2>1, <2>2, <2>3, <2>5, ProceedsWell DEF RevokeRow, Logged
  <2> QED
    BY <2>4, <2>5
<1>5. ASSUME NEW c \in Credentials, RemoveRow(h, c)
      PROVE  TypeInv'
  <2>1. row' \in [Credentials -> Row]
    BY <1>5 DEF RemoveRow, Row
  <2>2. requests[h].kind = "remove"
    BY <1>0, <1>5 DEF RemoveRow, At, Role
  <2> QED
    BY <1>5, <2>1, <2>2, ProceedsWell DEF RemoveRow, Smooth, history
<1>6. ASSUME NEW c \in Credentials, BulkStepFails(h, c)
      PROVE  TypeInv'
  <2>1. requests[h].kind \in Revokes \cup {"remove"}
    BY <1>0, <1>6 DEF BulkStepFails, Role
  <2>2. requests' \in [Handlers -> Request] /\ WellFormed'
    BY <1>6, <2>1, NextWell DEF BulkStepFails
  <2>3. requests[h].credential \in Credentials \cup {None}
    BY <1>6 DEF BulkStepFails
  <2> QED
    BY <1>6, <2>2, <2>3, IssuanceAssumption DEF BulkStepFails, Fault, stores
<1>7. CASE AuditRevoke(h)
  <2>1. requests' \in [Handlers -> Request] /\ WellFormed'
    BY <1>0, <1>7, GoesWell DEF AuditRevoke, At, Request, Role
  <2> QED
    BY <1>0, <1>7, <2>1, IssuanceAssumption, Logging
    DEF AuditRevoke, At, Role
<1>8. CASE RefreshMetadata(h)
  <2>1. requests' \in [Handlers -> Request] /\ WellFormed'
    BY <1>0, <1>8, GoesWell DEF RefreshMetadata, At, Request, Role, Revokes
  <2> QED
    BY <1>8, <2>1 DEF RefreshMetadata, Files, Smooth, history
<1>9. CASE EnqueueRevoke(h)
  <2>1. requests' \in [Handlers -> Request] /\ WellFormed'
    BY <1>0, <1>9, NextWell DEF EnqueueRevoke, At, Role
  <2> QED
    BY <1>9, <2>1 DEF EnqueueRevoke, Smooth, history
<1>10. CASE EnqueueRevokeFails(h)
  <2>1. requests' \in [Handlers -> Request] /\ WellFormed'
    BY ZenonT(60), <1>0, <1>10, GoesWell DEF EnqueueRevokeFails, At, Request, Role
  <2> QED
    BY <1>10, <2>1, IssuanceAssumption DEF EnqueueRevokeFails, Fault, stores
<1>11. CASE MarkRevokeFailure(h)
  <2>1. requests' \in [Handlers -> Request] /\ WellFormed'
    BY <1>0, <1>11, NextWell DEF MarkRevokeFailure, At, Role
  <2> QED
    BY <1>11, <2>1 DEF MarkRevokeFailure, Smooth, history
<1>12. CASE AuditRemove(h)
  <2>1. requests' \in [Handlers -> Request] /\ WellFormed'
    BY <1>0, <1>12, NextWell DEF AuditRemove, At, Role
  <2> QED
    BY <1>0, <1>12, <2>1, IssuanceAssumption, Logging
    DEF AuditRemove, At, Role
<1> QED
  BY <1>1, <1>2, <1>3, <1>4, <1>5, <1>6, <1>7, <1>8, <1>9, <1>10, <1>11,
     <1>12 DEF Withdraw

\* Every step keeps types and roles.
LEMMA TypesStep == TypeInv /\ [Next]_vars => TypeInv'
<1> SUFFICES ASSUME TypeInv, [Next]_vars
             PROVE  TypeInv'
  OBVIOUS
<1> USE DEF TypeInv, TypeOK
<1>1. ASSUME NEW h \in Handlers, Issue(h)
      PROVE  TypeInv'
  BY <1>1, IssueTypes
<1>2. ASSUME NEW h \in Handlers, Withdraw(h)
      PROVE  TypeInv'
  BY <1>2, WithdrawTypes
<1>3. ASSUME NEW h \in Handlers, NEW c \in Credentials, Regenerate(h, c)
      PROVE  TypeInv'
  <2> DEFINE r == [Idle EXCEPT !.pc = "regenerate", !.kind = "regenerate",
                              !.credential = c, !.read = row[c]]
  <2>1. r \in Request
    BY NoRowIsRow DEF Idle, Request
  <2>2. r.pc = "regenerate" /\ r.kind = "regenerate" /\ r.credential = c
    BY DEF Idle
  <2>3. Role(r)
    BY <2>2 DEF Role
  <2>4. requests' = [requests EXCEPT ![h] = r]
    BY <1>3 DEF Regenerate
  <2>5. requests' \in [Handlers -> Request] /\ WellFormed'
    BY <2>1, <2>3, <2>4, Moves
  <2>6. served' \in 0..MaxRequests
    BY <1>3, IssuanceAssumption DEF Regenerate, Begins
  <2> QED
    BY <1>3, <2>5, <2>6 DEF Regenerate, Begins, stores
<1>4. ASSUME NEW h \in Handlers, RefreshFiles(h)
      PROVE  TypeInv'
  <2>0. requests[h] \in Request /\ Role(requests[h])
    BY DEF WellFormed
  <2>1. requests' \in [Handlers -> Request] /\ WellFormed'
    BY <1>4, <2>0, GoesWell DEF RefreshFiles, At, Request, Role
  <2> QED
    BY <1>4, <2>1 DEF RefreshFiles, Files, Smooth, history
<1>5. ASSUME NEW h \in Handlers, RefreshRow(h)
      PROVE  TypeInv'
  <2>1. requests' \in [Handlers -> Request] /\ WellFormed'
    BY <1>5, EndsWell DEF RefreshRow
  <2>2. requests[h].read \in Row
    BY DEF Request
  <2> DEFINE c == requests[h].credential
             hash == row'[c].chainProofHash
             r == [row[c] EXCEPT !.chainProofHash = hash]
  <2>a. c \in Credentials => row[c] \in Row
    OBVIOUS
  <2>b. c \in Credentials => r \in Row
    BY <1>5, <2>2, <2>a DEF RefreshRow, Row
  <2>c. row' = [row EXCEPT ![c] = r]
    BY <1>5 DEF RefreshRow
  <2>3. row' \in [Credentials -> Row]
    BY <2>b, <2>c, RowReplaced
  <2> QED
    BY <1>5, <2>1, <2>3 DEF RefreshRow, Smooth, history
<1>6. ASSUME NEW h \in Handlers, Dies(h)
      PROVE  TypeInv'
  <2>1. requests' \in [Handlers -> Request] /\ WellFormed'
    BY <1>6, EndsWell DEF Dies
  <2>2. requests[h].credential \in Credentials \cup {None}
    BY DEF Request
  <2> QED
    BY <1>6, <2>1, <2>2, IssuanceAssumption DEF Dies, Fault, stores
<1>7. ASSUME NEW c \in Credentials, RegisterSecurePdf(c)
      PROVE  TypeInv'
  <2> DEFINE r == [row[c] EXCEPT !.securePdfEnabled = TRUE,
                                 !.chainProofHash = "pdf"]
  <2>a. row[c] \in Row
    OBVIOUS
  <2>b. r \in Row
    BY <2>a DEF Row
  <2>c. row' = [row EXCEPT ![c] = r]
    BY <1>7 DEF RegisterSecurePdf
  <2>1. row' \in [Credentials -> Row]
    BY <2>b, <2>c, RowReplaced
  <2> QED
    BY <1>7, <2>1 DEF RegisterSecurePdf, Overtakes, WellFormed
<1>8. CASE UNCHANGED vars
  BY <1>8 DEF vars, stores, history, WellFormed
<1> QED
  BY <1>1, <1>2, <1>3, <1>4, <1>5, <1>6, <1>7, <1>8 DEF Next

LEMMA TypesAlways == Spec => []TypeInv
<1>1. Init => TypeInv
  BY NoRowIsRow, IdleIsRequest, IssuanceAssumption
  DEF Init, TypeInv, TypeOK, WellFormed
<1> QED
  BY <1>1, TypesStep, PTL DEF Spec

\* The state stays well formed.
THEOREM TypesHold == Spec => []TypeOK
  BY TypesAlways, PTL DEF TypeInv

-----------------------------------------------------------------------------
(* One live credential for a pair *)

\* The steps that change the table.
LEMMA RowSteps ==
    ASSUME [Next]_vars
    PROVE  \/ UNCHANGED row
           \/ \E h \in Handlers : /\ Insert(h) \/ InsertFails(h)
                                  /\ Inserted(h)
                                  /\ ~Taken(requests[h].pair)
           \/ \E h \in Handlers, c \in Credentials : RevokeRow(h, c)
           \/ \E h \in Handlers, c \in Credentials : RemoveRow(h, c)
           \/ \E c \in Credentials : RegisterSecurePdf(c)
           \/ \E h \in Handlers : RefreshRow(h)
<1>1. ASSUME NEW h \in Handlers, Issue(h)
      PROVE  \/ UNCHANGED row
             \/ /\ Insert(h) \/ InsertFails(h)
                /\ Inserted(h)
                /\ ~Taken(requests[h].pair)
  BY <1>1 DEF Issue, Create, NextRow, BulkIssue, CreateBatch, FinishBatch,
       PersistAssets, PersistAssetsFails, Insert, InsertFails, EnqueueAnchor,
       EnqueueAnchorFails, MarkQueueFailure, MarkQueueFailureFails, Cleanup,
       CleanupFails, ReadBack, ReadBackFails, AuditIssue, stores
<1>2. ASSUME NEW h \in Handlers, Withdraw(h)
      PROVE  \/ UNCHANGED row
             \/ \E c \in Credentials : RevokeRow(h, c)
             \/ \E c \in Credentials : RemoveRow(h, c)
  BY <1>2 DEF Withdraw, Revoke, BulkRevoke, Remove, Begin, AuditRevoke,
       RefreshMetadata, EnqueueRevoke, EnqueueRevokeFails, MarkRevokeFailure,
       AuditRemove, BulkStepFails, stores
<1>3. CASE UNCHANGED vars
  BY <1>3 DEF vars, stores
<1>4. ASSUME NEW h \in Handlers, NEW c \in Credentials, Regenerate(h, c)
      PROVE  UNCHANGED row
  BY <1>4 DEF Regenerate, stores
<1>5. ASSUME NEW h \in Handlers, RefreshFiles(h) \/ Dies(h)
      PROVE  UNCHANGED row
  BY <1>5 DEF RefreshFiles, Dies, stores
<1> QED
  BY <1>1, <1>2, <1>3, <1>4, <1>5 DEF Next

\* What becomes live was live with the same pair, or is the only one of its
\* pair.
LEMMA PairsStep == TypeInv /\ OneLivePerPair /\ [Next]_vars => OneLivePerPair'
<1> SUFFICES ASSUME TypeInv, OneLivePerPair, [Next]_vars
             PROVE  OneLivePerPair'
  OBVIOUS
<1>0. row \in [Credentials -> Row] /\ row' \in [Credentials -> Row]
  BY TypesStep DEF TypeInv, TypeOK
<1>1. ASSUME \A c \in Credentials : Live(c)' =>
                Live(c) /\ row'[c].pair = row[c].pair
      PROVE  OneLivePerPair'
  BY <1>1 DEF OneLivePerPair
<1>2. ASSUME NEW h \in Handlers, Inserted(h), ~Taken(requests[h].pair)
      PROVE  OneLivePerPair'
  <2> DEFINE new == requests[h].credential
  <2>1. \A c \in Credentials : c # new => row'[c] = row[c]
    BY <1>0, <1>2 DEF Inserted
  <2>2. new \in Credentials => row'[new].pair = requests[h].pair
    BY <1>0, <1>2 DEF Inserted, NoRow
  <2>3. \A c \in Credentials : c # new /\ Live(c)' =>
           row'[c].pair # requests[h].pair
    BY <1>2, <2>1 DEF Taken, Live
  <2> SUFFICES ASSUME NEW c \in Credentials, NEW d \in Credentials,
                      Live(c)', Live(d)', row'[c].pair = row'[d].pair
               PROVE  c = d
    BY DEF OneLivePerPair
  <2>4. c = new <=> d = new
    BY <2>2, <2>3
  <2>5. CASE c # new
    BY <2>1, <2>4, <2>5 DEF OneLivePerPair, Live
  <2> QED
    BY <2>4, <2>5
<1>3. CASE UNCHANGED row
  BY <1>1, <1>3 DEF Live
<1>4. ASSUME NEW h \in Handlers, NEW c \in Credentials,
             RevokeRow(h, c) \/ RemoveRow(h, c)
      PROVE  OneLivePerPair'
  <2>1. \A d \in Credentials : /\ row'[d].pair = row[d].pair
                               /\ Live(d)' => Live(d)
    BY <1>0, <1>4 DEF RevokeRow, RemoveRow, Live, Row
  <2> QED
    BY <1>1, <2>1
<1>5. ASSUME NEW c \in Credentials, RegisterSecurePdf(c)
      PROVE  OneLivePerPair'
  <2>1. \A d \in Credentials : /\ row'[d].pair = row[d].pair
                               /\ Live(d)' => Live(d)
    BY <1>0, <1>5 DEF RegisterSecurePdf, Live, Row
  <2> QED
    BY <1>1, <2>1
<1>6. ASSUME NEW h \in Handlers, RefreshRow(h)
      PROVE  OneLivePerPair'
  <2>1. \A d \in Credentials : /\ row'[d].pair = row[d].pair
                               /\ Live(d)' => Live(d)
    BY <1>0, <1>6 DEF RefreshRow, Live, Row
  <2> QED
    BY <1>1, <2>1
<1> QED
  BY <1>2, <1>3, <1>4, <1>5, <1>6, RowSteps

\* Whatever issues at the same time, and however it fails, a student and a
\* degree have one live credential.
THEOREM PairsStayUnique == Spec => []OneLivePerPair
<1>1. Init => OneLivePerPair
  BY DEF Init, OneLivePerPair, Live, NoRow
<1> QED
  BY <1>1, PairsStep, TypesAlways, PTL DEF Spec

-----------------------------------------------------------------------------
(* What has become of the credentials that requests hold *)

Exists == {c \in Credentials : row[c].state # "absent"}

\* A credential is inserted once, by the request that made its id, and those
\* that are revoked, deleted or made again exist.
Fate(q) ==
    /\ q.pc = "insert" => q.credential \notin Exists
    /\ q.ids \subseteq Exists
    /\ q.pc \in {"enqueue", "mark", "readBack", "auditIssue", "regenerate",
                 "refresh"} => q.credential \in Exists
    /\ q.pc \in {"auditRevoke", "metadata", "enqueueRevoke", "markRevoke"} =>
          q.credential \in Exists /\ row[q.credential].revoked

OneMaker ==
    \A g, h \in Handlers :
        /\ {requests[g].kind, requests[h].kind} \subseteq Issues
        /\ requests[g].credential = requests[h].credential
        /\ requests[g].credential # None
        => g = h

FateInv ==
    /\ \A h \in Handlers : Fate(requests[h])
    /\ OneMaker
    /\ \A c \in Credentials \ Exists : row[c] = NoRow

\* Rows are neither undone nor unrevoked.
RowsGrow ==
    /\ Exists \subseteq Exists'
    /\ \A c \in Exists : row[c].revoked => row'[c].revoked

LEMMA Growth ==
    ASSUME TypeInv, FateInv, [Next]_vars
    PROVE  RowsGrow
<1>0. row \in [Credentials -> Row]
  BY DEF TypeInv, TypeOK
<1>1. CASE UNCHANGED row
  BY <1>1 DEF RowsGrow, Exists
<1>2. ASSUME NEW h \in Handlers, Insert(h) \/ InsertFails(h), Inserted(h)
      PROVE  RowsGrow
  <2>1. requests[h].credential \notin Exists
    BY <1>2 DEF FateInv, Fate, Insert, InsertFails, At
  <2>2. \A c \in Exists : row'[c] = row[c]
    BY <1>0, <1>2, <2>1 DEF Inserted, Exists
  <2> QED
    BY <2>2 DEF RowsGrow, Exists
<1>3. ASSUME NEW h \in Handlers, NEW c \in Credentials, RevokeRow(h, c)
      PROVE  RowsGrow
  BY <1>0, <1>3 DEF RevokeRow, RowsGrow, Exists, Row
<1>4. ASSUME NEW h \in Handlers, NEW c \in Credentials, RemoveRow(h, c)
      PROVE  RowsGrow
  BY <1>0, <1>4 DEF RemoveRow, RowsGrow, Exists, Row
<1>5. ASSUME NEW c \in Credentials, RegisterSecurePdf(c)
      PROVE  RowsGrow
  BY <1>0, <1>5 DEF RegisterSecurePdf, RowsGrow, Exists, Row
<1>6. ASSUME NEW h \in Handlers, RefreshRow(h)
      PROVE  RowsGrow
  BY <1>0, <1>6 DEF RefreshRow, RowsGrow, Exists, Row
<1> QED
  BY <1>1, <1>2, <1>3, <1>4, <1>5, <1>6, RowSteps

\* What does not insert a row makes none.
LEMMA NoneMade ==
    ASSUME TypeInv, FateInv, [Next]_vars,
           \A h \in Handlers : ~(Insert(h) \/ InsertFails(h)) \/ UNCHANGED row
    PROVE  Exists' = Exists /\ \A c \in Credentials \ Exists : row'[c] = row[c]
<1>0. row \in [Credentials -> Row]
  BY DEF TypeInv, TypeOK
<1>1. CASE UNCHANGED row
  BY <1>1 DEF Exists
<1>2. ASSUME NEW h \in Handlers, NEW c \in Credentials, RevokeRow(h, c)
      PROVE  Exists' = Exists /\ \A d \in Credentials \ Exists : row'[d] = row[d]
  <2>1. c \in Exists
    BY <1>2 DEF RevokeRow, FateInv, Fate
  <2> QED
    BY <1>0, <1>2, <2>1 DEF RevokeRow, Exists, Row
<1>3. ASSUME NEW h \in Handlers, NEW c \in Credentials, RemoveRow(h, c)
      PROVE  Exists' = Exists /\ \A d \in Credentials \ Exists : row'[d] = row[d]
  <2>1. c \in Exists
    BY <1>3 DEF RemoveRow, FateInv, Fate
  <2> QED
    BY <1>0, <1>3, <2>1 DEF RemoveRow, Exists, Row
<1>4. ASSUME NEW c \in Credentials, RegisterSecurePdf(c)
      PROVE  Exists' = Exists /\ \A d \in Credentials \ Exists : row'[d] = row[d]
  BY <1>0, <1>4 DEF RegisterSecurePdf, Exists, Row
<1>5. ASSUME NEW h \in Handlers, RefreshRow(h)
      PROVE  Exists' = Exists /\ \A d \in Credentials \ Exists : row'[d] = row[d]
  <2>1. requests[h].credential \in Exists
    BY <1>5 DEF RefreshRow, At, FateInv, Fate
  <2> QED
    BY <1>0, <1>5, <2>1 DEF RefreshRow, Exists, Row
<1> QED
  BY <1>1, <1>2, <1>3, <1>4, <1>5, RowSteps

\* The request of h, and no other, goes on.
OnlyMoves(h) == \A g \in Handlers \ {h} : requests'[g] = requests[g]

\* It holds an id it made only if it held that before.
MakesNone(h) ==
    LET q == requests[h]
        r == requests'[h]
    IN  r.kind \in Issues /\ r.credential # None =>
            q.kind \in Issues /\ q.credential = r.credential

\* A step that inserts nothing is judged by the request that goes on.
LEMMA FateMoves ==
    ASSUME TypeInv, FateInv, [Next]_vars,
           \A g \in Handlers : ~(Insert(g) \/ InsertFails(g)) \/ UNCHANGED row,
           NEW h \in Handlers, OnlyMoves(h), MakesNone(h), Fate(requests[h])'
    PROVE  FateInv'
<1>1. RowsGrow /\ Exists' = Exists
  BY Growth, NoneMade
<1>2. \A c \in Credentials \ Exists' : row'[c] = NoRow
  BY <1>1, NoneMade DEF FateInv
<1>3. ASSUME NEW g \in Handlers
      PROVE  Fate(requests[g])'
  <2>1. CASE g = h
    BY <2>1
  <2>2. CASE g # h
    BY <1>1, <2>2 DEF OnlyMoves, FateInv, Fate, RowsGrow
  <2> QED
    BY <2>1, <2>2
<1>4. OneMaker'
  BY DEF OneMaker, FateInv, OnlyMoves, MakesNone
<1> QED
  BY <1>2, <1>3, <1>4 DEF FateInv

\* One that changes no request either keeps everything.
LEMMA FateStays ==
    ASSUME TypeInv, FateInv, [Next]_vars,
           \A g \in Handlers : ~(Insert(g) \/ InsertFails(g)) \/ UNCHANGED row,
           UNCHANGED requests
    PROVE  FateInv'
<1>1. RowsGrow /\ Exists' = Exists
  BY Growth, NoneMade
<1>2. \A c \in Credentials \ Exists' : row'[c] = NoRow
  BY <1>1, NoneMade DEF FateInv
<1>3. ASSUME NEW g \in Handlers
      PROVE  Fate(requests[g])'
  BY <1>1 DEF FateInv, Fate, RowsGrow
<1>4. OneMaker'
  BY DEF OneMaker, FateInv
<1> QED
  BY <1>2, <1>3, <1>4 DEF FateInv

\* A request that inserts moves on.
LEMMA Inserting ==
    ASSUME TypeInv, NEW g \in Handlers, Insert(g) \/ InsertFails(g)
    PROVE  requests[g].pc = "insert" /\ requests'[g].pc \in {"cleanup", "enqueue"}
<1>0. requests \in [Handlers -> Request] /\ requests[g] \in Request
  BY DEF TypeInv, TypeOK
<1>1. \A pc : Goto(g, pc) => requests'[g].pc = pc
  BY <1>0 DEF Goto, Request
<1>2. CASE Insert(g) /\ Taken(requests[g].pair)
  <2>1. requests'[g] = [requests[g] EXCEPT !.pc = "cleanup", !.conflict = TRUE]
    BY <1>0, <1>2 DEF Insert
  <2> QED
    BY <1>0, <1>2, <2>1 DEF Insert, At, Request
<1>3. CASE Insert(g) /\ ~Taken(requests[g].pair)
  BY <1>1, <1>3 DEF Insert, At
<1>4. CASE InsertFails(g)
  BY <1>1, <1>4 DEF InsertFails, At
<1> QED
  BY <1>2, <1>3, <1>4

LEMMA FateStep == TypeInv /\ FateInv /\ [Next]_vars => FateInv'
<1> SUFFICES ASSUME TypeInv, FateInv, [Next]_vars
             PROVE  FateInv'
  OBVIOUS
<1>0. /\ requests \in [Handlers -> Request] /\ WellFormed
      /\ row \in [Credentials -> Row]
      /\ RowsGrow
  BY Growth DEF TypeInv, TypeOK
<1>1. CASE UNCHANGED requests /\ UNCHANGED row
  BY <1>1, FateStays
<1>2. ASSUME UNCHANGED row, NEW h \in Handlers, NEW r,
             requests' = [requests EXCEPT ![h] = r],
             r.kind \in Issues /\ r.credential # None =>
                 /\ requests[h].kind \in Issues
                 /\ requests[h].credential = r.credential,
             Fate(r)
      PROVE  FateInv'
  <2>1. OnlyMoves(h) /\ MakesNone(h) /\ requests'[h] = r
    BY <1>0, <1>2 DEF OnlyMoves, MakesNone
  <2>2. Fate(requests[h])'
    BY <1>2, <2>1 DEF Fate, Exists
  <2> QED
    BY <1>2, <2>1, <2>2, FateMoves
<1>3. ASSUME UNCHANGED row, NEW h \in Handlers, Ends(h)
      PROVE  FateInv'
  <2>1. Fate(Idle) /\ Idle.credential = None
    BY DEF Idle, Fate
  <2> QED
    BY <1>2, <1>3, <2>1 DEF Ends
<1>4. ASSUME UNCHANGED row, NEW h \in Handlers, NEW result,
             RowEnds(h, result), result = "ISSUED" =>
                 requests[h].credential \in Exists
      PROVE  FateInv'
  <2> DEFINE q == requests[h]
             more == [Idle EXCEPT
                        !.pc = "rows", !.kind = "bulkIssue", !.csv = q.csv,
                        !.issuedRows = q.issuedRows
                                          + IF result = "ISSUED" THEN 1 ELSE 0,
                        !.failedRows = q.failedRows
                                          + IF result = "FAILED" THEN 1 ELSE 0]
             last == [q EXCEPT !.pc = "auditIssue"]
  <2>1. CASE q.kind = "bulkIssue"
    <3>1. requests' = [requests EXCEPT ![h] = more]
      BY <1>4, <2>1 DEF RowEnds
    <3>2. Fate(more) /\ more.credential = None
      BY DEF Fate, Idle
    <3> QED
      BY <1>2, <1>4, <3>1, <3>2
  <2>2. CASE q.kind # "bulkIssue" /\ result = "ISSUED"
    <3>1. requests' = [requests EXCEPT ![h] = last]
      BY <1>4, <2>2 DEF RowEnds
    <3>2. /\ last.pc = "auditIssue" /\ last.ids = q.ids
          /\ last.credential = q.credential /\ last.kind = q.kind
      BY <1>0 DEF Request
    <3>3. Fate(last)
      BY <1>4, <2>2, <3>2 DEF Fate, FateInv
    <3> QED
      BY <1>2, <1>4, <3>1, <3>2, <3>3
  <2>3. CASE q.kind # "bulkIssue" /\ result # "ISSUED"
    BY <1>3, <1>4, <2>3 DEF RowEnds, Ends
  <2> QED
    BY <2>1, <2>2, <2>3
<1>5. ASSUME UNCHANGED row, NEW h \in Handlers, NEW pc, Goto(h, pc),
             Fate([requests[h] EXCEPT !.pc = pc])
      PROVE  FateInv'
  <2>1. requests' = [requests EXCEPT ![h] = [requests[h] EXCEPT !.pc = pc]]
    BY <1>5 DEF Goto
  <2>2. /\ [requests[h] EXCEPT !.pc = pc].kind = requests[h].kind
        /\ [requests[h] EXCEPT !.pc = pc].credential = requests[h].credential
    BY <1>0 DEF Request
  <2> QED
    BY <1>2, <1>5, <2>1, <2>2
<1>6. ASSUME UNCHANGED row, NEW h \in Handlers, NEW c \in Credentials,
             Next1(h, c)
      PROVE  FateInv'
  <2> DEFINE q == requests[h]
             r == [Idle EXCEPT
                     !.pc = IF q.kind = "remove" THEN "remove" ELSE "revoke",
                     !.kind = q.kind, !.ids = q.ids \ {c}]
  <2>1. Fate(r) /\ r.credential = None
    <3>1. /\ r.pc \in {"remove", "revoke"} /\ r.ids = q.ids \ {c}
          /\ r.credential = None
      BY DEF Idle
    <3>2. q.ids \subseteq Exists
      BY DEF FateInv, Fate
    <3> QED
      BY <3>1, <3>2 DEF Fate
  <2>2. CASE q.ids = {c}
    BY <1>3, <1>6, <2>2 DEF Next1, Ends
  <2>3. CASE q.ids # {c}
    <3>1. requests' = [requests EXCEPT ![h] = r]
      BY <1>6, <2>3 DEF Next1
    <3> QED
      BY <1>2, <1>6, <2>1, <3>1
  <2> QED
    BY <2>2, <2>3
<1>7. ASSUME NEW h \in Handlers, Issue(h)
      PROVE  FateInv'
  <2>0. Role(requests[h]) /\ Fate(requests[h]) /\ requests[h] \in Request
    BY <1>0 DEF FateInv, WellFormed
  <2>1. ASSUME NEW pair \in Pairs, Create(h, pair)
        PROVE  FateInv'
    <3> DEFINE r == [Idle EXCEPT !.pc = "assets", !.kind = "create",
                                !.pair = pair]
    <3>1. Fate(r) /\ r.credential = None
      BY DEF Idle, Fate
    <3>2. requests' = [requests EXCEPT ![h] = r] /\ UNCHANGED row
      BY <2>1 DEF Create, stores
    <3> QED
      BY <1>2, <3>1, <3>2
  <2>2. ASSUME NEW pair \in Pairs, NextRow(h, pair)
        PROVE  FateInv'
    <3> DEFINE r == [requests[h] EXCEPT !.pc = "assets", !.pair = pair,
                                        !.csv = requests[h].csv \ {pair}]
    <3>1. r.pc = "assets" /\ r.ids = requests[h].ids
          /\ r.kind = requests[h].kind /\ r.credential = requests[h].credential
      BY <2>0 DEF Request
    <3>2. Fate(r)
      BY <2>0, <3>1 DEF Fate
    <3>3. requests' = [requests EXCEPT ![h] = r] /\ UNCHANGED row
      BY <2>2 DEF NextRow, stores
    <3> QED
      BY <1>2, <3>1, <3>2, <3>3
  <2>3. ASSUME NEW csv \in SUBSET Pairs, BulkIssue(h, csv)
        PROVE  FateInv'
    <3> DEFINE r == [Idle EXCEPT !.pc = "batch", !.kind = "bulkIssue",
                                !.csv = Unknown(csv)]
    <3>1. Fate(r) /\ r.credential = None
      BY DEF Idle, Fate
    <3>2. requests' = [requests EXCEPT ![h] = r] /\ UNCHANGED row
      BY <2>3 DEF BulkIssue, stores
    <3> QED
      BY <1>2, <3>1, <3>2
  <2>4. CASE CreateBatch(h)
    BY <1>5, <2>0, <2>4 DEF CreateBatch, Fate, Request
  <2>5. CASE FinishBatch(h)
    BY <1>3, <2>5 DEF FinishBatch
  <2>6. ASSUME NEW c \in Credentials, PersistAssets(h, c)
        PROVE  FateInv'
    <3> DEFINE r == [requests[h] EXCEPT !.pc = "insert", !.credential = c]
    <3>1. /\ requests' = [requests EXCEPT ![h] = r] /\ UNCHANGED row
          /\ c \notin Exists
          /\ \A g \in Handlers : requests[g].credential # c
      BY <2>6 DEF PersistAssets, Fresh, Exists
    <3>2. r.pc = "insert" /\ r.credential = c /\ r.ids = requests[h].ids
      BY <2>0 DEF Request
    <3>3. Fate(r)
      BY <2>0, <3>1, <3>2 DEF Fate
    <3>4. ASSUME NEW g \in Handlers
          PROVE  Fate(requests[g])'
      <4>1. requests'[g] = IF g = h THEN r ELSE requests[g]
        BY <1>0, <3>1
      <4> QED
        BY <3>1, <3>3, <4>1 DEF Fate, Exists, FateInv
    <3>5. OneMaker'
      BY <1>0, <3>1, <3>2 DEF OneMaker, FateInv
    <3> QED
      BY <3>1, <3>4, <3>5 DEF FateInv, Exists
  <2>7. ASSUME NEW c \in Credentials, NEW f \in Files,
               PersistAssetsFails(h, c, f)
        PROVE  FateInv'
    BY <1>4, <2>7 DEF PersistAssetsFails
  <2>8. CASE Insert(h) /\ Taken(requests[h].pair)
    <3> DEFINE r == [requests[h] EXCEPT !.pc = "cleanup", !.conflict = TRUE]
    <3>1. requests' = [requests EXCEPT ![h] = r] /\ UNCHANGED row
      BY <2>8 DEF Insert
    <3>2. /\ r.pc = "cleanup" /\ r.ids = requests[h].ids
          /\ r.kind = requests[h].kind /\ r.credential = requests[h].credential
      BY <2>0 DEF Request
    <3>3. Fate(r)
      BY <2>0, <3>2 DEF Fate
    <3> QED
      BY <1>2, <3>1, <3>2, <3>3
  <2>9. CASE \/ Insert(h) /\ ~Taken(requests[h].pair)
             \/ InsertFails(h) /\ Inserted(h)
    <3> DEFINE new == requests[h].credential
    <3>1. /\ requests[h].pc = "insert" /\ new \in Credentials
          /\ requests[h].kind \in Issues /\ new \notin Exists
      BY <2>0, <2>9 DEF Insert, InsertFails, At, Role, Fate
    <3>2. Inserted(h) /\ (Goto(h, "enqueue") \/ Goto(h, "cleanup"))
      BY <2>9 DEF Insert, InsertFails
    <3>3. Exists' = Exists \cup {new} /\ \A c \in Credentials \ {new} : row'[c] = row[c]
      BY <1>0, <3>1, <3>2 DEF Inserted, Exists, NoRow
    <3>4. /\ requests'[h].pc \in {"enqueue", "cleanup"}
          /\ requests'[h].kind = requests[h].kind
          /\ requests'[h].credential = new
          /\ requests'[h].ids = requests[h].ids
          /\ OnlyMoves(h)
      BY <1>0, <2>0, <3>2 DEF Goto, Request, OnlyMoves
    <3>5. Fate(requests[h])'
      BY <2>0, <3>3, <3>4 DEF Fate
    <3>6. ASSUME NEW g \in Handlers \ {h}
          PROVE  Fate(requests[g])'
      <4>1. requests'[g] = requests[g] /\ Fate(requests[g])
            /\ Role(requests[g])
        BY <1>0, <3>4 DEF OnlyMoves, FateInv, WellFormed
      <4>2. requests[g].pc = "insert" => requests[g].credential # new
        BY <3>1, <4>1, IssuanceAssumption
        DEF FateInv, OneMaker, Role, Issues
      <4> QED
        BY <1>0, <3>3, <4>1, <4>2 DEF Fate, RowsGrow
    <3>7. OneMaker'
      BY <3>4 DEF OneMaker, FateInv, OnlyMoves
    <3>8. \A c \in Credentials \ Exists' : row'[c] = NoRow
      BY <3>3 DEF FateInv
    <3> QED
      BY <3>5, <3>6, <3>7, <3>8 DEF FateInv
  <2>10. CASE InsertFails(h) /\ UNCHANGED row
    BY <1>5, <2>0, <2>10 DEF InsertFails, Fate, Request
  <2>11. CASE EnqueueAnchor(h)
    BY <1>5, <2>0, <2>11 DEF EnqueueAnchor, Fate, Request, At
  <2>12. CASE EnqueueAnchorFails(h)
    BY <1>5, <2>0, <2>12 DEF EnqueueAnchorFails, Fate, Request, At, stores
  <2>13. CASE MarkQueueFailure(h)
    BY <1>5, <2>0, <2>13 DEF MarkQueueFailure, Fate, Request, At
  <2>14. CASE MarkQueueFailureFails(h)
    BY <1>5, <2>0, <2>14 DEF MarkQueueFailureFails, Fate, Request, At, stores
  <2>15. CASE Cleanup(h)
    BY <1>4, <2>15 DEF Cleanup
  <2>16. CASE CleanupFails(h)
    BY <1>4, <2>16 DEF CleanupFails, stores
  <2>17. CASE ReadBack(h)
    <3>1. requests[h].credential \in Exists
      BY <2>0, <2>17 DEF ReadBack, At, Fate
    <3> QED
      BY <1>4, <2>17, <3>1 DEF ReadBack, stores
  <2>18. CASE ReadBackFails(h)
    BY <1>4, <2>18 DEF ReadBackFails, stores
  <2>19. CASE AuditIssue(h)
    BY <1>3, <2>19 DEF AuditIssue
  <2> QED
    BY <1>7, <2>1, <2>2, <2>3, <2>4, <2>5, <2>6, <2>7, <2>8, <2>9, <2>10,
       <2>11, <2>12, <2>13, <2>14, <2>15, <2>16, <2>17, <2>18, <2>19
    DEF Issue, Insert, InsertFails
<1>8. ASSUME NEW h \in Handlers, NEW kind, NEW pc, NEW ids,
             Begin(h, kind, pc, ids), ids \subseteq Exists,
             pc \in {"revoke", "remove"}
      PROVE  FateInv'
  <2> DEFINE r == [Idle EXCEPT !.pc = pc, !.kind = kind, !.ids = ids]
  <2>1. r.pc = pc /\ r.ids = ids /\ r.credential = None
    BY DEF Idle
  <2>2. Fate(r)
    BY <1>8, <2>1 DEF Fate
  <2>3. requests' = [requests EXCEPT ![h] = r] /\ UNCHANGED row
    BY <1>8 DEF Begin, stores
  <2> QED
    BY <1>2, <2>1, <2>2, <2>3
<1>9. ASSUME NEW h \in Handlers, Withdraw(h)
      PROVE  FateInv'
  <2>0. Role(requests[h]) /\ Fate(requests[h]) /\ requests[h] \in Request
    BY <1>0 DEF FateInv, WellFormed
  <2>1. ASSUME NEW c \in Credentials, Revoke(h, c)
        PROVE  FateInv'
    BY <1>8, <2>1 DEF Revoke, Live, Exists
  <2>2. ASSUME NEW ids \in SUBSET Credentials, BulkRevoke(h, ids)
        PROVE  FateInv'
    <3>1. {c \in ids : Live(c)} \subseteq Exists
      BY DEF Live, Exists
    <3> QED
      BY <1>8, <2>2, <3>1 DEF BulkRevoke
  <2>3. ASSUME NEW ids \in SUBSET Credentials, Remove(h, ids)
        PROVE  FateInv'
    <3>1. {c \in ids : row[c].state = "live" /\ row[c].revoked} \subseteq Exists
      BY DEF Exists
    <3> QED
      BY <1>8, <2>3, <3>1 DEF Remove
  <2>4. ASSUME NEW c \in Credentials, RevokeRow(h, c) \/ RemoveRow(h, c)
        PROVE  FateInv'
    <3>1. PICK pc : /\ Proceed(h, c, pc)
                    /\ \/ /\ pc \in {"auditRevoke", "enqueueRevoke"}
                          /\ RevokeRow(h, c)
                       \/ pc = "auditRemove"
      BY <2>4 DEF RevokeRow, RemoveRow
    <3>2. /\ requests'[h].pc = pc /\ requests'[h].credential = c
          /\ requests'[h].ids = requests[h].ids
          /\ requests'[h].kind = requests[h].kind
          /\ OnlyMoves(h)
      BY <1>0, <2>0, <3>1 DEF Proceed, Request, OnlyMoves
    <3>3. /\ c \in Exists /\ requests[h].ids \subseteq Exists
          /\ requests[h].kind \notin Issues
      BY <2>0, <2>4 DEF RevokeRow, RemoveRow, Fate, Role, Revokes, Issues, At
    <3>4. RevokeRow(h, c) => row'[c].revoked
      BY <1>0 DEF RevokeRow, Row
    <3>5. Fate(requests[h])'
      BY <1>0, <3>1, <3>2, <3>3, <3>4 DEF Fate, RowsGrow
    <3>6. \A g \in Handlers : ~(Insert(g) \/ InsertFails(g))
      BY <2>4, <3>2, Inserting DEF RevokeRow, RemoveRow, At, OnlyMoves
    <3> QED
      BY <3>2, <3>3, <3>5, <3>6, FateMoves DEF MakesNone
  <2>5. ASSUME NEW c \in Credentials, BulkStepFails(h, c)
        PROVE  FateInv'
    BY <1>6, <2>5 DEF BulkStepFails, stores
  <2>6. CASE AuditRevoke(h)
    BY <1>5, <2>0, <2>6 DEF AuditRevoke, Fate, Request, At
  <2>7. CASE RefreshMetadata(h)
    BY <1>5, <2>0, <2>7 DEF RefreshMetadata, Fate, Request, At
  <2>8. CASE EnqueueRevoke(h)
    BY <1>6, <2>0, <2>8 DEF EnqueueRevoke, At, Role
  <2>9. CASE EnqueueRevokeFails(h)
    BY <1>5, <2>0, <2>9 DEF EnqueueRevokeFails, Fate, Request, At, stores
  <2>10. CASE MarkRevokeFailure(h)
    BY <1>6, <2>0, <2>10 DEF MarkRevokeFailure, At, Role
  <2>11. CASE AuditRemove(h)
    BY <1>6, <2>0, <2>11 DEF AuditRemove, At, Role
  <2> QED
    BY <1>9, <2>1, <2>2, <2>3, <2>4, <2>5, <2>6, <2>7, <2>8, <2>9, <2>10,
       <2>11 DEF Withdraw
<1>10. ASSUME NEW h \in Handlers, NEW c \in Credentials, Regenerate(h, c)
       PROVE  FateInv'
  <2> DEFINE r == [Idle EXCEPT !.pc = "regenerate", !.kind = "regenerate",
                              !.credential = c, !.read = row[c]]
  <2>1. /\ requests' = [requests EXCEPT ![h] = r] /\ UNCHANGED row
        /\ c \in Exists
    BY <1>10 DEF Regenerate, stores, Exists
  <2>2. r.pc = "regenerate" /\ r.kind = "regenerate" /\ r.credential = c
        /\ r.ids = {}
    BY DEF Idle
  <2>3. Fate(r)
    BY <2>1, <2>2 DEF Fate
  <2> QED
    BY <1>2, <2>1, <2>2, <2>3 DEF Issues
<1>11. ASSUME NEW h \in Handlers, RefreshFiles(h)
       PROVE  FateInv'
  BY <1>0, <1>5, <1>11 DEF RefreshFiles, FateInv, Fate, Request, At
<1>12. ASSUME NEW h \in Handlers, RefreshRow(h)
       PROVE  FateInv'
  <2>1. requests'[h] = Idle /\ OnlyMoves(h)
    BY <1>0, <1>12 DEF RefreshRow, Ends, OnlyMoves
  <2>2. Fate(requests[h])' /\ MakesNone(h)
    BY <2>1 DEF Fate, Idle, MakesNone
  <2>3. \A g \in Handlers : ~(Insert(g) \/ InsertFails(g))
    BY <1>12, <2>1, Inserting DEF RefreshRow, At, OnlyMoves, Idle
  <2> QED
    BY <2>1, <2>2, <2>3, FateMoves
<1>13. ASSUME NEW h \in Handlers, Dies(h)
       PROVE  FateInv'
  BY <1>3, <1>13 DEF Dies, stores
<1>14. ASSUME NEW c \in Credentials, RegisterSecurePdf(c)
       PROVE  FateInv'
  <2>1. \A g \in Handlers : ~(Insert(g) \/ InsertFails(g))
    BY <1>14, Inserting DEF RegisterSecurePdf
  <2> QED
    BY <1>14, <2>1, FateStays DEF RegisterSecurePdf
<1>15. CASE UNCHANGED vars
  BY <1>1, <1>15 DEF vars, stores
<1> QED
  BY <1>7, <1>9, <1>10, <1>11, <1>12, <1>13, <1>14, <1>15 DEF Next

\* Every invariant of the following sections rests on these.
BaseInv == TypeInv /\ FateInv

LEMMA BaseStep == BaseInv /\ [Next]_vars => BaseInv' /\ RowsGrow
  BY TypesStep, FateStep, Growth DEF BaseInv

LEMMA BaseAlways == Spec => []BaseInv
<1>1. Init => BaseInv
  <2> SUFFICES ASSUME Init
               PROVE  BaseInv
    OBVIOUS
  <2>1. TypeInv
    BY NoRowIsRow, IdleIsRequest, IssuanceAssumption
    DEF Init, TypeInv, TypeOK, WellFormed
  <2>2. Exists = {}
    BY DEF Init, Exists, NoRow
  <2>3. FateInv
    BY <2>2 DEF Init, FateInv, Fate, OneMaker, Idle
  <2> QED
    BY <2>1, <2>3 DEF BaseInv
<1>2. BaseInv /\ [Next]_vars => BaseInv'
  BY BaseStep
<1> QED
  BY <1>1, <1>2, PTL DEF Spec

-----------------------------------------------------------------------------
(* Who moves in a step, and what only grows *)

LEMMA IssueMoves ==
    ASSUME TypeInv, NEW h \in Handlers, Issue(h)
    PROVE  /\ OnlyMoves(h)
           /\ requests[h].kind \in {"none"} \cup Issues
           /\ requests'[h].kind \in {"none"} \cup Issues
<1>0. /\ requests \in [Handlers -> Request] /\ requests[h] \in Request
      /\ Role(requests[h])
  BY DEF TypeInv, TypeOK, WellFormed
<1>1. OnlyMoves(h)
  BY <1>0 DEF Issue, Create, NextRow, BulkIssue, CreateBatch, FinishBatch,
     PersistAssets, PersistAssetsFails, Insert, InsertFails, EnqueueAnchor,
     EnqueueAnchorFails, MarkQueueFailure, MarkQueueFailureFails, Cleanup,
     CleanupFails, ReadBack, ReadBackFails, AuditIssue, Goto, Ends, RowEnds,
     OnlyMoves
<1>2. requests[h].kind \in {"none"} \cup Issues
  BY <1>0 DEF Issue, Create, NextRow, BulkIssue, CreateBatch, FinishBatch,
     PersistAssets, PersistAssetsFails, Insert, InsertFails, EnqueueAnchor,
     EnqueueAnchorFails, MarkQueueFailure, MarkQueueFailureFails, Cleanup,
     CleanupFails, ReadBack, ReadBackFails, AuditIssue, At, Role, Issues
<1>3. \A pc : Goto(h, pc) => requests'[h].kind = requests[h].kind
  BY <1>0 DEF Goto, Request
<1>4. \A r : RowEnds(h, r) =>
         requests'[h].kind \in {"none", "bulkIssue", requests[h].kind}
  BY <1>0 DEF RowEnds, Idle, Request
<1>5. Ends(h) => requests'[h].kind = "none"
  BY <1>0 DEF Ends, Idle
<1>6. requests'[h].kind \in {"none", "create", "bulkIssue", requests[h].kind}
  <2>1. ASSUME NEW pair \in Pairs, Create(h, pair) \/ NextRow(h, pair)
        PROVE  requests'[h].kind \in {"none", "create", "bulkIssue", requests[h].kind}
    <3>1. CASE Create(h, pair)
      BY <1>0, <3>1 DEF Create, Idle
    <3>2. CASE NextRow(h, pair)
      <4>1. requests'[h] = [requests[h] EXCEPT
                              !.pc = "assets", !.pair = pair,
                              !.csv = requests[h].csv \ {pair}]
        BY <1>0, <3>2 DEF NextRow
      <4> QED
        BY <1>0, <4>1 DEF Request
    <3> QED
      BY <2>1, <3>1, <3>2
  <2>2. ASSUME NEW csv \in SUBSET Pairs, BulkIssue(h, csv)
        PROVE  requests'[h].kind \in {"none", "create", "bulkIssue", requests[h].kind}
    BY <1>0, <2>2 DEF BulkIssue, Idle, Request
  <2>3. ASSUME NEW c \in Credentials, PersistAssets(h, c)
        PROVE  requests'[h].kind \in {"none", "create", "bulkIssue", requests[h].kind}
    BY <1>0, <2>3 DEF PersistAssets, Request
  <2>4. ASSUME NEW c \in Credentials, NEW f \in Files,
               PersistAssetsFails(h, c, f)
        PROVE  requests'[h].kind \in {"none", "create", "bulkIssue", requests[h].kind}
    BY <1>4, <2>4 DEF PersistAssetsFails
  <2>5. CASE Insert(h)
    <3>1. CASE Taken(requests[h].pair)
      <4>1. requests'[h]
               = [requests[h] EXCEPT !.pc = "cleanup", !.conflict = TRUE]
        BY <1>0, <2>5, <3>1 DEF Insert
      <4> QED
        BY <1>0, <4>1 DEF Request
    <3>2. CASE ~Taken(requests[h].pair)
      BY <1>3, <2>5, <3>2 DEF Insert
    <3> QED
      BY <3>1, <3>2
  <2> QED
    BY <1>3, <1>4, <1>5, <2>1, <2>2, <2>3, <2>4, <2>5
    DEF Issue, CreateBatch, FinishBatch, InsertFails, EnqueueAnchor,
        EnqueueAnchorFails, MarkQueueFailure, MarkQueueFailureFails, Cleanup,
        CleanupFails, ReadBack, ReadBackFails, AuditIssue
<1> QED
  BY <1>1, <1>2, <1>6 DEF Issues

LEMMA WithdrawMoves ==
    ASSUME TypeInv, NEW h \in Handlers, Withdraw(h)
    PROVE  /\ OnlyMoves(h)
           /\ requests[h].kind \in {"none", "remove"} \cup Revokes
           /\ requests'[h].kind \in {"none", "remove"} \cup Revokes
<1>0. /\ requests \in [Handlers -> Request] /\ requests[h] \in Request
      /\ Role(requests[h])
  BY DEF TypeInv, TypeOK, WellFormed
<1>1. OnlyMoves(h)
  BY <1>0 DEF Withdraw, Revoke, BulkRevoke, Remove, Begin, AuditRevoke,
     RefreshMetadata, EnqueueRevoke, EnqueueRevokeFails, MarkRevokeFailure,
     AuditRemove, BulkStepFails, RevokeRow, RemoveRow, Proceed, Next1, Goto,
     OnlyMoves
<1>2. requests[h].kind \in {"none", "remove"} \cup Revokes
  BY <1>0 DEF Withdraw, Revoke, BulkRevoke, Remove, Begin, AuditRevoke,
     RefreshMetadata, EnqueueRevoke, EnqueueRevokeFails, MarkRevokeFailure,
     AuditRemove, BulkStepFails, RevokeRow, RemoveRow, At, Role, Revokes
<1>3. \A pc : Goto(h, pc) => requests'[h].kind = requests[h].kind
  BY <1>0 DEF Goto, Request
<1>4. \A c, pc : Proceed(h, c, pc) => requests'[h].kind = requests[h].kind
  BY <1>0 DEF Proceed, Request
<1>5. \A c : Next1(h, c) => requests'[h].kind \in {"none", requests[h].kind}
  BY <1>0 DEF Next1, Idle
<1>6. \A kind, pc, ids : Begin(h, kind, pc, ids) => requests'[h].kind = kind
  BY <1>0 DEF Begin, Idle
<1> QED
  BY <1>1, <1>2, <1>3, <1>4, <1>5, <1>6
  DEF Withdraw, Revoke, BulkRevoke, Remove, AuditRevoke, RefreshMetadata,
      EnqueueRevoke, EnqueueRevokeFails, MarkRevokeFailure, AuditRemove,
      BulkStepFails, RevokeRow, RemoveRow, Revokes

LEMMA HistoryGrows ==
    ASSUME [Next]_vars
    PROVE  unfinished \subseteq unfinished' /\ overlapped \subseteq overlapped'
<1>1. Smooth \/ Begins => UNCHANGED <<unfinished, overlapped>>
  BY DEF Smooth, Begins, history
<1>2. \A c : Fault(c) \/ FollowingFault(c) =>
         unfinished \subseteq unfinished' /\ UNCHANGED overlapped
  BY DEF Fault, FollowingFault
<1>3. \A c : Overtakes(c) =>
         overlapped \subseteq overlapped' /\ UNCHANGED unfinished
  BY DEF Overtakes
<1>4. ASSUME NEW h \in Handlers, Issue(h)
      PROVE  unfinished \subseteq unfinished' /\ overlapped \subseteq overlapped'
  BY <1>1, <1>2, <1>4 DEF Issue, Create, NextRow, BulkIssue, CreateBatch,
     FinishBatch, PersistAssets, PersistAssetsFails, Insert, InsertFails,
     EnqueueAnchor, EnqueueAnchorFails, MarkQueueFailure,
     MarkQueueFailureFails, Cleanup, CleanupFails, ReadBack, ReadBackFails,
     AuditIssue, Logs
<1>5. ASSUME NEW h \in Handlers, Withdraw(h)
      PROVE  unfinished \subseteq unfinished' /\ overlapped \subseteq overlapped'
  BY <1>1, <1>2, <1>3, <1>5 DEF Withdraw, Revoke, BulkRevoke, Remove, Begin,
     AuditRevoke, RefreshMetadata, EnqueueRevoke, EnqueueRevokeFails,
     MarkRevokeFailure, AuditRemove, BulkStepFails, RevokeRow, RemoveRow, Logs
<1>6. CASE UNCHANGED vars
  BY <1>6 DEF vars, history
<1> QED
  BY <1>1, <1>2, <1>3, <1>4, <1>5, <1>6
  DEF Next, Regenerate, RefreshFiles, RefreshRow, Dies, RegisterSecurePdf

-----------------------------------------------------------------------------
(* Secure PDFs *)

\* A regeneration has read the row as it is, unless that changed meanwhile; a
\* revocation it has read is not undone.
Current(q) ==
    q.pc \in {"regenerate", "refresh"} =>
        /\ q.read.revoked => row[q.credential].revoked
        /\ q.credential \notin overlapped =>
              /\ q.read.revoked = row[q.credential].revoked
              /\ q.read.securePdfEnabled = row[q.credential].securePdfEnabled
              /\ q.read.chainProofHash = row[q.credential].chainProofHash

ReadInv == (\A h \in Handlers : Current(requests[h])) /\ SecurePdfSticks

\* A regeneration that goes on was one before, or has just read the row.
LEMMA Rereads ==
    ASSUME BaseInv, [Next]_vars, NEW h \in Handlers,
           requests'[h].pc \in {"regenerate", "refresh"}
    PROVE  \/ Regenerate(h, requests'[h].credential)
           \/ /\ requests[h].pc \in {"regenerate", "refresh"}
              /\ requests'[h].credential = requests[h].credential
              /\ requests'[h].read = requests[h].read
<1>0. /\ requests \in [Handlers -> Request] /\ WellFormed /\ WellFormed'
  BY BaseStep DEF BaseInv, TypeInv, TypeOK
<1>1. requests'[h].kind = "regenerate"
  BY <1>0 DEF WellFormed, Role
<1>2. CASE requests'[h] = requests[h]
  BY <1>2
<1>3. ASSUME NEW g \in Handlers, Issue(g) \/ Withdraw(g)
      PROVE  requests'[h] = requests[h]
  BY <1>1, <1>3, IssueMoves, WithdrawMoves
  DEF OnlyMoves, Issues, Revokes, BaseInv
<1>4. ASSUME NEW g \in Handlers, NEW c \in Credentials, Regenerate(g, c)
      PROVE  requests'[h] = requests[h] \/ Regenerate(h, requests'[h].credential)
  BY <1>0, <1>4 DEF Regenerate, Idle
<1>5. ASSUME NEW g \in Handlers, RefreshFiles(g)
      PROVE  \/ requests'[h] = requests[h]
             \/ /\ requests[h].pc \in {"regenerate", "refresh"}
                /\ requests'[h].credential = requests[h].credential
                /\ requests'[h].read = requests[h].read
  BY <1>0, <1>5 DEF RefreshFiles, Goto, At, Request
<1>6. ASSUME NEW g \in Handlers, RefreshRow(g) \/ Dies(g)
      PROVE  requests'[h] = requests[h]
  BY <1>0, <1>1, <1>6 DEF RefreshRow, Dies, Ends, Idle
<1>7. ASSUME NEW c \in Credentials, RegisterSecurePdf(c)
      PROVE  requests'[h] = requests[h]
  BY <1>7 DEF RegisterSecurePdf
<1> QED
  BY <1>2, <1>3, <1>4, <1>5, <1>6, <1>7 DEF Next, vars

LEMMA ReadStep == BaseInv /\ ReadInv /\ [Next]_vars => ReadInv'
<1> SUFFICES ASSUME BaseInv, ReadInv, [Next]_vars
             PROVE  ReadInv'
  OBVIOUS
<1>0. /\ row \in [Credentials -> Row] /\ requests \in [Handlers -> Request]
      /\ WellFormed /\ FateInv
      /\ overlapped \subseteq overlapped'
      /\ RowsGrow /\ Exists \subseteq Credentials
      /\ TypeInv' /\ TypeInv
  BY BaseStep, HistoryGrows DEF BaseInv, TypeInv, TypeOK, Exists
<1> DEFINE Same(c) == /\ row'[c].revoked = row[c].revoked
                      /\ row'[c].securePdfEnabled = row[c].securePdfEnabled
                      /\ row'[c].chainProofHash = row[c].chainProofHash
\* A regeneration that is not out of date writes the hash that is there.
<1>1. ASSUME NEW h \in Handlers, RefreshRow(h), NEW c \in Credentials,
             c \notin overlapped
      PROVE  Same(c)
  <2> DEFINE q == requests[h]
  <2>1. CASE c # q.credential
    BY <1>0, <1>1, <2>1 DEF RefreshRow
  <2>2. CASE c = q.credential
    <3>1. /\ q.read.securePdfEnabled = row[c].securePdfEnabled
          /\ q.read.chainProofHash = row[c].chainProofHash
      BY <1>1, <2>2 DEF ReadInv, Current, RefreshRow, At
    <3>2. row[c].securePdfEnabled => row[c].chainProofHash = "pdf"
      BY <1>1 DEF ReadInv, SecurePdfSticks
    <3>3. row' = [row EXCEPT ![c].chainProofHash = row[c].chainProofHash]
      BY <1>1, <2>2, <3>1, <3>2 DEF RefreshRow
    <3> QED
      BY <1>0, <3>3 DEF Row
  <2> QED
    BY <2>1, <2>2
<1>2. ASSUME NEW h \in Handlers, NEW d \in Credentials,
             RevokeRow(h, d) \/ RemoveRow(h, d),
             NEW c \in Credentials, c \notin overlapped'
      PROVE  /\ row'[c].securePdfEnabled = row[c].securePdfEnabled
             /\ row'[c].chainProofHash = row[c].chainProofHash
             /\ Regenerating(c) => row'[c].revoked = row[c].revoked
  <2>1. CASE c # d
    BY <1>0, <1>2, <2>1 DEF RevokeRow, RemoveRow
  <2>2. CASE c = d
    BY <1>0, <1>2, <2>2 DEF RevokeRow, RemoveRow, Overtakes, Row
  <2> QED
    BY <2>1, <2>2
<1>3. ASSUME NEW d \in Credentials, RegisterSecurePdf(d),
             NEW c \in Credentials, c \notin overlapped'
      PROVE  \/ row'[c] = row[c]
             \/ row'[c].chainProofHash = "pdf" /\ ~Regenerating(c)
  <2>1. CASE c # d
    BY <1>0, <1>3, <2>1 DEF RegisterSecurePdf
  <2>2. CASE c = d
    BY <1>0, <1>3, <2>2 DEF RegisterSecurePdf, Overtakes, Row
  <2> QED
    BY <2>1, <2>2
<1>4. ASSUME NEW h \in Handlers, Inserted(h), Insert(h) \/ InsertFails(h),
             NEW c \in Credentials
      PROVE  /\ c \in Exists => row'[c] = row[c]
             /\ row'[c] = row[c] \/ ~row'[c].securePdfEnabled
  <2>1. requests[h].credential \notin Exists
    BY <1>0, <1>4 DEF FateInv, Fate, Insert, InsertFails, At
  <2> QED
    BY <1>0, <1>4, <2>1 DEF Inserted, NoRow
<1>5. ASSUME NEW c \in Exists, c \notin overlapped', Regenerating(c)
      PROVE  Same(c)
  <2>1. c \in Credentials /\ c \notin overlapped
    BY <1>0, <1>5
  <2>2. CASE UNCHANGED row
    BY <2>2
  <2> QED
    BY <1>1, <1>2, <1>3, <1>4, <1>5, <2>1, <2>2, RowSteps
<1>6. SecurePdfSticks'
  <2> SUFFICES ASSUME NEW c \in Credentials, row'[c].securePdfEnabled,
                      c \notin overlapped'
               PROVE  row'[c].chainProofHash = "pdf"
    BY DEF SecurePdfSticks
  <2>1. row[c].securePdfEnabled => row[c].chainProofHash = "pdf"
    BY <1>0 DEF ReadInv, SecurePdfSticks
  <2>2. c \notin overlapped
    BY <1>0
  <2>3. CASE UNCHANGED row
    BY <2>1, <2>3
  <2> QED
    BY <1>1, <1>2, <1>3, <1>4, <2>1, <2>2, <2>3, RowSteps
<1>7. ASSUME NEW h \in Handlers
      PROVE  Current(requests[h])'
  <2> DEFINE r == requests'[h]
  <2> SUFFICES ASSUME r.pc \in {"regenerate", "refresh"}
               PROVE  Current(requests[h])'
    BY DEF Current
  <2>1. CASE Regenerate(h, r.credential)
    <3>1. r.read = row[r.credential]
      BY <1>0, <2>1 DEF Regenerate, Idle
    <3>2. UNCHANGED row
      BY <2>1 DEF Regenerate, stores
    <3> QED
      BY <3>1, <3>2 DEF Current
  <2>2. CASE /\ requests[h].pc \in {"regenerate", "refresh"}
             /\ r.credential = requests[h].credential
             /\ r.read = requests[h].read
    <3>1. r.credential \in Exists /\ Regenerating(r.credential)
      BY <1>0, <2>2 DEF FateInv, Fate, Regenerating
    <3>2. r.credential \notin overlapped' => Same(r.credential)
      BY <1>5, <3>1
    <3>3. row[r.credential].revoked => row'[r.credential].revoked
      BY <1>0, <3>1 DEF RowsGrow
    <3> QED
      BY <1>0, <2>2, <3>2, <3>3 DEF ReadInv, Current
  <2> QED
    BY <2>1, <2>2, Rereads
<1> QED
  BY <1>6, <1>7 DEF ReadInv

LEMMA ReadAlways == Spec => []ReadInv
<1>1. Init => ReadInv
  <2> SUFFICES ASSUME Init
               PROVE  ReadInv
    OBVIOUS
  <2>1. \A h \in Handlers : requests[h].pc = "idle"
    BY DEF Init, Idle
  <2>2. \A c \in Credentials : ~row[c].securePdfEnabled
    BY DEF Init, NoRow
  <2> QED
    BY <2>1, <2>2 DEF ReadInv, Current, SecurePdfSticks
<1> QED
  BY <1>1, ReadStep, BaseAlways, PTL DEF Spec

\* A registered secure PDF stays what the chain is to prove, but for files that
\* were being made again at that moment.
THEOREM SecurePdfsStick == Spec => []SecurePdfSticks
  BY ReadAlways, PTL DEF ReadInv

-----------------------------------------------------------------------------
(* How a revocation goes on *)

LEMMA LogsGrow ==
    ASSUME BaseInv, [Next]_vars
    PROVE  audit \subseteq audit' /\ \A c \in Credentials : queue[c] \subseteq queue'[c]
<1>0. queue \in [Credentials ->
                   SUBSET {"anchor", "anchorFailed", "revoke", "revokeFailed"}]
  BY DEF BaseInv, TypeInv, TypeOK
<1>1. ASSUME NEW h \in Handlers, Issue(h)
      PROVE  audit \subseteq audit' /\ \A c \in Credentials : queue[c] \subseteq queue'[c]
  BY <1>0, <1>1 DEF Issue, Create, NextRow, BulkIssue, CreateBatch, FinishBatch,
     PersistAssets, PersistAssetsFails, Insert, InsertFails, EnqueueAnchor,
     EnqueueAnchorFails, MarkQueueFailure, MarkQueueFailureFails, Cleanup,
     CleanupFails, ReadBack, ReadBackFails, AuditIssue, Logs, stores
<1>2. ASSUME NEW h \in Handlers, Withdraw(h)
      PROVE  audit \subseteq audit' /\ \A c \in Credentials : queue[c] \subseteq queue'[c]
  BY <1>0, <1>2 DEF Withdraw, Revoke, BulkRevoke, Remove, Begin, AuditRevoke,
     RefreshMetadata, EnqueueRevoke, EnqueueRevokeFails, MarkRevokeFailure,
     AuditRemove, BulkStepFails, RevokeRow, RemoveRow, Logs, stores
<1> QED
  BY <1>1, <1>2 DEF Next, Regenerate, RefreshFiles, RefreshRow, Dies,
     RegisterSecurePdf, vars, stores

\* A request that is revoking a credential has just revoked the row, or was
\* revoking it before.
LEMMA Revoking ==
    ASSUME BaseInv, [Next]_vars, NEW h \in Handlers,
           requests'[h].kind \in Revokes, requests'[h].credential # None
    PROVE  LET q == requests[h]
               r == requests'[h]
           IN  /\ r.kind = q.kind
               /\ \/ r = q
                  \/ /\ RevokeRow(h, r.credential)
                     /\ r.pc = IF q.kind = "revoke" THEN "auditRevoke"
                                                    ELSE "enqueueRevoke"
                  \/ /\ r.credential = q.credential
                     /\ \/ AuditRevoke(h) /\ r.pc = "metadata"
                        \/ RefreshMetadata(h) /\ r.pc = "enqueueRevoke"
                        \/ EnqueueRevokeFails(h) /\ r.pc = "markRevoke"
<1> DEFINE q == requests[h]
           r == requests'[h]
<1>0. /\ requests \in [Handlers -> Request] /\ q \in Request /\ Role(q)
      /\ TypeInv
  BY DEF BaseInv, TypeInv, TypeOK, WellFormed
<1>1. CASE r = q
  BY <1>1
<1>2. ASSUME NEW g \in Handlers, Issue(g)
      PROVE  r = q
  BY <1>0, <1>2, IssueMoves DEF OnlyMoves, Issues, Revokes
<1>3. ASSUME NEW g \in Handlers, Withdraw(g), g # h
      PROVE  r = q
  BY <1>0, <1>3, WithdrawMoves DEF OnlyMoves
<1>4. ASSUME Withdraw(h)
      PROVE  \/ r.kind = q.kind /\ RevokeRow(h, r.credential)
                /\ r.pc = IF q.kind = "revoke" THEN "auditRevoke"
                                               ELSE "enqueueRevoke"
             \/ /\ r.kind = q.kind /\ r.credential = q.credential
                /\ \/ AuditRevoke(h) /\ r.pc = "metadata"
                   \/ RefreshMetadata(h) /\ r.pc = "enqueueRevoke"
                   \/ EnqueueRevokeFails(h) /\ r.pc = "markRevoke"
  <2>1. \A kind, pc, ids : Begin(h, kind, pc, ids) => r.credential = None
    BY <1>0 DEF Begin, Idle
  <2>2. \A c : Next1(h, c) => r.credential = None
    BY <1>0 DEF Next1, Idle
  <2>3. \A c, pc : Proceed(h, c, pc) =>
           r.pc = pc /\ r.credential = c /\ r.kind = q.kind
    BY <1>0 DEF Proceed, Request
  <2>4. \A pc : Goto(h, pc) =>
           r.pc = pc /\ r.credential = q.credential /\ r.kind = q.kind
    BY <1>0 DEF Goto, Request
  <2>5. ASSUME NEW c \in Credentials, RevokeRow(h, c)
        PROVE  /\ r.credential = c /\ r.kind = q.kind
               /\ r.pc = IF q.kind = "revoke" THEN "auditRevoke"
                                              ELSE "enqueueRevoke"
    BY <2>3, <2>5 DEF RevokeRow
  <2>6. ASSUME NEW c \in Credentials, RemoveRow(h, c)
        PROVE  FALSE
    BY <1>0, <2>3, <2>6 DEF RemoveRow, At, Role, Revokes
  <2>7. ASSUME NEW c \in Credentials, Revoke(h, c)
        PROVE  FALSE
    BY <2>1, <2>7 DEF Revoke
  <2>8. ASSUME NEW ids \in SUBSET Credentials, BulkRevoke(h, ids) \/ Remove(h, ids)
        PROVE  FALSE
    BY <2>1, <2>8 DEF BulkRevoke, Remove
  <2>9. ASSUME NEW c \in Credentials, BulkStepFails(h, c)
        PROVE  FALSE
    BY <2>2, <2>9 DEF BulkStepFails
  <2>10. ~EnqueueRevoke(h) /\ ~MarkRevokeFailure(h) /\ ~AuditRemove(h)
    BY <2>2 DEF EnqueueRevoke, MarkRevokeFailure, AuditRemove
  <2>11. AuditRevoke(h) => r.pc = "metadata"
         /\ r.credential = q.credential /\ r.kind = q.kind
    BY <2>4 DEF AuditRevoke
  <2>12. RefreshMetadata(h) => r.pc = "enqueueRevoke"
         /\ r.credential = q.credential /\ r.kind = q.kind
    BY <2>4 DEF RefreshMetadata
  <2>13. EnqueueRevokeFails(h) => r.pc = "markRevoke"
         /\ r.credential = q.credential /\ r.kind = q.kind
    BY <2>4 DEF EnqueueRevokeFails
  <2> QED
    BY <1>4, <2>5, <2>6, <2>7, <2>8, <2>9, <2>10, <2>11, <2>12, <2>13
    DEF Withdraw
<1>5. ASSUME NEW g \in Handlers, NEW c \in Credentials, Regenerate(g, c)
      PROVE  r = q
  BY <1>0, <1>5 DEF Regenerate, Idle, Revokes
<1>6. ASSUME NEW g \in Handlers, RefreshFiles(g)
      PROVE  r = q
  <2>1. CASE g # h
    BY <1>0, <1>6, <2>1 DEF RefreshFiles, Goto
  <2>2. CASE g = h
    <3>1. r.kind = q.kind
      BY <1>0, <1>6, <2>2 DEF RefreshFiles, Goto, Request
    <3> QED
      BY <1>0, <1>6, <2>2, <3>1 DEF RefreshFiles, At, Role, Revokes
  <2> QED
    BY <2>1, <2>2
<1>7. ASSUME NEW g \in Handlers, RefreshRow(g) \/ Dies(g)
      PROVE  r = q
  BY <1>0, <1>7 DEF RefreshRow, Dies, Ends, Idle, Revokes
<1>8. ASSUME NEW c \in Credentials, RegisterSecurePdf(c)
      PROVE  r = q
  BY <1>8 DEF RegisterSecurePdf
<1> QED
  BY <1>1, <1>2, <1>3, <1>4, <1>5, <1>6, <1>7, <1>8 DEF Next, vars

\* One that lets go of a credential it was revoking has left it a job or the
\* mark of a failed one, or has left it unfinished.
LEMMA Releasing ==
    ASSUME BaseInv, [Next]_vars, NEW h \in Handlers,
           requests[h].kind \in Revokes, requests[h].credential # None
    PROVE  LET q == requests[h]
               r == requests'[h]
           IN  \/ r.kind = q.kind /\ r.credential = q.credential
               \/ q.credential \in unfinished'
               \/ /\ q.pc \in {"enqueueRevoke", "markRevoke"}
                  /\ queue'[q.credential] \cap {"revoke", "revokeFailed"} # {}
<1> DEFINE q == requests[h]
           r == requests'[h]
           Kept == r.kind = q.kind /\ r.credential = q.credential
           Left == q.credential \in unfinished'
           Done == /\ q.pc \in {"enqueueRevoke", "markRevoke"}
                   /\ queue'[q.credential] \cap {"revoke", "revokeFailed"} # {}
<1>0. /\ requests \in [Handlers -> Request] /\ q \in Request /\ Role(q)
      /\ q.credential \in Credentials /\ TypeInv
      /\ queue \in [Credentials ->
                      SUBSET {"anchor", "anchorFailed", "revoke", "revokeFailed"}]
  BY DEF BaseInv, TypeInv, TypeOK, WellFormed, Request
<1>1. ASSUME NEW g \in Handlers, Issue(g)
      PROVE  Kept
  BY <1>0, <1>1, IssueMoves DEF OnlyMoves, Issues, Revokes
<1>2. ASSUME NEW g \in Handlers, Withdraw(g), g # h
      PROVE  Kept
  BY <1>0, <1>2, WithdrawMoves DEF OnlyMoves
<1>3. ASSUME Withdraw(h)
      PROVE  Kept \/ Left \/ Done
  <2>1. \A pc : Goto(h, pc) => Kept
    BY <1>0 DEF Goto, Request
  <2>2. ASSUME NEW c \in Credentials, RevokeRow(h, c) \/ RemoveRow(h, c)
        PROVE  FALSE
    BY <1>0, <2>2 DEF RevokeRow, RemoveRow, At, Role
  <2>3. \A kind, pc, ids : ~Begin(h, kind, pc, ids)
    BY <1>0 DEF Begin, At, Role, Revokes
  <2>4. ASSUME NEW c \in Credentials, BulkStepFails(h, c)
        PROVE  Left
    BY <1>0, <2>4 DEF BulkStepFails, Fault
  <2>5. CASE EnqueueRevoke(h)
    BY <1>0, <2>5 DEF EnqueueRevoke, At
  <2>6. CASE MarkRevokeFailure(h)
    BY <1>0, <2>6 DEF MarkRevokeFailure, At
  <2>7. ~AuditRemove(h)
    BY <1>0 DEF AuditRemove, At, Role, Revokes
  <2> QED
    BY <1>3, <2>1, <2>2, <2>3, <2>4, <2>5, <2>6, <2>7
    DEF Withdraw, Revoke, BulkRevoke, Remove, AuditRevoke, RefreshMetadata,
        EnqueueRevokeFails
<1>4. ASSUME NEW g \in Handlers, NEW c \in Credentials, Regenerate(g, c)
      PROVE  Kept
  BY <1>0, <1>4 DEF Regenerate, At, Role, Revokes
<1>5. ASSUME NEW g \in Handlers, RefreshFiles(g)
      PROVE  Kept
  BY <1>0, <1>5 DEF RefreshFiles, Goto, Request
<1>6. ASSUME NEW g \in Handlers, RefreshRow(g)
      PROVE  Kept
  BY <1>0, <1>6 DEF RefreshRow, Ends, At, Role, Revokes
<1>7. ASSUME NEW g \in Handlers, Dies(g)
      PROVE  Kept \/ Left
  BY <1>0, <1>7, IssuanceAssumption DEF Dies, Ends, Fault
<1>8. ASSUME NEW c \in Credentials, RegisterSecurePdf(c)
      PROVE  Kept
  BY <1>8 DEF RegisterSecurePdf
<1>9. CASE UNCHANGED vars
  BY <1>9 DEF vars
<1> QED
  BY <1>1, <1>2, <1>3, <1>4, <1>5, <1>6, <1>7, <1>8, <1>9 DEF Next

\* What becomes revoked is being revoked by somebody.
LEMMA Revoked ==
    ASSUME BaseInv, [Next]_vars, NEW c \in Credentials,
           row'[c].revoked, ~row[c].revoked
    PROVE  \E h \in Handlers :
              /\ RevokeRow(h, c)
              /\ requests'[h].credential = c
              /\ requests'[h].kind = requests[h].kind
              /\ requests[h].kind \in Revokes
<1>0. row \in [Credentials -> Row] /\ requests \in [Handlers -> Request]
      /\ WellFormed
  BY DEF BaseInv, TypeInv, TypeOK
<1>1. \A h \in Handlers : ~Inserted(h)
  BY <1>0 DEF Inserted, NoRow
<1>2. \A h \in Handlers, d \in Credentials : ~RemoveRow(h, d)
  BY <1>0 DEF RemoveRow, Row
<1>3. \A d \in Credentials : ~RegisterSecurePdf(d)
  BY <1>0 DEF RegisterSecurePdf, Row
<1>4. \A h \in Handlers : ~RefreshRow(h)
  BY <1>0 DEF RefreshRow, Row
<1>5. \A h \in Handlers, d \in Credentials : RevokeRow(h, d) => d = c
  BY <1>0 DEF RevokeRow
<1>6. PICK h \in Handlers : RevokeRow(h, c)
  BY <1>1, <1>2, <1>3, <1>4, <1>5, RowSteps
<1>7. \E pc : Proceed(h, c, pc)
  BY <1>6 DEF RevokeRow
<1>8. requests'[h].credential = c /\ requests'[h].kind = requests[h].kind
  BY <1>0, <1>7 DEF Proceed, Request
<1>9. requests[h].kind \in Revokes
  BY <1>0, <1>6 DEF RevokeRow, At, WellFormed, Role
<1> QED
  BY <1>6, <1>8, <1>9

-----------------------------------------------------------------------------
(* Revocations are recorded *)

\* A revocation that is past its audit entry has it.
Recorded(q) ==
    /\ q.kind = "revoke" /\ q.pc \in {"metadata", "enqueueRevoke", "markRevoke"}
          => \/ Logged("REVOKED", q.credential) \in audit
             \/ q.credential \in unfinished
    /\ q.kind = "bulkRevoke" /\ q.pc \in {"enqueueRevoke", "markRevoke"}
          => Logged("BULK_REVOKED", q.credential) \in audit

RecordInv == (\A h \in Handlers : Recorded(requests[h])) /\ RevocationsAreRecorded

LEMMA RecordStep == BaseInv /\ RecordInv /\ [Next]_vars => RecordInv'
<1> SUFFICES ASSUME BaseInv, RecordInv, [Next]_vars
             PROVE  RecordInv'
  OBVIOUS
<1>0. /\ WellFormed /\ WellFormed' /\ requests' \in [Handlers -> Request]
      /\ audit \subseteq audit' /\ unfinished \subseteq unfinished'
      /\ \A c \in Credentials : queue[c] \subseteq queue'[c]
  BY BaseStep, LogsGrow, HistoryGrows DEF BaseInv, TypeInv, TypeOK
<1>1. ASSUME NEW h \in Handlers
      PROVE  Recorded(requests[h])'
  <2> DEFINE q == requests[h]
             r == requests'[h]
  <2> SUFFICES ASSUME r.kind \in Revokes,
                      r.pc \in {"metadata", "enqueueRevoke", "markRevoke"}
               PROVE  Recorded(requests[h])'
    BY DEF Recorded, Revokes
  <2>1. r.credential \in Credentials /\ r.credential # None
    BY <1>0, IssuanceAssumption DEF WellFormed, Role
  <2>2. Recorded(q)
    BY DEF RecordInv
  <2>3. CASE r = q
    BY <1>0, <2>2, <2>3 DEF Recorded
  <2>4. CASE RevokeRow(h, r.credential) /\ r.kind = q.kind
             /\ r.pc = IF q.kind = "revoke" THEN "auditRevoke"
                                            ELSE "enqueueRevoke"
    BY <2>4 DEF RevokeRow, Recorded
  <2>5. CASE r.kind = q.kind /\ r.credential = q.credential /\ AuditRevoke(h)
    <3>1. q.kind = "revoke"
      BY <1>0, <2>5 DEF AuditRevoke, At, WellFormed, Role
    <3> QED
      BY <2>1, <2>5, <3>1 DEF AuditRevoke, Recorded, Logs, Fault
  <2>6. CASE r.kind = q.kind /\ r.credential = q.credential
             /\ (RefreshMetadata(h) \/ EnqueueRevokeFails(h))
    <3>1. q.kind = "revoke" \/ q.pc = "enqueueRevoke"
      BY <1>0, <2>6
      DEF RefreshMetadata, EnqueueRevokeFails, At, WellFormed, Role
    <3>2. q.pc \in {"metadata", "enqueueRevoke"}
      BY <2>6 DEF RefreshMetadata, EnqueueRevokeFails, At
    <3> QED
      BY <1>0, <2>2, <2>6, <3>1, <3>2 DEF Recorded
  <2> QED
    BY <2>1, <2>3, <2>4, <2>5, <2>6, Revoking
<1>2. ASSUME NEW c \in Credentials, row'[c].revoked, c \notin unfinished'
      PROVE  /\ Audited(c)' \/ HeldBy(c, {"revoke"})'
             /\ \/ queue'[c] \cap {"revoke", "revokeFailed"} # {}
                \/ HeldBy(c, Revokes)'
  <2>0. c # None
    BY IssuanceAssumption
  <2>1. CASE ~row[c].revoked
    <3>1. PICK h \in Handlers : /\ RevokeRow(h, c)
                                /\ requests'[h].credential = c
                                /\ requests'[h].kind = requests[h].kind
                                /\ requests[h].kind \in Revokes
      BY <1>2, <2>1, Revoked
    <3>2. HeldBy(c, Revokes)'
      BY <3>1 DEF HeldBy
    <3>3. CASE requests[h].kind = "revoke"
      BY <3>1, <3>2, <3>3 DEF HeldBy
    <3>4. CASE requests[h].kind # "revoke"
      BY <3>1, <3>2, <3>4 DEF RevokeRow, Audited
    <3> QED
      BY <3>3, <3>4
  <2>2. CASE row[c].revoked
    <3>1. /\ Audited(c) \/ HeldBy(c, {"revoke"})
          /\ \/ queue[c] \cap {"revoke", "revokeFailed"} # {}
             \/ HeldBy(c, Revokes)
      BY <1>0, <1>2, <2>2 DEF RecordInv, RevocationsAreRecorded, Revokes
    <3>2. Audited(c) => Audited(c)'
      BY <1>0 DEF Audited
    <3>3. ASSUME NEW h \in Handlers, requests[h].kind \in Revokes,
                 requests[h].credential = c
          PROVE  \/ /\ requests'[h].kind = requests[h].kind
                    /\ requests'[h].credential = c
                 \/ /\ queue'[c] \cap {"revoke", "revokeFailed"} # {}
                    /\ Audited(c)'
      <4>1. CASE /\ requests[h].pc \in {"enqueueRevoke", "markRevoke"}
                 /\ queue'[c] \cap {"revoke", "revokeFailed"} # {}
        BY <1>0, <1>2, <3>3, <4>1 DEF RecordInv, Recorded, Revokes, Audited
      <4> QED
        BY <1>2, <2>0, <3>3, <4>1, Releasing
    <3>4. Audited(c)' \/ HeldBy(c, {"revoke"})'
      BY <3>1, <3>2, <3>3 DEF HeldBy, Revokes
    <3>5. queue'[c] \cap {"revoke", "revokeFailed"} # {} \/ HeldBy(c, Revokes)'
      BY <1>0, <3>1, <3>3 DEF HeldBy
    <3> QED
      BY <3>4, <3>5
  <2> QED
    BY <2>1, <2>2
<1> QED
  BY <1>1, <1>2 DEF RecordInv, RevocationsAreRecorded, Revokes

\* A revocation that is over has its audit entry and its job, or the mark that
\* the job failed, but for a failure that nothing handled.
THEOREM RevocationsRecorded == Spec => []RevocationsAreRecorded
<1>1. Init => RecordInv
  <2> SUFFICES ASSUME Init
               PROVE  RecordInv
    OBVIOUS
  <2>1. \A h \in Handlers : requests[h].kind = "none"
    BY DEF Init, Idle
  <2>2. \A c \in Credentials : ~row[c].revoked
    BY DEF Init, NoRow
  <2> QED
    BY <2>1, <2>2 DEF RecordInv, Recorded, RevocationsAreRecorded
<1> QED
  BY <1>1, RecordStep, BaseAlways, PTL DEF Spec, RecordInv

-----------------------------------------------------------------------------
(* What the public metadata says *)

\* The steps that change files.
LEMMA FileSteps ==
    ASSUME [Next]_vars
    PROVE  \/ UNCHANGED files
           \/ \E h \in Handlers, c \in Credentials :
                 /\ Fresh(c) /\ At(h, "assets")
                 /\ \/ PersistAssets(h, c)
                    \/ \E f \in Files : PersistAssetsFails(h, c, f)
           \/ \E h \in Handlers : Cleanup(h)
           \/ \E h \in Handlers : RefreshMetadata(h)
           \/ \E h \in Handlers : RefreshFiles(h)
<1>1. ASSUME NEW h \in Handlers, Issue(h)
      PROVE  \/ UNCHANGED files
             \/ \E c \in Credentials :
                   /\ Fresh(c) /\ At(h, "assets")
                   /\ \/ PersistAssets(h, c)
                      \/ \E f \in Files : PersistAssetsFails(h, c, f)
             \/ Cleanup(h)
  <2>1. ASSUME NEW c \in Credentials, PersistAssets(h, c)
        PROVE  Fresh(c) /\ At(h, "assets")
    BY <2>1 DEF PersistAssets
  <2>2. ASSUME NEW c \in Credentials, NEW f \in Files,
               PersistAssetsFails(h, c, f)
        PROVE  Fresh(c) /\ At(h, "assets")
    BY <2>2 DEF PersistAssetsFails
  <2> QED
    BY <1>1, <2>1, <2>2 DEF Issue, Create, NextRow, BulkIssue, CreateBatch,
       FinishBatch, Insert, InsertFails, EnqueueAnchor, EnqueueAnchorFails,
       MarkQueueFailure, MarkQueueFailureFails, CleanupFails, ReadBack,
       ReadBackFails, AuditIssue, stores
<1>2. ASSUME NEW h \in Handlers, Withdraw(h)
      PROVE  UNCHANGED files \/ RefreshMetadata(h)
  BY <1>2 DEF Withdraw, Revoke, BulkRevoke, Remove, Begin, AuditRevoke,
     EnqueueRevoke, EnqueueRevokeFails, MarkRevokeFailure, AuditRemove,
     BulkStepFails, RevokeRow, RemoveRow, stores
<1> QED
  BY <1>1, <1>2 DEF Next, Regenerate, RefreshRow, Dies, RegisterSecurePdf,
     vars, stores

\* A revocation that is past the metadata has rewritten it.
Told(q) ==
    q.kind = "revoke" /\ q.pc \in {"enqueueRevoke", "markRevoke"} =>
        \/ files[q.credential].metadata # "valid"
        \/ q.credential \in unfinished \cup overlapped

MetaInv == (\A h \in Handlers : Told(requests[h])) /\ MetadataTellsRevocation

\* What a step does to the metadata of a credential that exists: none makes a
\* revoked credential's metadata valid unless it is overlapped.
LEMMA MetadataMoves ==
    ASSUME BaseInv, ReadInv, [Next]_vars, NEW c \in Exists
    PROVE  \/ files'[c].metadata = files[c].metadata
           \/ files'[c].metadata = "none"
           \/ files'[c].metadata = "revoked" /\ row[c].revoked
           \/ /\ files'[c].metadata = "valid"
              /\ c \in overlapped \/ ~row[c].revoked
<1>0. /\ c \in Credentials /\ row[c].state # "absent"
      /\ files \in [Credentials -> Files]
      /\ FateInv
  BY DEF Exists, BaseInv, TypeInv, TypeOK
<1>1. CASE UNCHANGED files
  BY <1>1
<1>2. ASSUME NEW h \in Handlers, NEW d \in Credentials, Fresh(d),
             \/ PersistAssets(h, d)
             \/ \E f \in Files : PersistAssetsFails(h, d, f)
      PROVE  files'[c] = files[c]
  BY <1>0, <1>2 DEF Fresh, PersistAssets, PersistAssetsFails
<1>3. ASSUME NEW h \in Handlers, Cleanup(h)
      PROVE  files'[c] = files[c] \/ files'[c].metadata = "none"
  BY <1>0, <1>3 DEF Cleanup, NoFiles
<1>4. ASSUME NEW h \in Handlers, RefreshMetadata(h)
      PROVE  \/ files'[c] = files[c]
             \/ files'[c].metadata = "revoked" /\ row[c].revoked
  <2>1. row[requests[h].credential].revoked
    BY <1>0, <1>4 DEF RefreshMetadata, At, FateInv, Fate
  <2> QED
    BY <1>0, <1>4, <2>1 DEF RefreshMetadata, Files
<1>5. ASSUME NEW h \in Handlers, RefreshFiles(h)
      PROVE  \/ files'[c] = files[c]
             \/ files'[c].metadata = "revoked" /\ row[c].revoked
             \/ /\ files'[c].metadata = "valid"
                /\ c \in overlapped \/ ~row[c].revoked
  <2>1. Current(requests[h]) /\ requests[h].pc = "regenerate"
    BY <1>5 DEF ReadInv, RefreshFiles, At
  <2> QED
    BY <1>0, <1>5, <2>1 DEF RefreshFiles, Current
<1> QED
  BY <1>1, <1>2, <1>3, <1>4, <1>5, FileSteps

\* Nothing but a regeneration says that a credential is revoked, or a
\* revocation, of one that is there.
LEMMA MetadataOfNone ==
    ASSUME BaseInv, ReadInv, [Next]_vars, NEW c \in Credentials \ Exists,
           files'[c].metadata = "revoked"
    PROVE  files[c].metadata = "revoked"
<1>0. /\ files \in [Credentials -> Files] /\ FateInv
  BY DEF BaseInv, TypeInv, TypeOK
<1>1. CASE UNCHANGED files
  BY <1>1
<1>2. ASSUME NEW h \in Handlers, NEW d \in Credentials,
             \/ PersistAssets(h, d)
             \/ \E f \in Files : PersistAssetsFails(h, d, f)
      PROVE  files[c].metadata = "revoked"
  BY <1>0, <1>2 DEF PersistAssets, PersistAssetsFails
<1>3. ASSUME NEW h \in Handlers, Cleanup(h)
      PROVE  files[c].metadata = "revoked"
  BY <1>0, <1>3 DEF Cleanup, NoFiles
<1>4. ASSUME NEW h \in Handlers, RefreshMetadata(h) \/ RefreshFiles(h)
      PROVE  files[c].metadata = "revoked"
  <2>1. requests[h].credential \in Exists
    BY <1>0, <1>4 DEF RefreshMetadata, RefreshFiles, At, FateInv, Fate
  <2> QED
    BY <1>0, <1>4, <2>1 DEF RefreshMetadata, RefreshFiles
<1> QED
  BY <1>1, <1>2, <1>3, <1>4, FileSteps

LEMMA MetaStep == BaseInv /\ ReadInv /\ MetaInv /\ [Next]_vars => MetaInv'
<1> SUFFICES ASSUME BaseInv, ReadInv, MetaInv, [Next]_vars
             PROVE  MetaInv'
  OBVIOUS
<1>0. /\ WellFormed /\ WellFormed' /\ FateInv /\ FateInv'
      /\ files \in [Credentials -> Files]
      /\ requests \in [Handlers -> Request]
      /\ audit \subseteq audit' /\ unfinished \subseteq unfinished'
      /\ overlapped \subseteq overlapped' /\ RowsGrow
      /\ \A c \in Credentials \ Exists : ~row[c].revoked
  <2>1. \A c \in Credentials \ Exists : ~row[c].revoked
    BY DEF BaseInv, FateInv, NoRow
  <2>2. BaseInv' /\ RowsGrow
    BY BaseStep
  <2>3. /\ audit \subseteq audit' /\ unfinished \subseteq unfinished'
        /\ overlapped \subseteq overlapped'
    BY LogsGrow, HistoryGrows
  <2> QED
    BY <2>1, <2>2, <2>3 DEF BaseInv, TypeInv, TypeOK
<1>1. ASSUME NEW h \in Handlers
      PROVE  Told(requests[h])'
  <2> DEFINE q == requests[h]
             r == requests'[h]
             c == r.credential
  <2> SUFFICES ASSUME r.kind = "revoke", r.pc \in {"enqueueRevoke", "markRevoke"},
                      c \notin unfinished' \cup overlapped'
               PROVE  files'[c].metadata # "valid"
    BY DEF Told
  <2>1. c \in Credentials /\ c # None
    BY <1>0, IssuanceAssumption DEF WellFormed, Role
  <2>2. ASSUME q.kind = "revoke", q.credential = c,
               q.pc \in {"enqueueRevoke", "markRevoke"}
        PROVE  files'[c].metadata # "valid"
    <3>1. c \in Exists /\ row[c].revoked
      BY <1>0, <2>2 DEF FateInv, Fate
    <3>2. files[c].metadata # "valid"
      BY <1>0, <2>2 DEF MetaInv, Told
    <3> QED
      BY <1>0, <3>1, <3>2, MetadataMoves
  <2>3. CASE RefreshMetadata(h) /\ c = q.credential
    BY <1>0, <2>1, <2>3 DEF RefreshMetadata, Files
  <2>4. CASE EnqueueRevokeFails(h) /\ c = q.credential /\ q.kind = "revoke"
    BY <2>2, <2>4 DEF EnqueueRevokeFails, At
  <2> QED
    BY <2>1, <2>2, <2>3, <2>4, Revoking DEF Revokes
<1>2. ASSUME NEW c \in Credentials, files'[c].metadata = "revoked"
      PROVE  row'[c].revoked
  <2>1. row[c].revoked /\ c \in Exists
    <3>1. files[c].metadata = "revoked" => row[c].revoked
      BY DEF MetaInv, MetadataTellsRevocation
    <3>2. c \in Exists
      BY <1>0, <1>2, <3>1, MetadataOfNone
    <3> QED
      BY <1>2, <3>1, <3>2, MetadataMoves
  <2> QED
    BY <1>0, <2>1 DEF RowsGrow
<1>3. ASSUME NEW c \in Credentials, row'[c].revoked,
             files'[c].metadata = "valid",
             Logged("BULK_REVOKED", c) \notin audit',
             c \notin unfinished' \cup overlapped'
      PROVE  HeldBy(c, {"revoke"})'
  <2>0. c # None
    BY IssuanceAssumption
  <2>1. CASE ~row[c].revoked
    <3>1. PICK h \in Handlers : /\ RevokeRow(h, c)
                                /\ requests'[h].credential = c
                                /\ requests'[h].kind = requests[h].kind
                                /\ requests[h].kind \in Revokes
      BY <1>3, <2>1, Revoked
    <3>2. requests[h].kind = "revoke"
      BY <1>3, <3>1 DEF RevokeRow
    <3> QED
      BY <3>1, <3>2 DEF HeldBy
  <2>2. CASE row[c].revoked
    <3>1. c \in Exists
      BY <1>0, <2>2
    <3>2. files[c].metadata = "valid"
      BY <1>0, <1>3, <2>2, <3>1, MetadataMoves
    <3>3. PICK h \in Handlers : /\ requests[h].kind = "revoke"
                                /\ requests[h].credential = c
      BY <1>0, <1>3, <2>2, <3>2
      DEF MetaInv, MetadataTellsRevocation, HeldBy
    <3>4. requests[h].pc \notin {"enqueueRevoke", "markRevoke"}
      BY <1>0, <1>3, <3>2, <3>3 DEF MetaInv, Told
    <3>5. requests'[h].kind = "revoke" /\ requests'[h].credential = c
      BY <1>3, <2>0, <3>3, <3>4, Releasing DEF Revokes
    <3> QED
      BY <3>5 DEF HeldBy
  <2> QED
    BY <2>1, <2>2
<1> QED
  BY <1>1, <1>2, <1>3 DEF MetaInv, MetadataTellsRevocation

\* The public metadata never calls a good credential revoked, nor a revoked one
\* good, but in the cases that the property names.
THEOREM MetadataHonest == Spec => []MetadataTellsRevocation
<1>1. Init => MetaInv
  <2> SUFFICES ASSUME Init
               PROVE  MetaInv
    OBVIOUS
  <2>1. \A h \in Handlers : requests[h].kind = "none"
    BY DEF Init, Idle
  <2>2. \A c \in Credentials : ~row[c].revoked /\ files[c].metadata = "none"
    BY DEF Init, NoRow, NoFiles
  <2> QED
    BY <2>1, <2>2 DEF MetaInv, Told, MetadataTellsRevocation
<1> QED
  BY <1>1, MetaStep, ReadAlways, BaseAlways, PTL DEF Spec, MetaInv

-----------------------------------------------------------------------------
(* The files of what was issued *)

\* What a row's end leaves of the request.
LEMMA RowEndsTo ==
    ASSUME BaseInv, NEW h \in Handlers, NEW result, RowEnds(h, result)
    PROVE  \/ requests'[h].credential = None
           \/ /\ requests[h].kind # "bulkIssue" /\ result = "ISSUED"
              /\ requests'[h].pc = "auditIssue"
              /\ requests'[h].kind = requests[h].kind
              /\ requests'[h].credential = requests[h].credential
<1> DEFINE q == requests[h]
<1>0. requests \in [Handlers -> Request] /\ q \in Request
  BY DEF BaseInv, TypeInv, TypeOK
<1>1. CASE q.kind = "bulkIssue"
  BY <1>0, <1>1 DEF RowEnds, Idle
<1>2. CASE q.kind # "bulkIssue" /\ result = "ISSUED"
  <2>1. requests'[h] = [q EXCEPT !.pc = "auditIssue"]
    BY <1>0, <1>2 DEF RowEnds
  <2> QED
    BY <1>0, <1>2, <2>1 DEF Request
<1>3. CASE q.kind # "bulkIssue" /\ result # "ISSUED"
  BY <1>0, <1>3 DEF RowEnds, Idle
<1> QED
  BY <1>1, <1>2, <1>3

\* A request that holds a credential it issues has just made its files, or held
\* it before.
LEMMA Making ==
    ASSUME BaseInv, [Next]_vars, NEW h \in Handlers,
           requests'[h].kind \in Issues, requests'[h].credential # None
    PROVE  LET q == requests[h]
               r == requests'[h]
           IN  \/ r = q
               \/ PersistAssets(h, r.credential)
               \/ /\ r.kind = q.kind /\ r.credential = q.credential
                  /\ \/ Insert(h) /\ Taken(q.pair) /\ r.pc = "cleanup"
                     \/ Insert(h) /\ ~Taken(q.pair) /\ r.pc = "enqueue"
                     \/ InsertFails(h) /\ r.pc = "cleanup"
                     \/ EnqueueAnchor(h) /\ r.pc = "readBack"
                     \/ EnqueueAnchorFails(h) /\ r.pc = "mark"
                     \/ MarkQueueFailure(h) /\ r.pc = "readBack"
                     \/ MarkQueueFailureFails(h) /\ r.pc = "cleanup"
                     \/ ReadBack(h) /\ r.pc = "auditIssue"
<1> DEFINE q == requests[h]
           r == requests'[h]
           Keeps == r.kind = q.kind /\ r.credential = q.credential
<1>0. /\ requests \in [Handlers -> Request] /\ q \in Request /\ Role(q)
      /\ TypeInv
  BY DEF BaseInv, TypeInv, TypeOK, WellFormed
<1>1. CASE r = q
  BY <1>1
<1>2. ASSUME NEW g \in Handlers, Withdraw(g)
      PROVE  r = q
  BY <1>0, <1>2, WithdrawMoves DEF OnlyMoves, Issues, Revokes
<1>3. ASSUME NEW g \in Handlers, Issue(g), g # h
      PROVE  r = q
  BY <1>0, <1>3, IssueMoves DEF OnlyMoves
<1>4. ASSUME Issue(h), r # q
      PROVE  \/ PersistAssets(h, r.credential)
             \/ /\ Keeps
                /\ \/ Insert(h) /\ Taken(q.pair) /\ r.pc = "cleanup"
                   \/ Insert(h) /\ ~Taken(q.pair) /\ r.pc = "enqueue"
                   \/ InsertFails(h) /\ r.pc = "cleanup"
                   \/ EnqueueAnchor(h) /\ r.pc = "readBack"
                   \/ EnqueueAnchorFails(h) /\ r.pc = "mark"
                   \/ MarkQueueFailure(h) /\ r.pc = "readBack"
                   \/ MarkQueueFailureFails(h) /\ r.pc = "cleanup"
                   \/ ReadBack(h) /\ r.pc = "auditIssue"
  <2>1. \A pc : Goto(h, pc) => r.pc = pc /\ Keeps
    BY <1>0 DEF Goto, Request
  <2>2. ASSUME NEW result, RowEnds(h, result)
        PROVE  /\ q.kind # "bulkIssue" /\ result = "ISSUED"
               /\ r.pc = "auditIssue" /\ Keeps
    BY <2>2, RowEndsTo
  <2>3. ASSUME NEW pair \in Pairs, Create(h, pair)
        PROVE  FALSE
    BY <1>0, <2>3 DEF Create, Idle
  <2>4. ASSUME NEW pair \in Pairs, NextRow(h, pair)
        PROVE  FALSE
    <3>1. r = [q EXCEPT !.pc = "assets", !.pair = pair, !.csv = q.csv \ {pair}]
      BY <1>0, <2>4 DEF NextRow
    <3> QED
      BY <1>0, <2>4, <3>1 DEF NextRow, At, Role, Request
  <2>5. ASSUME NEW csv \in SUBSET Pairs, BulkIssue(h, csv)
        PROVE  FALSE
    BY <1>0, <2>5 DEF BulkIssue, Idle
  <2>6. ~CreateBatch(h) /\ ~FinishBatch(h)
    BY <1>0, <2>1 DEF CreateBatch, FinishBatch, Ends, Idle, At, Role
  <2>7. ASSUME NEW c \in Credentials, PersistAssets(h, c)
        PROVE  r.credential = c
    BY <1>0, <2>7 DEF PersistAssets, Request
  <2>8. ASSUME NEW c \in Credentials, NEW f \in Files,
               PersistAssetsFails(h, c, f)
        PROVE  FALSE
    BY <2>2, <2>8 DEF PersistAssetsFails
  <2>9. CASE Insert(h) /\ Taken(q.pair)
    <3>1. r = [q EXCEPT !.pc = "cleanup", !.conflict = TRUE]
      BY <1>0, <2>9 DEF Insert
    <3> QED
      BY <1>0, <2>9, <3>1 DEF Request
  <2>10. CASE Insert(h) /\ ~Taken(q.pair)
    BY <2>1, <2>10 DEF Insert
  <2>11. CASE InsertFails(h)
    BY <2>1, <2>11 DEF InsertFails
  <2>12. CASE EnqueueAnchor(h)
    BY <2>1, <2>12 DEF EnqueueAnchor
  <2>13. CASE EnqueueAnchorFails(h)
    BY <2>1, <2>13 DEF EnqueueAnchorFails
  <2>14. CASE MarkQueueFailure(h)
    BY <2>1, <2>14 DEF MarkQueueFailure
  <2>15. CASE MarkQueueFailureFails(h)
    BY <2>1, <2>15 DEF MarkQueueFailureFails
  <2>16. CASE ReadBack(h)
    BY <2>2, <2>16 DEF ReadBack
  <2>17. ~Cleanup(h) /\ ~CleanupFails(h) /\ ~ReadBackFails(h)
    BY <2>2 DEF Cleanup, CleanupFails, ReadBackFails
  <2>18. ~AuditIssue(h)
    BY <1>0 DEF AuditIssue, Ends, Idle
  <2> QED
    BY <1>4, <2>3, <2>4, <2>5, <2>6, <2>7, <2>8, <2>9, <2>10, <2>11, <2>12,
       <2>13, <2>14, <2>15, <2>16, <2>17, <2>18 DEF Issue
<1>5. ASSUME NEW g \in Handlers, NEW c \in Credentials, Regenerate(g, c)
      PROVE  r = q
  BY <1>0, <1>5 DEF Regenerate, Idle, Issues
<1>6. ASSUME NEW g \in Handlers, RefreshFiles(g)
      PROVE  r = q
  <2>1. CASE g # h
    BY <1>0, <1>6, <2>1 DEF RefreshFiles, Goto
  <2>2. CASE g = h
    <3>1. r.kind = q.kind
      BY <1>0, <1>6, <2>2 DEF RefreshFiles, Goto, Request
    <3> QED
      BY <1>0, <1>6, <2>2, <3>1 DEF RefreshFiles, At, Role, Issues
  <2> QED
    BY <2>1, <2>2
<1>7. ASSUME NEW g \in Handlers, RefreshRow(g) \/ Dies(g)
      PROVE  r = q
  BY <1>0, <1>7 DEF RefreshRow, Dies, Ends, Idle, Issues
<1>8. ASSUME NEW c \in Credentials, RegisterSecurePdf(c)
      PROVE  r = q
  BY <1>8 DEF RegisterSecurePdf
<1> QED
  BY <1>1, <1>2, <1>3, <1>4, <1>5, <1>6, <1>7, <1>8 DEF Next, vars

\* Files that are all there stay so until the request that made them cleans up.
LEMMA CompleteStays ==
    ASSUME BaseInv, [Next]_vars, NEW c \in Credentials, Complete(files[c]),
           \A h \in Handlers : Cleanup(h) => requests[h].credential # c
    PROVE  Complete(files'[c])
<1>0. files \in [Credentials -> Files]
  BY DEF BaseInv, TypeInv, TypeOK
<1>1. CASE UNCHANGED files
  BY <1>1
<1>2. ASSUME NEW h \in Handlers, NEW d \in Credentials, Fresh(d),
             \/ PersistAssets(h, d)
             \/ \E f \in Files : PersistAssetsFails(h, d, f)
      PROVE  Complete(files'[c])
  <2>1. c # d
    BY <1>2 DEF Fresh, Complete, NoFiles
  <2> QED
    BY <1>0, <1>2, <2>1 DEF PersistAssets, PersistAssetsFails
<1>3. ASSUME NEW h \in Handlers, Cleanup(h)
      PROVE  Complete(files'[c])
  BY <1>0, <1>3 DEF Cleanup
<1>4. ASSUME NEW h \in Handlers, RefreshMetadata(h)
      PROVE  Complete(files'[c])
  BY <1>0, <1>4 DEF RefreshMetadata, Complete, Files
<1>5. ASSUME NEW h \in Handlers, RefreshFiles(h)
      PROVE  Complete(files'[c])
  BY <1>0, <1>5 DEF RefreshFiles, Complete
<1> QED
  BY <1>1, <1>2, <1>3, <1>4, <1>5, FileSteps

\* What has neither row nor files gets files from the request that makes all of
\* them, or is left unfinished.
LEMMA NoFilesStay ==
    ASSUME BaseInv, [Next]_vars, NEW c \in Credentials \ Exists,
           files[c] = NoFiles, c \notin unfinished'
    PROVE  files'[c] = NoFiles \/ \E h \in Handlers : PersistAssets(h, c)
<1>0. files \in [Credentials -> Files] /\ FateInv
  BY DEF BaseInv, TypeInv, TypeOK
<1>1. CASE UNCHANGED files
  BY <1>1
<1>2. ASSUME NEW h \in Handlers, NEW d \in Credentials, PersistAssets(h, d)
      PROVE  files'[c] = NoFiles \/ PersistAssets(h, c)
  BY <1>0, <1>2 DEF PersistAssets
<1>3. ASSUME NEW h \in Handlers, NEW d \in Credentials, NEW f \in Files,
             PersistAssetsFails(h, d, f)
      PROVE  files'[c] = NoFiles
  <2>1. d \in unfinished'
    BY <1>3, IssuanceAssumption DEF PersistAssetsFails, Fault
  <2> QED
    BY <1>0, <1>3, <2>1 DEF PersistAssetsFails
<1>4. ASSUME NEW h \in Handlers, Cleanup(h)
      PROVE  files'[c] = NoFiles
  BY <1>0, <1>4 DEF Cleanup
<1>5. ASSUME NEW h \in Handlers, RefreshMetadata(h) \/ RefreshFiles(h)
      PROVE  files'[c] = NoFiles
  <2>1. requests[h].credential \in Exists
    BY <1>0, <1>5 DEF RefreshMetadata, RefreshFiles, At, FateInv, Fate
  <2> QED
    BY <1>0, <1>5, <2>1 DEF RefreshMetadata, RefreshFiles
<1> QED
  BY <1>1, <1>2, <1>3, <1>4, <1>5, FileSteps

\* A row is made by the request that holds its credential.
LEMMA RowsAreInserted ==
    ASSUME BaseInv, [Next]_vars, NEW c \in Exists' \ Exists
    PROVE  \E h \in Handlers : /\ requests[h].pc = "insert"
                               /\ requests[h].kind \in Issues
                               /\ requests[h].credential = c
<1>0. row \in [Credentials -> Row] /\ WellFormed /\ TypeInv /\ FateInv
  BY DEF BaseInv, TypeInv, TypeOK
<1>1. PICK h \in Handlers : Insert(h) \/ InsertFails(h)
  BY <1>0, NoneMade DEF BaseInv
<1>2. requests[h].pc = "insert" /\ requests[h].kind \in Issues
  BY <1>0, <1>1 DEF Insert, InsertFails, At, WellFormed, Role
<1>3. UNCHANGED row \/ Inserted(h)
  BY <1>1 DEF Insert, InsertFails
<1>4. c = requests[h].credential
  BY <1>0, <1>3 DEF Inserted, Exists
<1> QED
  BY <1>2, <1>4

\* A request that lets go of a credential it issues is done with it, has
\* deleted its files, or has left it unfinished.
LEMMA LettingGo ==
    ASSUME BaseInv, [Next]_vars, NEW h \in Handlers,
           requests[h].kind \in Issues, requests[h].credential # None
    PROVE  LET q == requests[h]
               r == requests'[h]
           IN  \/ r.kind = q.kind /\ r.credential = q.credential
               \/ q.credential \in unfinished'
               \/ Cleanup(h)
               \/ q.pc \in {"readBack", "auditIssue"} /\ UNCHANGED <<row, files>>
<1> DEFINE q == requests[h]
           r == requests'[h]
           Kept == r.kind = q.kind /\ r.credential = q.credential
           Left == q.credential \in unfinished'
           Done == /\ q.pc \in {"readBack", "auditIssue"}
                   /\ UNCHANGED <<row, files>>
<1>0. /\ requests \in [Handlers -> Request] /\ q \in Request /\ Role(q)
      /\ q.credential \in Credentials /\ TypeInv
  BY DEF BaseInv, TypeInv, TypeOK, WellFormed, Request
<1>1. ASSUME NEW g \in Handlers, Withdraw(g)
      PROVE  Kept
  BY <1>0, <1>1, WithdrawMoves DEF OnlyMoves, Issues, Revokes
<1>2. ASSUME NEW g \in Handlers, Issue(g), g # h
      PROVE  Kept
  BY <1>0, <1>2, IssueMoves DEF OnlyMoves
<1>3. ASSUME Issue(h)
      PROVE  Kept \/ Left \/ Cleanup(h) \/ Done
  <2>1. \A pc : Goto(h, pc) => Kept
    BY <1>0 DEF Goto, Request
  <2>2. q.pc \notin {"idle", "batch", "rows", "assets"}
    BY <1>0 DEF Role
  <2>3. CASE Insert(h)
    <3>1. CASE Taken(q.pair)
      <4>1. r = [q EXCEPT !.pc = "cleanup", !.conflict = TRUE]
        BY <1>0, <2>3, <3>1 DEF Insert
      <4> QED
        BY <1>0, <4>1 DEF Request
    <3>2. CASE ~Taken(q.pair)
      BY <2>1, <2>3, <3>2 DEF Insert
    <3> QED
      BY <3>1, <3>2
  <2>4. CASE CleanupFails(h) \/ ReadBackFails(h)
    BY <1>0, <2>4, IssuanceAssumption DEF CleanupFails, ReadBackFails, Fault
  <2>5. CASE ReadBack(h) \/ AuditIssue(h)
    BY <2>5 DEF ReadBack, AuditIssue, At, stores
  <2> QED
    BY <1>3, <2>1, <2>2, <2>3, <2>4, <2>5
    DEF Issue, Create, NextRow, BulkIssue, CreateBatch, FinishBatch,
        PersistAssets, PersistAssetsFails, InsertFails, EnqueueAnchor,
        EnqueueAnchorFails, MarkQueueFailure, MarkQueueFailureFails, At
<1>4. ASSUME NEW g \in Handlers, NEW c \in Credentials, Regenerate(g, c)
      PROVE  Kept
  BY <1>0, <1>4 DEF Regenerate, At, Role, Issues
<1>5. ASSUME NEW g \in Handlers, RefreshFiles(g)
      PROVE  Kept
  BY <1>0, <1>5 DEF RefreshFiles, Goto, Request
<1>6. ASSUME NEW g \in Handlers, RefreshRow(g)
      PROVE  Kept
  BY <1>0, <1>6 DEF RefreshRow, Ends, At, Role, Issues
<1>7. ASSUME NEW g \in Handlers, Dies(g)
      PROVE  Kept \/ Left
  BY <1>0, <1>7, IssuanceAssumption DEF Dies, Ends, Fault
<1>8. ASSUME NEW c \in Credentials, RegisterSecurePdf(c)
      PROVE  Kept
  BY <1>8 DEF RegisterSecurePdf
<1>9. CASE UNCHANGED vars
  BY <1>9 DEF vars
<1> QED
  BY <1>1, <1>2, <1>3, <1>4, <1>5, <1>6, <1>7, <1>8, <1>9 DEF Next

\* A credential being issued has its files, and one that is being cleaned up
\* has no row.
Keeps(q) ==
    q.kind \in Issues /\ q.credential # None /\ q.credential \notin unfinished =>
        IF q.pc = "cleanup" THEN q.credential \notin Exists
                            ELSE Complete(files[q.credential])

FilesInv == (\A h \in Handlers : Keeps(requests[h])) /\ FilesMatchRows

LEMMA FilesStep == BaseInv /\ FilesInv /\ [Next]_vars => FilesInv'
<1> SUFFICES ASSUME BaseInv, FilesInv, [Next]_vars
             PROVE  FilesInv'
  OBVIOUS
<1>0. /\ TypeInv /\ WellFormed /\ WellFormed' /\ FateInv /\ OneMaker
      /\ files \in [Credentials -> Files] /\ row \in [Credentials -> Row]
      /\ requests \in [Handlers -> Request]
      /\ requests' \in [Handlers -> Request]
      /\ unfinished \subseteq unfinished' /\ RowsGrow
  BY BaseStep, HistoryGrows DEF BaseInv, TypeInv, TypeOK, FateInv
<1>1. ASSUME NEW h \in Handlers
      PROVE  Keeps(requests[h])'
  <2> DEFINE q == requests[h]
             r == requests'[h]
             c == r.credential
  <2> SUFFICES ASSUME r.kind \in Issues, c # None, c \notin unfinished'
               PROVE  IF r.pc = "cleanup" THEN c \notin Exists'
                                          ELSE Complete(files'[c])
    BY DEF Keeps
  <2>0. c \in Credentials /\ c \notin unfinished
    BY <1>0 DEF Request
  <2>1. CASE r = q
    <3>1. IF q.pc = "cleanup" THEN c \notin Exists ELSE Complete(files[c])
      BY <2>0, <2>1 DEF FilesInv, Keeps
    <3>2. \A g \in Handlers :
             requests[g].kind \in Issues /\ requests[g].credential = c => g = h
      BY <1>0, <2>1 DEF OneMaker
    <3>3. CASE q.pc = "cleanup"
      BY <2>0, <2>1, <3>1, <3>2, <3>3, RowsAreInserted DEF Exists
    <3>4. CASE q.pc # "cleanup"
      <4>1. \A g \in Handlers : Cleanup(g) => requests[g].credential # c
        BY <1>0, <3>2, <3>4 DEF Cleanup, At, WellFormed, Role
      <4> QED
        BY <2>0, <2>1, <3>1, <3>4, <4>1, CompleteStays
    <3> QED
      BY <3>3, <3>4
  <2>2. CASE PersistAssets(h, c)
    <3>1. r = [q EXCEPT !.pc = "insert", !.credential = c]
      BY <1>0, <2>2 DEF PersistAssets
    <3>2. r.pc = "insert"
      BY <1>0, <3>1 DEF Request
    <3> QED
      BY <1>0, <2>0, <2>2, <3>2 DEF PersistAssets, Complete
  <2>3. ASSUME r.kind = q.kind, c = q.credential,
               r.pc \in {"enqueue", "readBack", "mark", "auditIssue"},
               UNCHANGED files, q.pc # "cleanup"
        PROVE  Complete(files'[c])
    BY <2>0, <2>3 DEF FilesInv, Keeps
  <2>4. ASSUME r.kind = q.kind, c = q.credential, q.pc = "insert",
               UNCHANGED row
        PROVE  c \notin Exists'
    BY <1>0, <2>4 DEF FateInv, Fate, Exists
  <2>5. CASE Insert(h) /\ Taken(q.pair) /\ r.pc = "cleanup"
             /\ r.kind = q.kind /\ c = q.credential
    BY <2>4, <2>5 DEF Insert, At
  <2>6. CASE InsertFails(h) /\ r.pc = "cleanup"
             /\ r.kind = q.kind /\ c = q.credential
    BY <2>4, <2>6 DEF InsertFails, At, Fault
  <2>7. ~(MarkQueueFailureFails(h) /\ c = q.credential)
    BY DEF MarkQueueFailureFails, FollowingFault
  <2>8. CASE /\ r.kind = q.kind /\ c = q.credential
             /\ \/ Insert(h) /\ ~Taken(q.pair) /\ r.pc = "enqueue"
                \/ EnqueueAnchor(h) /\ r.pc = "readBack"
                \/ EnqueueAnchorFails(h) /\ r.pc = "mark"
                \/ MarkQueueFailure(h) /\ r.pc = "readBack"
                \/ ReadBack(h) /\ r.pc = "auditIssue"
    BY <2>3, <2>8 DEF Insert, EnqueueAnchor, EnqueueAnchorFails,
       MarkQueueFailure, ReadBack, At, stores
  <2> QED
    BY <2>1, <2>2, <2>5, <2>6, <2>7, <2>8, Making
<1>2. ASSUME NEW c \in Credentials, ~HeldBy(c, {"create", "bulkIssue"})',
             c \notin unfinished'
      PROVE  IF c \in Exists' THEN Complete(files'[c]) ELSE files'[c] = NoFiles
  <2>0. c # None /\ c \notin unfinished
    BY <1>0, <1>2, IssuanceAssumption
  <2>1. ASSUME NEW h \in Handlers, requests[h].kind \in Issues,
               requests[h].credential = c
        PROVE  IF c \in Exists' THEN Complete(files'[c]) ELSE files'[c] = NoFiles
    <3>1. IF requests[h].pc = "cleanup" THEN c \notin Exists
                                        ELSE Complete(files[c])
      BY <2>0, <2>1 DEF FilesInv, Keeps
    <3>2. ~(requests'[h].kind = requests[h].kind
            /\ requests'[h].credential = requests[h].credential)
      BY <1>2, <2>1 DEF HeldBy, Issues
    <3>3. CASE Cleanup(h)
      BY <1>0, <2>1, <3>1, <3>3 DEF Cleanup, At, Exists
    <3>4. CASE requests[h].pc \in {"readBack", "auditIssue"}
               /\ UNCHANGED <<row, files>>
      BY <1>0, <2>1, <3>1, <3>4 DEF FateInv, Fate, Exists
    <3> QED
      BY <1>2, <2>0, <2>1, <3>2, <3>3, <3>4, LettingGo
  <2>2. ASSUME ~HeldBy(c, {"create", "bulkIssue"})
        PROVE  IF c \in Exists' THEN Complete(files'[c]) ELSE files'[c] = NoFiles
    <3>1. IF c \in Exists THEN Complete(files[c]) ELSE files[c] = NoFiles
      BY <2>0, <2>2 DEF FilesInv, FilesMatchRows, Exists
    <3>2. c \in Exists <=> c \in Exists'
      BY <1>0, <2>2, RowsAreInserted DEF HeldBy, Issues, RowsGrow
    <3>3. CASE c \in Exists
      <4>1. \A g \in Handlers : Cleanup(g) => requests[g].credential # c
        BY <1>0, <2>2 DEF Cleanup, At, WellFormed, Role, HeldBy, Issues
      <4> QED
        BY <3>1, <3>2, <3>3, <4>1, CompleteStays
    <3>4. CASE c \notin Exists
      <4>1. ASSUME NEW h \in Handlers, PersistAssets(h, c)
            PROVE  FALSE
        <5>1. requests[h].kind \in Issues
          BY <1>0, <4>1 DEF PersistAssets, At, WellFormed, Role
        <5>2. requests'[h].kind = requests[h].kind
              /\ requests'[h].credential = c
          BY <1>0, <4>1 DEF PersistAssets, Request
        <5> QED
          BY <1>2, <5>1, <5>2 DEF HeldBy, Issues
      <4> QED
        BY <1>2, <3>1, <3>2, <3>4, <4>1, NoFilesStay
    <3> QED
      BY <3>3, <3>4
  <2> QED
    BY <2>1, <2>2 DEF HeldBy, Issues
<1>3. FilesMatchRows'
  BY <1>2 DEF FilesMatchRows, Exists
<1> QED
  BY <1>1, <1>3 DEF FilesInv

\* When an issuance is over, the credential has its files if and only if it has
\* its row, unless a failure went unhandled.
THEOREM FilesFollowRows == Spec => []FilesMatchRows
<1>1. Init => FilesInv
  <2> SUFFICES ASSUME Init
               PROVE  FilesInv
    OBVIOUS
  <2>1. \A h \in Handlers : requests[h].kind = "none"
    BY DEF Init, Idle
  <2>2. \A c \in Credentials : row[c].state = "absent" /\ files[c] = NoFiles
    BY DEF Init, NoRow
  <2> QED
    BY <2>1, <2>2 DEF FilesInv, Keeps, FilesMatchRows, Issues
<1> QED
  BY <1>1, FilesStep, BaseAlways, PTL DEF Spec, FilesInv

-----------------------------------------------------------------------------
(* What a batch reports *)

LEMMA BatchSize ==
    ASSUME NEW h
    PROVE  IsFiniteSet(BatchRows(h)) /\ Cardinality(BatchRows(h)) \in Nat
<1>1. BatchRows(h) \in SUBSET Credentials
  BY DEF BatchRows
<1>2. IsFiniteSet(BatchRows(h))
  BY <1>1, FS_Subset, IssuanceAssumption
<1> QED
  BY <1>2, FS_CardinalityType

\* The insert of a request is the only step that adds to a batch, and adds the
\* credential of the request to its own.
LEMMA BatchRowsStay ==
    ASSUME BaseInv, [Next]_vars, NEW h \in Handlers,
           \/ ~(Insert(h) \/ InsertFails(h))
           \/ requests[h].kind # "bulkIssue"
           \/ UNCHANGED row
    PROVE  BatchRows(h)' = BatchRows(h)
<1>0. row \in [Credentials -> Row] /\ requests \in [Handlers -> Request]
  BY DEF BaseInv, TypeInv, TypeOK
<1>1. SUFFICES \A c \in Credentials :
                  (row'[c].batch = h) = (row[c].batch = h)
  BY DEF BatchRows
<1>2. CASE UNCHANGED row
  BY <1>2
<1>3. ASSUME NEW g \in Handlers, Inserted(g), Insert(g) \/ InsertFails(g),
             ~UNCHANGED row
      PROVE  \A c \in Credentials : (row'[c].batch = h) = (row[c].batch = h)
  <2> DEFINE new == requests[g].credential
  <2>1. row[new].batch = None /\ new \in Credentials
    <3>1. Role(requests[g])
      BY DEF BaseInv, TypeInv, WellFormed
    <3>2. new \in Credentials \ Exists
      BY <1>3, <3>1 DEF BaseInv, FateInv, Fate, Insert, InsertFails, At, Role
    <3> QED
      BY <3>2 DEF BaseInv, FateInv, NoRow
  <2>2. row'[new].batch = IF requests[g].kind = "bulkIssue" THEN g ELSE None
    BY <1>0, <1>3, <2>1 DEF Inserted, NoRow
  <2>3. \A c \in Credentials : c # new => row'[c] = row[c]
    BY <1>0, <1>3 DEF Inserted
  <2>4. None # h
    BY IssuanceAssumption
  <2>5. ~(g = h /\ requests[g].kind = "bulkIssue")
    BY <1>3
  <2> QED
    BY <2>1, <2>2, <2>3, <2>4, <2>5
<1>4. ASSUME NEW g \in Handlers, NEW c \in Credentials,
             RevokeRow(g, c) \/ RemoveRow(g, c)
      PROVE  \A d \in Credentials : row'[d].batch = row[d].batch
  BY <1>0, <1>4 DEF RevokeRow, RemoveRow, Row
<1>5. ASSUME NEW c \in Credentials, RegisterSecurePdf(c)
      PROVE  \A d \in Credentials : row'[d].batch = row[d].batch
  BY <1>0, <1>5 DEF RegisterSecurePdf, Row
<1>6. ASSUME NEW g \in Handlers, RefreshRow(g)
      PROVE  \A d \in Credentials : row'[d].batch = row[d].batch
  BY <1>0, <1>6 DEF RefreshRow, Row
<1> QED
  BY <1>2, <1>3, <1>4, <1>5, <1>6, RowSteps

LEMMA BatchRowsGrow ==
    ASSUME BaseInv, NEW h \in Handlers, Insert(h) \/ InsertFails(h),
           Inserted(h), requests[h].kind = "bulkIssue"
    PROVE  Cardinality(BatchRows(h)') = Cardinality(BatchRows(h)) + 1
<1> DEFINE new == requests[h].credential
<1>0. row \in [Credentials -> Row]
  BY DEF BaseInv, TypeInv, TypeOK
<1>1. new \in Credentials \ Exists
  <2>1. Role(requests[h])
    BY DEF BaseInv, TypeInv, WellFormed
  <2> QED
    BY <2>1 DEF BaseInv, FateInv, Fate, Insert, InsertFails, At, Role
<1>2. row[new].batch # h
  BY <1>1, IssuanceAssumption DEF BaseInv, FateInv, NoRow
<1>3. row'[new].batch = h
  BY <1>0, <1>1 DEF Inserted, NoRow
<1>4. \A c \in Credentials : c # new => row'[c] = row[c]
  BY <1>0 DEF Inserted
<1>5. BatchRows(h)' = BatchRows(h) \cup {new}
  BY <1>1, <1>3, <1>4 DEF BatchRows
<1>6. new \notin BatchRows(h)
  BY <1>2 DEF BatchRows
<1> HIDE DEF new
<1> QED
  BY <1>5, <1>6, BatchSize, FS_AddElement

\* A batch is written when it is opened and when its request is done.
LEMMA BatchSteps ==
    ASSUME [Next]_vars
    PROVE  \/ UNCHANGED batch
           \/ \E g \in Handlers : CreateBatch(g) \/ FinishBatch(g)
<1>1. ASSUME NEW g \in Handlers, Issue(g), ~CreateBatch(g), ~FinishBatch(g)
      PROVE  UNCHANGED batch
  BY <1>1 DEF Issue, Create, NextRow, BulkIssue, PersistAssets,
     PersistAssetsFails, Insert, InsertFails, EnqueueAnchor,
     EnqueueAnchorFails, MarkQueueFailure, MarkQueueFailureFails, Cleanup,
     CleanupFails, ReadBack, ReadBackFails, AuditIssue, stores
<1>2. ASSUME NEW g \in Handlers, Withdraw(g)
      PROVE  UNCHANGED batch
  BY <1>2 DEF Withdraw, Revoke, BulkRevoke, Remove, Begin, AuditRevoke,
     RefreshMetadata, EnqueueRevoke, EnqueueRevokeFails, MarkRevokeFailure,
     AuditRemove, BulkStepFails, RevokeRow, RemoveRow, stores
<1> QED
  BY <1>1, <1>2 DEF Next, Regenerate, RefreshFiles, RefreshRow, Dies,
     RegisterSecurePdf, vars, stores

\* What a bulk issuance has counted, and in which of its steps the row at hand
\* is in the table, or may be, though it is not counted yet.
Counted(q, n) ==
    LET low == q.issuedRows
        high == q.issuedRows + q.failedRows
    IN  /\ q.conflict => q.pc = "cleanup"
        /\ q.pc = "batch" => low = 0 /\ high = 0
        /\ q.pc \in {"batch", "rows", "assets", "insert"} =>
              Between(n, low, high)
        /\ q.pc \in {"enqueue", "mark", "readBack"} =>
              Between(n, low + 1, high + 1)
        /\ q.pc = "cleanup" =>
              Between(n, low, IF q.conflict THEN high ELSE high + 1)

\* A batch counts nothing until its request is done, and nothing changes after.
Bounded(q, b, n) ==
    /\ ~b.created => b = NoBatch /\ n = 0
    /\ q.kind = "bulkIssue" =>
          /\ b.created <=> q.pc # "batch"
          /\ b.issuedRows + b.failedRows = 0
          /\ Counted(q, n)
    /\ b.issuedRows + b.failedRows > 0 =>
          Between(n, b.issuedRows, b.issuedRows + b.failedRows)

BatchInv ==
    \A h \in Handlers :
        Bounded(requests[h], batch[h], Cardinality(BatchRows(h)))

\* A bulk issuance is at a step of its own, or nothing happens to it.
LEMMA BulkMoves ==
    ASSUME BaseInv, [Next]_vars, NEW h \in Handlers,
           requests'[h].kind = "bulkIssue", requests'[h] # requests[h]
    PROVE  Issue(h)
<1>0. /\ TypeInv /\ requests \in [Handlers -> Request]
      /\ Role(requests[h]) /\ requests[h] \in Request
  BY DEF BaseInv, TypeInv, TypeOK, WellFormed
<1>1. ASSUME NEW g \in Handlers, Issue(g)
      PROVE  g = h
  BY <1>0, <1>1, IssueMoves DEF OnlyMoves
<1>2. ASSUME NEW g \in Handlers, Withdraw(g)
      PROVE  FALSE
  BY <1>0, <1>2, WithdrawMoves DEF OnlyMoves, Revokes
<1>3. ASSUME NEW g \in Handlers, NEW c \in Credentials, Regenerate(g, c)
      PROVE  FALSE
  BY <1>0, <1>3 DEF Regenerate, Idle
<1>4. ASSUME NEW g \in Handlers, RefreshFiles(g)
      PROVE  FALSE
  <2>1. g = h
    BY <1>0, <1>4 DEF RefreshFiles, Goto
  <2>2. requests'[h].kind = requests[h].kind
    BY <1>0, <1>4, <2>1 DEF RefreshFiles, Goto, Request
  <2> QED
    BY <1>0, <1>4, <2>1, <2>2 DEF RefreshFiles, At, Role
<1>5. ASSUME NEW g \in Handlers, RefreshRow(g) \/ Dies(g)
      PROVE  FALSE
  BY <1>0, <1>5 DEF RefreshRow, Dies, Ends, Idle
<1>6. ASSUME NEW c \in Credentials, RegisterSecurePdf(c)
      PROVE  FALSE
  BY <1>6 DEF RegisterSecurePdf
<1> QED
  BY <1>1, <1>2, <1>3, <1>4, <1>5, <1>6 DEF Next, vars

\* The end of a row of a CSV counts it once.
LEMMA RowCounted ==
    ASSUME BaseInv, NEW h \in Handlers, NEW result, RowEnds(h, result),
           requests[h].kind = "bulkIssue"
    PROVE  LET q == requests[h]
               r == requests'[h]
           IN  /\ r.pc = "rows" /\ r.kind = "bulkIssue" /\ ~r.conflict
               /\ r.issuedRows
                     = q.issuedRows + IF result = "ISSUED" THEN 1 ELSE 0
               /\ r.failedRows
                     = q.failedRows + IF result = "FAILED" THEN 1 ELSE 0
<1>0. requests \in [Handlers -> Request]
  BY DEF BaseInv, TypeInv, TypeOK
<1> QED
  BY <1>0 DEF RowEnds, Idle

\* Within a row nothing is counted.
LEMMA CountsKept ==
    ASSUME BaseInv, NEW h \in Handlers, NEW pc, Goto(h, pc)
    PROVE  LET q == requests[h]
               r == requests'[h]
           IN  /\ r.pc = pc /\ r.kind = q.kind /\ r.conflict = q.conflict
               /\ r.issuedRows = q.issuedRows /\ r.failedRows = q.failedRows
<1>0. requests \in [Handlers -> Request] /\ requests[h] \in Request
  BY DEF BaseInv, TypeInv, TypeOK
<1> QED
  BY <1>0 DEF Goto, Request

\* A step of the issuance of h keeps the bounds of its batch.
LEMMA BatchIssues ==
    ASSUME BaseInv, BaseInv', [Next]_vars, NEW h \in Handlers, Issue(h),
           requests[h].kind \in {"none", "bulkIssue"},
           Bounded(requests[h], batch[h], Cardinality(BatchRows(h)))
    PROVE  Bounded(requests[h], batch[h], Cardinality(BatchRows(h)))'
<1> DEFINE q == requests[h]
           r == requests'[h]
           b == batch[h]
           n == Cardinality(BatchRows(h))
           m == Cardinality(BatchRows(h)')
<1>0. /\ requests \in [Handlers -> Request] /\ q \in Request /\ Role(q)
      /\ batch \in [Handlers -> Batch] /\ b \in Batch
  BY DEF BaseInv, TypeInv, TypeOK, WellFormed
<1>t. /\ q.issuedRows \in Nat /\ q.failedRows \in Nat
      /\ b.issuedRows \in Nat /\ b.failedRows \in Nat
      /\ q.conflict \in BOOLEAN /\ b.created \in BOOLEAN
  BY <1>0 DEF Request, Batch
<1>n. n \in Nat
  BY BatchSize
<1>k. /\ ~b.created => b = NoBatch /\ n = 0
      /\ q.kind = "bulkIssue" =>
            /\ b.created <=> q.pc # "batch"
            /\ b.issuedRows + b.failedRows = 0
            /\ Counted(q, n)
      /\ b.issuedRows + b.failedRows > 0 =>
            Between(n, b.issuedRows, b.issuedRows + b.failedRows)
  BY DEF Bounded
<1>s. ~Insert(h) /\ ~InsertFails(h) => m = n
  BY BatchRowsStay
\* Whoever keeps batch and table has only to answer for the request.
<1>r. ASSUME b' = b, m = n, q.kind = "bulkIssue",
             r.kind = "bulkIssue" =>
                (r.pc = "batch" <=> q.pc = "batch") /\ Counted(r, n)
      PROVE  Bounded(r, b', m)
  BY <1>k, <1>r DEF Bounded
<1>1. ASSUME NEW pair \in Pairs, Create(h, pair)
      PROVE  Bounded(r, b', m)
  <2>1. r.kind = "create" /\ b' = b /\ m = n
    BY <1>0, <1>1, <1>s DEF Create, Idle, stores, Insert, InsertFails, At
  <2> QED
    BY <1>k, <2>1 DEF Bounded
<1>2. ASSUME NEW csv \in SUBSET Pairs, BulkIssue(h, csv)
      PROVE  Bounded(r, b', m)
  <2>1. /\ r.kind = "bulkIssue" /\ r.pc = "batch" /\ ~r.conflict
        /\ r.issuedRows = 0 /\ r.failedRows = 0
        /\ b' = b /\ ~b.created /\ m = n
    BY <1>0, <1>2, <1>s DEF BulkIssue, Idle, stores, Insert, InsertFails, At
  <2> QED
    BY <1>k, <2>1 DEF Bounded, Counted, Between, NoBatch
<1>3. ASSUME NEW pair \in Pairs, NextRow(h, pair)
      PROVE  Bounded(r, b', m)
  <2>1. r = [q EXCEPT !.pc = "assets", !.pair = pair, !.csv = q.csv \ {pair}]
    BY <1>0, <1>3 DEF NextRow
  <2>2. /\ r.pc = "assets" /\ q.pc = "rows" /\ q.kind = "bulkIssue"
        /\ r.kind = q.kind /\ r.conflict = q.conflict
        /\ r.issuedRows = q.issuedRows /\ r.failedRows = q.failedRows
        /\ b' = b /\ m = n
    BY <1>0, <1>3, <1>s, <2>1
    DEF NextRow, Request, Role, At, stores, Insert, InsertFails
  <2>3. Counted(r, n)
    BY <1>k, <2>2 DEF Counted
  <2> QED
    BY <1>r, <2>2, <2>3
<1>4. CASE CreateBatch(h)
  <2>1. /\ r.pc = "rows" /\ q.pc = "batch" /\ q.kind = "bulkIssue"
        /\ r.kind = q.kind /\ r.conflict = q.conflict
        /\ r.issuedRows = q.issuedRows /\ r.failedRows = q.failedRows
    BY <1>0, <1>4, CountsKept DEF CreateBatch, At, Role
  <2>2. /\ b'.created /\ b'.issuedRows = b.issuedRows
        /\ b'.failedRows = b.failedRows
    BY <1>0, <1>4 DEF CreateBatch, Batch
  <2>3. m = n
    BY <1>s, <2>1 DEF Insert, InsertFails, At
  <2>4. Counted(r, n)
    BY <1>k, <2>1 DEF Counted
  <2> QED
    BY <1>k, <2>1, <2>2, <2>3, <2>4 DEF Bounded
<1>5. CASE FinishBatch(h)
  <2>1. q.pc = "rows" /\ q.kind = "bulkIssue" /\ r.kind = "none"
    BY <1>0, <1>5 DEF FinishBatch, At, Role, Ends, Idle
  <2>2. /\ b'.created = b.created /\ b'.issuedRows = q.issuedRows
        /\ b'.failedRows = q.failedRows
    BY <1>0, <1>5 DEF FinishBatch, Batch
  <2>3. m = n
    BY <1>s, <2>1 DEF Insert, InsertFails, At
  <2> QED
    BY <1>k, <2>1, <2>2, <2>3 DEF Bounded, Counted
<1>6. ASSUME NEW c \in Credentials, PersistAssets(h, c)
      PROVE  Bounded(r, b', m)
  <2>1. r = [q EXCEPT !.pc = "insert", !.credential = c]
    BY <1>0, <1>6 DEF PersistAssets
  <2>2. /\ r.pc = "insert" /\ q.pc = "assets" /\ q.kind = "bulkIssue"
        /\ r.kind = q.kind /\ r.conflict = q.conflict
        /\ r.issuedRows = q.issuedRows /\ r.failedRows = q.failedRows
        /\ b' = b /\ m = n
    BY <1>0, <1>6, <1>s, <2>1
    DEF PersistAssets, Request, Role, At, Insert, InsertFails, Issues
  <2>3. Counted(r, n)
    BY <1>k, <2>2 DEF Counted
  <2> QED
    BY <1>r, <2>2, <2>3
\* The end of a row: the table holds as many as the counters then allow.
<1>7. ASSUME NEW result, RowEnds(h, result), b' = b, m = n,
             q.kind = "bulkIssue", q.pc # "batch",
             Between(n, q.issuedRows + (IF result = "ISSUED" THEN 1 ELSE 0),
                     q.issuedRows + (IF result = "ISSUED" THEN 1 ELSE 0)
                     + q.failedRows + (IF result = "FAILED" THEN 1 ELSE 0))
      PROVE  Bounded(r, b', m)
  <2>1. /\ r.pc = "rows" /\ r.kind = "bulkIssue" /\ ~r.conflict
        /\ r.issuedRows = q.issuedRows + IF result = "ISSUED" THEN 1 ELSE 0
        /\ r.failedRows = q.failedRows + IF result = "FAILED" THEN 1 ELSE 0
    BY <1>7, RowCounted
  <2>2. Counted(r, n)
    BY <1>t, <1>n, <1>7, <2>1 DEF Counted, Between
  <2> QED
    BY <1>r, <1>7, <2>1, <2>2
<1>8. ASSUME NEW c \in Credentials, NEW f \in Files, PersistAssetsFails(h, c, f)
      PROVE  Bounded(r, b', m)
  <2>1. q.pc = "assets" /\ q.kind = "bulkIssue" /\ b' = b /\ m = n
    BY <1>0, <1>8, <1>s
    DEF PersistAssetsFails, Role, At, Insert, InsertFails, Issues
  <2>2. Between(n, q.issuedRows, q.issuedRows + q.failedRows + 1)
    BY <1>t, <1>n, <1>k, <2>1 DEF Counted, Between
  <2> QED
    BY <1>t, <1>n, <1>7, <1>8, <2>1, <2>2 DEF PersistAssetsFails, Between
<1>9. CASE Insert(h) /\ Taken(q.pair)
  <2>1. r = [q EXCEPT !.pc = "cleanup", !.conflict = TRUE]
    BY <1>0, <1>9 DEF Insert
  <2>2. /\ r.pc = "cleanup" /\ q.pc = "insert" /\ q.kind = "bulkIssue"
        /\ r.kind = q.kind /\ r.conflict
        /\ r.issuedRows = q.issuedRows /\ r.failedRows = q.failedRows
        /\ b' = b
    BY <1>0, <1>9, <2>1 DEF Insert, Request, Role, At, Issues
  <2>3. m = n
    BY <1>9, BatchRowsStay DEF Insert
  <2>4. Counted(r, n)
    BY <1>k, <2>2 DEF Counted
  <2> QED
    BY <1>r, <2>2, <2>3, <2>4
<1>10. ASSUME Insert(h) \/ InsertFails(h), Inserted(h), NEW pc, Goto(h, pc),
              \/ pc = "enqueue"
              \/ pc = "cleanup"
       PROVE  Bounded(r, b', m)
  <2>1. /\ r.pc = pc /\ q.pc = "insert" /\ q.kind = "bulkIssue"
        /\ r.kind = q.kind /\ r.conflict = q.conflict
        /\ r.issuedRows = q.issuedRows /\ r.failedRows = q.failedRows
        /\ b' = b
    BY <1>0, <1>10, CountsKept DEF Insert, InsertFails, Role, At, Issues
  <2>2. m = n + 1
    BY <1>10, <2>1, BatchRowsGrow
  <2>3. Counted(r, m)
    BY <1>t, <1>n, <1>k, <1>10, <2>1, <2>2 DEF Counted, Between
  <2> QED
    BY <1>k, <1>10, <2>1, <2>2, <2>3 DEF Bounded
<1>11. CASE InsertFails(h) /\ UNCHANGED row
  <2>1. /\ r.pc = "cleanup" /\ q.pc = "insert" /\ q.kind = "bulkIssue"
        /\ r.kind = q.kind /\ r.conflict = q.conflict
        /\ r.issuedRows = q.issuedRows /\ r.failedRows = q.failedRows
        /\ b' = b
    BY <1>0, <1>11, CountsKept DEF InsertFails, Role, At, Issues
  <2>2. m = n
    BY <1>11, BatchRowsStay
  <2>3. Counted(r, n)
    BY <1>t, <1>n, <1>k, <2>1 DEF Counted, Between
  <2> QED
    BY <1>r, <2>1, <2>2, <2>3
<1>12. ASSUME \/ EnqueueAnchor(h) \/ EnqueueAnchorFails(h)
              \/ MarkQueueFailure(h) \/ MarkQueueFailureFails(h)
       PROVE  Bounded(r, b', m)
  <2>1. /\ q.pc \in {"enqueue", "mark"} /\ q.kind = "bulkIssue"
        /\ r.pc \in {"readBack", "mark", "cleanup"}
        /\ r.kind = q.kind /\ r.conflict = q.conflict
        /\ r.issuedRows = q.issuedRows /\ r.failedRows = q.failedRows
        /\ b' = b
    BY <1>0, <1>12, CountsKept
    DEF EnqueueAnchor, EnqueueAnchorFails, MarkQueueFailure,
        MarkQueueFailureFails, Role, At, Issues, stores
  <2>2. m = n
    BY <1>s, <2>1 DEF Insert, InsertFails, At
  <2>3. Counted(r, n)
    BY <1>t, <1>n, <1>k, <2>1 DEF Counted, Between
  <2> QED
    BY <1>r, <2>1, <2>2, <2>3
<1>13. ASSUME Cleanup(h) \/ CleanupFails(h)
       PROVE  Bounded(r, b', m)
  <2>1. /\ q.pc = "cleanup" /\ q.kind = "bulkIssue" /\ b' = b
        /\ \/ RowEnds(h, "FAILED")
           \/ q.conflict /\ RowEnds(h, "EXISTS")
    BY <1>0, <1>13 DEF Cleanup, CleanupFails, Role, At, Issues, stores
  <2>2. m = n
    BY <1>s, <2>1 DEF Insert, InsertFails, At
  <2>3. Between(n, q.issuedRows,
                q.issuedRows + q.failedRows + IF q.conflict THEN 0 ELSE 1)
    BY <1>t, <1>n, <1>k, <2>1 DEF Counted, Between
  <2>4. CASE RowEnds(h, "FAILED")
    BY <1>t, <1>n, <1>7, <2>1, <2>2, <2>3, <2>4 DEF Between
  <2>5. CASE q.conflict /\ RowEnds(h, "EXISTS")
    BY <1>t, <1>n, <1>7, <2>1, <2>2, <2>3, <2>5 DEF Between
  <2> QED
    BY <2>1, <2>4, <2>5
<1>14. ASSUME ReadBack(h) \/ ReadBackFails(h)
       PROVE  Bounded(r, b', m)
  <2>1. /\ q.pc = "readBack" /\ q.kind = "bulkIssue" /\ b' = b
        /\ RowEnds(h, "ISSUED") \/ RowEnds(h, "FAILED")
    BY <1>0, <1>14 DEF ReadBack, ReadBackFails, Role, At, Issues, stores
  <2>2. m = n
    BY <1>s, <2>1 DEF Insert, InsertFails, At
  <2>3. Between(n, q.issuedRows + 1, q.issuedRows + q.failedRows + 1)
    BY <1>t, <1>n, <1>k, <2>1 DEF Counted, Between
  <2>4. CASE RowEnds(h, "ISSUED")
    BY <1>t, <1>n, <1>7, <2>1, <2>2, <2>3, <2>4 DEF Between
  <2>5. CASE RowEnds(h, "FAILED")
    BY <1>t, <1>n, <1>7, <2>1, <2>2, <2>3, <2>5 DEF Between
  <2> QED
    BY <2>1, <2>4, <2>5
<1>15. ~AuditIssue(h)
  BY <1>0 DEF AuditIssue, At, Role
<1> QED
  BY <1>1, <1>2, <1>3, <1>4, <1>5, <1>6, <1>8, <1>9, <1>10, <1>11, <1>12,
     <1>13, <1>14, <1>15 DEF Issue, Insert, InsertFails

LEMMA KindsStay ==
    ASSUME TypeInv, NEW h \in Handlers, Issue(h), requests[h].kind = "create"
    PROVE  requests'[h].kind # "bulkIssue"
<1> DEFINE q == requests[h]
           r == requests'[h]
<1>0. requests \in [Handlers -> Request] /\ q \in Request /\ Role(q)
  BY DEF TypeInv, TypeOK, WellFormed
<1>1. q.pc \notin {"idle", "batch", "rows"}
  BY <1>0 DEF Role
<1>2. \A pc : Goto(h, pc) => r.kind = "create"
  BY <1>0 DEF Goto, Request
<1>3. \A result : RowEnds(h, result) => r.kind \in {"none", "create"}
  BY <1>0 DEF RowEnds, Idle, Request
<1>4. Ends(h) => r.kind = "none"
  BY <1>0 DEF Ends, Idle
<1>5. ASSUME NEW c \in Credentials, PersistAssets(h, c)
      PROVE  r.kind = "create"
  BY <1>0, <1>5 DEF PersistAssets, Request
<1>6. CASE Insert(h) /\ Taken(q.pair)
  BY <1>0, <1>6 DEF Insert, Request
<1>7. CASE Insert(h) /\ ~Taken(q.pair)
  BY <1>2, <1>7 DEF Insert
<1> QED
  BY <1>1, <1>2, <1>3, <1>4, <1>5, <1>6, <1>7
  DEF Issue, Create, NextRow, BulkIssue, CreateBatch, FinishBatch, At,
      PersistAssetsFails, InsertFails, EnqueueAnchor, EnqueueAnchorFails,
      MarkQueueFailure, MarkQueueFailureFails, Cleanup, CleanupFails,
      ReadBack, ReadBackFails, AuditIssue

LEMMA BatchStep == BaseInv /\ BatchInv /\ [Next]_vars => BatchInv'
<1> SUFFICES ASSUME BaseInv, BatchInv, [Next]_vars, NEW h \in Handlers
             PROVE  Bounded(requests[h], batch[h], Cardinality(BatchRows(h)))'
  BY DEF BatchInv
<1>0. /\ BaseInv' /\ TypeInv /\ requests \in [Handlers -> Request]
      /\ batch \in [Handlers -> Batch] /\ Role(requests[h])
      /\ Bounded(requests[h], batch[h], Cardinality(BatchRows(h)))
  BY BaseStep DEF BaseInv, TypeInv, TypeOK, WellFormed, BatchInv
<1>1. CASE Issue(h) /\ requests[h].kind \in {"none", "bulkIssue"}
  BY <1>0, <1>1, BatchIssues
<1>2. CASE ~(Issue(h) /\ requests[h].kind \in {"none", "bulkIssue"})
  <2>1. \/ requests'[h] = requests[h]
        \/ requests'[h].kind # "bulkIssue"
    <3>1. CASE Issue(h)
      <4>1. requests[h].kind = "create"
        BY <1>0, <1>2, <3>1, IssueMoves DEF Issues
      <4>2. ASSUME requests'[h].kind = "bulkIssue"
            PROVE  FALSE
        BY <1>0, <3>1, <4>1, <4>2, KindsStay
      <4> QED
        BY <4>2
    <3> QED
      BY <3>1, BulkMoves
  <2>2. batch'[h] = batch[h]
    <3>1. ~CreateBatch(h) /\ ~FinishBatch(h)
      BY <1>0, <1>2 DEF CreateBatch, FinishBatch, At, Role, Issue
    <3>2. ASSUME NEW g \in Handlers, g # h, CreateBatch(g) \/ FinishBatch(g)
          PROVE  batch'[h] = batch[h]
      BY <1>0, <3>2 DEF CreateBatch, FinishBatch
    <3> QED
      BY <3>1, <3>2, BatchSteps
  <2>3. BatchRows(h)' = BatchRows(h)
    BY <1>2, BatchRowsStay DEF Issue
  <2> QED
    BY <1>0, <2>1, <2>2, <2>3 DEF Bounded
<1> QED
  BY <1>1, <1>2

\* Whatever fails on the way, the batch and the answer of a CSV report no row as
\* issued that is not there, and at most the failed ones are there besides.
THEOREM BatchesAreBacked == Spec => []ReportsAreBacked
<1>1. Init => BatchInv
  <2> SUFFICES ASSUME Init, NEW h \in Handlers
               PROVE  Bounded(requests[h], batch[h], Cardinality(BatchRows(h)))
    BY DEF BatchInv
  <2>1. BatchRows(h) = {}
    BY IssuanceAssumption DEF Init, BatchRows, NoRow
  <2>2. Cardinality(BatchRows(h)) = 0
    BY <2>1, FS_EmptySet
  <2>3. batch[h] = NoBatch /\ requests[h].kind = "none"
    BY DEF Init, Idle
  <2> QED
    BY <2>2, <2>3 DEF Bounded, NoBatch
<1>2. BatchInv => ReportsAreBacked
  BY DEF BatchInv, Bounded, Counted, ReportsAreBacked
<1> QED
  BY <1>1, <1>2, BatchStep, BaseAlways, PTL DEF Spec

-----------------------------------------------------------------------------
(* Requests, rows and failures implement CredentialRegister *)

\* What is issued has a pair, and what is deleted, or is about to be, was
\* revoked.
Due(q) ==
    /\ q.pc \in {"assets", "insert"} => q.pair \in Pairs
    /\ q.kind = "remove" => \A c \in q.ids : row[c].revoked

DueInv ==
    /\ \A h \in Handlers : Due(requests[h])
    /\ \A c \in Credentials : row[c].state = "deleted" => row[c].revoked

\* An issuance keeps the pair it began with, and a removal what it has left.
LEMMA IssueAsks ==
    ASSUME TypeInv, NEW h \in Handlers, Issue(h),
           requests'[h].pc \in {"assets", "insert"}
    PROVE  \/ requests'[h].pair \in Pairs
           \/ /\ requests[h].pc = "assets"
              /\ requests'[h].pair = requests[h].pair
<1> DEFINE q == requests[h]
           r == requests'[h]
           Goal == \/ r.pair \in Pairs
                   \/ /\ q.pc = "assets"
                      /\ r.pair = q.pair
<1>0. requests \in [Handlers -> Request] /\ q \in Request
  BY DEF TypeInv, TypeOK
<1>1. ASSUME NEW pair \in Pairs, Create(h, pair)
      PROVE  Goal
  BY <1>0, <1>1 DEF Create, Idle
<1>2. ASSUME NEW pair \in Pairs, NextRow(h, pair)
      PROVE  Goal
  <2>1. r = [q EXCEPT !.pc = "assets", !.pair = pair, !.csv = q.csv \ {pair}]
    BY <1>0, <1>2 DEF NextRow
  <2> QED
    BY <1>0, <2>1 DEF Request
<1>3. ASSUME NEW c \in Credentials, PersistAssets(h, c)
      PROVE  Goal
  <2>1. r = [q EXCEPT !.pc = "insert", !.credential = c]
    BY <1>0, <1>3 DEF PersistAssets
  <2> QED
    BY <1>0, <1>3, <2>1 DEF PersistAssets, Request, At
<1>4. ASSUME NEW csv \in SUBSET Pairs, BulkIssue(h, csv)
      PROVE  FALSE
  BY <1>0, <1>4 DEF BulkIssue, Idle
<1>5. \A pc : Goto(h, pc) => r.pc = pc
  BY <1>0 DEF Goto, Request
<1>6. \A result : RowEnds(h, result) => r.pc \in {"rows", "auditIssue", "idle"}
  BY <1>0 DEF RowEnds, Idle, Request
<1>7. Ends(h) => r.pc = "idle"
  BY <1>0 DEF Ends, Idle
<1>8. CASE Insert(h)
  <2>1. CASE Taken(q.pair)
    <3>1. r = [q EXCEPT !.pc = "cleanup", !.conflict = TRUE]
      BY <1>0, <1>8, <2>1 DEF Insert
    <3> QED
      BY <1>0, <3>1 DEF Request
  <2>2. CASE ~Taken(q.pair)
    BY <1>5, <1>8, <2>2 DEF Insert
  <2> QED
    BY <2>1, <2>2
<1> QED
  BY <1>1, <1>2, <1>3, <1>4, <1>5, <1>6, <1>7, <1>8
  DEF Issue, CreateBatch, FinishBatch, PersistAssetsFails, InsertFails,
      EnqueueAnchor, EnqueueAnchorFails, MarkQueueFailure,
      MarkQueueFailureFails, Cleanup, CleanupFails, ReadBack, ReadBackFails,
      AuditIssue

LEMMA WithdrawDue ==
    ASSUME TypeInv, NEW h \in Handlers, Withdraw(h)
    PROVE  LET q == requests[h]
               r == requests'[h]
           IN  /\ r.pc \notin {"assets", "insert"}
               /\ r.kind = "remove" =>
                     \/ q.kind = "remove" /\ r.ids \subseteq q.ids
                     \/ \A c \in r.ids : row[c].revoked
<1> DEFINE q == requests[h]
           r == requests'[h]
           Goal == /\ r.pc \notin {"assets", "insert"}
                   /\ r.kind = "remove" =>
                         \/ q.kind = "remove" /\ r.ids \subseteq q.ids
                         \/ \A c \in r.ids : row[c].revoked
<1>0. requests \in [Handlers -> Request] /\ q \in Request
  BY DEF TypeInv, TypeOK
<1>1. ASSUME NEW pc, Goto(h, pc), pc \notin {"assets", "insert"}
      PROVE  Goal
  BY <1>0, <1>1 DEF Goto, Request
<1>2. ASSUME NEW c, NEW pc, Proceed(h, c, pc), pc \notin {"assets", "insert"}
      PROVE  Goal
  <2>1. r = [q EXCEPT !.pc = pc, !.credential = c]
    BY <1>0, <1>2 DEF Proceed
  <2> QED
    BY <1>0, <1>2, <2>1 DEF Request
<1>3. ASSUME NEW c, Next1(h, c)
      PROVE  Goal
  BY <1>0, <1>3 DEF Next1, Idle
<1>4. ASSUME NEW ids, NEW kind \in {"revoke", "bulkRevoke"},
             Begin(h, kind, "revoke", ids)
      PROVE  Goal
  BY <1>0, <1>4 DEF Begin, Idle
<1>5. ASSUME NEW ids \in SUBSET Credentials, Remove(h, ids)
      PROVE  Goal
  BY <1>0, <1>5 DEF Remove, Begin, Idle
<1>6. ASSUME NEW c \in Credentials, RevokeRow(h, c)
      PROVE  Goal
  BY <1>2, <1>6 DEF RevokeRow
<1> QED
  BY <1>1, <1>2, <1>3, <1>4, <1>5, <1>6
  DEF Withdraw, Revoke, BulkRevoke, AuditRevoke, RefreshMetadata,
      EnqueueRevoke, EnqueueRevokeFails, MarkRevokeFailure, AuditRemove,
      BulkStepFails, RemoveRow

LEMMA DueStep == BaseInv /\ DueInv /\ [Next]_vars => DueInv'
<1> SUFFICES ASSUME BaseInv, DueInv, [Next]_vars
             PROVE  DueInv'
  OBVIOUS
<1>0. /\ TypeInv /\ BaseInv' /\ RowsGrow
      /\ requests \in [Handlers -> Request]
      /\ row \in [Credentials -> Row] /\ row' \in [Credentials -> Row]
      /\ \A g \in Handlers : Role(requests[g]) /\ Fate(requests[g])
      /\ \A g \in Handlers : requests[g].ids \subseteq Credentials
  BY BaseStep DEF BaseInv, TypeInv, TypeOK, WellFormed, FateInv, Request
<1>1. ASSUME NEW h \in Handlers
      PROVE  Due(requests[h])'
  <2> DEFINE q == requests[h]
             r == requests'[h]
  \* Only its own step gives a request new duties.
  <2>1. \/ r = q \/ r = Idle
        \/ r.pc \in {"assets", "insert"} =>
              \/ r.pair \in Pairs
              \/ q.pc = "assets" /\ r.pair = q.pair
    <3>1. ASSUME NEW g \in Handlers, Issue(g) \/ Withdraw(g), g # h
          PROVE  r = q
      BY <3>1, <1>0, IssueMoves, WithdrawMoves DEF OnlyMoves
    <3>2. ASSUME NEW g \in Handlers, NEW c \in Credentials, Regenerate(g, c)
          PROVE  r = q \/ r.pc = "regenerate"
      BY <1>0, <3>2 DEF Regenerate, Idle
    <3>3. ASSUME NEW g \in Handlers, RefreshFiles(g)
          PROVE  r = q \/ r.pc = "refresh"
      BY <1>0, <3>3 DEF RefreshFiles, Goto, Request
    <3>4. ASSUME NEW g \in Handlers, RefreshRow(g) \/ Dies(g)
          PROVE  r = q \/ r = Idle
      BY <1>0, <3>4 DEF RefreshRow, Dies, Ends
    <3>5. ASSUME NEW c \in Credentials, RegisterSecurePdf(c)
          PROVE  r = q
      BY <3>5 DEF RegisterSecurePdf
    <3>6. UNCHANGED vars => r = q
      BY DEF vars
    <3>7. Issue(h) => (r.pc \in {"assets", "insert"} =>
                          \/ r.pair \in Pairs
                          \/ q.pc = "assets" /\ r.pair = q.pair)
      BY <1>0, IssueAsks
    <3>8. Withdraw(h) => r.pc \notin {"assets", "insert"}
      BY <1>0, WithdrawDue
    <3> QED
      BY <3>1, <3>2, <3>3, <3>4, <3>5, <3>6, <3>7, <3>8 DEF Next
  <2>2. r.kind = "remove" =>
           \/ q.kind = "remove" /\ r.ids \subseteq q.ids
           \/ r.ids \subseteq {c \in Exists : row[c].revoked}
    <3> SUFFICES ASSUME r.kind = "remove", r # q
                 PROVE  \/ q.kind = "remove" /\ r.ids \subseteq q.ids
                        \/ r.ids \subseteq {c \in Exists : row[c].revoked}
      OBVIOUS
    <3>1. ASSUME NEW g \in Handlers, Issue(g)
          PROVE  FALSE
      BY <1>0, <3>1, IssueMoves DEF OnlyMoves, Issues
    <3>2. ASSUME NEW g \in Handlers, NEW c \in Credentials, Regenerate(g, c)
          PROVE  FALSE
      BY <1>0, <3>2 DEF Regenerate, Idle
    <3>3. ASSUME NEW g \in Handlers, RefreshFiles(g)
          PROVE  FALSE
      BY <1>0, <3>3 DEF RefreshFiles, Goto, Request, Role, At
    <3>4. ASSUME NEW g \in Handlers, RefreshRow(g) \/ Dies(g)
          PROVE  FALSE
      BY <1>0, <3>4 DEF RefreshRow, Dies, Ends, Idle
    <3>5. ASSUME NEW c \in Credentials, RegisterSecurePdf(c)
          PROVE  FALSE
      BY <3>5 DEF RegisterSecurePdf
    <3>6. ~UNCHANGED vars
      BY DEF vars
    <3>7. ASSUME NEW g \in Handlers, Withdraw(g)
          PROVE  g = h
      BY <1>0, <3>7, WithdrawMoves DEF OnlyMoves
    <3>8. PICK g \in Handlers : Withdraw(g)
      BY <3>1, <3>2, <3>3, <3>4, <3>5, <3>6 DEF Next
    <3>9. \/ q.kind = "remove" /\ r.ids \subseteq q.ids
          \/ \A c \in r.ids : row[c].revoked
      BY <1>0, <3>7, <3>8, WithdrawDue
    <3>10. CASE \A c \in r.ids : row[c].revoked
      <4>1. r.ids \subseteq Credentials
        BY <1>0 DEF BaseInv, TypeInv, TypeOK, Request
      <4>2. \A c \in Credentials \ Exists : ~row[c].revoked
        BY DEF BaseInv, FateInv, NoRow
      <4> QED
        BY <3>10, <4>1, <4>2
    <3> QED
      BY <3>9, <3>10
  <2>3. q.kind = "remove" => q.ids \subseteq {c \in Exists : row[c].revoked}
    BY <1>0 DEF DueInv, Due, Fate
  <2>4. \A c \in Exists : row[c].revoked => row'[c].revoked
    BY <1>0 DEF RowsGrow
  <2>5. r.pc \in {"assets", "insert"} => r.pair \in Pairs
    BY <2>1 DEF DueInv, Due, Idle
  <2>6. r.kind = "remove" => \A c \in r.ids : row'[c].revoked
    BY <2>2, <2>3, <2>4
  <2> QED
    BY <2>5, <2>6 DEF Due
<1>2. ASSUME NEW c \in Credentials, row'[c].state = "deleted"
      PROVE  row'[c].revoked
  <2>1. CASE row[c].state = "deleted"
    BY <1>0, <2>1 DEF DueInv, RowsGrow, Exists
  <2>2. CASE row[c].state # "deleted"
    <3>1. PICK h \in Handlers : RemoveRow(h, c)
      <4>1. ASSUME NEW h \in Handlers, Inserted(h)
            PROVE  FALSE
        BY <1>0, <1>2, <2>2, <4>1 DEF Inserted, NoRow
      <4>2. ASSUME NEW h \in Handlers, NEW d \in Credentials, RevokeRow(h, d)
            PROVE  FALSE
        BY <1>0, <1>2, <2>2, <4>2 DEF RevokeRow, Row
      <4>3. ASSUME NEW h \in Handlers, NEW d \in Credentials, RemoveRow(h, d)
            PROVE  c = d
        BY <1>0, <1>2, <2>2, <4>3 DEF RemoveRow
      <4>4. ASSUME NEW d \in Credentials, RegisterSecurePdf(d)
            PROVE  FALSE
        BY <1>0, <1>2, <2>2, <4>4 DEF RegisterSecurePdf, Row
      <4>5. ASSUME NEW h \in Handlers, RefreshRow(h)
            PROVE  FALSE
        BY <1>0, <1>2, <2>2, <4>5 DEF RefreshRow, Row
      <4> QED
        BY <1>2, <2>2, <4>1, <4>2, <4>3, <4>4, <4>5, RowSteps
    <3>2. requests[h].kind = "remove" /\ c \in requests[h].ids
      BY <1>0, <3>1 DEF RemoveRow, At, Role
    <3> QED
      BY <1>0, <3>2 DEF DueInv, Due, Fate, RowsGrow
  <2> QED
    BY <2>1, <2>2
<1> QED
  BY <1>1, <1>2 DEF DueInv

LEMMA DueAlways == Spec => []DueInv
<1>1. Init => DueInv
  BY DEF Init, DueInv, Due, Idle, NoRow
<1> QED
  BY <1>1, DueStep, BaseAlways, PTL DEF Spec


Standings == [c \in Credentials |-> Standing(row[c])]
Holders == [c \in Credentials |-> row[c].pair]

\* What the register says of a credential changes with its row alone.
LEMMA RegisterStays ==
    ASSUME \A c \in Credentials : /\ row'[c].state = row[c].state
                                  /\ row'[c].revoked = row[c].revoked
                                  /\ row'[c].pair = row[c].pair
    PROVE  UNCHANGED Register!vars
<1>1. Standings' = Standings /\ Holders' = Holders
  BY DEF Standings, Holders, Standing
<1> QED
  BY <1>1 DEF Register!vars, Standings, Holders, Standing

LEMMA InsertIssues ==
    ASSUME BaseInv, DueInv, NEW h \in Handlers, Insert(h) \/ InsertFails(h),
           Inserted(h), ~Taken(requests[h].pair)
    PROVE  Register!Next
<1>a. /\ row \in [Credentials -> Row]
      /\ requests[h].credential \in Credentials /\ requests[h].pair \in Pairs
      /\ row[requests[h].credential].state = "absent"
  BY DEF BaseInv, TypeInv, TypeOK, WellFormed, Role, FateInv, Fate, Exists,
         DueInv, Due, Insert, InsertFails, At
<1> PICK c \in Credentials, p \in Pairs :
         c = requests[h].credential /\ p = requests[h].pair
  BY <1>a
<1>0. row \in [Credentials -> Row] /\ row[c].state = "absent"
  BY <1>a
<1>1. /\ row'[c].state = "live" /\ ~row'[c].revoked /\ row'[c].pair = p
      /\ \A d \in Credentials \ {c} : row'[d] = row[d]
  BY <1>0 DEF Inserted, NoRow
<1>2. Standings[c] = "absent"
  BY <1>0 DEF Standings, Standing
<1>3. \A d \in Credentials : Standings[d] = "live" => Holders[d] # p
  BY <1>0 DEF Standings, Holders, Standing, Taken, Live
<1>4. Standings' = [Standings EXCEPT ![c] = "live"]
  BY <1>0, <1>1 DEF Standings, Standing
<1>5. Holders' = [Holders EXCEPT ![c] = p]
  BY <1>0, <1>1 DEF Holders
<1>6. Register!Issue(c, p)
  BY <1>2, <1>3, <1>4, <1>5 DEF Register!Issue, Standings, Holders
<1> QED
  BY <1>6 DEF Register!Next

\* A bulk may come upon a credential that was revoked or deleted since it was
\* read: it revokes it again, and nothing changes.
LEMMA RevokeRowRevokes ==
    ASSUME BaseInv, DueInv, NEW h \in Handlers, NEW c \in Credentials,
           RevokeRow(h, c)
    PROVE  Register!Next \/ UNCHANGED Register!vars
<1>0. /\ row \in [Credentials -> Row] /\ row[c] \in Row
      /\ row[c].state # "absent"
  BY DEF BaseInv, TypeInv, TypeOK, FateInv, Fate, Exists, RevokeRow
<1>1. /\ row'[c].state = row[c].state /\ row'[c].revoked = TRUE
      /\ row'[c].pair = row[c].pair
      /\ \A d \in Credentials \ {c} : row'[d] = row[d]
  BY <1>0 DEF RevokeRow, Row
<1>2. CASE row[c].revoked = TRUE
  BY <1>1, <1>2, RegisterStays
<1>3. CASE row[c].revoked = FALSE
  <2>1. row[c].state = "live"
    BY <1>0, <1>3 DEF DueInv, Row
  <2>2. Standings[c] = "live"
    BY <1>3, <2>1 DEF Standings, Standing
  <2>3. Standings' = [Standings EXCEPT ![c] = "revoked"]
    BY <1>1, <2>1 DEF Standings, Standing
  <2>4. Holders' = Holders
    BY <1>1 DEF Holders
  <2>5. Register!Revoke(c)
    BY <2>2, <2>3, <2>4 DEF Register!Revoke, Standings, Holders
  <2> QED
    BY <2>5 DEF Register!Next
<1> QED
  BY <1>0, <1>2, <1>3 DEF Row

LEMMA RemoveRowDeletes ==
    ASSUME BaseInv, DueInv, NEW h \in Handlers, NEW c \in Credentials,
           RemoveRow(h, c)
    PROVE  Register!Next \/ UNCHANGED Register!vars
<1>0. /\ row \in [Credentials -> Row] /\ row[c] \in Row
      /\ row[c].state # "absent" /\ row[c].revoked
  BY DEF BaseInv, TypeInv, TypeOK, WellFormed, Role, FateInv, Fate, Exists,
         DueInv, Due, RemoveRow, At
<1>1. /\ row'[c].state = "deleted" /\ row'[c].revoked = row[c].revoked
      /\ row'[c].pair = row[c].pair
      /\ \A d \in Credentials \ {c} : row'[d] = row[d]
  BY <1>0 DEF RemoveRow, Row
<1>2. CASE row[c].state = "deleted"
  BY <1>1, <1>2, RegisterStays
<1>3. CASE row[c].state = "live"
  <2>1. Standings[c] = "revoked"
    BY <1>0, <1>3 DEF Standings, Standing
  <2>2. Standings' = [Standings EXCEPT ![c] = "deleted"]
    BY <1>1 DEF Standings, Standing
  <2>3. Holders' = Holders
    BY <1>1 DEF Holders
  <2>4. Register!Delete(c)
    BY <2>1, <2>2, <2>3 DEF Register!Delete, Standings, Holders
  <2> QED
    BY <2>4 DEF Register!Next
<1> QED
  BY <1>0, <1>2, <1>3 DEF Row

LEMMA StepsImplementRegister ==
    BaseInv /\ DueInv /\ [Next]_vars => [Register!Next]_(Register!vars)
<1> DEFINE Goal == Register!Next \/ UNCHANGED Register!vars
<1> SUFFICES ASSUME BaseInv, DueInv, [Next]_vars
             PROVE  Goal
  OBVIOUS
<1> HIDE DEF Goal
<1>0. row \in [Credentials -> Row]
  BY DEF BaseInv, TypeInv, TypeOK
<1>1. CASE UNCHANGED row
  BY <1>1, RegisterStays DEF Goal
<1>2. ASSUME NEW h \in Handlers, Insert(h) \/ InsertFails(h), Inserted(h),
             ~Taken(requests[h].pair)
      PROVE  Goal
  BY <1>2, InsertIssues DEF Goal
<1>3. ASSUME NEW h \in Handlers, NEW c \in Credentials, RevokeRow(h, c)
      PROVE  Goal
  BY <1>3, RevokeRowRevokes DEF Goal
<1>4. ASSUME NEW h \in Handlers, NEW c \in Credentials, RemoveRow(h, c)
      PROVE  Goal
  BY <1>4, RemoveRowDeletes DEF Goal
\* What is registered or made again for a credential is not the register's.
<1>5. ASSUME NEW c \in Credentials, RegisterSecurePdf(c)
      PROVE  Goal
  <2>1. \A d \in Credentials : /\ row'[d].state = row[d].state
                               /\ row'[d].revoked = row[d].revoked
                               /\ row'[d].pair = row[d].pair
    BY <1>0, <1>5 DEF RegisterSecurePdf, Row
  <2> QED
    BY <2>1, RegisterStays DEF Goal
<1>6. ASSUME NEW h \in Handlers, RefreshRow(h)
      PROVE  Goal
  <2>1. \A d \in Credentials : /\ row'[d].state = row[d].state
                               /\ row'[d].revoked = row[d].revoked
                               /\ row'[d].pair = row[d].pair
    BY <1>0, <1>6 DEF RefreshRow, Row
  <2> QED
    BY <2>1, RegisterStays DEF Goal
<1>7. Goal
  BY <1>1, <1>2, <1>3, <1>4, <1>5, <1>6, RowSteps
<1> QED
  BY <1>7 DEF Goal

\* However requests overlap and fail, the credential table is a register: ids
\* are issued once, for free pairs, and go from live to revoked to deleted, in
\* that order and never back.
THEOREM IssuanceKeepsRegister == Spec => ImplementsRegister
<1>1. Init => Register!Init
  <2> SUFFICES ASSUME Init
               PROVE  Register!Init
    OBVIOUS
  <2>1. \A c \in Credentials : Standing(row[c]) = "absent" /\ row[c].pair = None
    BY DEF Init, NoRow, Standing
  <2>2. /\ Standings = [c \in Credentials |-> "absent"]
        /\ Holders = [c \in Credentials |-> None]
    BY <2>1 DEF Standings, Holders
  <2> QED
    BY <2>2 DEF Register!Init, Standings, Holders
<1> QED
  BY <1>1, StepsImplementRegister, BaseAlways, DueAlways, PTL
  DEF Spec, ImplementsRegister, Register!Spec

=============================================================================
