------------------------ MODULE AnchorPipeline_proofs ------------------------
(***************************************************************************)
(* What AnchorPipeline guarantees for any number of credentials, requests, *)
(* attempts and faults.  The statuses are not inductive: a status is       *)
(* written at the end of an attempt, on the strength of a request, a job,  *)
(* a read of the chain and a transaction that came before it.  So          *)
(* PipelineInv follows the evidence: whoever carries a job (a request, the *)
(* queue, the worker, the mempool) carries one the database asked for, and *)
(* a worker about to report success has seen its effect on the chain.      *)
(* LogInv, below, ties the log to the statuses.                            *)
(***************************************************************************)
EXTENDS AnchorPipeline, TLAPS

\* The database asked for the job.
Asked(job) ==
    /\ row[job[2]].issued
    /\ job[1] = "revoke" => row[job[2]].revoked

\* The chain shows what the job was to do there.
Landed(job) ==
    IF job[1] = "anchor"
    THEN credentials[job[2]].exists \/ Signer \notin authorizedIssuers
    ELSE credentials[job[2]].revoked

RowsAreConsistent ==
    \A c \in Credentials :
        /\ row[c].chainProofHash[2] = c
        /\ row[c].revoked => row[c].issued

\* The contract holds only what the signer anchored for issued credentials.
ChainIsDeserved ==
    /\ \A c \in Credentials :
          /\ credentials[c].exists => /\ credentials[c].issuer = Signer
                                      /\ row[c].issued
          /\ credentials[c].revoked => /\ credentials[c].exists
                                       /\ row[c].revoked
    /\ \A h \in Hashes :
          credentialKeyByProofHash[h] # NoCredential =>
              credentials[h[2]].exists

RequestsAreDeserved ==
    \A r \in Requests :
        LET q == requests[r]
        IN  /\ q.pc # "idle" => q.job \in JobIds
            /\ q.pc = "updateRow" => /\ q.job[1] = "revoke"
                                     /\ row[q.job[2]].issued
            /\ q.pc \notin {"idle", "updateRow"} => Asked(q.job)

JobsAreDeserved == \A job \in JobIds : jobs[job].state # "none" => Asked(job)

MempoolIsDeserved ==
    \A i \in 1..Len(mempool) :
        LET job == mempool[i][1]
        IN  /\ Asked(job)
            /\ mempool[i][2][2] = job[2]
            /\ job[1] = "revoke" => credentials[job[2]].exists

WorkerIsDeserved ==
    worker.pc # "idle" =>
        /\ worker.job \in JobIds
        /\ Asked(worker.job)
        /\ worker.pc \in {"chain", "send", "receipt"} =>
              worker.hash \in Hashes /\ worker.hash[2] = worker.job[2]
        /\ worker.pc = "send" /\ worker.job[1] = "revoke" =>
              credentials[worker.job[2]].exists
        /\ worker.pc = "receipt" =>
              IF mempool = <<>> THEN Landed(worker.job)
              ELSE mempool[Len(mempool)] = <<worker.job, worker.hash>>
        /\ worker.pc = "commit" => Landed(worker.job)

PipelineInv ==
    /\ TypeOK
    /\ RowsAreConsistent
    /\ ChainIsDeserved
    /\ RequestsAreDeserved
    /\ JobsAreDeserved
    /\ MempoolIsDeserved
    /\ WorkerIsDeserved
    /\ ReportedAnchorsExist
    /\ ReportedRevocationsExist
    /\ RevocationStatusesAreDeserved

-----------------------------------------------------------------------------
(* What a step leaves alone stays deserved *)

\* No row forgets that it was issued, revoked or which credential it is about.
RowsAdvance ==
    /\ row' \in [Credentials -> CredentialRow]
    /\ \A c \in Credentials :
          /\ row[c].issued => row'[c].issued
          /\ row[c].revoked => row'[c].revoked
          /\ row'[c].revoked => row'[c].issued
          /\ row'[c].chainProofHash[2] = c

LEMMA JobsAreTuples ==
  \A job \in JobIds : /\ job[1] \in Operations
                      /\ job[2] \in Credentials
                      /\ job = <<job[1], job[2]>>
  BY DEF JobIds

LEMMA AskedStays ==
  ASSUME RowsAdvance, NEW job \in JobIds, Asked(job)
  PROVE  Asked(job)'
  BY JobsAreTuples DEF Asked, RowsAdvance

LEMMA RowsStayConsistent ==
  ASSUME RowsAdvance
  PROVE  RowsAreConsistent'
  BY DEF RowsAreConsistent, RowsAdvance

LEMMA ChainStaysDeserved ==
  ASSUME ChainIsDeserved, RowsAdvance, UNCHANGED chainVars
  PROVE  ChainIsDeserved'
  BY DEF ChainIsDeserved, RowsAdvance, chainVars

LEMMA JobsStayDeserved ==
  ASSUME JobsAreDeserved, RowsAdvance, UNCHANGED jobs
  PROVE  JobsAreDeserved'
  <1> SUFFICES ASSUME NEW job \in JobIds, jobs'[job].state # "none"
               PROVE  Asked(job)'
    BY DEF JobsAreDeserved
  <1>1. Asked(job)
    BY DEF JobsAreDeserved
  <1> QED BY <1>1, AskedStays

LEMMA MempoolStaysDeserved ==
  ASSUME TypeOK, MempoolIsDeserved, RowsAdvance, UNCHANGED <<mempool, chainVars>>
  PROVE  MempoolIsDeserved'
  <1> SUFFICES ASSUME NEW i \in 1..Len(mempool)
               PROVE  LET job == mempool[i][1]
                      IN  /\ Asked(job)'
                          /\ mempool[i][2][2] = job[2]
                          /\ job[1] = "revoke" => credentials[job[2]].exists
    BY DEF MempoolIsDeserved, chainVars
  <1>1. mempool[i][1] \in JobIds
    BY DEF TypeOK, Transaction
  <1> QED BY <1>1, AskedStays DEF MempoolIsDeserved

LEMMA WorkerStaysDeserved ==
  ASSUME WorkerIsDeserved, RowsAdvance, UNCHANGED <<worker, mempool, chainVars>>
  PROVE  WorkerIsDeserved'
  <1>1. worker.pc # "idle" => Asked(worker.job)'
    BY AskedStays DEF WorkerIsDeserved
  <1>2. Landed(worker.job)' = Landed(worker.job)
    BY DEF Landed, chainVars
  <1> QED BY <1>1, <1>2 DEF WorkerIsDeserved, chainVars

LEMMA RequestsStayDeserved ==
  ASSUME RequestsAreDeserved, RowsAdvance, UNCHANGED requests
  PROVE  RequestsAreDeserved'
  <1> SUFFICES ASSUME NEW r \in Requests
               PROVE  LET q == requests[r]
                      IN  /\ q.pc # "idle" => q.job \in JobIds
                          /\ q.pc = "updateRow" => /\ q.job[1] = "revoke"
                                                   /\ row'[q.job[2]].issued
                          /\ q.pc \notin {"idle", "updateRow"} => Asked(q.job)'
    BY DEF RequestsAreDeserved
  <1> QED BY AskedStays, JobsAreTuples DEF RequestsAreDeserved, RowsAdvance

\* A step that leaves the rows alone advances them trivially.
LEMMA SameRowsAdvance ==
  ASSUME TypeOK, RowsAreConsistent, UNCHANGED row
  PROVE  RowsAdvance
  BY DEF TypeOK, RowsAreConsistent, RowsAdvance

-----------------------------------------------------------------------------
LEMMA InitEstablishesPipelineInv == Init => PipelineInv
  <1> SUFFICES ASSUME Init PROVE PipelineInv
    OBVIOUS
  <1> USE PipelineAssumption DEF Init
  <1>1. TypeOK
    <2>1. row \in [Credentials -> CredentialRow]
      BY DEF CredentialRow, ChainStatus, AnchorStatus, Hashes, RegistryHash
    <2>2. lifecycleLog \in [Credentials -> Seq(LogEntry)]
      OBVIOUS
    <2>3. jobs \in [JobIds -> Job]
      BY DEF Job, JobGone, JobState
    <2>4. requests \in [Requests -> Request]
      BY DEF Request, IdleRequest
    <2>5. worker \in Worker
      BY DEF Worker, IdleWorker
    <2>6. mempool \in Seq(Transaction) /\ faults \in Nat
      OBVIOUS
    <2>7. Registry!TypeOK
      <3>1. credentials \in [Credentials -> Registry!CredentialRecord]
        BY DEF Registry!EmptyRecord, Registry!CredentialRecord,
               Registry!OptAddress
      <3>2. Registry!EmptyProfile \in Registry!IssuerProfile
        BY DEF Registry!EmptyProfile, Registry!IssuerProfile
      <3>3. Registry!AuthorizedProfile(Registry!EmptyProfile, NoName)
               \in Registry!IssuerProfile
        BY <3>2 DEF Registry!AuthorizedProfile, Registry!IssuerProfile
      <3>4. issuerProfiles \in [{Signer, Owner} -> Registry!IssuerProfile]
        BY <3>2, <3>3
      <3> QED BY <3>1, <3>4 DEF Registry!TypeOK, Registry!OptAddress
    <2> QED BY <2>1, <2>2, <2>3, <2>4, <2>5, <2>6, <2>7 DEF TypeOK
  <1>2. RowsAreConsistent /\ RequestsAreDeserved /\ JobsAreDeserved
    BY DEF RowsAreConsistent, RequestsAreDeserved, JobsAreDeserved,
           RegistryHash, IdleRequest, JobGone
  <1>3. ChainIsDeserved
    BY DEF ChainIsDeserved, Registry!EmptyRecord
  <1>4. MempoolIsDeserved /\ WorkerIsDeserved
    BY DEF MempoolIsDeserved, WorkerIsDeserved, IdleWorker
  <1>5. /\ ReportedAnchorsExist /\ ReportedRevocationsExist
        /\ RevocationStatusesAreDeserved
    BY DEF ReportedAnchorsExist, ReportedRevocationsExist,
           RevocationStatusesAreDeserved
  <1> QED BY <1>1, <1>2, <1>3, <1>4, <1>5 DEF PipelineInv

-----------------------------------------------------------------------------
(* Requests *)

\* What every step of a request keeps when it advances the rows, asks only for
\* what the rows show and does not touch the worker, the mempool and the chain.
LEMMA RequestStepKeepsInv ==
  ASSUME PipelineInv, TypeOK', RowsAdvance, UnchangedByRequests,
         RequestsAreDeserved', JobsAreDeserved',
         ReportedAnchorsExist', ReportedRevocationsExist',
         RevocationStatusesAreDeserved'
  PROVE  PipelineInv'
  BY RowsStayConsistent, ChainStaysDeserved, MempoolStaysDeserved,
     WorkerStaysDeserved
     DEF PipelineInv, UnchangedByRequests

\* The statuses of unchanged rows stay what they were on an unchanged chain.
LEMMA StatusesStay ==
  ASSUME ReportedAnchorsExist, ReportedRevocationsExist,
         RevocationStatusesAreDeserved, RowsAdvance, UNCHANGED chainVars,
         \A c \in Credentials :
            /\ row'[c].anchorStatus \in {row[c].anchorStatus, "PENDING", "FAILED"}
            /\ row'[c].chainStatus # row[c].chainStatus =>
                  /\ row'[c].chainStatus # "REVOKED"
                  /\ row'[c].chainStatus \in
                        {"REVOKE_FAILED", "REVOKE_ENQUEUE_FAILED"}
                     => row'[c].revoked
  PROVE  /\ ReportedAnchorsExist'
         /\ ReportedRevocationsExist'
         /\ RevocationStatusesAreDeserved'
  BY DEF ReportedAnchorsExist, ReportedRevocationsExist,
         RevocationStatusesAreDeserved, RowsAdvance, chainVars

\* One request moves; the others stay deserved.
LEMMA RequestMoves ==
  ASSUME RequestsAreDeserved, RowsAdvance, NEW r \in Requests,
         \A s \in Requests : s # r => requests'[s] = requests[s],
         requests'[r].pc # "idle" => /\ requests'[r].job \in JobIds
                                     /\ row'[requests'[r].job[2]].issued,
         requests'[r].pc = "updateRow" => requests'[r].job[1] = "revoke",
         requests'[r].pc \notin {"idle", "updateRow"} =>
             (requests'[r].job[1] = "revoke" =>
                 row'[requests'[r].job[2]].revoked)
  PROVE  RequestsAreDeserved'
  <1> SUFFICES ASSUME NEW s \in Requests
               PROVE  (/\ requests[s].pc # "idle" => requests[s].job \in JobIds
                       /\ requests[s].pc = "updateRow" =>
                             /\ requests[s].job[1] = "revoke"
                             /\ row[requests[s].job[2]].issued
                       /\ requests[s].pc \notin {"idle", "updateRow"} =>
                             Asked(requests[s].job))'
    BY DEF RequestsAreDeserved
  <1>1. CASE s = r
    BY <1>1 DEF Asked
  <1>2. CASE s # r
    BY <1>2, AskedStays, JobsAreTuples DEF RequestsAreDeserved, RowsAdvance
  <1> QED BY <1>1, <1>2

\* The two ways a status is written.
LEMMA SetStatusesFacts ==
  ASSUME TypeOK, RowsAreConsistent, NEW c \in Credentials,
         NEW status \in AnchorStatus, SetStatuses(c, status)
  PROVE  /\ RowsAdvance
         /\ row'[c].anchorStatus = status
         /\ row'[c].chainStatus = status
         /\ \A d \in Credentials \ {c} : row'[d] = row[d]
         /\ \A d \in Credentials : /\ row'[d].issued = row[d].issued
                                   /\ row'[d].revoked = row[d].revoked
  <1> USE DEF TypeOK, SetStatuses, CredentialRow, ChainStatus
  <1>1. row' \in [Credentials -> CredentialRow]
    OBVIOUS
  <1>2. \A d \in Credentials :
           /\ row'[d].issued = row[d].issued
           /\ row'[d].revoked = row[d].revoked
           /\ row'[d].chainProofHash = row[d].chainProofHash
    OBVIOUS
  <1>3. RowsAdvance
    BY <1>1, <1>2 DEF RowsAdvance, RowsAreConsistent
  <1> QED BY <1>2, <1>3

LEMMA SetChainStatusFacts ==
  ASSUME TypeOK, RowsAreConsistent, NEW c \in Credentials,
         NEW status \in ChainStatus, SetChainStatus(c, status)
  PROVE  /\ RowsAdvance
         /\ row'[c].chainStatus = status
         /\ \A d \in Credentials \ {c} : row'[d] = row[d]
         /\ \A d \in Credentials : /\ row'[d].anchorStatus = row[d].anchorStatus
                                   /\ row'[d].issued = row[d].issued
                                   /\ row'[d].revoked = row[d].revoked
  <1> USE DEF TypeOK, SetChainStatus, CredentialRow
  <1>1. row' \in [Credentials -> CredentialRow]
    OBVIOUS
  <1>2. \A d \in Credentials :
           /\ row'[d].issued = row[d].issued
           /\ row'[d].revoked = row[d].revoked
           /\ row'[d].anchorStatus = row[d].anchorStatus
           /\ row'[d].chainProofHash = row[d].chainProofHash
    OBVIOUS
  <1>3. RowsAdvance
    BY <1>1, <1>2 DEF RowsAdvance, RowsAreConsistent
  <1> QED BY <1>2, <1>3

LEMMA LoggedFacts ==
  ASSUME TypeOK, NEW job \in JobIds, NEW attempts \in Nat,
         NEW status \in {"PENDING", "RETRYING", "ANCHORED", "REVOKED", "FAILED"},
         Logged(job, status, attempts)
  PROVE  lifecycleLog' \in [Credentials -> Seq(LogEntry)]
  <1>1. [operation |-> job[1], status |-> status, attempts |-> attempts]
           \in LogEntry
    BY JobsAreTuples DEF LogEntry
  <1> QED BY <1>1, JobsAreTuples DEF TypeOK, Logged

\* What a step of a request keeps of the types.
LEMMA RequestTypes ==
  ASSUME TypeOK, UnchangedByRequests, RowsAdvance,
         lifecycleLog' \in [Credentials -> Seq(LogEntry)],
         jobs' \in [JobIds -> Job], requests' \in [Requests -> Request],
         NoFault \/ Fault
  PROVE  TypeOK'
  BY DEF TypeOK, UnchangedByRequests, chainVars, Registry!TypeOK, RowsAdvance,
         NoFault, Fault

LEMMA IssueCredentialKeepsInv ==
  ASSUME PipelineInv, NEW r \in Requests, NEW c \in Credentials,
         IssueCredential(r, c)
  PROVE  PipelineInv'
  <1> USE DEF PipelineInv, IssueCredential, Begin, NoFault
  <1>1. RowsAdvance
    <2>1. row' \in [Credentials -> CredentialRow]
      BY DEF TypeOK, CredentialRow
    <2>2. \A d \in Credentials :
             /\ row'[d].issued = (d = c \/ row[d].issued)
             /\ row'[d].revoked = row[d].revoked
             /\ row'[d].chainProofHash = row[d].chainProofHash
      BY DEF TypeOK, CredentialRow
    <2> QED BY <2>1, <2>2 DEF RowsAdvance, RowsAreConsistent
  <1>2. <<"anchor", c>> \in JobIds
    BY DEF JobIds, Operations
  <1>3. /\ row'[c].issued
        /\ \A d \in Credentials : /\ row'[d].anchorStatus = row[d].anchorStatus
                                  /\ row'[d].chainStatus = row[d].chainStatus
    BY DEF TypeOK, CredentialRow
  <1>4. TypeOK'
    BY <1>1, <1>2 DEF TypeOK, RowsAdvance, Request, UnchangedByRequests,
       chainVars, Registry!TypeOK
  <1>5. RequestsAreDeserved'
    <2> SUFFICES ASSUME NEW s \in Requests
                 PROVE  (/\ requests[s].pc # "idle" => requests[s].job \in JobIds
                         /\ requests[s].pc = "updateRow" =>
                               /\ requests[s].job[1] = "revoke"
                               /\ row[requests[s].job[2]].issued
                         /\ requests[s].pc \notin {"idle", "updateRow"} =>
                               Asked(requests[s].job))'
      BY DEF RequestsAreDeserved
    <2>1. CASE s = r
      BY <2>1, <1>2, <1>3 DEF Asked, TypeOK
    <2>2. CASE s # r
      BY <2>2, <1>1, AskedStays, JobsAreTuples
         DEF RequestsAreDeserved, RowsAdvance, TypeOK
    <2> QED BY <2>1, <2>2
  <1>6. JobsAreDeserved'
    BY <1>1, JobsStayDeserved
  <1>7. /\ ReportedAnchorsExist' /\ ReportedRevocationsExist'
        /\ RevocationStatusesAreDeserved'
    BY <1>1, <1>3, StatusesStay DEF UnchangedByRequests
  <1> QED BY <1>1, <1>4, <1>5, <1>6, <1>7, RequestStepKeepsInv

LEMMA ReadForRevokeKeepsInv ==
  ASSUME PipelineInv, NEW r \in Requests, NEW c \in Credentials,
         NEW bulk \in BOOLEAN, ReadForRevoke(r, c, bulk)
  PROVE  PipelineInv'
  <1> USE DEF PipelineInv, ReadForRevoke, Begin
  <1>1. RowsAdvance
    BY SameRowsAdvance
  <1>2. <<"revoke", c>> \in JobIds
    BY DEF JobIds, Operations
  <1>3. /\ requests' \in [Requests -> Request]
        /\ \A s \in Requests : s # r => requests'[s] = requests[s]
        /\ requests'[r] = [pc |-> "updateRow", job |-> <<"revoke", c>>,
                           bulk |-> bulk]
    BY <1>2 DEF TypeOK, Request
  <1>4. TypeOK'
    BY <1>1, <1>3, RequestTypes DEF TypeOK
  <1>5. RequestsAreDeserved'
    BY <1>1, <1>2, <1>3, RequestMoves
  <1>6. JobsAreDeserved'
    BY <1>1, JobsStayDeserved
  <1>7. /\ ReportedAnchorsExist' /\ ReportedRevocationsExist'
        /\ RevocationStatusesAreDeserved'
    BY <1>1, StatusesStay DEF UnchangedByRequests
  <1> QED BY <1>1, <1>4, <1>5, <1>6, <1>7, RequestStepKeepsInv

LEMMA RevokeRowKeepsInv ==
  ASSUME PipelineInv, NEW r \in Requests, RevokeRow(r)
  PROVE  PipelineInv'
  <1> DEFINE job == requests[r].job
  <1> USE DEF PipelineInv, RevokeRow
  <1>1. job \in JobIds /\ job[2] \in Credentials /\ row[job[2]].issued
    BY JobsAreTuples DEF RequestsAreDeserved
  <1>2. \A c \in Credentials :
           /\ row'[c].issued = row[c].issued
           /\ row'[c].revoked = (c = job[2] \/ row[c].revoked)
           /\ row'[c].chainProofHash = row[c].chainProofHash
           /\ row'[c].anchorStatus = row[c].anchorStatus
           /\ row'[c].chainStatus = row[c].chainStatus
    BY <1>1 DEF TypeOK, CredentialRow
  <1>3. row' \in [Credentials -> CredentialRow]
    BY <1>1 DEF TypeOK, CredentialRow
  <1>4. RowsAdvance
    BY <1>1, <1>2, <1>3 DEF RowsAdvance, RowsAreConsistent
  <1>5. /\ requests' \in [Requests -> Request]
        /\ \A s \in Requests : s # r => requests'[s] = requests[s]
        /\ requests'[r].job = job
        /\ requests'[r].pc \in {"writeLog", "refreshMetadata"}
    BY DEF TypeOK, Request, Goto
  <1>6. TypeOK'
    BY <1>4, <1>5, RequestTypes DEF TypeOK
  <1>7. RequestsAreDeserved'
    <2>1. /\ requests'[r].job \in JobIds
          /\ row'[requests'[r].job[2]].issued
          /\ row'[requests'[r].job[2]].revoked
          /\ requests'[r].pc # "updateRow"
      BY <1>1, <1>2, <1>5
    <2>2. RequestsAreDeserved
      OBVIOUS
    <2> QED BY ONLY <2>1, <2>2, <1>4, <1>5, RequestMoves, r \in Requests
  <1>8. JobsAreDeserved'
    BY <1>4, JobsStayDeserved
  <1>9. /\ ReportedAnchorsExist' /\ ReportedRevocationsExist'
        /\ RevocationStatusesAreDeserved'
    BY <1>2, <1>4, StatusesStay DEF UnchangedByRequests
  <1> QED BY <1>4, <1>6, <1>7, <1>8, <1>9, RequestStepKeepsInv

\* The request steps that go on with an unchanged row, or end.
LEMMA RequestGoesOnKeepsInv ==
  ASSUME PipelineInv, NEW r \in Requests,
         RefreshMetadata(r) \/ AbortRequest(r)
  PROVE  PipelineInv'
  <1> USE DEF PipelineInv, RefreshMetadata, AbortRequest
  <1>1. RowsAdvance
    BY SameRowsAdvance
  <1>2. /\ requests' \in [Requests -> Request]
        /\ \A s \in Requests : s # r => requests'[s] = requests[s]
        /\ \/ requests'[r].pc = "idle"
           \/ /\ requests[r].pc = "refreshMetadata"
              /\ requests'[r].pc = "writeLog"
              /\ requests'[r].job = requests[r].job
    <2>1. CASE RefreshMetadata(r)
      BY <2>1 DEF TypeOK, Request, Goto
    <2>2. CASE AbortRequest(r)
      BY <2>2 DEF TypeOK, Request, Finish, IdleRequest
    <2> QED BY <2>1, <2>2
  <1>3. TypeOK'
    BY <1>1, <1>2, RequestTypes DEF TypeOK
  <1>4. RequestsAreDeserved'
    BY <1>1, <1>2, RequestMoves, JobsAreTuples DEF RequestsAreDeserved, Asked
  <1>5. JobsAreDeserved'
    BY <1>1, JobsStayDeserved
  <1>6. /\ ReportedAnchorsExist' /\ ReportedRevocationsExist'
        /\ RevocationStatusesAreDeserved'
    BY <1>1, StatusesStay DEF UnchangedByRequests
  <1> QED BY <1>1, <1>3, <1>4, <1>5, <1>6, RequestStepKeepsInv

\* A request that goes on to another step with the job it has.
LEMMA GotoKeepsDeserved ==
  ASSUME TypeOK, RequestsAreDeserved, RowsAdvance, NEW r \in Requests,
         NEW pc \in {"writeLog", "queueAdd", "markFailure"},
         requests[r].pc \notin {"idle", "updateRow"}, Goto(r, pc)
  PROVE  RequestsAreDeserved' /\ requests' \in [Requests -> Request]
  <1>1. /\ requests' \in [Requests -> Request]
        /\ \A s \in Requests : s # r => requests'[s] = requests[s]
        /\ requests'[r].pc = pc
        /\ requests'[r].job = requests[r].job
    BY DEF TypeOK, Request, Goto
  <1>2. requests[r].job \in JobIds /\ Asked(requests[r].job)
    BY DEF RequestsAreDeserved
  <1>3. /\ row'[requests[r].job[2]].issued
        /\ requests[r].job[1] = "revoke" => row'[requests[r].job[2]].revoked
    BY <1>2, JobsAreTuples DEF Asked, RowsAdvance
  <1>4. RequestsAreDeserved'
    BY <1>1, <1>2, <1>3, RequestMoves
  <1> QED BY <1>1, <1>4

LEMMA FinishKeepsDeserved ==
  ASSUME TypeOK, RequestsAreDeserved, RowsAdvance, NEW r \in Requests, Finish(r)
  PROVE  RequestsAreDeserved' /\ requests' \in [Requests -> Request]
  <1>1. /\ requests' \in [Requests -> Request]
        /\ \A s \in Requests : s # r => requests'[s] = requests[s]
        /\ requests'[r].pc = "idle"
    BY DEF TypeOK, Request, Finish, IdleRequest
  <1> QED BY <1>1, RequestMoves

LEMMA WriteEnqueueLogKeepsInv ==
  ASSUME PipelineInv, NEW r \in Requests, WriteEnqueueLog(r)
  PROVE  PipelineInv'
  <1> DEFINE job == requests[r].job
  <1> USE DEF PipelineInv, WriteEnqueueLog
  <1>1. job \in JobIds /\ job[2] \in Credentials /\ Asked(job)
    BY JobsAreTuples DEF RequestsAreDeserved
  <1>2. /\ RowsAdvance
        /\ \A c \in Credentials :
              /\ row'[c].anchorStatus \in {row[c].anchorStatus, "PENDING"}
              /\ row'[c].chainStatus \in {row[c].chainStatus, "PENDING"}
    <2>1. CASE SetStatuses(job[2], "PENDING")
      <3>1. \A c \in Credentials \ {job[2]} : row'[c] = row[c]
        BY <1>1, <2>1, SetStatusesFacts DEF AnchorStatus
      <3> QED BY <1>1, <2>1, <3>1, SetStatusesFacts DEF AnchorStatus
    <2>2. CASE UNCHANGED row
      BY <2>2, SameRowsAdvance
    <2> QED BY <2>1, <2>2
  <1>3. lifecycleLog' \in [Credentials -> Seq(LogEntry)]
    BY <1>1, LoggedFacts DEF TypeOK
  <1>4. RequestsAreDeserved' /\ requests' \in [Requests -> Request]
    BY <1>2, GotoKeepsDeserved
  <1>5. TypeOK'
    BY <1>2, <1>3, <1>4, RequestTypes DEF TypeOK
  <1>6. JobsAreDeserved'
    BY <1>2, JobsStayDeserved
  <1>7. /\ ReportedAnchorsExist' /\ ReportedRevocationsExist'
        /\ RevocationStatusesAreDeserved'
    BY <1>2, StatusesStay DEF UnchangedByRequests
  <1> QED BY <1>2, <1>4, <1>5, <1>6, <1>7, RequestStepKeepsInv

LEMMA AddToQueueKeepsInv ==
  ASSUME PipelineInv, NEW r \in Requests, AddToQueue(r)
  PROVE  PipelineInv'
  <1> DEFINE job == requests[r].job
  <1> USE DEF PipelineInv, AddToQueue
  <1>1. job \in JobIds /\ Asked(job)
    BY DEF RequestsAreDeserved
  <1>2. RowsAdvance
    BY SameRowsAdvance
  <1>3. /\ jobs' \in [JobIds -> Job]
        /\ \A j \in JobIds : j # job => jobs'[j] = jobs[j]
    <2>1. NewJob \in Job
      BY DEF Job, JobState, NewJob
    <2>2. CASE Added(job)
      BY <1>1, <2>1, <2>2 DEF Added, TypeOK
    <2>3. CASE UNCHANGED jobs
      BY <2>3 DEF TypeOK
    <2> QED BY <2>2, <2>3
  <1>4. RequestsAreDeserved' /\ requests' \in [Requests -> Request]
    BY <1>2, GotoKeepsDeserved, FinishKeepsDeserved
  <1>5. TypeOK'
    BY <1>2, <1>3, <1>4, RequestTypes DEF TypeOK
  <1>6. JobsAreDeserved'
    BY <1>1, <1>3 DEF JobsAreDeserved, Asked
  <1>7. /\ ReportedAnchorsExist' /\ ReportedRevocationsExist'
        /\ RevocationStatusesAreDeserved'
    BY <1>2, StatusesStay DEF UnchangedByRequests
  <1> QED BY <1>2, <1>4, <1>5, <1>6, <1>7, RequestStepKeepsInv

LEMMA MarkQueueFailureKeepsInv ==
  ASSUME PipelineInv, NEW r \in Requests, MarkQueueFailure(r)
  PROVE  PipelineInv'
  <1> DEFINE job == requests[r].job
  <1> USE DEF PipelineInv, MarkQueueFailure
  <1>1. job \in JobIds /\ job[2] \in Credentials /\ Asked(job)
    BY JobsAreTuples DEF RequestsAreDeserved
  <1>2. /\ RowsAdvance
        /\ \A c \in Credentials :
              /\ row'[c].anchorStatus \in {row[c].anchorStatus, "FAILED"}
              /\ row'[c].chainStatus # row[c].chainStatus =>
                    \/ row'[c].chainStatus = "FAILED"
                    \/ /\ row'[c].chainStatus = "REVOKE_ENQUEUE_FAILED"
                       /\ row'[c].revoked
    <2>1. CASE job[1] = "anchor"
      <3>1. SetStatuses(job[2], "FAILED")
        BY <2>1
      <3> QED BY <1>1, <3>1, SetStatusesFacts DEF AnchorStatus
    <2>2. CASE job[1] # "anchor"
      <3>1. SetChainStatus(job[2], "REVOKE_ENQUEUE_FAILED")
        BY <2>2
      <3>2. row[job[2]].revoked
        BY <1>1, <2>2, JobsAreTuples DEF Asked, Operations
      <3> QED BY <1>1, <3>1, <3>2, SetChainStatusFacts DEF ChainStatus
    <2> QED BY <2>1, <2>2
  <1>3. lifecycleLog' \in [Credentials -> Seq(LogEntry)]
    BY <1>1, LoggedFacts
  <1>4. RequestsAreDeserved' /\ requests' \in [Requests -> Request]
    BY <1>2, FinishKeepsDeserved
  <1>5. TypeOK'
    BY <1>2, <1>3, <1>4, RequestTypes DEF TypeOK
  <1>6. JobsAreDeserved'
    BY <1>2, JobsStayDeserved
  <1>7. /\ ReportedAnchorsExist' /\ ReportedRevocationsExist'
        /\ RevocationStatusesAreDeserved'
    BY <1>2, StatusesStay DEF UnchangedByRequests
  <1> QED BY <1>2, <1>4, <1>5, <1>6, <1>7, RequestStepKeepsInv

LEMMA RegisterSecurePdfKeepsInv ==
  ASSUME PipelineInv, NEW c \in Credentials, RegisterSecurePdf(c)
  PROVE  PipelineInv'
  <1> USE DEF PipelineInv, RegisterSecurePdf
  <1>1. row' \in [Credentials -> CredentialRow]
    BY ZenonT(60) DEF TypeOK, CredentialRow, DocumentHash, Hashes
  <1>2. \A d \in Credentials :
           /\ row'[d].issued = row[d].issued
           /\ row'[d].revoked = row[d].revoked
           /\ row'[d].anchorStatus = row[d].anchorStatus
           /\ row'[d].chainStatus = row[d].chainStatus
           /\ row'[d].chainProofHash \in {row[d].chainProofHash, DocumentHash(d)}
    BY DEF TypeOK, CredentialRow
  <1>3. RowsAdvance
    BY <1>1, <1>2 DEF RowsAdvance, RowsAreConsistent, DocumentHash
  <1>4. TypeOK'
    BY <1>3, RequestTypes DEF TypeOK
  <1>5. RequestsAreDeserved' /\ JobsAreDeserved'
    BY <1>3, RequestsStayDeserved, JobsStayDeserved
  <1>6. /\ ReportedAnchorsExist' /\ ReportedRevocationsExist'
        /\ RevocationStatusesAreDeserved'
    BY <1>2, <1>3, StatusesStay DEF UnchangedByRequests
  <1> QED BY <1>3, <1>4, <1>5, <1>6, RequestStepKeepsInv

-----------------------------------------------------------------------------
(* The worker *)

LEMMA WorkerStepKeepsInv ==
  ASSUME PipelineInv, TypeOK', RowsAdvance, UnchangedByWorker,
         JobsAreDeserved', MempoolIsDeserved', WorkerIsDeserved',
         ReportedAnchorsExist', ReportedRevocationsExist',
         RevocationStatusesAreDeserved'
  PROVE  PipelineInv'
  BY RowsStayConsistent, ChainStaysDeserved, RequestsStayDeserved
     DEF PipelineInv, UnchangedByWorker

LEMMA WorkerTypes ==
  ASSUME TypeOK, UnchangedByWorker, RowsAdvance,
         lifecycleLog' \in [Credentials -> Seq(LogEntry)],
         jobs' \in [JobIds -> Job], worker' \in Worker,
         mempool' \in Seq(Transaction), NoFault \/ Fault
  PROVE  TypeOK'
  BY DEF TypeOK, UnchangedByWorker, chainVars, Registry!TypeOK, RowsAdvance,
         NoFault, Fault

LEMMA WorkerGotoFacts ==
  ASSUME TypeOK, WorkerIsDeserved, worker.pc # "idle",
         NEW pc \in {"chain", "send", "receipt", "commit", "catch", "complete",
                     "retry"},
         WorkerGoto(pc)
  PROVE  /\ worker' \in Worker
         /\ worker'.pc = pc
         /\ worker'.job = worker.job
         /\ worker'.hash = worker.hash
         /\ worker.job \in JobIds
         /\ worker.job[2] \in Credentials
         /\ Asked(worker.job)
  BY JobsAreTuples DEF TypeOK, Worker, WorkerGoto, WorkerIsDeserved

\* A worker that gives up or has finished carries nothing but its job.
LEMMA WorkerLetsGo ==
  ASSUME TypeOK, WorkerIsDeserved, RowsAdvance, worker.pc # "idle",
         NEW pc \in {"catch", "complete", "retry"}, WorkerGoto(pc)
  PROVE  WorkerIsDeserved'
  <1>1. /\ worker'.pc = pc
        /\ worker'.job = worker.job
        /\ worker.job \in JobIds
        /\ Asked(worker.job)
    BY WorkerGotoFacts
  <1>2. Asked(worker.job)'
    BY <1>1, JobsAreTuples DEF Asked, RowsAdvance
  <1> QED BY <1>1, <1>2 DEF WorkerIsDeserved

LEMMA StartJobKeepsInv ==
  ASSUME PipelineInv, NEW job \in JobIds, StartJob(job)
  PROVE  PipelineInv'
  <1> USE DEF PipelineInv, StartJob
  <1>1. RowsAdvance
    BY SameRowsAdvance
  <1>2. Asked(job)
    BY DEF JobsAreDeserved
  <1>3. /\ jobs' \in [JobIds -> Job]
        /\ \A j \in JobIds : jobs'[j].state # "none" => jobs[j].state # "none"
    BY DEF TypeOK, Job, JobState
  <1>4. worker' \in Worker
    BY DEF Worker
  <1>5. TypeOK'
    BY <1>1, <1>3, <1>4, WorkerTypes DEF TypeOK
  <1>6. JobsAreDeserved'
    BY <1>3 DEF JobsAreDeserved, Asked
  <1>7. MempoolIsDeserved'
    BY <1>1, MempoolStaysDeserved DEF UnchangedByWorker
  <1>8. WorkerIsDeserved'
    BY <1>2 DEF WorkerIsDeserved, Asked
  <1>9. /\ ReportedAnchorsExist' /\ ReportedRevocationsExist'
        /\ RevocationStatusesAreDeserved'
    BY <1>1, StatusesStay DEF UnchangedByWorker
  <1> QED BY <1>1, <1>5, <1>6, <1>7, <1>8, <1>9, WorkerStepKeepsInv

LEMMA ForgetJobKeepsInv ==
  ASSUME PipelineInv, NEW job \in JobIds, ForgetJob(job)
  PROVE  PipelineInv'
  <1> USE DEF PipelineInv, ForgetJob
  <1>1. RowsAdvance
    BY SameRowsAdvance
  <1>2. /\ jobs' \in [JobIds -> Job]
        /\ \A j \in JobIds : jobs'[j].state # "none" => jobs[j].state # "none"
    BY DEF TypeOK, Job, JobState, JobGone
  <1>3. TypeOK'
    BY <1>1, <1>2, WorkerTypes DEF TypeOK
  <1>4. JobsAreDeserved'
    BY <1>2 DEF JobsAreDeserved, Asked
  <1>5. MempoolIsDeserved' /\ WorkerIsDeserved'
    BY <1>1, MempoolStaysDeserved, WorkerStaysDeserved DEF UnchangedByWorker
  <1>6. /\ ReportedAnchorsExist' /\ ReportedRevocationsExist'
        /\ RevocationStatusesAreDeserved'
    BY <1>1, StatusesStay DEF UnchangedByWorker
  <1> QED BY <1>1, <1>3, <1>4, <1>5, <1>6, WorkerStepKeepsInv

\* A step of the worker that changes the worker alone.
LEMMA WorkerAloneKeepsInv ==
  ASSUME PipelineInv, UNCHANGED <<row, lifecycleLog, jobs, mempool>>,
         UnchangedByWorker, NoFault \/ Fault, worker' \in Worker,
         WorkerIsDeserved'
  PROVE  PipelineInv'
  <1> USE DEF PipelineInv
  <1>1. RowsAdvance
    BY SameRowsAdvance
  <1>2. TypeOK'
    BY <1>1, WorkerTypes DEF TypeOK
  <1>3. JobsAreDeserved'
    BY <1>1, JobsStayDeserved
  <1>4. MempoolIsDeserved'
    BY <1>1, MempoolStaysDeserved DEF UnchangedByWorker
  <1>5. /\ ReportedAnchorsExist' /\ ReportedRevocationsExist'
        /\ RevocationStatusesAreDeserved'
    BY <1>1, StatusesStay DEF UnchangedByWorker
  <1> QED BY <1>1, <1>2, <1>3, <1>4, <1>5, WorkerStepKeepsInv

LEMMA LoadCredentialKeepsInv ==
  ASSUME PipelineInv, LoadCredential
  PROVE  PipelineInv'
  <1> USE DEF PipelineInv, LoadCredential, WorkerOn
  <1>1. CASE WorkerGoto("retry")
    <2>1. RowsAdvance
      BY SameRowsAdvance
    <2> QED BY <1>1, <2>1, WorkerLetsGo, WorkerGotoFacts, WorkerAloneKeepsInv
  <1>2. CASE worker' = [worker EXCEPT !.pc = "chain",
                            !.hash = row[JobCredential].chainProofHash]
    <2>1. /\ worker.job \in JobIds /\ worker.job[2] \in Credentials
          /\ Asked(worker.job)
      BY JobsAreTuples DEF WorkerIsDeserved
    <2>2. /\ row[worker.job[2]].chainProofHash \in Hashes
          /\ row[worker.job[2]].chainProofHash[2] = worker.job[2]
      BY <2>1 DEF TypeOK, CredentialRow, RowsAreConsistent
    <2>3. /\ worker' \in Worker /\ worker'.pc = "chain"
          /\ worker'.job = worker.job
          /\ worker'.hash = row[worker.job[2]].chainProofHash
      BY <1>2, <2>2 DEF TypeOK, Worker, JobCredential
    <2>4. WorkerIsDeserved'
      BY <2>1, <2>2, <2>3 DEF WorkerIsDeserved, Asked
    <2> QED BY <2>3, <2>4, WorkerAloneKeepsInv
  <1> QED BY <1>1, <1>2, WorkerAloneKeepsInv

\* What the worker reads on the chain backs what it decides.
LEMMA DecideOnProofKeepsInv ==
  ASSUME PipelineInv, DecideOnProof
  PROVE  PipelineInv'
  <1> USE DEF PipelineInv, DecideOnProof, WorkerOn
  <1> DEFINE pc == IF JobOp = "anchor" THEN AnchorDecision ELSE RevokeDecision
  <1>1. pc \in {"commit", "catch", "send"} /\ WorkerGoto(pc)
    BY DEF AnchorDecision, RevokeDecision
  <1>2. /\ worker' \in Worker /\ worker'.pc = pc
        /\ worker'.job = worker.job /\ worker'.hash = worker.hash
        /\ worker.job \in JobIds
        /\ Asked(worker.job)
        /\ worker.hash \in Hashes /\ worker.hash[2] = worker.job[2]
    BY <1>1, WorkerGotoFacts DEF WorkerIsDeserved
  <1>3. pc = "commit" => Landed(worker.job)
    BY <1>2 DEF AnchorDecision, RevokeDecision, Landed, JobOp, JobCredential
  <1>4. pc = "send" /\ worker.job[1] = "revoke" =>
            credentials[worker.job[2]].exists
    BY <1>2 DEF RevokeDecision, JobOp, JobCredential
  <1>5. Asked(worker.job)' /\ Landed(worker.job)' = Landed(worker.job)
    BY <1>2 DEF Asked, Landed, UnchangedByWorker, chainVars
  <1>6. WorkerIsDeserved'
    BY <1>1, <1>2, <1>3, <1>4, <1>5
       DEF WorkerIsDeserved, UnchangedByWorker, chainVars
  <1> QED BY <1>2, <1>6, WorkerAloneKeepsInv

LEMMA ReceiveReceiptKeepsInv ==
  ASSUME PipelineInv, ReceiveReceipt
  PROVE  PipelineInv'
  <1> USE DEF PipelineInv, ReceiveReceipt, WorkerOn
  <1>1. /\ worker' \in Worker /\ worker'.pc = "commit"
        /\ worker'.job = worker.job
        /\ worker.job \in JobIds
        /\ Asked(worker.job)
    BY WorkerGotoFacts
  <1>2. Landed(worker.job)
    BY DEF WorkerIsDeserved
  <1>3. Asked(worker.job)' /\ Landed(worker.job)'
    BY <1>1, <1>2 DEF Asked, Landed, UnchangedByWorker, chainVars
  <1>4. WorkerIsDeserved'
    BY <1>1, <1>3 DEF WorkerIsDeserved
  <1> QED BY <1>1, <1>4, WorkerAloneKeepsInv

LEMMA AttemptFailsKeepsInv ==
  ASSUME PipelineInv, AttemptFails
  PROVE  PipelineInv'
  <1> USE DEF PipelineInv, AttemptFails
  <1>1. RowsAdvance
    BY SameRowsAdvance
  <1>2. WorkerIsDeserved' /\ worker' \in Worker
    BY <1>1, WorkerLetsGo, WorkerGotoFacts
  <1> QED BY <1>2, WorkerAloneKeepsInv

LEMMA SendTransactionKeepsInv ==
  ASSUME PipelineInv, SendTransaction
  PROVE  PipelineInv'
  <1> USE DEF PipelineInv, SendTransaction, WorkerOn
  <1> DEFINE tx == <<worker.job, worker.hash>>
             n == Len(mempool)
  <1>1. RowsAdvance
    BY SameRowsAdvance
  <1>2. /\ worker' \in Worker
        /\ worker'.pc \in {"receipt", "catch"}
        /\ worker'.job = worker.job /\ worker'.hash = worker.hash
        /\ worker.job \in JobIds
        /\ Asked(worker.job)
        /\ worker.hash \in Hashes /\ worker.hash[2] = worker.job[2]
        /\ worker.job[1] = "revoke" => credentials[worker.job[2]].exists
    BY WorkerGotoFacts DEF WorkerIsDeserved
  <1>3. /\ mempool' \in Seq(Transaction)
        /\ Len(mempool') = n + 1 /\ n \in Nat
        /\ mempool'[n + 1] = tx
        /\ \A i \in 1..n : mempool'[i] = mempool[i]
    BY <1>2 DEF TypeOK, Transaction
  <1>4. TypeOK'
    BY <1>1, <1>2, <1>3, WorkerTypes DEF TypeOK
  <1>5. JobsAreDeserved'
    BY <1>1, JobsStayDeserved
  <1>6. MempoolIsDeserved'
    <2> SUFFICES ASSUME NEW i \in 1..(n + 1)
                 PROVE  (LET job == mempool[i][1]
                         IN  /\ Asked(job)
                             /\ mempool[i][2][2] = job[2]
                             /\ job[1] = "revoke" => credentials[job[2]].exists)'
      BY <1>3 DEF MempoolIsDeserved
    <2>1. CASE i \in 1..n
      BY <1>3, <2>1 DEF MempoolIsDeserved, UnchangedByWorker, chainVars, Asked
    <2>2. CASE i = n + 1
      BY <1>2, <1>3, <2>2 DEF UnchangedByWorker, chainVars, Asked
    <2> QED BY <1>3, <2>1, <2>2
  <1>7. WorkerIsDeserved'
    <2>1. mempool' # <<>> /\ mempool'[Len(mempool')] = tx
      BY <1>3
    <2> QED BY <1>2, <2>1 DEF WorkerIsDeserved, Asked
  <1>8. /\ ReportedAnchorsExist' /\ ReportedRevocationsExist'
        /\ RevocationStatusesAreDeserved'
    BY <1>1, StatusesStay DEF UnchangedByWorker
  <1> QED BY <1>1, <1>4, <1>5, <1>6, <1>7, <1>8, WorkerStepKeepsInv

\* Success is reported on the strength of what the chain shows.
LEMMA CommitSuccessKeepsInv ==
  ASSUME PipelineInv, CommitSuccess
  PROVE  PipelineInv'
  <1> USE DEF PipelineInv, CommitSuccess, WorkerOn, JobOp, JobCredential
  <1> DEFINE c == worker.job[2]
  <1>1. /\ worker.job \in JobIds /\ c \in Credentials
        /\ Asked(worker.job) /\ Landed(worker.job)
        /\ jobs[worker.job].attemptsMade \in Nat
    BY JobsAreTuples DEF WorkerIsDeserved, TypeOK, Job
  <1>2. lifecycleLog' \in [Credentials -> Seq(LogEntry)]
    BY <1>1, LoggedFacts DEF AttemptNumber
  <1>3. /\ RowsAdvance
        /\ ReportedAnchorsExist' /\ ReportedRevocationsExist'
        /\ RevocationStatusesAreDeserved'
    <2>1. CASE worker.job[1] = "anchor"
      <3>1. SetStatuses(c, "ANCHORED")
        BY <2>1
      <3>2. /\ RowsAdvance
            /\ row'[c].anchorStatus = "ANCHORED"
            /\ row'[c].chainStatus = "ANCHORED"
            /\ \A d \in Credentials \ {c} : row'[d] = row[d]
        BY <1>1, <3>1, SetStatusesFacts DEF AnchorStatus
      <3>3. credentials[c].exists \/ Signer \notin authorizedIssuers
        BY <1>1, <2>1 DEF Landed
      <3> QED BY <1>1, <3>2, <3>3
              DEF ReportedAnchorsExist, ReportedRevocationsExist,
                  RevocationStatusesAreDeserved, UnchangedByWorker, chainVars
    <2>2. CASE worker.job[1] # "anchor"
      <3>1. SetChainStatus(c, "REVOKED")
        BY <2>2
      <3>2. /\ RowsAdvance
            /\ row'[c].chainStatus = "REVOKED"
            /\ \A d \in Credentials \ {c} : row'[d] = row[d]
            /\ \A d \in Credentials : /\ row'[d].anchorStatus = row[d].anchorStatus
                                      /\ row'[d].revoked = row[d].revoked
        BY <1>1, <3>1, SetChainStatusFacts DEF ChainStatus
      <3>3. credentials[c].revoked /\ row[c].revoked
        BY <1>1, <2>2, JobsAreTuples DEF Landed, Asked, Operations
      <3> QED BY <1>1, <3>2, <3>3
              DEF ReportedAnchorsExist, ReportedRevocationsExist,
                  RevocationStatusesAreDeserved, UnchangedByWorker, chainVars
    <2> QED BY <2>1, <2>2
  <1>4. WorkerIsDeserved' /\ worker' \in Worker
    BY <1>3, WorkerLetsGo, WorkerGotoFacts
  <1>5. TypeOK'
    BY <1>2, <1>3, <1>4, WorkerTypes DEF TypeOK
  <1>6. JobsAreDeserved' /\ MempoolIsDeserved'
    BY <1>3, JobsStayDeserved, MempoolStaysDeserved DEF UnchangedByWorker
  <1> QED BY <1>3, <1>4, <1>5, <1>6, WorkerStepKeepsInv

LEMMA RecordFailureKeepsInv ==
  ASSUME PipelineInv, RecordFailure
  PROVE  PipelineInv'
  <1> USE DEF PipelineInv, RecordFailure, WorkerOn, JobOp, JobCredential
  <1> DEFINE c == worker.job[2]
  <1>1. /\ worker.job \in JobIds /\ c \in Credentials
        /\ Asked(worker.job)
        /\ jobs[worker.job].attemptsMade \in Nat
    BY JobsAreTuples DEF WorkerIsDeserved, TypeOK, Job
  <1>2. lifecycleLog' \in [Credentials -> Seq(LogEntry)]
    BY <1>1, LoggedFacts DEF AttemptNumber, TypeOK
  <1>3. /\ RowsAdvance
        /\ \A d \in Credentials :
              /\ row'[d].anchorStatus \in {row[d].anchorStatus, "FAILED"}
              /\ row'[d].chainStatus # row[d].chainStatus =>
                    \/ row'[d].chainStatus = "FAILED"
                    \/ row'[d].chainStatus = "REVOKE_FAILED" /\ row'[d].revoked
    <2>1. CASE UNCHANGED row
      BY <2>1, SameRowsAdvance
    <2>2. CASE worker.job[1] = "anchor" /\ SetStatuses(c, "FAILED")
      BY <1>1, <2>2, SetStatusesFacts DEF AnchorStatus
    <2>3. CASE worker.job[1] # "anchor" /\ SetChainStatus(c, "REVOKE_FAILED")
      <3>1. row[c].revoked
        BY <1>1, <2>3, JobsAreTuples DEF Asked, Operations
      <3> QED BY <1>1, <2>3, <3>1, SetChainStatusFacts DEF ChainStatus
    <2> QED BY <2>1, <2>2, <2>3
  <1>4. WorkerIsDeserved' /\ worker' \in Worker
    BY <1>3, WorkerLetsGo, WorkerGotoFacts
  <1>5. TypeOK'
    BY <1>2, <1>3, <1>4, WorkerTypes DEF TypeOK
  <1>6. JobsAreDeserved' /\ MempoolIsDeserved'
    BY <1>3, JobsStayDeserved, MempoolStaysDeserved DEF UnchangedByWorker
  <1>7. /\ ReportedAnchorsExist' /\ ReportedRevocationsExist'
        /\ RevocationStatusesAreDeserved'
    BY <1>3, StatusesStay DEF UnchangedByWorker
  <1> QED BY <1>3, <1>4, <1>5, <1>6, <1>7, WorkerStepKeepsInv

\* The attempt is over, one way or another.
LEMMA AttemptEndsKeepsInv ==
  ASSUME PipelineInv, CompleteJob \/ RetryJob \/ CrashWorker
  PROVE  PipelineInv'
  <1> USE DEF PipelineInv, CompleteJob, RetryJob, CrashWorker, WorkerOn
  <1>1. RowsAdvance
    BY SameRowsAdvance
  <1>2. worker.job \in JobIds /\ Asked(worker.job)
    BY DEF WorkerIsDeserved
  <1>3. /\ jobs' \in [JobIds -> Job]
        /\ \A j \in JobIds : j # worker.job => jobs'[j] = jobs[j]
    <2> DEFINE job == jobs[worker.job]
    <2>1. job \in Job
      BY <1>2 DEF TypeOK
    <2>2. CASE CompleteJob
      <3> DEFINE new == [state |-> "completed",
                         attemptsMade |-> job.attemptsMade + 1,
                         stalled |-> job.stalled]
      <3>1. jobs' = [jobs EXCEPT ![worker.job] = new]
        BY <1>2, <2>1, <2>2 DEF TypeOK, Job
      <3>2. new \in Job
        BY <2>1 DEF Job, JobState
      <3> QED BY <1>2, <3>1, <3>2 DEF TypeOK
    <2>3. CASE RetryJob
      <3> DEFINE new == [state |-> IF FinalAttempt THEN "failed" ELSE "delayed",
                         attemptsMade |-> job.attemptsMade + 1,
                         stalled |-> job.stalled]
      <3>1. jobs' = [jobs EXCEPT ![worker.job] = new]
        BY ZenonT(60), <1>2, <2>1, <2>3 DEF TypeOK, Job
      <3>2. new \in Job
        BY <2>1 DEF Job, JobState
      <3> QED BY <1>2, <3>1, <3>2 DEF TypeOK
    <2>4. CASE CrashWorker
      <3> DEFINE new == [state |-> IF job.stalled < MaxStalled THEN "waiting"
                                                       ELSE "failed",
                         attemptsMade |-> job.attemptsMade,
                         stalled |-> job.stalled + 1]
      <3>1. jobs' = [jobs EXCEPT ![worker.job] = new]
        BY <1>2, <2>1, <2>4 DEF TypeOK, Job
      <3>2. new \in Job
        BY <2>1 DEF Job, JobState
      <3> QED BY <1>2, <3>1, <3>2 DEF TypeOK
    <2> QED BY <2>2, <2>3, <2>4
  <1>4. worker' \in Worker /\ WorkerIsDeserved'
    BY DEF Worker, IdleWorker, WorkerIsDeserved
  <1>5. TypeOK'
    BY <1>1, <1>3, <1>4, WorkerTypes DEF TypeOK
  <1>6. JobsAreDeserved'
    BY <1>2, <1>3 DEF JobsAreDeserved, Asked
  <1>7. MempoolIsDeserved'
    BY <1>1, MempoolStaysDeserved DEF UnchangedByWorker
  <1>8. /\ ReportedAnchorsExist' /\ ReportedRevocationsExist'
        /\ RevocationStatusesAreDeserved'
    BY <1>1, StatusesStay DEF UnchangedByWorker
  <1> QED BY <1>1, <1>4, <1>5, <1>6, <1>7, <1>8, WorkerStepKeepsInv

-----------------------------------------------------------------------------
(* The chain *)

\* What mining a transaction does to the contract: an anchoring that has no
\* effect finds the credential there already or the signer not authorised, a
\* revocation without effect finds it revoked.
LEMMA MiningFacts ==
  ASSUME PipelineInv, MineTransaction
  PROVE  LET job == mempool[1][1]
             c == mempool[1][1][2]
         IN  /\ mempool[1] \in Transaction
             /\ Asked(job)
             /\ Registry!TypeOK'
             /\ authorizedIssuers' = authorizedIssuers
             /\ \A d \in Credentials \ {c} : credentials'[d] = credentials[d]
             /\ \/ credentials'[c] = credentials[c]
                \/ /\ credentials'[c].exists /\ ~credentials'[c].revoked
                   /\ credentials'[c].issuer = Signer
                   /\ ~credentials[c].exists
                   /\ job[1] = "anchor"
                \/ /\ credentials'[c].revoked /\ credentials[c].exists
                   /\ ~credentials[c].revoked
                   /\ credentials'[c].exists
                   /\ credentials'[c].issuer = credentials[c].issuer
                   /\ job[1] = "revoke"
             /\ \A h \in Hashes :
                   \/ credentialKeyByProofHash'[h] = credentialKeyByProofHash[h]
                   \/ h[2] = c /\ credentials'[c].exists
             /\ IF job[1] = "anchor"
                THEN credentials'[c].exists \/ Signer \notin authorizedIssuers
                ELSE credentials'[c].revoked
  <1> DEFINE job == mempool[1][1]
             c == mempool[1][1][2]
             hash == mempool[1][2]
  <1> USE DEF PipelineInv
  <1>1. /\ mempool # <<>> /\ Len(mempool) \in Nat /\ Len(mempool) > 0
        /\ mempool[1] \in Transaction /\ Head(mempool) = mempool[1]
    BY DEF MineTransaction, TypeOK
  <1>2. /\ job \in JobIds /\ hash \in Hashes /\ c \in Credentials
        /\ job[1] \in {"anchor", "revoke"}
    BY <1>1, JobsAreTuples DEF Transaction, Operations
  <1>3. /\ Asked(job) /\ hash[2] = c
        /\ job[1] = "revoke" => credentials[c].exists
    BY <1>1 DEF MempoolIsDeserved
  <1>4. /\ Registry!TypeOK
        /\ credentials \in [Credentials -> Registry!CredentialRecord]
        /\ credentialKeyByProofHash \in
              [Hashes \cup {NoHash} -> Credentials \cup {NoCredential}]
    BY DEF TypeOK, Registry!TypeOK
  <1>5. CASE job[1] = "anchor" /\ Registry!CanAnchor(Signer, c, hash)
    <2>1. Registry!AnchorCredential(Signer, c, hash)
      BY <1>1, <1>5 DEF MineTransaction
    <2> DEFINE new == [Registry!EmptyRecord EXCEPT
                         !.proofHash = hash, !.issuer = Signer,
                         !.anchoredAt = now, !.exists = TRUE]
    <2>2. /\ credentials' = [credentials EXCEPT ![c] = new]
          /\ credentialKeyByProofHash' =
                [credentialKeyByProofHash EXCEPT ![hash] = c]
          /\ UNCHANGED <<authorizedIssuers, issuerProfiles, owner, now>>
          /\ ~credentials[c].exists
      BY <2>1 DEF Registry!AnchorCredential, Registry!issuerVars,
                  Registry!CanAnchor
    <2>3. /\ new \in Registry!CredentialRecord
          /\ new.exists /\ ~new.revoked /\ new.issuer = Signer
      BY <1>2, <1>4 DEF Registry!EmptyRecord, Registry!CredentialRecord,
                        Registry!OptAddress, Registry!TypeOK
    <2>4. Registry!TypeOK'
      BY <1>2, <1>4, <2>2, <2>3 DEF Registry!TypeOK
    <2>5. /\ credentials'[c] = new
          /\ \A d \in Credentials \ {c} : credentials'[d] = credentials[d]
          /\ \A h \in Hashes :
                \/ credentialKeyByProofHash'[h] = credentialKeyByProofHash[h]
                \/ h = hash
      BY <1>2, <1>4, <2>2
    <2> QED BY <1>1, <1>3, <1>5, <2>2, <2>3, <2>4, <2>5
  <1>6. CASE job[1] = "anchor" /\ ~Registry!CanAnchor(Signer, c, hash)
    <2>1. UNCHANGED chainVars
      BY <1>1, <1>6 DEF MineTransaction
    <2>2. \/ Signer \notin authorizedIssuers
          \/ credentials[c].exists
          \/ credentialKeyByProofHash[hash] # NoCredential
      BY <1>2, <1>6, PipelineAssumption DEF Registry!CanAnchor, Hashes
    <2>3. credentials[c].exists \/ Signer \notin authorizedIssuers
      BY <1>2, <1>3, <2>2 DEF ChainIsDeserved
    <2> QED BY <1>1, <1>3, <1>4, <1>6, <2>1, <2>3
            DEF chainVars, Registry!TypeOK
  <1>7. CASE job[1] = "revoke" /\ Registry!CanRevoke(Signer, c)
    <2>1. Registry!RevokeCredential(Signer, c)
      BY <1>1, <1>7 DEF MineTransaction
    <2> DEFINE new == [credentials[c] EXCEPT !.revoked = TRUE,
                                             !.revokedAt = now,
                                             !.revokedBy = Signer]
    <2>2. credentials[c] \in Registry!CredentialRecord
      BY <1>2, <1>4
    <2>3. /\ credentials' = [credentials EXCEPT ![c] = new]
          /\ UNCHANGED <<credentialKeyByProofHash, authorizedIssuers,
                         issuerProfiles, owner, now>>
          /\ credentials[c].exists /\ ~credentials[c].revoked
      BY <1>2, <1>4, <2>1, <2>2
         DEF Registry!RevokeCredential, Registry!issuerVars, Registry!CanRevoke,
             Registry!CredentialRecord
    <2>4. /\ new \in Registry!CredentialRecord
          /\ new.exists = credentials[c].exists /\ new.revoked
          /\ new.issuer = credentials[c].issuer
      BY <1>4, <2>2 DEF Registry!CredentialRecord, Registry!OptAddress,
                        Registry!TypeOK
    <2>5. Registry!TypeOK'
      BY <1>2, <1>4, <2>3, <2>4 DEF Registry!TypeOK
    <2>6. /\ credentials'[c] = new
          /\ \A d \in Credentials \ {c} : credentials'[d] = credentials[d]
      BY <1>2, <1>4, <2>3
    <2> QED BY <1>1, <1>3, <1>7, <2>3, <2>4, <2>5, <2>6
  <1>8. CASE job[1] = "revoke" /\ ~Registry!CanRevoke(Signer, c)
    <2>1. UNCHANGED chainVars
      BY <1>1, <1>8 DEF MineTransaction
    <2>2. credentials[c].revoked
      BY <1>2, <1>3, <1>8 DEF Registry!CanRevoke, ChainIsDeserved
    <2> QED BY <1>1, <1>3, <1>4, <1>8, <2>1, <2>2
            DEF chainVars, Registry!TypeOK
  <1> QED BY <1>2, <1>5, <1>6, <1>7, <1>8

LEMMA MineTransactionKeepsInv ==
  ASSUME PipelineInv, MineTransaction
  PROVE  PipelineInv'
  <1> DEFINE job == mempool[1][1]
             c == mempool[1][1][2]
             n == Len(mempool)
  <1> USE DEF PipelineInv
  <1>1. /\ UNCHANGED <<row, lifecycleLog, jobs, requests, worker, faults>>
        /\ mempool # <<>> /\ mempool' = Tail(mempool)
        /\ RowsAdvance
    BY SameRowsAdvance DEF MineTransaction, NoFault
  <1>2. /\ n \in Nat /\ n > 0
        /\ mempool' \in Seq(Transaction) /\ Len(mempool') = n - 1
        /\ \A i \in 1..(n - 1) : mempool'[i] = mempool[i + 1]
    BY <1>1 DEF TypeOK
  <1>3. job \in JobIds /\ c \in Credentials /\ Asked(job)
    BY MiningFacts, JobsAreTuples DEF Transaction
  <1>4. /\ Registry!TypeOK'
        /\ authorizedIssuers' = authorizedIssuers
        /\ \A d \in Credentials :
              /\ credentials[d].exists => credentials'[d].exists
              /\ credentials[d].revoked => credentials'[d].revoked
    BY MiningFacts DEF ChainIsDeserved
  <1>5. TypeOK'
    BY <1>1, <1>2, <1>4 DEF TypeOK
  <1>6. RowsAreConsistent' /\ RequestsAreDeserved' /\ JobsAreDeserved'
    BY <1>1, RowsStayConsistent, RequestsStayDeserved, JobsStayDeserved
  <1>7. ChainIsDeserved'
    <2>1. \A d \in Credentials :
             /\ credentials'[d].exists => /\ credentials'[d].issuer = Signer
                                          /\ row[d].issued
             /\ credentials'[d].revoked => /\ credentials'[d].exists
                                           /\ row[d].revoked
      BY <1>3, MiningFacts DEF ChainIsDeserved, Asked
    <2>2. \A h \in Hashes : h[2] \in Credentials
      BY DEF Hashes
    <2>3. \A h \in Hashes :
             credentialKeyByProofHash'[h] # NoCredential =>
                 credentials'[h[2]].exists
      BY <1>4, <2>2, MiningFacts DEF ChainIsDeserved
    <2> QED BY <1>1, <2>1, <2>3 DEF ChainIsDeserved
  <1>8. MempoolIsDeserved'
    <2> SUFFICES ASSUME NEW i \in 1..(n - 1)
                 PROVE  (LET tx == mempool[i][1]
                         IN  /\ Asked(tx)
                             /\ mempool[i][2][2] = tx[2]
                             /\ tx[1] = "revoke" => credentials[tx[2]].exists)'
      BY <1>2 DEF MempoolIsDeserved
    <2>1. i + 1 \in 1..n /\ mempool'[i] = mempool[i + 1]
      BY <1>2
    <2>2. mempool[i + 1][1] \in JobIds /\ mempool[i + 1][1][2] \in Credentials
      BY <2>1, JobsAreTuples DEF TypeOK, Transaction
    <2> QED BY <1>1, <1>4, <2>1, <2>2 DEF MempoolIsDeserved, Asked
  <1>9. WorkerIsDeserved'
    <2> SUFFICES ASSUME worker.pc # "idle"
                 PROVE  WorkerIsDeserved'
      BY <1>1 DEF WorkerIsDeserved
    <2>1. /\ worker.job \in JobIds /\ worker.job[2] \in Credentials
          /\ Asked(worker.job)
      BY JobsAreTuples DEF WorkerIsDeserved
    <2>2. Landed(worker.job) => Landed(worker.job)'
      BY <1>1, <1>4, <2>1 DEF Landed
    <2>3. ASSUME worker.pc = "receipt"
          PROVE  IF mempool' = <<>> THEN Landed(worker.job)'
                 ELSE mempool'[Len(mempool')] = <<worker.job, worker.hash>>
      <3>1. mempool[n] = <<worker.job, worker.hash>>
        BY <1>1, <2>3 DEF WorkerIsDeserved
      <3>2. CASE n = 1
        <4>1. worker.job = job
          BY <3>1, <3>2
        <4> QED BY <1>1, <1>2, <1>4, <3>2, <4>1, MiningFacts DEF Landed
      <3>3. CASE n > 1
        BY <1>2, <3>1, <3>3
      <3> QED BY <1>2, <3>2, <3>3
    <2> QED BY <1>1, <1>4, <2>1, <2>2, <2>3 DEF WorkerIsDeserved, Asked
  <1>10. /\ ReportedAnchorsExist' /\ ReportedRevocationsExist'
         /\ RevocationStatusesAreDeserved'
    BY <1>1, <1>4 DEF ReportedAnchorsExist, ReportedRevocationsExist,
                      RevocationStatusesAreDeserved
  <1> QED BY <1>5, <1>6, <1>7, <1>8, <1>9, <1>10

LEMMA RemoveSignerKeepsInv ==
  ASSUME PipelineInv, RemoveSigner
  PROVE  PipelineInv'
  <1> USE DEF PipelineInv
  <1>1. /\ UNCHANGED <<row, lifecycleLog, jobs, requests, worker, mempool,
                       credentials, credentialKeyByProofHash, owner, now>>
        /\ faults' = faults + 1
        /\ authorizedIssuers' = authorizedIssuers \ {Signer}
        /\ issuerProfiles' = [issuerProfiles EXCEPT ![Signer].removedAt = now]
    BY DEF RemoveSigner, Fault, Registry!RemoveIssuer, Registry!credentialVars
  <1>2. RowsAdvance
    BY <1>1, SameRowsAdvance
  <1>3. Registry!TypeOK'
    BY <1>1 DEF TypeOK, Registry!TypeOK, Registry!IssuerProfile
  <1>4. TypeOK'
    BY <1>1, <1>3 DEF TypeOK
  <1>5. RowsAreConsistent' /\ RequestsAreDeserved' /\ JobsAreDeserved'
    BY <1>1, <1>2, RowsStayConsistent, RequestsStayDeserved, JobsStayDeserved
  <1>6. ChainIsDeserved' /\ MempoolIsDeserved'
    BY <1>1 DEF ChainIsDeserved, MempoolIsDeserved, Asked
  <1>7. WorkerIsDeserved'
    BY <1>1 DEF WorkerIsDeserved, Asked, Landed
  <1>8. /\ ReportedAnchorsExist' /\ ReportedRevocationsExist'
        /\ RevocationStatusesAreDeserved'
    BY <1>1 DEF ReportedAnchorsExist, ReportedRevocationsExist,
                RevocationStatusesAreDeserved
  <1> QED BY <1>4, <1>5, <1>6, <1>7, <1>8

-----------------------------------------------------------------------------
(* The theorems *)

LEMMA StutteringKeepsInv ==
  ASSUME PipelineInv, UNCHANGED vars
  PROVE  PipelineInv'
  <1> USE DEF PipelineInv
  <1>1. RowsAdvance /\ UNCHANGED <<row, lifecycleLog, jobs, requests, worker,
                                   mempool, faults, chainVars>>
    BY SameRowsAdvance DEF vars
  <1>2. TypeOK'
    BY <1>1 DEF TypeOK, chainVars, Registry!TypeOK
  <1>3. /\ RowsAreConsistent' /\ ChainIsDeserved' /\ RequestsAreDeserved'
        /\ JobsAreDeserved' /\ MempoolIsDeserved' /\ WorkerIsDeserved'
    BY <1>1, RowsStayConsistent, ChainStaysDeserved, RequestsStayDeserved,
       JobsStayDeserved, MempoolStaysDeserved, WorkerStaysDeserved
  <1>4. /\ ReportedAnchorsExist' /\ ReportedRevocationsExist'
        /\ RevocationStatusesAreDeserved'
    BY <1>1, StatusesStay
  <1> QED BY <1>2, <1>3, <1>4

LEMMA NextKeepsPipelineInv == PipelineInv /\ [Next]_vars => PipelineInv'
  <1> SUFFICES ASSUME PipelineInv, [Next]_vars PROVE PipelineInv'
    OBVIOUS
  <1>1. ASSUME NEW r \in Requests, RequestStep(r) PROVE PipelineInv'
    BY <1>1, RevokeRowKeepsInv, RequestGoesOnKeepsInv, WriteEnqueueLogKeepsInv,
       AddToQueueKeepsInv, MarkQueueFailureKeepsInv DEF RequestStep
  <1>2. ASSUME NEW r \in Requests, AbortRequest(r) PROVE PipelineInv'
    BY <1>2, RequestGoesOnKeepsInv
  <1>3. ASSUME NEW r \in Requests, NEW c \in Credentials, IssueCredential(r, c)
        PROVE  PipelineInv'
    BY <1>3, IssueCredentialKeepsInv
  <1>4. ASSUME NEW r \in Requests, NEW c \in Credentials, NEW bulk \in BOOLEAN,
               ReadForRevoke(r, c, bulk)
        PROVE  PipelineInv'
    BY <1>4, ReadForRevokeKeepsInv
  <1>5. ASSUME NEW c \in Credentials, RegisterSecurePdf(c) PROVE PipelineInv'
    BY <1>5, RegisterSecurePdfKeepsInv
  <1>6. ASSUME NEW job \in JobIds, StartJob(job) \/ ForgetJob(job)
        PROVE  PipelineInv'
    BY <1>6, StartJobKeepsInv, ForgetJobKeepsInv
  <1>7. CASE WorkerStep
    BY <1>7, LoadCredentialKeepsInv, DecideOnProofKeepsInv,
       SendTransactionKeepsInv, ReceiveReceiptKeepsInv, CommitSuccessKeepsInv,
       RecordFailureKeepsInv, AttemptEndsKeepsInv DEF WorkerStep
  <1>8. CASE AttemptFails
    BY <1>8, AttemptFailsKeepsInv
  <1>9. CASE CrashWorker
    BY <1>9, AttemptEndsKeepsInv
  <1>10. CASE MineTransaction
    BY <1>10, MineTransactionKeepsInv
  <1>11. CASE RemoveSigner
    BY <1>11, RemoveSignerKeepsInv
  <1>12. CASE UNCHANGED vars
    BY <1>12, StutteringKeepsInv
  <1> QED BY <1>1, <1>2, <1>3, <1>4, <1>5, <1>6, <1>7, <1>8, <1>9, <1>10,
             <1>11, <1>12 DEF Next

\* PipelineInv holds of every behaviour of the pipeline.
THEOREM PipelineInvariant == Spec => []PipelineInv
  <1>1. Init => PipelineInv
    BY InitEstablishesPipelineInv
  <1>2. PipelineInv /\ [Next]_vars => PipelineInv'
    BY NextKeepsPipelineInv
  <1> QED BY <1>1, <1>2, PTL DEF Spec

\* For any number of credentials, concurrent requests, attempts, restarts and
\* faults every store keeps its type.
THEOREM PipelineTypes == Spec => []TypeOK
  <1>1. PipelineInv => TypeOK
    BY DEF PipelineInv
  <1> QED BY <1>1, PipelineInvariant, PTL

\* ANCHORED is never reported of something the chain does not show, the
\* signer's removal aside.
THEOREM ReportedAnchorsAreTrue == Spec => []ReportedAnchorsExist
  <1>1. PipelineInv => ReportedAnchorsExist
    BY DEF PipelineInv
  <1> QED BY <1>1, PipelineInvariant, PTL

\* REVOKED is never reported of something the chain does not show revoked.
THEOREM ReportedRevocationsAreTrue == Spec => []ReportedRevocationsExist
  <1>1. PipelineInv => ReportedRevocationsExist
    BY DEF PipelineInv
  <1> QED BY <1>1, PipelineInvariant, PTL

\* A revocation status is never written on a credential that the institution
\* did not revoke.
THEOREM RevocationStatusesAreTrue == Spec => []RevocationStatusesAreDeserved
  <1>1. PipelineInv => RevocationStatusesAreDeserved
    BY DEF PipelineInv
  <1> QED BY <1>1, PipelineInvariant, PTL

-----------------------------------------------------------------------------
(* The log explains the statuses *)

\* The rows that decide, and the last of some rows.
Deciding(log) == {i \in 1..Len(log) : Decides(log[i])}
DecidingAnchor(log) == {i \in 1..Len(log) : DecidesAnchor(log[i])}
LastOf(I) == IF I # {} THEN Max(I) ELSE 0

\* What a log says of a credential's row.  That the last row is one of the log
\* is part of it, so that nothing needs to be known of Max beyond its meaning.
Explains(log, r) ==
    LET last == LastRow(log, Decides)
        lastAnchor == LastRow(log, DecidesAnchor)
    IN  /\ last \in 0..Len(log)
        /\ lastAnchor \in 0..Len(log)
        /\ r.chainStatus =
              IF last = 0 THEN "PENDING" ELSE ChainStatusAfter(log[last])
        /\ r.anchorStatus =
              IF lastAnchor = 0 THEN "PENDING" ELSE log[lastAnchor].status

LogInv == \A c \in Credentials : Explains(lifecycleLog[c], row[c])

LEMMA LastOfGrows ==
  ASSUME NEW n \in Nat, NEW I \in SUBSET (1..n)
  PROVE  LastOf(I \cup {n + 1}) = n + 1
  <1> DEFINE J == I \cup {n + 1}
  <1>1. \A i \in J : i \in Int /\ n + 1 >= i
    OBVIOUS
  <1>2. \A x \in J : (\A y \in J : x >= y) => x = n + 1
    BY <1>1
  <1>3. Max(J) = n + 1
    BY <1>1, <1>2 DEF Max
  <1> QED BY <1>3 DEF LastOf

LEMMA LastRowIsLastOf ==
  \A log : /\ LastRow(log, Decides) = LastOf(Deciding(log))
           /\ LastRow(log, DecidesAnchor) = LastOf(DecidingAnchor(log))
  BY DEF LastRow, SelectLastInSubSeq, LastOf, Deciding, DecidingAnchor

\* An appended row is the last one if it decides, and else changes nothing.
LEMMA AppendedRow ==
  ASSUME NEW log \in Seq(LogEntry), NEW e \in LogEntry
  PROVE  /\ LastRow(Append(log, e), Decides) =
               IF Decides(e) THEN Len(log) + 1 ELSE LastRow(log, Decides)
         /\ LastRow(Append(log, e), DecidesAnchor) =
               IF DecidesAnchor(e) THEN Len(log) + 1
                                   ELSE LastRow(log, DecidesAnchor)
  <1> DEFINE more == Append(log, e)
             n == Len(log)
  <1>1. /\ n \in Nat
        /\ Len(more) = n + 1
        /\ more[n + 1] = e
        /\ \A i \in 1..n : more[i] = log[i]
    OBVIOUS
  <1>2. 1..(n + 1) = 1..n \cup {n + 1}
    BY <1>1
  <1> HIDE DEF more, n
  <1>3. /\ Deciding(log) \in SUBSET (1..n)
        /\ DecidingAnchor(log) \in SUBSET (1..n)
    BY DEF Deciding, DecidingAnchor, n
  <1>4. /\ Deciding(more) =
              IF Decides(e) THEN Deciding(log) \cup {n + 1} ELSE Deciding(log)
        /\ DecidingAnchor(more) =
              IF DecidesAnchor(e) THEN DecidingAnchor(log) \cup {n + 1}
                                  ELSE DecidingAnchor(log)
    <2>1. Deciding(more) = {i \in 1..n \cup {n + 1} : Decides(more[i])}
      BY <1>1, <1>2 DEF Deciding
    <2>2. Deciding(log) = {i \in 1..n : Decides(more[i])}
      BY <1>1 DEF Deciding, n
    <2>3. DecidingAnchor(more) =
             {i \in 1..n \cup {n + 1} : DecidesAnchor(more[i])}
      BY <1>1, <1>2 DEF DecidingAnchor
    <2>4. DecidingAnchor(log) = {i \in 1..n : DecidesAnchor(more[i])}
      BY <1>1 DEF DecidingAnchor, n
    <2> QED BY <1>1, <2>1, <2>2, <2>3, <2>4
  <1>5. /\ LastOf(Deciding(log) \cup {n + 1}) = n + 1
        /\ LastOf(DecidingAnchor(log) \cup {n + 1}) = n + 1
    BY <1>1, <1>3, LastOfGrows
  <1> QED BY <1>4, <1>5, LastRowIsLastOf DEF more, n

\* Row and log stay in step when the statuses become what the new row says.
LEMMA AppendExplains ==
  ASSUME NEW log \in Seq(LogEntry), NEW e \in LogEntry, NEW r, NEW s,
         Explains(log, r),
         s.chainStatus = IF Decides(e) THEN ChainStatusAfter(e)
                                       ELSE r.chainStatus,
         s.anchorStatus = IF DecidesAnchor(e) THEN e.status
                                              ELSE r.anchorStatus
  PROVE  Explains(Append(log, e), s)
  <1> DEFINE more == Append(log, e)
             n == Len(log)
  <1>1. /\ n \in Nat
        /\ Len(more) = n + 1
        /\ more[n + 1] = e
        /\ \A i \in 1..n : more[i] = log[i]
    OBVIOUS
  <1>2. /\ LastRow(more, Decides) =
              IF Decides(e) THEN n + 1 ELSE LastRow(log, Decides)
        /\ LastRow(more, DecidesAnchor) =
              IF DecidesAnchor(e) THEN n + 1 ELSE LastRow(log, DecidesAnchor)
    BY AppendedRow
  <1> DEFINE l == LastRow(log, Decides)
             la == LastRow(log, DecidesAnchor)
             m == LastRow(more, Decides)
             ma == LastRow(more, DecidesAnchor)
  <1>3. /\ l \in 0..n
        /\ la \in 0..n
        /\ r.chainStatus = IF l = 0 THEN "PENDING" ELSE ChainStatusAfter(log[l])
        /\ r.anchorStatus = IF la = 0 THEN "PENDING" ELSE log[la].status
    BY DEF Explains
  <1>4. /\ m = IF Decides(e) THEN n + 1 ELSE l
        /\ ma = IF DecidesAnchor(e) THEN n + 1 ELSE la
    BY <1>2
  <1>5. SUFFICES /\ m \in 0..Len(more)
                 /\ ma \in 0..Len(more)
                 /\ s.chainStatus =
                       IF m = 0 THEN "PENDING" ELSE ChainStatusAfter(more[m])
                 /\ s.anchorStatus =
                       IF ma = 0 THEN "PENDING" ELSE more[ma].status
    BY DEF Explains
  <1> HIDE DEF more, n, l, la, m, ma
  <1>6. m \in 0..(n + 1) /\ ma \in 0..(n + 1)
    BY <1>1, <1>3, <1>4
  <1>7. s.chainStatus = IF m = 0 THEN "PENDING" ELSE ChainStatusAfter(more[m])
    <2>1. CASE Decides(e)
      BY <1>1, <1>4, <2>1
    <2>2. CASE ~Decides(e)
      <3>1. l # 0 => more[l] = log[l]
        BY <1>1, <1>3
      <3> QED BY <1>3, <1>4, <2>2, <3>1
    <2> QED BY <2>1, <2>2
  <1>8. s.anchorStatus = IF ma = 0 THEN "PENDING" ELSE more[ma].status
    <2>1. CASE DecidesAnchor(e)
      BY <1>1, <1>4, <2>1
    <2>2. CASE ~DecidesAnchor(e)
      <3>1. la # 0 => more[la] = log[la]
        BY <1>1, <1>3
      <3> QED BY <1>3, <1>4, <2>2, <3>1
    <2> QED BY <2>1, <2>2
  <1> QED BY <1>1, <1>6, <1>7, <1>8

\* No row is logged and no status changes.
LEMMA QuietKeepsLogInv ==
  ASSUME LogInv, UNCHANGED lifecycleLog,
         \A c \in Credentials : /\ row'[c].chainStatus = row[c].chainStatus
                                /\ row'[c].anchorStatus = row[c].anchorStatus
  PROVE  LogInv'
  BY DEF LogInv, Explains

Entry(job, status, attempts) ==
    [operation |-> job[1], status |-> status, attempts |-> attempts]

\* One row is logged, and its credential's statuses follow.
LEMMA LoggedKeepsLogInv ==
  ASSUME TypeOK, LogInv, NEW job \in JobIds, NEW attempts \in Nat,
         NEW status \in {"PENDING", "RETRYING", "ANCHORED", "REVOKED", "FAILED"},
         Logged(job, status, attempts),
         \A c \in Credentials \ {job[2]} : row'[c] = row[c],
         row'[job[2]].chainStatus =
             IF Decides(Entry(job, status, attempts))
             THEN ChainStatusAfter(Entry(job, status, attempts))
             ELSE row[job[2]].chainStatus,
         row'[job[2]].anchorStatus =
             IF DecidesAnchor(Entry(job, status, attempts)) THEN status
             ELSE row[job[2]].anchorStatus
  PROVE  LogInv'
  <1> DEFINE c == job[2]
             e == Entry(job, status, attempts)
  <1>1. c \in Credentials /\ e \in LogEntry /\ e.status = status
    BY JobsAreTuples DEF LogEntry, Entry
  <1>2. /\ lifecycleLog'[c] = Append(lifecycleLog[c], e)
        /\ \A d \in Credentials \ {c} : lifecycleLog'[d] = lifecycleLog[d]
    BY <1>1 DEF Logged, TypeOK, Entry
  <1>3. lifecycleLog[c] \in Seq(LogEntry) /\ Explains(lifecycleLog[c], row[c])
    BY <1>1 DEF TypeOK, LogInv
  <1>4. Explains(Append(lifecycleLog[c], e), row'[c])
    <2> HIDE DEF e, c
    <2> SUFFICES
          /\ row'[c].chainStatus =
                IF Decides(e) THEN ChainStatusAfter(e) ELSE row[c].chainStatus
          /\ row'[c].anchorStatus =
                IF DecidesAnchor(e) THEN e.status ELSE row[c].anchorStatus
      BY <1>1, <1>3, AppendExplains
    <2> QED BY <1>1 DEF e, c
  <1>5. ASSUME NEW d \in Credentials PROVE Explains(lifecycleLog'[d], row'[d])
    <2>1. CASE d = c
      BY <1>2, <1>4, <2>1
    <2>2. CASE d # c
      BY <1>2, <2>2 DEF LogInv
    <2> QED BY <2>1, <2>2
  <1> QED BY <1>5 DEF LogInv

LEMMA InitEstablishesLogInv == Init => LogInv
  <1> SUFFICES ASSUME Init, NEW c \in Credentials
               PROVE  Explains(lifecycleLog[c], row[c])
    BY DEF LogInv
  <1>1. Deciding(<<>>) = {} /\ DecidingAnchor(<<>>) = {}
    BY DEF Deciding, DecidingAnchor
  <1>2. LastRow(<<>>, Decides) = 0 /\ LastRow(<<>>, DecidesAnchor) = 0
    BY <1>1, LastRowIsLastOf DEF LastOf
  <1>3. /\ lifecycleLog[c] = <<>>
        /\ row[c].chainStatus = "PENDING"
        /\ row[c].anchorStatus = "PENDING"
    BY DEF Init
  <1> QED BY <1>2, <1>3 DEF Explains

LEMMA WriteEnqueueLogKeepsLogInv ==
  ASSUME PipelineInv, LogInv, NEW r \in Requests, WriteEnqueueLog(r)
  PROVE  LogInv'
  <1> DEFINE job == requests[r].job
             e == Entry(job, "PENDING", 0)
  <1>1. job \in JobIds /\ TypeOK /\ RowsAreConsistent
    BY DEF PipelineInv, RequestsAreDeserved, WriteEnqueueLog
  <1>2. job[2] \in Credentials /\ job[1] \in {"anchor", "revoke"}
    BY <1>1, JobsAreTuples DEF Operations
  <1>3. CASE Logged(job, "PENDING", 0) /\ job[1] = "anchor"
             /\ SetStatuses(job[2], "PENDING")
    <2>1. Decides(e) /\ DecidesAnchor(e) /\ ChainStatusAfter(e) = "PENDING"
      BY <1>3 DEF Decides, DecidesAnchor, ChainStatusAfter, Entry
    <2>2. /\ row'[job[2]].chainStatus = "PENDING"
          /\ row'[job[2]].anchorStatus = "PENDING"
          /\ \A d \in Credentials \ {job[2]} : row'[d] = row[d]
      BY <1>1, <1>2, <1>3, SetStatusesFacts DEF AnchorStatus
    <2> QED BY <1>1, <1>3, <2>1, <2>2, LoggedKeepsLogInv
  <1>4. CASE Logged(job, "PENDING", 0) /\ job[1] = "revoke" /\ UNCHANGED row
    <2>1. ~Decides(e) /\ ~DecidesAnchor(e)
      BY <1>4 DEF Decides, DecidesAnchor, Entry
    <2> QED BY <1>1, <1>2, <1>4, <2>1, LoggedKeepsLogInv
  <1>5. CASE UNCHANGED <<row, lifecycleLog>>
    BY <1>5, QuietKeepsLogInv
  <1> QED BY <1>2, <1>3, <1>4, <1>5 DEF WriteEnqueueLog

LEMMA MarkQueueFailureKeepsLogInv ==
  ASSUME PipelineInv, LogInv, NEW r \in Requests, MarkQueueFailure(r)
  PROVE  LogInv'
  <1> DEFINE job == requests[r].job
             e == Entry(job, "FAILED", 0)
  <1>1. job \in JobIds /\ TypeOK /\ RowsAreConsistent
    BY DEF PipelineInv, RequestsAreDeserved, MarkQueueFailure
  <1>2. job[2] \in Credentials /\ job[1] \in {"anchor", "revoke"}
    BY <1>1, JobsAreTuples DEF Operations
  <1>3. Logged(job, "FAILED", 0)
    BY DEF MarkQueueFailure
  <1>4. CASE job[1] = "anchor"
    <2>1. Decides(e) /\ DecidesAnchor(e) /\ ChainStatusAfter(e) = "FAILED"
      BY <1>4 DEF Decides, DecidesAnchor, ChainStatusAfter, Entry
    <2>2. SetStatuses(job[2], "FAILED")
      BY <1>4 DEF MarkQueueFailure
    <2>3. /\ row'[job[2]].chainStatus = "FAILED"
          /\ row'[job[2]].anchorStatus = "FAILED"
          /\ \A d \in Credentials \ {job[2]} : row'[d] = row[d]
      BY <1>1, <1>2, <2>2, SetStatusesFacts DEF AnchorStatus
    <2> QED BY <1>1, <1>3, <2>1, <2>3, LoggedKeepsLogInv
  <1>5. CASE job[1] = "revoke"
    <2>1. /\ Decides(e)
          /\ ~DecidesAnchor(e)
          /\ ChainStatusAfter(e) = "REVOKE_ENQUEUE_FAILED"
      BY <1>5 DEF Decides, DecidesAnchor, ChainStatusAfter, Entry
    <2>2. SetChainStatus(job[2], "REVOKE_ENQUEUE_FAILED")
      BY <1>5 DEF MarkQueueFailure
    <2>3. /\ row'[job[2]].chainStatus = "REVOKE_ENQUEUE_FAILED"
          /\ row'[job[2]].anchorStatus = row[job[2]].anchorStatus
          /\ \A d \in Credentials \ {job[2]} : row'[d] = row[d]
      BY <1>1, <1>2, <2>2, SetChainStatusFacts DEF ChainStatus
    <2> QED BY <1>1, <1>3, <2>1, <2>3, LoggedKeepsLogInv
  <1> QED BY <1>2, <1>4, <1>5

\* The worker's job, and the number of its attempt.
LEMMA WorkerJobFacts ==
  ASSUME PipelineInv, worker.pc # "idle"
  PROVE  /\ TypeOK /\ RowsAreConsistent
         /\ worker.job \in JobIds
         /\ JobCredential \in Credentials
         /\ JobOp \in {"anchor", "revoke"}
         /\ AttemptNumber \in Nat /\ AttemptNumber # 0
  <1>1. worker.job \in JobIds /\ TypeOK /\ RowsAreConsistent
    BY DEF PipelineInv, WorkerIsDeserved
  <1>2. jobs[worker.job].attemptsMade \in Nat
    BY <1>1 DEF TypeOK, Job
  <1> QED BY <1>1, <1>2, JobsAreTuples
          DEF JobCredential, JobOp, Operations, AttemptNumber

LEMMA CommitSuccessKeepsLogInv ==
  ASSUME PipelineInv, LogInv, CommitSuccess
  PROVE  LogInv'
  <1>1. worker.pc # "idle"
    BY DEF CommitSuccess, WorkerOn
  <1>2. CASE /\ JobOp = "anchor"
             /\ SetStatuses(JobCredential, "ANCHORED")
             /\ Logged(worker.job, "ANCHORED", AttemptNumber)
    <2> DEFINE e == Entry(worker.job, "ANCHORED", AttemptNumber)
    <2>1. Decides(e) /\ DecidesAnchor(e) /\ ChainStatusAfter(e) = "ANCHORED"
      BY <1>2 DEF Decides, DecidesAnchor, ChainStatusAfter, Entry, JobOp
    <2>2. /\ row'[JobCredential].chainStatus = "ANCHORED"
          /\ row'[JobCredential].anchorStatus = "ANCHORED"
          /\ \A d \in Credentials \ {JobCredential} : row'[d] = row[d]
      BY <1>1, <1>2, WorkerJobFacts, SetStatusesFacts DEF AnchorStatus
    <2> QED BY <1>1, <1>2, <2>1, <2>2, WorkerJobFacts, LoggedKeepsLogInv
            DEF JobCredential
  <1>3. CASE /\ JobOp = "revoke"
             /\ SetChainStatus(JobCredential, "REVOKED")
             /\ Logged(worker.job, "REVOKED", AttemptNumber)
    <2> DEFINE e == Entry(worker.job, "REVOKED", AttemptNumber)
    <2>1. Decides(e) /\ ~DecidesAnchor(e) /\ ChainStatusAfter(e) = "REVOKED"
      BY <1>3 DEF Decides, DecidesAnchor, ChainStatusAfter, Entry, JobOp
    <2>2. /\ row'[JobCredential].chainStatus = "REVOKED"
          /\ row'[JobCredential].anchorStatus = row[JobCredential].anchorStatus
          /\ \A d \in Credentials \ {JobCredential} : row'[d] = row[d]
      BY <1>1, <1>3, WorkerJobFacts, SetChainStatusFacts DEF ChainStatus
    <2> QED BY <1>1, <1>3, <2>1, <2>2, WorkerJobFacts, LoggedKeepsLogInv
            DEF JobCredential
  <1> QED BY <1>2, <1>3 DEF CommitSuccess

LEMMA RecordFailureKeepsLogInv ==
  ASSUME PipelineInv, LogInv, RecordFailure
  PROVE  LogInv'
  <1>1. worker.pc # "idle"
    BY DEF RecordFailure, WorkerOn
  <1>2. CASE UNCHANGED <<row, lifecycleLog>>
    BY <1>2, QuietKeepsLogInv
  <1>3. CASE /\ ~FinalAttempt
             /\ UNCHANGED row
             /\ Logged(worker.job, "RETRYING", AttemptNumber)
    <2> DEFINE e == Entry(worker.job, "RETRYING", AttemptNumber)
    <2>1. ~Decides(e) /\ ~DecidesAnchor(e)
      BY DEF Decides, DecidesAnchor, Entry
    <2> QED BY <1>1, <1>3, <2>1, WorkerJobFacts, LoggedKeepsLogInv
  <1>4. CASE /\ JobOp = "anchor"
             /\ SetStatuses(JobCredential, "FAILED")
             /\ Logged(worker.job, "FAILED", AttemptNumber)
    <2> DEFINE e == Entry(worker.job, "FAILED", AttemptNumber)
    <2>1. Decides(e) /\ DecidesAnchor(e) /\ ChainStatusAfter(e) = "FAILED"
      BY <1>4 DEF Decides, DecidesAnchor, ChainStatusAfter, Entry, JobOp
    <2>2. /\ row'[JobCredential].chainStatus = "FAILED"
          /\ row'[JobCredential].anchorStatus = "FAILED"
          /\ \A d \in Credentials \ {JobCredential} : row'[d] = row[d]
      BY <1>1, <1>4, WorkerJobFacts, SetStatusesFacts DEF AnchorStatus
    <2> QED BY <1>1, <1>4, <2>1, <2>2, WorkerJobFacts, LoggedKeepsLogInv
            DEF JobCredential
  <1>5. CASE /\ JobOp = "revoke"
             /\ SetChainStatus(JobCredential, "REVOKE_FAILED")
             /\ Logged(worker.job, "FAILED", AttemptNumber)
    <2> DEFINE e == Entry(worker.job, "FAILED", AttemptNumber)
    <2>1. /\ Decides(e)
          /\ ~DecidesAnchor(e)
          /\ ChainStatusAfter(e) = "REVOKE_FAILED"
      BY <1>1, <1>5, WorkerJobFacts
         DEF Decides, DecidesAnchor, ChainStatusAfter, Entry, JobOp
    <2>2. /\ row'[JobCredential].chainStatus = "REVOKE_FAILED"
          /\ row'[JobCredential].anchorStatus = row[JobCredential].anchorStatus
          /\ \A d \in Credentials \ {JobCredential} : row'[d] = row[d]
      BY <1>1, <1>5, WorkerJobFacts, SetChainStatusFacts DEF ChainStatus
    <2> QED BY <1>1, <1>5, <2>1, <2>2, WorkerJobFacts, LoggedKeepsLogInv
            DEF JobCredential
  <1> QED BY <1>1, <1>2, <1>3, <1>4, <1>5, WorkerJobFacts DEF RecordFailure

\* The steps that neither log nor touch a status.
LEMMA OthersKeepLogInv ==
  ASSUME PipelineInv, LogInv,
         \/ \E r \in Requests :
               \/ RevokeRow(r) \/ RefreshMetadata(r) \/ AddToQueue(r)
               \/ AbortRequest(r)
               \/ \E c \in Credentials :
                     \/ IssueCredential(r, c)
                     \/ \E bulk \in BOOLEAN : ReadForRevoke(r, c, bulk)
         \/ \E c \in Credentials : RegisterSecurePdf(c)
         \/ \E job \in JobIds : StartJob(job) \/ ForgetJob(job)
         \/ LoadCredential \/ DecideOnProof \/ SendTransaction
         \/ ReceiveReceipt \/ CompleteJob \/ RetryJob
         \/ AttemptFails \/ CrashWorker \/ MineTransaction \/ RemoveSigner
         \/ UNCHANGED vars
  PROVE  LogInv'
  <1>1. row \in [Credentials -> CredentialRow]
    BY DEF PipelineInv, TypeOK
  <1>2. CASE UNCHANGED <<row, lifecycleLog>>
    BY <1>2, QuietKeepsLogInv
  <1>3. ASSUME NEW r \in Requests, RevokeRow(r) PROVE LogInv'
    BY <1>1, <1>3, QuietKeepsLogInv DEF RevokeRow, CredentialRow
  <1>4. ASSUME NEW r \in Requests, NEW c \in Credentials, IssueCredential(r, c)
        PROVE  LogInv'
    BY <1>1, <1>4, QuietKeepsLogInv DEF IssueCredential, CredentialRow
  <1>5. ASSUME NEW c \in Credentials, RegisterSecurePdf(c) PROVE LogInv'
    BY <1>1, <1>5, QuietKeepsLogInv DEF RegisterSecurePdf, CredentialRow
  <1>6. UNCHANGED <<row, lifecycleLog>>
        \/ (\E r \in Requests :
               RevokeRow(r) \/ \E c \in Credentials : IssueCredential(r, c))
        \/ (\E c \in Credentials : RegisterSecurePdf(c))
    BY DEF RefreshMetadata, AddToQueue, AbortRequest, ReadForRevoke, StartJob,
           ForgetJob, LoadCredential, DecideOnProof, SendTransaction, ReceiveReceipt,
           CompleteJob, RetryJob, AttemptFails, CrashWorker, MineTransaction,
           RemoveSigner, vars
  <1> QED BY <1>2, <1>3, <1>4, <1>5, <1>6

LEMMA NextKeepsLogInv == PipelineInv /\ LogInv /\ [Next]_vars => LogInv'
  <1> SUFFICES ASSUME PipelineInv, LogInv, [Next]_vars PROVE LogInv'
    OBVIOUS
  <1>1. ASSUME NEW r \in Requests, WriteEnqueueLog(r) PROVE LogInv'
    BY <1>1, WriteEnqueueLogKeepsLogInv
  <1>2. ASSUME NEW r \in Requests, MarkQueueFailure(r) PROVE LogInv'
    BY <1>2, MarkQueueFailureKeepsLogInv
  <1>3. CASE CommitSuccess
    BY <1>3, CommitSuccessKeepsLogInv
  <1>4. CASE RecordFailure
    BY <1>4, RecordFailureKeepsLogInv
  <1> QED BY <1>1, <1>2, <1>3, <1>4, OthersKeepLogInv
          DEF Next, RequestStep, WorkerStep

\* Whatever crashes, is retried or fails halfway, both statuses of every
\* credential can be read off its log: the API's transactions and the worker's
\* write the two together.
THEOREM LogTellsStatus == Spec => []LogExplainsStatus
  <1>1. Init => LogInv
    BY InitEstablishesLogInv
  <1>2. PipelineInv /\ LogInv /\ [Next]_vars => LogInv'
    BY NextKeepsLogInv
  <1>3. LogInv => LogExplainsStatus
    BY DEF LogInv, Explains, LogExplainsStatus
  <1> QED BY <1>1, <1>2, <1>3, PipelineInvariant, PTL DEF Spec

-----------------------------------------------------------------------------
(* What the queue counts *)

\* The worker works on the one active job, and a job that is still to run has
\* attempts left.
QueueInv ==
    \A job \in JobIds :
        LET j == jobs[job]
        IN  /\ j.state = "active" <=> worker.pc # "idle" /\ worker.job = job
            /\ j.state \in Live =>
                  j.attemptsMade < MaxAttempts /\ j.stalled <= MaxStalled

\* What a row of the log says of the attempts.
Counted(entry) ==
    /\ entry.attempts <= MaxAttempts
    /\ entry.status = "RETRYING" => entry.attempts < MaxAttempts
    /\ entry.status = "FAILED" => entry.attempts \in {0, MaxAttempts}

AttemptLogInv ==
    \A c \in Credentials : \A i \in DOMAIN lifecycleLog[c] :
        Counted(lifecycleLog[c][i])

Enqueued(job) ==
    /\ jobs[job].state = "none"
    /\ jobs' = [jobs EXCEPT ![job] = NewJob]
    /\ UNCHANGED worker

\* The worker goes on with its job, or nothing happens to it.
WorkerKeepsJob ==
    /\ UNCHANGED jobs
    /\ \/ UNCHANGED worker
       \/ /\ worker.pc # "idle" /\ worker'.pc # "idle"
          /\ worker'.job = worker.job

\* The steps that change the queue, or which job the worker has.
LEMMA QueueSteps ==
  ASSUME PipelineInv, [Next]_vars
  PROVE  \/ WorkerKeepsJob
         \/ \E job \in JobIds : Enqueued(job) \/ StartJob(job) \/ ForgetJob(job)
         \/ CompleteJob \/ RetryJob \/ CrashWorker
  <1>0. worker \in Worker
    BY DEF PipelineInv, TypeOK
  <1>1. ASSUME NEW r \in Requests, AddToQueue(r)
        PROVE  WorkerKeepsJob \/ \E job \in JobIds : Enqueued(job)
    <2>1. requests[r].job \in JobIds
      BY <1>1 DEF PipelineInv, RequestsAreDeserved, AddToQueue
    <2>2. UNCHANGED worker
      BY <1>1 DEF AddToQueue, UnchangedByRequests
    <2> QED BY <1>1, <2>1, <2>2 DEF AddToQueue, Added, WorkerKeepsJob, Enqueued
  <1>2. ASSUME UNCHANGED <<jobs, worker>> PROVE WorkerKeepsJob
    BY <1>2 DEF WorkerKeepsJob
  <1>3. ASSUME NEW r \in Requests, RequestStep(r), ~AddToQueue(r)
        PROVE  UNCHANGED <<jobs, worker>>
    BY <1>3 DEF RequestStep, RevokeRow, RefreshMetadata, WriteEnqueueLog,
       MarkQueueFailure, UnchangedByRequests
  <1>4. ASSUME NEW r \in Requests, NEW c \in Credentials,
               \/ AbortRequest(r) \/ IssueCredential(r, c)
               \/ \E bulk \in BOOLEAN : ReadForRevoke(r, c, bulk)
        PROVE  UNCHANGED <<jobs, worker>>
    BY <1>4 DEF AbortRequest, IssueCredential, ReadForRevoke,
       UnchangedByRequests
  <1>5. ASSUME NEW r \in Requests, AbortRequest(r)
        PROVE  UNCHANGED <<jobs, worker>>
    BY <1>5 DEF AbortRequest, UnchangedByRequests
  <1>6. ASSUME NEW c \in Credentials, RegisterSecurePdf(c)
        PROVE  UNCHANGED <<jobs, worker>>
    BY <1>6 DEF RegisterSecurePdf, UnchangedByRequests
  <1>7. ASSUME NEW pc, WorkerGoto(pc), pc # "idle", worker.pc # "idle",
               UNCHANGED jobs
        PROVE  WorkerKeepsJob
    BY <1>0, <1>7 DEF WorkerGoto, Worker, WorkerKeepsJob
  <1>8. CASE LoadCredential
    <2>1. CASE worker' = [worker EXCEPT
                            !.pc = "chain",
                            !.hash = row[JobCredential].chainProofHash]
      BY <1>0, <1>8, <2>1 DEF LoadCredential, WorkerOn, Worker, WorkerKeepsJob
    <2>2. CASE WorkerGoto("retry")
      BY <1>7, <1>8, <2>2 DEF LoadCredential, WorkerOn
    <2> QED BY <1>8, <2>1, <2>2 DEF LoadCredential
  <1>9. CASE DecideOnProof
    BY <1>7, <1>9
    DEF DecideOnProof, WorkerOn, AnchorDecision, RevokeDecision
  <1>10. CASE \/ SendTransaction \/ ReceiveReceipt \/ CommitSuccess
              \/ RecordFailure \/ AttemptFails
    BY <1>7, <1>10 DEF SendTransaction, ReceiveReceipt, CommitSuccess,
       RecordFailure, AttemptFails, WorkerOn
  <1>11. CASE MineTransaction \/ RemoveSigner \/ UNCHANGED vars
    BY <1>2, <1>11 DEF MineTransaction, RemoveSigner, vars
  <1> QED BY <1>1, <1>2, <1>3, <1>4, <1>5, <1>6, <1>8, <1>9, <1>10, <1>11
          DEF Next, WorkerStep

\* What becomes of the job that the worker lets go of.
LEMMA LetGo ==
  ASSUME PipelineInv, QueueInv, CompleteJob \/ RetryJob \/ CrashWorker
  PROVE  LET job == worker.job
             j == jobs[job]
             k == jobs'[job]
         IN  /\ job \in JobIds /\ worker' = IdleWorker
             /\ j.state = "active"
             /\ \A other \in JobIds \ {job} : jobs'[other] = jobs[other]
             /\ k.state \in {"waiting", "delayed", "completed", "failed"}
             /\ k.attemptsMade + k.stalled = j.attemptsMade + j.stalled + 1
             /\ k.state \in Live =>
                   k.attemptsMade < MaxAttempts /\ k.stalled <= MaxStalled
             /\ k.state = "completed" => CompleteJob
  <1> DEFINE job == worker.job
             j == jobs[job]
             k == jobs'[job]
  <1>0. /\ job \in JobIds /\ jobs \in [JobIds -> Job] /\ worker.pc # "idle"
        /\ j.attemptsMade \in Nat /\ j.stalled \in Nat
        /\ worker' = IdleWorker
        /\ MaxAttempts \in Nat /\ MaxStalled \in Nat
    BY PipelineAssumption
       DEF PipelineInv, WorkerIsDeserved, TypeOK, Job, CompleteJob, RetryJob,
           CrashWorker, WorkerOn
  <1>1. /\ j.state = "active"
        /\ j.attemptsMade < MaxAttempts /\ j.stalled <= MaxStalled
    BY <1>0 DEF QueueInv, Live
  <1>2. \A other \in JobIds \ {job} : jobs'[other] = jobs[other]
    BY <1>0 DEF CompleteJob, RetryJob, CrashWorker
  <1>3. CASE CompleteJob
    <2>1. /\ k.state = "completed" /\ k.attemptsMade = j.attemptsMade + 1
          /\ k.stalled = j.stalled
      BY <1>0, <1>3 DEF CompleteJob, Job
    <2> QED BY <1>0, <1>1, <1>2, <1>3, <2>1 DEF Live
  <1>4. CASE RetryJob
    <2>1. /\ k.state = IF FinalAttempt THEN "failed" ELSE "delayed"
          /\ k.attemptsMade = j.attemptsMade + 1
          /\ k.stalled = j.stalled
      BY ZenonT(60), <1>0, <1>4 DEF RetryJob, Job
    <2>2. ~FinalAttempt => k.attemptsMade < MaxAttempts
      BY <1>0, <2>1 DEF FinalAttempt, AttemptNumber
    <2> QED BY <1>0, <1>1, <1>2, <2>1, <2>2 DEF Live
  <1>5. CASE CrashWorker
    <2>1. /\ k.state = IF j.stalled < MaxStalled THEN "waiting" ELSE "failed"
          /\ k.attemptsMade = j.attemptsMade
          /\ k.stalled = j.stalled + 1
      BY <1>0, <1>5 DEF CrashWorker, Job
    <2> QED BY <1>0, <1>1, <1>2, <2>1 DEF Live
  <1> QED BY <1>3, <1>4, <1>5

LEMMA NextKeepsQueueInv == PipelineInv /\ QueueInv /\ [Next]_vars => QueueInv'
  <1> SUFFICES ASSUME PipelineInv, QueueInv, [Next]_vars PROVE QueueInv'
    OBVIOUS
  <1>0. /\ jobs \in [JobIds -> Job] /\ worker \in Worker
        /\ MaxAttempts \in Nat \ {0} /\ MaxStalled \in Nat
    BY PipelineAssumption DEF PipelineInv, TypeOK
  <1>1. CASE WorkerKeepsJob
    BY <1>1 DEF WorkerKeepsJob, QueueInv
  <1>2. ASSUME NEW job \in JobIds, Enqueued(job) PROVE QueueInv'
    BY <1>0, <1>2 DEF Enqueued, QueueInv, NewJob, Live
  <1>3. ASSUME NEW job \in JobIds, StartJob(job) PROVE QueueInv'
    <2>1. \A other \in JobIds \ {job} : jobs'[other] = jobs[other]
      BY <1>0, <1>3 DEF StartJob
    <2>2. /\ jobs'[job].state = "active" /\ jobs[job].state \in Live
          /\ jobs'[job].attemptsMade = jobs[job].attemptsMade
          /\ jobs'[job].stalled = jobs[job].stalled
      BY <1>0, <1>3 DEF StartJob, Job, Live
    <2>3. worker.pc = "idle" /\ worker'.pc = "load" /\ worker'.job = job
      BY <1>3 DEF StartJob, WorkerOn
    <2> QED BY <2>1, <2>2, <2>3 DEF QueueInv
  <1>4. ASSUME NEW job \in JobIds, ForgetJob(job) PROVE QueueInv'
    BY <1>0, <1>4 DEF ForgetJob, QueueInv, JobGone, Live
  <1>5. CASE CompleteJob \/ RetryJob \/ CrashWorker
    BY <1>5, LetGo DEF QueueInv, IdleWorker
  <1> QED BY <1>1, <1>2, <1>3, <1>4, <1>5, QueueSteps

\* The worker's attempt is one of those it has.
LEMMA AttemptsLeft ==
  ASSUME PipelineInv, QueueInv, worker.pc # "idle"
  PROVE  AttemptNumber \in 1..MaxAttempts
  <1>1. worker.job \in JobIds /\ jobs[worker.job].attemptsMade \in Nat
    BY DEF PipelineInv, WorkerIsDeserved, TypeOK, Job
  <1>2. jobs[worker.job].attemptsMade < MaxAttempts
    BY <1>1 DEF QueueInv, Live
  <1> QED BY <1>1, <1>2, PipelineAssumption DEF AttemptNumber

\* The rows a step may log.
LEMMA LogSteps ==
  ASSUME PipelineInv, [Next]_vars
  PROVE  \/ UNCHANGED lifecycleLog
         \/ \E job \in JobIds : \/ Logged(job, "PENDING", 0)
                                \/ Logged(job, "FAILED", 0)
         \/ /\ worker.pc # "idle"
            /\ \/ CommitSuccess
               \/ ~FinalAttempt /\ Logged(worker.job, "RETRYING", AttemptNumber)
               \/ FinalAttempt /\ Logged(worker.job, "FAILED", AttemptNumber)
  <1>1. ASSUME NEW r \in Requests, RequestStep(r)
        PROVE  \/ UNCHANGED lifecycleLog
               \/ \E job \in JobIds : \/ Logged(job, "PENDING", 0)
                                      \/ Logged(job, "FAILED", 0)
    <2>1. requests[r].pc # "idle" => requests[r].job \in JobIds
      BY DEF PipelineInv, RequestsAreDeserved
    <2> QED BY <1>1, <2>1 DEF RequestStep, RevokeRow, RefreshMetadata,
            WriteEnqueueLog, AddToQueue, MarkQueueFailure
  <1>2. CASE RecordFailure
    BY <1>2 DEF RecordFailure, WorkerOn
  <1>3. CASE CommitSuccess
    BY <1>3 DEF CommitSuccess, WorkerOn
  <1> QED BY <1>1, <1>2, <1>3
          DEF Next, WorkerStep, AbortRequest, IssueCredential, ReadForRevoke,
              RegisterSecurePdf, StartJob, ForgetJob, LoadCredential,
              DecideOnProof, SendTransaction, ReceiveReceipt, CompleteJob,
              RetryJob, AttemptFails, CrashWorker, MineTransaction,
              RemoveSigner, vars

\* A row is added at the end of its credential's log.
LEMMA LogAppended ==
  ASSUME TypeOK, NEW job \in JobIds, NEW attempts \in Nat,
         NEW status \in {"PENDING", "RETRYING", "ANCHORED", "REVOKED", "FAILED"},
         Logged(job, status, attempts), NEW c \in Credentials
  PROVE  /\ DOMAIN lifecycleLog[c] \subseteq DOMAIN lifecycleLog'[c]
         /\ \A i \in DOMAIN lifecycleLog[c] :
               lifecycleLog'[c][i] = lifecycleLog[c][i]
         /\ \A i \in DOMAIN lifecycleLog'[c] \ DOMAIN lifecycleLog[c] :
               lifecycleLog'[c][i] = Entry(job, status, attempts)
         /\ c = job[2] => \E i \in DOMAIN lifecycleLog'[c] :
               lifecycleLog'[c][i] = Entry(job, status, attempts)
  <1> DEFINE log == lifecycleLog[c]
             e == Entry(job, status, attempts)
  <1>1. log \in Seq(LogEntry) /\ e \in LogEntry /\ job[2] \in Credentials
    BY JobsAreTuples DEF TypeOK, Entry, LogEntry
  <1>2. CASE c = job[2]
    <2>1. lifecycleLog'[c] = Append(log, e)
      BY <1>1, <1>2 DEF Logged, TypeOK, Entry
    <2> HIDE DEF e
    <2>2. /\ Len(log) \in Nat /\ DOMAIN log = 1..Len(log)
          /\ DOMAIN Append(log, e) = 1..(Len(log) + 1)
          /\ \A i \in 1..Len(log) : Append(log, e)[i] = log[i]
          /\ Append(log, e)[Len(log) + 1] = e
      BY <1>1
    <2> QED BY <2>1, <2>2 DEF e
  <1>3. CASE c # job[2]
    BY <1>3 DEF Logged, TypeOK
  <1> QED BY <1>2, <1>3

LEMMA NextKeepsAttemptLogInv ==
  PipelineInv /\ QueueInv /\ AttemptLogInv /\ [Next]_vars => AttemptLogInv'
  <1> SUFFICES ASSUME PipelineInv, QueueInv, AttemptLogInv, [Next]_vars
               PROVE  AttemptLogInv'
    OBVIOUS
  <1>0. TypeOK /\ MaxAttempts \in Nat \ {0}
    BY PipelineAssumption DEF PipelineInv
  <1>1. ASSUME NEW job \in JobIds, NEW attempts \in Nat,
               NEW status \in {"PENDING", "RETRYING", "ANCHORED", "REVOKED",
                               "FAILED"},
               Logged(job, status, attempts),
               Counted(Entry(job, status, attempts))
        PROVE  AttemptLogInv'
    BY <1>0, <1>1, LogAppended DEF AttemptLogInv
  <1>2. CASE UNCHANGED lifecycleLog
    BY <1>2 DEF AttemptLogInv
  <1>3. ASSUME NEW job \in JobIds,
               Logged(job, "PENDING", 0) \/ Logged(job, "FAILED", 0)
        PROVE  AttemptLogInv'
    <2>1. /\ Counted(Entry(job, "PENDING", 0))
          /\ Counted(Entry(job, "FAILED", 0))
      BY <1>0 DEF Counted, Entry
    <2> QED BY <1>1, <1>3, <2>1
  <1>4. ASSUME worker.pc # "idle",
               \/ CommitSuccess
               \/ ~FinalAttempt /\ Logged(worker.job, "RETRYING", AttemptNumber)
               \/ FinalAttempt /\ Logged(worker.job, "FAILED", AttemptNumber)
        PROVE  AttemptLogInv'
    <2>1. worker.job \in JobIds /\ AttemptNumber \in 1..MaxAttempts
      BY <1>4, WorkerJobFacts, AttemptsLeft
    <2>2. /\ Counted(Entry(worker.job, "ANCHORED", AttemptNumber))
          /\ Counted(Entry(worker.job, "REVOKED", AttemptNumber))
          /\ ~FinalAttempt =>
                Counted(Entry(worker.job, "RETRYING", AttemptNumber))
          /\ FinalAttempt => Counted(Entry(worker.job, "FAILED", AttemptNumber))
      BY <1>0, <2>1 DEF Counted, Entry, FinalAttempt
    <2>3. AttemptNumber \in Nat
      BY <1>0, <2>1
    <2> QED BY <1>1, <1>4, <2>1, <2>2, <2>3 DEF CommitSuccess
  <1> QED BY <1>2, <1>3, <1>4, LogSteps

LEMMA QueueAlways == Spec => [](QueueInv /\ AttemptLogInv)
  <1>1. Init => QueueInv /\ AttemptLogInv
    BY DEF Init, QueueInv, JobGone, IdleWorker, Live, AttemptLogInv
  <1>2. PipelineInv /\ QueueInv /\ AttemptLogInv /\ [Next]_vars
           => (QueueInv /\ AttemptLogInv)'
    BY NextKeepsQueueInv, NextKeepsAttemptLogInv
  <1> QED BY <1>1, <1>2, PipelineInvariant, PTL DEF Spec

\* No stall, crash or lost reply makes the worker try a job more often than it
\* may, or call an attempt the last one that is not.
THEOREM AttemptsStayBounded == Spec => []AttemptsAreBounded
  <1>1. QueueInv /\ AttemptLogInv => AttemptsAreBounded
    BY DEF QueueInv, AttemptLogInv, Counted, AttemptsAreBounded
  <1> QED BY <1>1, QueueAlways, PTL

\* Every release of a job raises one of its two counters, both of which are
\* bounded while it is to run: this is why the queue drains, the scheduler's
\* fairness aside.
THEOREM ReleasesAreCounted == Spec => StartsAreCounted
  <1> DEFINE Step == \A job \in JobIds :
                LET j == jobs[job]
                    k == jobs'[job]
                IN  /\ j.state = "active" /\ k.state # "active" =>
                          k.attemptsMade + k.stalled
                             = j.attemptsMade + j.stalled + 1
                    /\ j.state \in {"completed", "failed"} => k \in {j, JobGone}
                    /\ j.state \in {"waiting", "delayed"} =>
                          k \in {j, [j EXCEPT !.state = "active"]}
  <1>1. PipelineInv /\ QueueInv /\ [Next]_vars => Step
    <2> SUFFICES ASSUME PipelineInv, QueueInv, [Next]_vars PROVE Step
      OBVIOUS
    <2>0. jobs \in [JobIds -> Job]
      BY DEF PipelineInv, TypeOK
    <2>1. CASE WorkerKeepsJob
      BY <2>1 DEF WorkerKeepsJob
    <2>2. ASSUME NEW job \in JobIds, Enqueued(job) PROVE Step
      BY <2>0, <2>2 DEF Enqueued
    <2>3. ASSUME NEW job \in JobIds, StartJob(job) PROVE Step
      BY <2>0, <2>3 DEF StartJob
    <2>4. ASSUME NEW job \in JobIds, ForgetJob(job) PROVE Step
      BY <2>0, <2>4 DEF ForgetJob
    <2>5. CASE CompleteJob \/ RetryJob \/ CrashWorker
      BY <2>5, LetGo
    <2> QED BY <2>1, <2>2, <2>3, <2>4, <2>5, QueueSteps
  <1>2. Spec => [][Step]_vars
    BY <1>1, PipelineInvariant, QueueAlways, PTL DEF Spec
  <1> QED BY <1>2 DEF StartsAreCounted

-----------------------------------------------------------------------------
(* What completed means *)

Recorded(job) ==
    LogRecords(job[2], IF job[1] = "anchor" THEN "ANCHORED" ELSE "REVOKED")

\* A worker that is about to complete its job has recorded what it saw.
DoneInv ==
    /\ \A job \in JobIds :
          jobs[job].state = "completed" => Recorded(job) /\ Landed(job)
    /\ worker.pc = "complete" => Recorded(worker.job) /\ Landed(worker.job)

\* The chain takes nothing back, and the signer does not return.
LEMMA LandedStays ==
  ASSUME PipelineInv, [Next]_vars, NEW job \in JobIds, Landed(job)
  PROVE  Landed(job)'
  <1>0. job[2] \in Credentials
    BY JobsAreTuples
  <1>1. CASE UNCHANGED <<credentials, authorizedIssuers>>
    BY <1>1 DEF Landed
  <1>2. CASE MineTransaction
    BY <1>0, <1>2, MiningFacts DEF Landed, PipelineInv, ChainIsDeserved
  <1>3. CASE RemoveSigner
    BY <1>3 DEF RemoveSigner, Registry!RemoveIssuer, Registry!credentialVars,
       Landed
  <1>4. ~MineTransaction /\ ~RemoveSigner
           => UNCHANGED <<credentials, authorizedIssuers>>
    BY DEF Next, RequestStep, RevokeRow, RefreshMetadata, WriteEnqueueLog,
       AddToQueue, MarkQueueFailure, AbortRequest, IssueCredential,
       ReadForRevoke, RegisterSecurePdf, StartJob, ForgetJob, WorkerStep,
       LoadCredential, DecideOnProof, SendTransaction, ReceiveReceipt,
       CommitSuccess, RecordFailure, CompleteJob, RetryJob, AttemptFails,
       CrashWorker, UnchangedByRequests, UnchangedByWorker, vars, chainVars
  <1> QED BY <1>1, <1>2, <1>3, <1>4

\* The log loses nothing.
LEMMA RecordedStays ==
  ASSUME PipelineInv, [Next]_vars, NEW job \in JobIds, Recorded(job)
  PROVE  Recorded(job)'
  <1>0. TypeOK /\ job[2] \in Credentials
    BY JobsAreTuples DEF PipelineInv
  <1>1. ASSUME NEW j \in JobIds, NEW attempts \in Nat,
               NEW status \in {"PENDING", "RETRYING", "ANCHORED", "REVOKED",
                               "FAILED"},
               Logged(j, status, attempts)
        PROVE  Recorded(job)'
    BY <1>0, <1>1, LogAppended DEF Recorded, LogRecords
  <1>2. CASE UNCHANGED lifecycleLog
    BY <1>2 DEF Recorded, LogRecords
  <1>3. ASSUME worker.pc # "idle",
               \/ CommitSuccess
               \/ Logged(worker.job, "RETRYING", AttemptNumber)
               \/ Logged(worker.job, "FAILED", AttemptNumber)
        PROVE  Recorded(job)'
    BY <1>1, <1>3, WorkerJobFacts DEF CommitSuccess
  <1> QED BY <1>1, <1>2, <1>3, LogSteps

\* Success is recorded when its effect was seen.
LEMMA CommitRecords ==
  ASSUME PipelineInv, CommitSuccess
  PROVE  /\ worker.job \in JobIds /\ worker'.job = worker.job
         /\ Recorded(worker.job)' /\ Landed(worker.job)
  <1>1. worker.pc = "commit" /\ worker \in Worker
    BY DEF CommitSuccess, WorkerOn, PipelineInv, TypeOK
  <1>2. /\ worker.job \in JobIds /\ JobCredential \in Credentials
        /\ JobOp \in {"anchor", "revoke"} /\ AttemptNumber \in Nat /\ TypeOK
    BY <1>1, WorkerJobFacts
  <1>3. Landed(worker.job)
    BY <1>1 DEF PipelineInv, WorkerIsDeserved
  <1>4. worker'.job = worker.job
    BY <1>1 DEF CommitSuccess, WorkerGoto, Worker
  <1>5. ASSUME JobOp = "anchor", Logged(worker.job, "ANCHORED", AttemptNumber)
        PROVE  Recorded(worker.job)'
    <2>1. PICK job \in JobIds, n \in Nat : job = worker.job /\ n = AttemptNumber
      BY <1>2
    <2>2. job[2] \in Credentials /\ Logged(job, "ANCHORED", n)
      BY <1>5, <2>1, JobsAreTuples DEF Logged
    <2>3. \E i \in DOMAIN lifecycleLog'[job[2]] :
             lifecycleLog'[job[2]][i] = Entry(job, "ANCHORED", n)
      BY <1>2, <2>2, LogAppended
    <2>4. Entry(job, "ANCHORED", n).status = "ANCHORED"
      BY DEF Entry
    <2> QED BY <1>4, <2>4, <1>5, <2>1, <2>3 DEF Recorded, LogRecords, JobOp
  <1>6. ASSUME JobOp = "revoke", Logged(worker.job, "REVOKED", AttemptNumber)
        PROVE  Recorded(worker.job)'
    <2>1. PICK job \in JobIds, n \in Nat : job = worker.job /\ n = AttemptNumber
      BY <1>2
    <2>2. job[2] \in Credentials /\ Logged(job, "REVOKED", n)
      BY <1>6, <2>1, JobsAreTuples DEF Logged
    <2>3. \E i \in DOMAIN lifecycleLog'[job[2]] :
             lifecycleLog'[job[2]][i] = Entry(job, "REVOKED", n)
      BY <1>2, <2>2, LogAppended
    <2>4. Entry(job, "REVOKED", n).status = "REVOKED"
      BY DEF Entry
    <2> QED BY <1>4, <2>4, <1>6, <2>1, <2>3 DEF Recorded, LogRecords, JobOp
  <1>7. Recorded(worker.job)'
    BY <1>5, <1>6 DEF CommitSuccess
  <1> QED BY <1>2, <1>3, <1>4, <1>7

\* Only a recorded success lets the worker complete.
LEMMA OnlyCommitsComplete ==
  ASSUME PipelineInv, [Next]_vars, worker'.pc = "complete"
  PROVE  worker' = worker \/ CommitSuccess
  <1>0. worker \in Worker
    BY DEF PipelineInv, TypeOK
  <1>1. \A pc : WorkerGoto(pc) => worker'.pc = pc
    BY <1>0 DEF WorkerGoto, Worker
  <1>2. ASSUME NEW r \in Requests,
               \/ RequestStep(r) \/ AbortRequest(r)
               \/ \E c \in Credentials :
                     \/ IssueCredential(r, c)
                     \/ \E bulk \in BOOLEAN : ReadForRevoke(r, c, bulk)
        PROVE  worker' = worker
    BY <1>2 DEF RequestStep, RevokeRow, RefreshMetadata, WriteEnqueueLog,
       AddToQueue, MarkQueueFailure, AbortRequest, IssueCredential,
       ReadForRevoke, UnchangedByRequests
  <1>3. ASSUME NEW job \in JobIds, StartJob(job) PROVE FALSE
    BY <1>3 DEF StartJob
  <1>4. ~LoadCredential
    BY <1>0, <1>1 DEF LoadCredential, Worker
  <1>5. ~DecideOnProof
    BY <1>1 DEF DecideOnProof, AnchorDecision, RevokeDecision
  <1>6. ~SendTransaction /\ ~ReceiveReceipt /\ ~RecordFailure /\ ~AttemptFails
    BY <1>1 DEF SendTransaction, ReceiveReceipt, RecordFailure, AttemptFails
  <1>7. ~CompleteJob /\ ~RetryJob /\ ~CrashWorker
    BY DEF CompleteJob, RetryJob, CrashWorker, IdleWorker
  <1> QED BY <1>2, <1>3, <1>4, <1>5, <1>6, <1>7
          DEF Next, WorkerStep, RegisterSecurePdf, UnchangedByRequests,
              ForgetJob, MineTransaction, RemoveSigner, vars

LEMMA NextKeepsDoneInv ==
  PipelineInv /\ QueueInv /\ DoneInv /\ [Next]_vars => DoneInv'
  <1> SUFFICES ASSUME PipelineInv, QueueInv, DoneInv, [Next]_vars
               PROVE  DoneInv'
    OBVIOUS
  <1>0. jobs \in [JobIds -> Job] /\ (worker.pc # "idle" => worker.job \in JobIds)
    BY DEF PipelineInv, TypeOK, WorkerIsDeserved
  <1>1. ASSUME NEW job \in JobIds, Recorded(job), Landed(job)
        PROVE  Recorded(job)' /\ Landed(job)'
    BY <1>1, RecordedStays, LandedStays
  <1>2. ASSUME worker'.pc = "complete"
        PROVE  Recorded(worker.job)' /\ Landed(worker.job)'
               /\ worker'.job = worker.job
    <2>1. CASE worker' = worker
      BY <1>0, <1>1, <1>2, <2>1 DEF DoneInv
    <2>2. CASE CommitSuccess
      BY <2>2, CommitRecords, LandedStays
    <2> QED BY <1>2, <2>1, <2>2, OnlyCommitsComplete
  <1>3. ASSUME NEW job \in JobIds, jobs'[job].state = "completed"
        PROVE  Recorded(job)' /\ Landed(job)'
    <2>1. CASE jobs[job].state = "completed"
      BY <1>1, <2>1 DEF DoneInv
    <2>2. CASE jobs[job].state # "completed"
      <3>1. CompleteJob /\ job = worker.job
        <4>1. ASSUME NEW j \in JobIds,
                     Enqueued(j) \/ StartJob(j) \/ ForgetJob(j)
              PROVE  FALSE
          BY <1>0, <1>3, <2>2, <4>1
             DEF Enqueued, StartJob, ForgetJob, NewJob, JobGone, Job
        <4>2. ~WorkerKeepsJob
          BY <1>3, <2>2 DEF WorkerKeepsJob
        <4> QED BY <1>3, <2>2, <4>1, <4>2, QueueSteps, LetGo
      <3> QED BY <1>1, <3>1 DEF CompleteJob, WorkerOn, DoneInv
    <2> QED BY <2>1, <2>2
  <1> QED BY <1>2, <1>3 DEF DoneInv, Recorded, LogRecords, Landed

\* Completed means done: recorded in the log, and there to see on the chain,
\* whatever was repeated, lost or answered late on the way.
THEOREM CompletedMeansLanded == Spec => []CompletedJobsLanded
  <1>1. Init => DoneInv
    BY DEF Init, DoneInv, JobGone, IdleWorker
  <1>2. DoneInv => CompletedJobsLanded
    <2> SUFFICES ASSUME DoneInv, NEW c \in Credentials
                 PROVE  /\ jobs[<<"anchor", c>>].state = "completed" =>
                              /\ LogRecords(c, "ANCHORED")
                              /\ \/ credentials[c].exists
                                 \/ Signer \notin authorizedIssuers
                        /\ jobs[<<"revoke", c>>].state = "completed" =>
                              /\ LogRecords(c, "REVOKED")
                              /\ credentials[c].revoked
      BY DEF CompletedJobsLanded
    <2>1. <<"anchor", c>> \in JobIds /\ <<"revoke", c>> \in JobIds
      BY DEF JobIds, Operations
    <2> QED BY <2>1 DEF DoneInv, Recorded, Landed
  <1> QED BY <1>1, <1>2, NextKeepsDoneInv, PipelineInvariant, QueueAlways, PTL
          DEF Spec

-----------------------------------------------------------------------------
(* The pipeline implements ChainLifecycle *)

Issued == {c \in Credentials : row[c].issued}
Revoked == {c \in Credentials : row[c].revoked}
OnChain(c) == IF ~credentials[c].exists THEN "absent"
              ELSE IF credentials[c].revoked THEN "revoked" ELSE "active"
Chain == [c \in Credentials |-> OnChain(c)]

LEMMA SameLifecycle ==
  ASSUME \A c \in Credentials : /\ row'[c].issued = row[c].issued
                                /\ row'[c].revoked = row[c].revoked
  PROVE  Issued' = Issued /\ Revoked' = Revoked
  BY DEF Issued, Revoked

LEMMA SameChain ==
  ASSUME UNCHANGED credentials
  PROVE  Chain' = Chain
  BY DEF Chain, OnChain

LEMMA LifecycleOf ==
  /\ Lifecycle!Init <=> /\ Issued = {} /\ Revoked = {}
                        /\ Chain = [c \in Credentials |-> "absent"]
  /\ Lifecycle!vars = <<Issued, Revoked, Chain>>
  BY DEF Lifecycle!Init, Lifecycle!vars, Issued, Revoked, Chain, OnChain

\* The rows' issued and revoked flags and the contract's records are all a
\* step has to leave alone to be a stuttering step of ChainLifecycle.
LEMMA QuietStep ==
  ASSUME UNCHANGED credentials,
         \A c \in Credentials : /\ row'[c].issued = row[c].issued
                                /\ row'[c].revoked = row[c].revoked
  PROVE  UNCHANGED Lifecycle!vars
  BY SameLifecycle, SameChain
     DEF Lifecycle!vars, Issued, Revoked, Chain, OnChain

LEMMA IssueCredentialIssues ==
  ASSUME PipelineInv, NEW r \in Requests, NEW c \in Credentials,
         IssueCredential(r, c)
  PROVE  Lifecycle!Issue(c)
  <1>1. \A d \in Credentials :
           /\ row'[d].issued = (d = c \/ row[d].issued)
           /\ row'[d].revoked = row[d].revoked
    BY DEF PipelineInv, TypeOK, CredentialRow, IssueCredential
  <1>2. UNCHANGED credentials
    BY DEF IssueCredential, UnchangedByRequests, chainVars
  <1>3. Issued' = Issued \cup {c} /\ Revoked' = Revoked
    BY <1>1 DEF Issued, Revoked
  <1> QED BY <1>2, <1>3, SameChain
          DEF Lifecycle!Issue, Issued, Revoked, Chain, OnChain

LEMMA RevokeRowRevokes ==
  ASSUME PipelineInv, NEW r \in Requests, RevokeRow(r),
         NEW c \in Credentials, c = requests[r].job[2]
  PROVE  Lifecycle!Revoke(c)
  <1>1. row[c].issued
    BY DEF PipelineInv, RequestsAreDeserved, RevokeRow
  <1>2. \A d \in Credentials :
           /\ row'[d].issued = row[d].issued
           /\ row'[d].revoked = (d = c \/ row[d].revoked)
    BY <1>1 DEF PipelineInv, TypeOK, CredentialRow, RevokeRow
  <1>3. UNCHANGED credentials
    BY DEF RevokeRow, UnchangedByRequests, chainVars
  <1>4. c \in Issued /\ Issued' = Issued /\ Revoked' = Revoked \cup {c}
    BY <1>1, <1>2 DEF Issued, Revoked
  <1> QED BY <1>3, <1>4, SameChain
          DEF Lifecycle!Revoke, Issued, Revoked, Chain, OnChain

\* Mining anchors an issued credential, revokes a revoked one, or has no
\* effect.
LEMMA MiningMovesTheLifecycle ==
  ASSUME PipelineInv, MineTransaction
  PROVE  Lifecycle!Next \/ UNCHANGED Lifecycle!vars
  <1>0. PICK job \in JobIds : job = mempool[1][1]
    BY MiningFacts DEF Transaction
  <1> DEFINE c == job[2]
  <1>1. /\ job \in JobIds /\ c \in Credentials /\ Asked(job)
        /\ UNCHANGED row
    BY <1>0, MiningFacts, JobsAreTuples DEF MineTransaction
  <1>2. Issued' = Issued /\ Revoked' = Revoked
    BY <1>1, SameLifecycle
  <1>3. /\ c \in Issued
        /\ job[1] = "revoke" => c \in Revoked
    BY <1>1 DEF Asked, Issued, Revoked
  <1>4. \A d \in Credentials \ {c} : OnChain(d)' = OnChain(d)
    BY <1>0, MiningFacts DEF OnChain
  <1>5. CASE credentials'[c] = credentials[c]
    <2>1. Chain' = Chain
      BY <1>4, <1>5 DEF Chain, OnChain
    <2> QED BY <1>2, <2>1 DEF Lifecycle!vars, Issued, Revoked, Chain, OnChain
  <1>6. CASE job[1] = "anchor" /\ credentials'[c] # credentials[c]
    <2>1. Chain[c] = "absent" /\ OnChain(c)' = "active"
      BY <1>0, <1>1, <1>6, MiningFacts DEF Chain, OnChain
    <2>2. Chain' = [Chain EXCEPT ![c] = "active"]
      BY <1>1, <1>4, <2>1 DEF Chain
    <2>3. Lifecycle!Anchor(c)
      BY <1>2, <1>3, <2>1, <2>2
         DEF Lifecycle!Anchor, Issued, Revoked, Chain, OnChain
    <2> QED BY <1>1, <2>3 DEF Lifecycle!Next
  <1>7. CASE job[1] = "revoke" /\ credentials'[c] # credentials[c]
    <2>1. Chain[c] = "active" /\ OnChain(c)' = "revoked"
      BY <1>0, <1>1, <1>7, MiningFacts DEF Chain, OnChain
    <2>2. Chain' = [Chain EXCEPT ![c] = "revoked"]
      BY <1>1, <1>4, <2>1 DEF Chain
    <2>3. Lifecycle!RevokeOnChain(c)
      BY <1>2, <1>3, <1>7, <2>1, <2>2
         DEF Lifecycle!RevokeOnChain, Issued, Revoked, Chain, OnChain
    <2> QED BY <1>1, <2>3 DEF Lifecycle!Next
  <1> QED BY <1>1, <1>5, <1>6, <1>7, JobsAreTuples DEF Operations

LEMMA StepsImplementLifecycle ==
  PipelineInv /\ [Next]_vars => [Lifecycle!Next]_(Lifecycle!vars)
  <1> DEFINE Goal == Lifecycle!Next \/ UNCHANGED Lifecycle!vars
  <1> SUFFICES ASSUME PipelineInv, [Next]_vars
               PROVE  Goal
    OBVIOUS
  <1> HIDE DEF Goal
  <1> USE DEF PipelineInv
  <1>1. ASSUME UNCHANGED row, UNCHANGED credentials PROVE Goal
    BY <1>1, QuietStep DEF Goal
  <1>2. ASSUME NEW job \in JobIds, UNCHANGED credentials,
               \/ SetStatuses(job[2], "PENDING")
               \/ SetStatuses(job[2], "ANCHORED")
               \/ SetStatuses(job[2], "FAILED")
               \/ SetChainStatus(job[2], "REVOKED")
               \/ SetChainStatus(job[2], "REVOKE_FAILED")
               \/ SetChainStatus(job[2], "REVOKE_ENQUEUE_FAILED")
               \/ UNCHANGED row
        PROVE  Goal
    <2>1. \A c \in Credentials : /\ row'[c].issued = row[c].issued
                                 /\ row'[c].revoked = row[c].revoked
      BY <1>2, SetStatusesFacts, SetChainStatusFacts, JobsAreTuples
         DEF AnchorStatus, ChainStatus
    <2> QED BY <1>2, <2>1, QuietStep DEF Goal
  <1>3. ASSUME NEW r \in Requests, RequestStep(r) PROVE Goal
    <2>1. requests[r].pc # "idle" => requests[r].job \in JobIds
      BY DEF RequestsAreDeserved
    <2>2. CASE RevokeRow(r)
      <3>1. PICK c \in Credentials : c = requests[r].job[2]
        BY <2>1, <2>2, JobsAreTuples DEF RevokeRow
      <3>2. Lifecycle!Revoke(c)
        BY <2>2, <3>1, RevokeRowRevokes
      <3> QED BY <3>2 DEF Goal, Lifecycle!Next
    <2>3. CASE RefreshMetadata(r)
      BY <1>1, <2>3 DEF RefreshMetadata, UnchangedByRequests, chainVars
    <2>4. CASE WriteEnqueueLog(r)
      BY <1>2, <2>1, <2>4 DEF WriteEnqueueLog, UnchangedByRequests, chainVars
    <2>5. CASE AddToQueue(r)
      BY <1>1, <2>5 DEF AddToQueue, UnchangedByRequests, chainVars
    <2>6. CASE MarkQueueFailure(r)
      BY <1>2, <2>1, <2>6 DEF MarkQueueFailure, UnchangedByRequests, chainVars
    <2> QED BY <1>3, <2>2, <2>3, <2>4, <2>5, <2>6 DEF RequestStep
  <1>4. ASSUME NEW r \in Requests, AbortRequest(r) PROVE Goal
    BY <1>1, <1>4 DEF AbortRequest, UnchangedByRequests, chainVars
  <1>5. ASSUME NEW r \in Requests, NEW c \in Credentials, IssueCredential(r, c)
        PROVE  Goal
    BY <1>5, IssueCredentialIssues DEF Goal, Lifecycle!Next
  <1>6. ASSUME NEW r \in Requests, NEW c \in Credentials, NEW bulk \in BOOLEAN,
               ReadForRevoke(r, c, bulk)
        PROVE  Goal
    BY <1>1, <1>6 DEF ReadForRevoke, UnchangedByRequests, chainVars
  <1>7. ASSUME NEW c \in Credentials, RegisterSecurePdf(c) PROVE Goal
    <2>1. \A d \in Credentials : /\ row'[d].issued = row[d].issued
                                 /\ row'[d].revoked = row[d].revoked
      BY <1>7 DEF RegisterSecurePdf, TypeOK, CredentialRow
    <2> QED BY <1>7, <2>1, QuietStep
            DEF RegisterSecurePdf, UnchangedByRequests, chainVars, Goal
  <1>8. ASSUME NEW job \in JobIds, StartJob(job) \/ ForgetJob(job) PROVE Goal
    BY <1>1, <1>8 DEF StartJob, ForgetJob, UnchangedByWorker, chainVars
  <1>9. CASE WorkerStep
    <2>1. worker.pc # "idle" => worker.job \in JobIds
      BY DEF WorkerIsDeserved
    <2>2. CASE CommitSuccess
      BY <1>2, <2>1, <2>2
         DEF CommitSuccess, WorkerOn, JobCredential, UnchangedByWorker, chainVars
    <2>3. CASE RecordFailure
      BY <1>2, <2>1, <2>3
         DEF RecordFailure, WorkerOn, JobCredential, UnchangedByWorker, chainVars
    <2>4. CASE \/ LoadCredential \/ DecideOnProof \/ SendTransaction
               \/ ReceiveReceipt \/ CompleteJob \/ RetryJob
      BY <1>1, <2>4
         DEF LoadCredential, DecideOnProof, SendTransaction, ReceiveReceipt,
             CompleteJob, RetryJob, UnchangedByWorker, chainVars
    <2> QED BY <1>9, <2>2, <2>3, <2>4 DEF WorkerStep
  <1>10. CASE AttemptFails \/ CrashWorker
    BY <1>1, <1>10 DEF AttemptFails, CrashWorker, UnchangedByWorker, chainVars
  <1>11. CASE MineTransaction
    BY <1>11, MiningMovesTheLifecycle DEF Goal
  <1>12. CASE RemoveSigner
    BY <1>1, <1>12
       DEF RemoveSigner, Registry!RemoveIssuer, Registry!credentialVars
  <1>13. CASE UNCHANGED vars
    BY <1>1, <1>13 DEF vars, chainVars
  <1>14. Goal
    BY <1>3, <1>4, <1>5, <1>6, <1>7, <1>8, <1>9, <1>10, <1>11, <1>12, <1>13
       DEF Next
  <1> QED BY <1>14

\* Requests, queue, worker and contract together do nothing that
\* ChainLifecycle does not allow: what the chain shows was asked for by the
\* database, in order, and is never undone.
THEOREM PipelineImplementsLifecycle == Spec => ImplementsLifecycle
  <1>1. Init => Lifecycle!Init
    <2> SUFFICES ASSUME Init PROVE Lifecycle!Init
      OBVIOUS
    <2>1. \A c \in Credentials : /\ ~row[c].issued /\ ~row[c].revoked
                                 /\ ~credentials[c].exists
      BY DEF Init, Registry!EmptyRecord
    <2>2. Issued = {} /\ Revoked = {}
      BY <2>1 DEF Issued, Revoked
    <2>3. Chain = [c \in Credentials |-> "absent"]
      BY <2>1 DEF Chain, OnChain
    <2> QED BY <2>2, <2>3, LifecycleOf
  <1>2. PipelineInv /\ [Next]_vars => [Lifecycle!Next]_(Lifecycle!vars)
    BY StepsImplementLifecycle
  <1> QED BY <1>1, <1>2, PipelineInvariant, PTL
          DEF Spec, ImplementsLifecycle, Lifecycle!Spec

=============================================================================
