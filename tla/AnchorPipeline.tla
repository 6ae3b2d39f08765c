--------------------------- MODULE AnchorPipeline ---------------------------
(***************************************************************************)
(* From an API request to the chain: requests issue and revoke credentials *)
(* in PostgreSQL and enqueue a BullMQ job; one worker takes the jobs, one  *)
(* at a time, reads the credential, calls the CredentialRegistry contract  *)
(* and writes the outcome back.  The database, the queue and the chain are *)
(* three stores with no transaction across them; any request, the worker   *)
(* and any call between them may fail between two steps.                   *)
(*                                                                         *)
(* The module models the deployment with BLOCKCHAIN_ENABLED=true: with it  *)
(* off both enqueue functions return at once and no worker is started.     *)
(***************************************************************************)
EXTENDS Naturals, Sequences, SequencesExt

CONSTANTS
    Credentials,     \* ids of the credentials that may be issued
    Requests,        \* concurrent API requests
    Signer,          \* the worker's key, also the institution's wallet
    Owner,           \* the owner of the contract
    MaxAttempts,     \* BLOCKCHAIN_JOB_ATTEMPTS
    MaxStalled,      \* how often BullMQ restarts a stalled job
    MaxFaults,       \* bound on the disturbances, see Fault
    SecurePdfs,      \* may secure PDFs be registered?
    SignerRemovable, \* may the owner remove the signer from the issuers?
    NoAddress, NoCredential, EmptyId, NoHash, NoName

ASSUME PipelineAssumption ==
    /\ MaxAttempts \in Nat \ {0}
    /\ MaxStalled \in Nat
    /\ MaxFaults \in Nat
    /\ SecurePdfs \in BOOLEAN
    /\ SignerRemovable \in BOOLEAN
    /\ Signer # Owner
    /\ NoAddress \notin {Signer, Owner}
    /\ NoCredential \notin Credentials
    /\ EmptyId \notin Credentials
    /\ NoHash \notin {"registry", "document"} \X Credentials

VARIABLES
    row,           \* the credential table
    lifecycleLog,  \* blockchain_anchor_logs, per credential
    jobs,          \* the BullMQ queue credential-anchor
    requests,      \* the API requests in progress
    worker,        \* the credential-anchor worker
    mempool,       \* transactions broadcast and not mined, in nonce order
    faults,        \* disturbances so far
    credentials, credentialKeyByProofHash, authorizedIssuers, issuerProfiles,
    owner, now     \* the contract, see CredentialRegistry

chainVars == <<credentials, credentialKeyByProofHash, authorizedIssuers,
               issuerProfiles, owner, now>>
vars == <<row, lifecycleLog, jobs, requests, worker, mempool, faults,
          chainVars>>

Operations == {"anchor", "revoke"}
JobIds == Operations \X Credentials
NoJob == <<"none", NoCredential>>

\* The proof hash a credential is issued with, and that of its secure PDF.
RegistryHash(c) == <<"registry", c>>
DocumentHash(c) == <<"document", c>>
Hashes == {"registry", "document"} \X Credentials

\* The contract, at one block time: the pipeline reads no dates from it.
Registry == INSTANCE CredentialRegistry WITH
    Addresses <- {Signer, Owner}, CredentialIds <- Credentials,
    ProofHashes <- Hashes, IssuerNames <- {}, Deployer <- Owner,
    MaxTime <- 1

AnchorStatus == {"PENDING", "ANCHORED", "FAILED"}
ChainStatus ==
    AnchorStatus \cup {"REVOKED", "REVOKE_FAILED", "REVOKE_ENQUEUE_FAILED"}

CredentialRow ==
    [issued: BOOLEAN, revoked: BOOLEAN, chainProofHash: Hashes,
     anchorStatus: AnchorStatus, chainStatus: ChainStatus]

LogEntry ==
    [operation: Operations,
     status: {"PENDING", "RETRYING", "ANCHORED", "REVOKED", "FAILED"},
     attempts: Nat]

JobState == {"none", "waiting", "active", "delayed", "completed", "failed"}
Job == [state: JobState, attemptsMade: Nat, stalled: Nat]
NewJob == [state |-> "waiting", attemptsMade |-> 0, stalled |-> 0]
JobGone == [state |-> "none", attemptsMade |-> 0, stalled |-> 0]
Live == {"waiting", "active", "delayed"}

Request ==
    [pc: {"idle", "updateRow", "refreshMetadata", "writeLog", "queueAdd",
          "markFailure"},
     job: JobIds \cup {NoJob}, bulk: BOOLEAN]
IdleRequest == [pc |-> "idle", job |-> NoJob, bulk |-> FALSE]

Worker ==
    [pc: {"idle", "load", "chain", "send", "receipt", "commit", "catch",
          "complete", "retry"},
     job: JobIds \cup {NoJob}, hash: Hashes \cup {NoHash}]
IdleWorker == [pc |-> "idle", job |-> NoJob, hash |-> NoHash]

Transaction == JobIds \X Hashes

Init ==
    /\ row = [c \in Credentials |->
                [issued |-> FALSE, revoked |-> FALSE,
                 chainProofHash |-> RegistryHash(c),
                 anchorStatus |-> "PENDING", chainStatus |-> "PENDING"]]
    /\ lifecycleLog = [c \in Credentials |-> <<>>]
    /\ jobs = [j \in JobIds |-> JobGone]
    /\ requests = [r \in Requests |-> IdleRequest]
    /\ worker = IdleWorker
    /\ mempool = <<>>
    /\ faults = 0
    /\ owner = Owner
    /\ now = 1
    /\ credentials = [c \in Credentials |-> Registry!EmptyRecord]
    /\ credentialKeyByProofHash = [h \in Hashes \cup {NoHash} |-> NoCredential]
    /\ authorizedIssuers = {Signer}
    /\ issuerProfiles =
          [a \in {Signer, Owner} |->
             IF a = Signer
             THEN Registry!AuthorizedProfile(Registry!EmptyProfile, NoName)
             ELSE Registry!EmptyProfile]

-----------------------------------------------------------------------------
(* Faults and log rows *)

\* A disturbance: a crash, a call that fails, a reply that is lost, or what comes
\* from outside the pipeline: a secure PDF registered for a credential, the
\* signer taken off the list of issuers, a finished job that is forgotten.
Fault ==
    /\ faults < MaxFaults
    /\ faults' = faults + 1

NoFault == UNCHANGED faults

\* persistLifecycleLog: one immutable row per event, written in the
\* transaction that writes the credential.
Logged(job, status, attempts) ==
    LET c == job[2]
    IN  lifecycleLog' =
          [lifecycleLog EXCEPT ![c] =
             Append(@, [operation |-> job[1], status |-> status,
                        attempts |-> attempts])]

\* Write both statuses of a credential, or chainStatus alone.
SetStatuses(c, status) ==
    row' = [row EXCEPT ![c].anchorStatus = status, ![c].chainStatus = status]

SetChainStatus(c, status) == row' = [row EXCEPT ![c].chainStatus = status]

-----------------------------------------------------------------------------
(* API requests *)

Goto(r, pc) == requests' = [requests EXCEPT ![r].pc = pc]
Finish(r) == requests' = [requests EXCEPT ![r] = IdleRequest]
Begin(r, pc, job, bulk) ==
    /\ requests[r].pc = "idle"
    /\ requests' = [requests EXCEPT
                      ![r] = [pc |-> pc, job |-> job, bulk |-> bulk]]

UnchangedByRequests ==
    UNCHANGED <<worker, mempool, chainVars>>

\* issueCredentialRecord inserts the row and goes on to enqueueAnchor.
IssueCredential(r, c) ==
    /\ ~row[c].issued
    /\ Begin(r, "writeLog", <<"anchor", c>>, FALSE)
    /\ row' = [row EXCEPT ![c].issued = TRUE]
    /\ NoFault
    /\ UNCHANGED <<lifecycleLog, jobs>>
    /\ UnchangedByRequests

\* revoke (and, with bulk, bulkRevoke) reads the credential and finds it not
\* revoked; the update comes later and does not look again.
ReadForRevoke(r, c, bulk) ==
    /\ row[c].issued
    /\ ~row[c].revoked
    /\ Begin(r, "updateRow", <<"revoke", c>>, bulk)
    /\ NoFault
    /\ UNCHANGED <<row, lifecycleLog, jobs>>
    /\ UnchangedByRequests

\* Mutant: the job is put on the queue before the credential is revoked.
RevokeRowLater(r) ==
    /\ requests[r].pc = "updateRow"
    /\ Goto(r, "writeLog")
    /\ NoFault
    /\ UNCHANGED <<row, lifecycleLog, jobs>>
    /\ UnchangedByRequests

\* The credential becomes revoked.  The single revoke then rewrites the stored
\* metadata before it enqueues; the bulk one enqueues at once.
RevokeRow(r) ==
    LET c == requests[r].job[2]
    IN  /\ requests[r].pc = "updateRow"
        /\ row' = [row EXCEPT ![c].revoked = TRUE]
        /\ Goto(r, IF requests[r].bulk THEN "writeLog" ELSE "refreshMetadata")
        /\ NoFault
        /\ UNCHANGED <<lifecycleLog, jobs>>
        /\ UnchangedByRequests

RefreshMetadata(r) ==
    /\ requests[r].pc = "refreshMetadata"
    /\ Goto(r, "writeLog")
    /\ NoFault
    /\ UNCHANGED <<row, lifecycleLog, jobs>>
    /\ UnchangedByRequests

\* The transaction that opens enqueueAnchor and enqueueRevoke.  When it fails
\* the caller's catch runs markQueueFailure.
WriteEnqueueLog(r) ==
    LET job == requests[r].job
    IN  /\ requests[r].pc = "writeLog"
        /\ \/ /\ Logged(job, "PENDING", 0)
              /\ IF job[1] = "anchor" THEN SetStatuses(job[2], "PENDING")
                                      ELSE UNCHANGED row
              /\ Goto(r, "queueAdd")
              /\ NoFault
           \/ /\ Fault
              /\ Goto(r, "markFailure")
              /\ UNCHANGED <<row, lifecycleLog>>
        /\ UNCHANGED jobs
        /\ UnchangedByRequests

\* Mutant: a finished job does not stand in the way of its successor.
AddedAgain(job) ==
    jobs' = IF jobs[job].state \in Live THEN jobs
                                        ELSE [jobs EXCEPT ![job] = NewJob]

\* queue.add under a fixed job id: a job already known, finished ones that are
\* still kept included, makes it do nothing.
Added(job) ==
    jobs' = IF jobs[job].state = "none" THEN [jobs EXCEPT ![job] = NewJob]
                                        ELSE jobs

\* The producer's connection fails fast, so a call whose reply is lost fails
\* although Redis may have run it.
AddToQueue(r) ==
    LET job == requests[r].job
    IN  /\ requests[r].pc = "queueAdd"
        /\ \/ /\ Added(job)
              /\ Finish(r)
              /\ NoFault
           \/ /\ Added(job)
              /\ Goto(r, "markFailure")
              /\ Fault
           \/ /\ Goto(r, "markFailure")
              /\ Fault
              /\ UNCHANGED jobs
        /\ UNCHANGED <<row, lifecycleLog>>
        /\ UnchangedByRequests

\* Mutant of MarkQueueFailure: no log row is written.
MarkQueueFailureUnlogged(r) ==
    LET job == requests[r].job
    IN  /\ requests[r].pc = "markFailure"
        /\ IF job[1] = "anchor"
           THEN SetStatuses(job[2], "FAILED")
           ELSE SetChainStatus(job[2], "REVOKE_ENQUEUE_FAILED")
        /\ Finish(r)
        /\ NoFault
        /\ UNCHANGED <<jobs, lifecycleLog>>
        /\ UnchangedByRequests

\* The failure lands on the credential and in the log: both statuses of an
\* anchoring, only chainStatus of a revocation.
MarkQueueFailure(r) ==
    LET job == requests[r].job
    IN  /\ requests[r].pc = "markFailure"
        /\ IF job[1] = "anchor"
           THEN SetStatuses(job[2], "FAILED")
           ELSE SetChainStatus(job[2], "REVOKE_ENQUEUE_FAILED")
        /\ Logged(job, "FAILED", 0)
        /\ Finish(r)
        /\ NoFault
        /\ UNCHANGED jobs
        /\ UnchangedByRequests

\* The request ends early: the process dies, or an error nobody catches ends
\* it (the row update, the storage write of refreshCredentialMetadata, or
\* markQueueFailure itself fails).
AbortRequest(r) ==
    /\ requests[r].pc # "idle"
    /\ Finish(r)
    /\ Fault
    /\ UNCHANGED <<row, lifecycleLog, jobs>>
    /\ UnchangedByRequests

\* registerDocumentProof overwrites chainProofHash with the hash of the PDF,
\* whether or not the credential is anchored or revoked, and enqueues nothing.
RegisterSecurePdf(c) ==
    /\ SecurePdfs
    /\ row[c].issued
    /\ row' = [row EXCEPT ![c].chainProofHash = DocumentHash(c)]
    /\ Fault
    /\ UNCHANGED <<lifecycleLog, jobs, requests>>
    /\ UnchangedByRequests

RequestStep(r) ==
    \/ RevokeRow(r)
    \/ RefreshMetadata(r)
    \/ WriteEnqueueLog(r)
    \/ AddToQueue(r)
    \/ MarkQueueFailure(r)

-----------------------------------------------------------------------------
(* The worker: concurrency 1, so at most one job is active *)

WorkerGoto(pc) == worker' = [worker EXCEPT !.pc = pc]
WorkerOn(pc) == worker.pc = pc
JobOp == worker.job[1]
JobCredential == worker.job[2]

UnchangedByWorker ==
    UNCHANGED <<requests, chainVars>>

\* BullMQ hands over a waiting job, or a delayed one whose backoff is over.
StartJob(job) ==
    /\ WorkerOn("idle")
    /\ jobs[job].state \in {"waiting", "delayed"}
    /\ jobs' = [jobs EXCEPT ![job].state = "active"]
    /\ worker' = [pc |-> "load", job |-> job, hash |-> NoHash]
    /\ NoFault
    /\ UNCHANGED <<row, lifecycleLog, mempool>>
    /\ UnchangedByWorker

\* The read of the credential, before the try: when it fails the attempt fails
\* without a log row.  The hash read here is used to the end of the attempt.
LoadCredential ==
    /\ WorkerOn("load")
    /\ \/ /\ worker' = [worker EXCEPT
                          !.pc = "chain",
                          !.hash = row[JobCredential].chainProofHash]
          /\ NoFault
       \/ /\ WorkerGoto("retry")
          /\ Fault
    /\ UNCHANGED <<row, lifecycleLog, jobs, mempool>>
    /\ UnchangedByWorker

\* The proof on chain is the credential's own, untouched: an earlier attempt
\* got through.
AlreadyAnchored ==
    LET proof == credentials[JobCredential]
    IN  /\ proof.proofHash = worker.hash
        /\ proof.issuer = Signer
        /\ Signer \in authorizedIssuers
        /\ ~proof.revoked

\* Mutant: a retry does not recognise what an earlier attempt got through.
AnchorDecisionForgetful ==
    IF ~credentials[JobCredential].exists
          /\ Registry!CanAnchor(Signer, JobCredential, worker.hash)
    THEN "send" ELSE "catch"

\* anchorCredentialOnChain up to the simulated call.
AnchorDecision ==
    IF credentials[JobCredential].exists
    THEN IF AlreadyAnchored THEN "commit" ELSE "catch"
    ELSE IF Registry!CanAnchor(Signer, JobCredential, worker.hash)
         THEN "send" ELSE "catch"

\* Mutants: a proof that is missing is waited for, while the anchor job waits
\* for the worker; it counts as revoked; a retry does not recognise its own
\* revocation.
RevokeDecisionWaiting ==
    LET proof == credentials[JobCredential]
    IN  IF ~proof.exists THEN "chain"
        ELSE IF proof.proofHash # worker.hash THEN "catch"
        ELSE IF proof.revoked THEN "commit"
        ELSE IF Registry!CanRevoke(Signer, JobCredential) THEN "send"
        ELSE "catch"

RevokeDecisionLax ==
    LET proof == credentials[JobCredential]
    IN  IF ~proof.exists \/ proof.revoked THEN "commit"
        ELSE IF proof.proofHash # worker.hash THEN "catch"
        ELSE "send"

RevokeDecisionForgetful ==
    LET proof == credentials[JobCredential]
    IN  IF proof.exists /\ proof.proofHash = worker.hash
              /\ Registry!CanRevoke(Signer, JobCredential)
        THEN "send" ELSE "catch"

\* revokeCredentialOnChain up to the simulated call.
RevokeDecision ==
    LET proof == credentials[JobCredential]
    IN  IF ~proof.exists \/ proof.proofHash # worker.hash THEN "catch"
        ELSE IF proof.revoked THEN "commit"
        ELSE IF Registry!CanRevoke(Signer, JobCredential) THEN "send"
        ELSE "catch"

DecideOnProof ==
    /\ WorkerOn("chain")
    /\ WorkerGoto(IF JobOp = "anchor" THEN AnchorDecision ELSE RevokeDecision)
    /\ NoFault
    /\ UNCHANGED <<row, lifecycleLog, jobs, mempool>>
    /\ UnchangedByWorker

\* writeContract.  The node may have taken the transaction although the call
\* failed.
SendTransaction ==
    /\ WorkerOn("send")
    /\ mempool' = Append(mempool, <<worker.job, worker.hash>>)
    /\ \/ WorkerGoto("receipt") /\ NoFault
       \/ WorkerGoto("catch") /\ Fault
    /\ UNCHANGED <<row, lifecycleLog, jobs>>
    /\ UnchangedByWorker

\* Mutant: the receipt is not waited for.
ReceiveReceiptUnmined ==
    /\ WorkerOn("receipt")
    /\ WorkerGoto("commit")
    /\ NoFault
    /\ UNCHANGED <<row, lifecycleLog, jobs, mempool>>
    /\ UnchangedByWorker

\* waitForTransactionReceipt: nonces are in order and the worker's transaction
\* is the last one, so it is mined when nothing is left.  A receipt of a
\* reverted transaction is a receipt: its status is not looked at.
ReceiveReceipt ==
    /\ WorkerOn("receipt")
    /\ mempool = <<>>
    /\ WorkerGoto("commit")
    /\ NoFault
    /\ UNCHANGED <<row, lifecycleLog, jobs, mempool>>
    /\ UnchangedByWorker

\* A misconfigured wallet, an RPC error or a timeout ends the attempt; so does
\* an error of the transaction that would record its success, even when that
\* was committed and only the reply is lost ("complete").
AttemptFails ==
    /\ worker.pc \in {"chain", "send", "receipt", "commit", "complete"}
    /\ WorkerGoto("catch")
    /\ Fault
    /\ UNCHANGED <<row, lifecycleLog, jobs, mempool>>
    /\ UnchangedByWorker

AttemptNumber == jobs[worker.job].attemptsMade + 1

\* The transaction that records the outcome; a revocation leaves anchorStatus.
CommitSuccess ==
    /\ WorkerOn("commit")
    /\ \/ /\ JobOp = "anchor"
          /\ SetStatuses(JobCredential, "ANCHORED")
          /\ Logged(worker.job, "ANCHORED", AttemptNumber)
       \/ /\ JobOp = "revoke"
          /\ SetChainStatus(JobCredential, "REVOKED")
          /\ Logged(worker.job, "REVOKED", AttemptNumber)
    /\ WorkerGoto("complete")
    /\ NoFault
    /\ UNCHANGED <<jobs, mempool>>
    /\ UnchangedByWorker

\* Mutant: one attempt more.
FinalAttemptLate == AttemptNumber > MaxAttempts

FinalAttempt == AttemptNumber >= MaxAttempts

\* Mutant: the failure is recorded and not thrown on.
RecordFailureSwallowed ==
    /\ WorkerOn("catch")
    /\ IF ~FinalAttempt THEN UNCHANGED row
       ELSE IF JobOp = "anchor" THEN SetStatuses(JobCredential, "FAILED")
       ELSE SetChainStatus(JobCredential, "REVOKE_FAILED")
    /\ Logged(worker.job, IF FinalAttempt THEN "FAILED" ELSE "RETRYING",
              AttemptNumber)
    /\ NoFault
    /\ WorkerGoto("complete")
    /\ UNCHANGED <<jobs, mempool>>
    /\ UnchangedByWorker

\* The catch: the last attempt's failure moves the statuses, an earlier one is
\* only logged.  When its own transaction fails nothing is recorded.
RecordFailure ==
    /\ WorkerOn("catch")
    /\ \/ /\ IF ~FinalAttempt THEN UNCHANGED row
             ELSE IF JobOp = "anchor" THEN SetStatuses(JobCredential, "FAILED")
             ELSE SetChainStatus(JobCredential, "REVOKE_FAILED")
          /\ Logged(worker.job, IF FinalAttempt THEN "FAILED" ELSE "RETRYING",
                    AttemptNumber)
          /\ NoFault
       \/ /\ Fault
          /\ UNCHANGED <<row, lifecycleLog>>
    /\ WorkerGoto("retry")
    /\ UNCHANGED <<jobs, mempool>>
    /\ UnchangedByWorker

\* The processor returned: the job is completed.
CompleteJob ==
    /\ WorkerOn("complete")
    /\ jobs' = [jobs EXCEPT ![worker.job].state = "completed",
                            ![worker.job].attemptsMade = @ + 1]
    /\ worker' = IdleWorker
    /\ NoFault
    /\ UNCHANGED <<row, lifecycleLog, mempool>>
    /\ UnchangedByWorker

\* The processor threw: back off, or give up after the last attempt.
RetryJob ==
    /\ WorkerOn("retry")
    /\ jobs' = [jobs EXCEPT
                  ![worker.job].state = IF FinalAttempt THEN "failed"
                                                        ELSE "delayed",
                  ![worker.job].attemptsMade = @ + 1]
    /\ worker' = IdleWorker
    /\ NoFault
    /\ UNCHANGED <<row, lifecycleLog, mempool>>
    /\ UnchangedByWorker

\* The worker dies.  BullMQ finds the job stalled: it restarts it, or fails it
\* without calling the processor when it stalled before.
CrashWorker ==
    /\ ~WorkerOn("idle")
    /\ jobs' = [jobs EXCEPT
                  ![worker.job].state =
                      IF jobs[worker.job].stalled < MaxStalled
                      THEN "waiting" ELSE "failed",
                  ![worker.job].stalled = @ + 1]
    /\ worker' = IdleWorker
    /\ Fault
    /\ UNCHANGED <<row, lifecycleLog, mempool>>
    /\ UnchangedByWorker

\* removeOnComplete and removeOnFail: a finished job makes room for later ones,
\* and its id is free again.  Later jobs of other credentials do that, whose
\* number is not counted here.
ForgetJob(job) ==
    /\ jobs[job].state \in {"completed", "failed"}
    /\ jobs' = [jobs EXCEPT ![job] = JobGone]
    /\ Fault
    /\ UNCHANGED <<row, lifecycleLog, worker, mempool>>
    /\ UnchangedByWorker

WorkerStep ==
    \/ LoadCredential
    \/ DecideOnProof
    \/ SendTransaction
    \/ ReceiveReceipt
    \/ CommitSuccess
    \/ RecordFailure
    \/ CompleteJob
    \/ RetryJob

-----------------------------------------------------------------------------
(* The chain and the owner of the contract *)

\* The next transaction is mined; when the contract reverts it has no effect.
MineTransaction ==
    /\ mempool # <<>>
    /\ mempool' = Tail(mempool)
    /\ LET operation == Head(mempool)[1][1]
           c == Head(mempool)[1][2]
           hash == Head(mempool)[2]
       IN  IF operation = "anchor"
           THEN IF Registry!CanAnchor(Signer, c, hash)
                THEN Registry!AnchorCredential(Signer, c, hash)
                ELSE UNCHANGED chainVars
           ELSE IF Registry!CanRevoke(Signer, c)
                THEN Registry!RevokeCredential(Signer, c)
                ELSE UNCHANGED chainVars
    /\ NoFault
    /\ UNCHANGED <<row, lifecycleLog, jobs, requests, worker>>

\* The owner takes the signer off the list.  That it may be put back is
\* CredentialRegistry's business.
RemoveSigner ==
    /\ SignerRemovable
    /\ Signer \in authorizedIssuers
    /\ Registry!RemoveIssuer(Owner, Signer)
    /\ Fault
    /\ UNCHANGED <<row, lifecycleLog, jobs, requests, worker, mempool>>

Next ==
    \/ \E r \in Requests :
        \/ RequestStep(r)
        \/ AbortRequest(r)
        \/ \E c \in Credentials :
            \/ IssueCredential(r, c)
            \/ \E bulk \in BOOLEAN : ReadForRevoke(r, c, bulk)
    \/ \E c \in Credentials : RegisterSecurePdf(c)
    \/ \E job \in JobIds : StartJob(job) \/ ForgetJob(job)
    \/ WorkerStep
    \/ AttemptFails
    \/ CrashWorker
    \/ MineTransaction
    \/ RemoveSigner

Spec == Init /\ [][Next]_vars

\* What the deployment schedules: handlers run on, the worker runs on, the
\* chain mines what it was given, and a job that can be started again and
\* again is started (the queue is first in first out).
Fairness ==
    /\ \A r \in Requests : WF_vars(RequestStep(r))
    /\ WF_vars(WorkerStep)
    /\ WF_vars(MineTransaction)
    /\ \A job \in JobIds : SF_vars(StartJob(job))

FairSpec == Spec /\ Fairness

-----------------------------------------------------------------------------
(* Properties *)

TypeOK ==
    /\ row \in [Credentials -> CredentialRow]
    /\ lifecycleLog \in [Credentials -> Seq(LogEntry)]
    /\ jobs \in [JobIds -> Job]
    /\ requests \in [Requests -> Request]
    /\ worker \in Worker
    /\ mempool \in Seq(Transaction)
    /\ faults \in Nat
    /\ Registry!TypeOK

\* A credential reported ANCHORED is on the chain, although the write is
\* retried after timeouts and crashes and a receipt's status is never read:
\* the one way out is that the signer lost its authorisation.
ReportedAnchorsExist ==
    \A c \in Credentials :
        row[c].anchorStatus = "ANCHORED" =>
            credentials[c].exists \/ Signer \notin authorizedIssuers

\* A credential reported REVOKED on chain is revoked there.
ReportedRevocationsExist ==
    \A c \in Credentials :
        row[c].chainStatus = "REVOKED" => credentials[c].revoked

\* Each of the three revocation statuses, whoever writes it and however late,
\* lands on a credential that the institution did revoke.
RevocationStatusesAreDeserved ==
    \A c \in Credentials :
        row[c].chainStatus \in
            {"REVOKED", "REVOKE_FAILED", "REVOKE_ENQUEUE_FAILED"}
        => row[c].revoked

\* What the log rows of a credential say of its chainStatus and anchorStatus:
\* the last row that is not a retry or the start of a revocation decides.
ChainStatusAfter(entry) ==
    IF entry.operation = "revoke" /\ entry.status = "FAILED"
    THEN IF entry.attempts = 0 THEN "REVOKE_ENQUEUE_FAILED"
                               ELSE "REVOKE_FAILED"
    ELSE entry.status

Decides(entry) ==
    /\ entry.status # "RETRYING"
    /\ entry.operation = "revoke" => entry.status # "PENDING"

DecidesAnchor(entry) == Decides(entry) /\ entry.operation = "anchor"

LastRow(log, Test(_)) == SelectLastInSubSeq(log, 1, Len(log), Test)

\* The append-only log explains both statuses of every credential, in spite of
\* two writers (API and worker), failed transactions, crashes and retries.
LogExplainsStatus ==
    \A c \in Credentials :
        LET log == lifecycleLog[c]
            last == LastRow(log, Decides)
            lastAnchor == LastRow(log, DecidesAnchor)
        IN  /\ row[c].chainStatus =
                  IF last = 0 THEN "PENDING" ELSE ChainStatusAfter(log[last])
            /\ row[c].anchorStatus =
                  IF lastAnchor = 0 THEN "PENDING" ELSE log[lastAnchor].status

LogRecords(c, status) ==
    \E i \in DOMAIN lifecycleLog[c] : lifecycleLog[c][i].status = status

\* A job that BullMQ calls completed has done what it was for, whatever failed
\* before: the log has its outcome and the chain its effect, but for the signer
\* that lost its authorisation.
CompletedJobsLanded ==
    \A c \in Credentials :
        /\ jobs[<<"anchor", c>>].state = "completed" =>
              /\ LogRecords(c, "ANCHORED")
              /\ credentials[c].exists \/ Signer \notin authorizedIssuers
        /\ jobs[<<"revoke", c>>].state = "completed" =>
              /\ LogRecords(c, "REVOKED")
              /\ credentials[c].revoked

\* The worker and BullMQ agree which attempt is the last one, although a stall
\* repeats an attempt without counting it: a job that may still run has attempts
\* left, a row says RETRYING only when an attempt may follow, and the worker's
\* FAILED (the API's has no attempt) is of the last attempt.
AttemptsAreBounded ==
    /\ \A job \in JobIds :
          LET j == jobs[job]
          IN  j.state \in Live =>
                  j.attemptsMade < MaxAttempts /\ j.stalled <= MaxStalled
    /\ \A c \in Credentials : \A i \in DOMAIN lifecycleLog[c] :
          LET entry == lifecycleLog[c][i]
          IN  /\ entry.attempts <= MaxAttempts
              /\ entry.status = "RETRYING" => entry.attempts < MaxAttempts
              /\ entry.status = "FAILED" => entry.attempts \in {0, MaxAttempts}

\* Each time a job is let go, attempt or stall is counted, and nothing but
\* forgetting it opens a finished job again: with the bounds above, no queued
\* job keeps the worker for ever.
StartsAreCounted ==
    [][\A job \in JobIds :
          LET j == jobs[job]
              k == jobs'[job]
          IN  /\ j.state = "active" /\ k.state # "active" =>
                    k.attemptsMade + k.stalled = j.attemptsMade + j.stalled + 1
              /\ j.state \in {"completed", "failed"} => k \in {j, JobGone}
              /\ j.state \in {"waiting", "delayed"} =>
                    k \in {j, [j EXCEPT !.state = "active"]}]_vars

\* The pipeline implements ChainLifecycle: the chain holds only issued
\* credentials and revokes only revoked ones, and nothing is undone.
Lifecycle == INSTANCE ChainLifecycle WITH
    issued <- {c \in Credentials : row[c].issued},
    revoked <- {c \in Credentials : row[c].revoked},
    chain <- [c \in Credentials |->
                IF ~credentials[c].exists THEN "absent"
                ELSE IF credentials[c].revoked THEN "revoked" ELSE "active"]

ImplementsLifecycle == Lifecycle!Spec

\* Every job leaves the queue for good: attempts and restarts are bounded.
QueueDrains ==
    \A job \in JobIds : jobs[job].state \in Live ~> jobs[job].state \notin Live

\* Faults on the way are made up for: a queued anchor job puts the credential
\* on the chain and records it, unless the credential is revoked meanwhile.
\* The record is looked for in the log: the statuses of the row may be
\* overwritten by an API request whose queue.add lost its reply.
AnchorsLand ==
    \A c \in Credentials :
        jobs[<<"anchor", c>>].state \in Live
            ~> (credentials[c].exists /\ LogRecords(c, "ANCHORED"))
                  \/ row[c].revoked

\* A revocation job not tried yet, for a credential the chain holds, revokes
\* it there and records it.
RevocationsLand ==
    \A c \in Credentials :
        LET job == jobs[<<"revoke", c>>]
        IN  job.state \in Live /\ job.attemptsMade = 0 /\ credentials[c].exists
                ~> credentials[c].revoked /\ LogRecords(c, "REVOKED")

=============================================================================
