------------------------------ MODULE Issuance ------------------------------
(***************************************************************************)
(* CredentialService: issuing one credential or a CSV of them, revoking,   *)
(* deleting and registering secure PDFs, and the public reads that make    *)
(* lost files again.  A credential is spread over a database row, files in *)
(* object storage, a job in the anchoring queue and an entry of the audit  *)
(* log, and no transaction spans them: each request of the API writes them *)
(* one after the other while others do the same, any write may fail, and   *)
(* what cleans up after a failure may fail as well.                        *)
(***************************************************************************)
EXTENDS Naturals, FiniteSets

CONSTANTS
    Credentials,  \* ids, each generated once
    Pairs,        \* a student and a degree, as they are spelt
    Spellings,    \* sets of pairs that differ in case or spacing alone
    Handlers,     \* requests of the API that may be served at a time
    MaxRequests,  \* how many requests are served
    MaxFaults,    \* how many writes fail, each for a reason of its own
    None

ASSUME IssuanceAssumption ==
    /\ None \notin Pairs \cup Credentials \cup Handlers
    /\ MaxRequests \in Nat
    /\ MaxFaults \in Nat
    /\ IsFiniteSet(Credentials)

VARIABLES
    row,         \* the credential table
    files,       \* the metadata document and the QR code of each credential
    queue,       \* what was put into the anchoring queue, or marked as failed
    audit,       \* audit_logs
    batch,       \* issuance_batches: what each handler's last CSV reported
    requests,    \* the requests being served
    served,      \* how many of MaxRequests have begun
    faults,      \* how many of MaxFaults have happened
    unfinished,  \* history: credentials whose handler met a fault
    overlapped   \* history: credentials that changed under a regeneration

stores == <<row, files, queue, audit, batch>>
history == <<served, faults, unfinished, overlapped>>
vars == <<stores, requests, history>>

\* "batch" is the handler whose CSV the credential came from.  documentHash is
\* null with the registry's proof hash, and else the same as chainProofHash.
Row ==
    [state: {"absent", "live", "deleted"}, pair: Pairs \cup {None},
     batch: Handlers \cup {None}, revoked: BOOLEAN,
     securePdfEnabled: BOOLEAN,
     chainProofHash: {"registry", "pdf", "certificate"}]
NoRow ==
    [state |-> "absent", pair |-> None, batch |-> None, revoked |-> FALSE,
     securePdfEnabled |-> FALSE, chainProofHash |-> "registry"]

\* The metadata document, with what it says of the credential, and whether the
\* QR code is there.  metadataJson, the row's copy of the document, is written
\* right after the file and not told apart from it.
Files == [metadata: {"none", "valid", "revoked"}, qr: BOOLEAN]
NoFiles == [metadata |-> "none", qr |-> FALSE]
Complete(f) == f.metadata # "none" /\ f.qr

\* The batch's counters are written once, after the last row.
Batch == [created: BOOLEAN, issuedRows: Nat, failedRows: Nat]
NoBatch == [created |-> FALSE, issuedRows |-> 0, failedRows |-> 0]

Request ==
    [pc: {"idle", "batch", "rows", "assets", "insert", "enqueue", "mark",
          "cleanup", "readBack", "auditIssue",
          "revoke", "auditRevoke", "metadata", "enqueueRevoke", "markRevoke",
          "remove", "auditRemove", "regenerate", "refresh"},
     kind: {"none", "create", "bulkIssue", "revoke", "bulkRevoke", "remove",
            "regenerate"},
     csv: SUBSET Pairs, pair: Pairs \cup {None},
     issuedRows: Nat, failedRows: Nat,
     ids: SUBSET Credentials, credential: Credentials \cup {None},
     conflict: BOOLEAN, read: Row]
Idle ==
    [pc |-> "idle", kind |-> "none", csv |-> {}, pair |-> None,
     issuedRows |-> 0, failedRows |-> 0, ids |-> {}, credential |-> None,
     conflict |-> FALSE, read |-> NoRow]

Init ==
    /\ row = [c \in Credentials |-> NoRow]
    /\ files = [c \in Credentials |-> NoFiles]
    /\ queue = [c \in Credentials |-> {}]
    /\ audit = {}
    /\ batch = [h \in Handlers |-> NoBatch]
    /\ requests = [h \in Handlers |-> Idle]
    /\ served = 0
    /\ faults = 0
    /\ unfinished = {}
    /\ overlapped = {}

-----------------------------------------------------------------------------
(* Helpers *)

At(h, pc) == requests[h].pc = pc
Goto(h, pc) == requests' = [requests EXCEPT ![h].pc = pc]
Ends(h) == requests' = [requests EXCEPT ![h] = Idle]

Smooth == UNCHANGED history

\* A request begins.
Begins ==
    /\ served < MaxRequests
    /\ served' = served + 1
    /\ UNCHANGED <<faults, unfinished, overlapped>>

\* A write fails; c is the credential that is left unfinished, if any.
Fault(c) ==
    /\ faults < MaxFaults
    /\ faults' = faults + 1
    /\ unfinished' = unfinished \cup ({c} \ {None})
    /\ UNCHANGED <<served, overlapped>>

\* A failure may bring another one with it.
FollowingFault(c) ==
    /\ unfinished' = unfinished \cup {c}
    /\ UNCHANGED <<served, faults, overlapped>>

Logged(action, c) == [action |-> action, credential |-> c]

\* log() outside a transaction swallows its failure: the entry is missing, and
\* the request goes on.
Logs(entry, c) ==
    \/ audit' = audit \cup {entry} /\ Smooth
    \/ UNCHANGED audit /\ Fault(c)

\* What the partial unique index on issuer, student and degree counts.
Live(c) == row[c].state = "live" /\ ~row[c].revoked
Taken(pair) == \E c \in Credentials : Live(c) /\ row[c].pair = pair

Regenerating(c) ==
    \E h \in Handlers : /\ requests[h].pc \in {"regenerate", "refresh"}
                        /\ requests[h].credential = c

\* c changes: a regeneration that has read it is out of date.
Overtakes(c) ==
    /\ overlapped' = IF Regenerating(c) THEN overlapped \cup {c}
                                        ELSE overlapped
    /\ UNCHANGED <<served, faults, unfinished>>

-----------------------------------------------------------------------------
(* Issuing: create, bulkIssue and what they share, issueCredentialRecord *)

Create(h, pair) ==
    /\ At(h, "idle")
    /\ requests' = [requests EXCEPT
          ![h] = [Idle EXCEPT !.pc = "assets", !.kind = "create",
                              !.pair = pair]]
    /\ UNCHANGED stores
    /\ Begins

\* buildRowKey takes these for the same pair; the database does not.
SameKey(p, q) == p = q \/ \E s \in Spellings : {p, q} \subseteq s

\* What lookupExistingCredentialKeys, asked once for all, does not know.
Unknown(csv) ==
    {p \in csv : \A q \in Pairs : Taken(q) => ~SameKey(p, q)}

\* The rows of the CSV that are VALID: no earlier row repeats them, and they are
\* unknown.  A handler serves one CSV.
BulkIssue(h, csv) ==
    /\ At(h, "idle")
    /\ ~batch[h].created
    /\ \A p, q \in csv : SameKey(p, q) => p = q
    /\ requests' = [requests EXCEPT
          ![h] = [Idle EXCEPT !.pc = "batch", !.kind = "bulkIssue",
                              !.csv = Unknown(csv)]]
    /\ UNCHANGED stores
    /\ Begins

CreateBatch(h) ==
    /\ At(h, "batch")
    /\ batch' = [batch EXCEPT ![h].created = TRUE]
    /\ Goto(h, "rows")
    /\ UNCHANGED <<row, files, queue, audit>>
    /\ Smooth

NextRow(h, pair) ==
    /\ At(h, "rows")
    /\ pair \in requests[h].csv
    /\ requests' = [requests EXCEPT
          ![h] = [@ EXCEPT !.pc = "assets", !.pair = pair,
                           !.csv = requests[h].csv \ {pair}]]
    /\ UNCHANGED stores
    /\ Smooth

FinishBatch(h) ==
    /\ At(h, "rows")
    /\ requests[h].csv = {}
    /\ batch' = [batch EXCEPT
          ![h] = [@ EXCEPT !.issuedRows = requests[h].issuedRows,
                           !.failedRows = requests[h].failedRows]]
    /\ Ends(h)
    /\ UNCHANGED <<row, files, queue, audit>>
    /\ Smooth

\* What becomes of a row: a single issuance answers, a bulk goes on.  One whose
\* pair exists is neither issued nor failed.
RowEnds(h, result) ==
    LET q == requests[h]
        counts(r) == IF result = r THEN 1 ELSE 0
    IN  requests' = [requests EXCEPT
           ![h] = IF q.kind = "bulkIssue"
                  THEN [Idle EXCEPT
                          !.pc = "rows", !.kind = "bulkIssue", !.csv = q.csv,
                          !.issuedRows = q.issuedRows + counts("ISSUED"),
                          !.failedRows = q.failedRows + counts("FAILED")]
                  ELSE IF result = "ISSUED"
                  THEN [q EXCEPT !.pc = "auditIssue"]
                  ELSE Idle]

Fresh(c) ==
    /\ row[c].state = "absent"
    /\ files[c] = NoFiles
    /\ c \notin unfinished
    /\ \A h \in Handlers : requests[h].credential # c

\* generateAndPersist: the files come before the row.
PersistAssets(h, c) ==
    /\ At(h, "assets")
    /\ Fresh(c)
    /\ files' = [files EXCEPT ![c] = [metadata |-> "valid", qr |-> TRUE]]
    /\ requests' = [requests EXCEPT ![h] = [@ EXCEPT !.pc = "insert",
                                                    !.credential = c]]
    /\ UNCHANGED <<row, queue, audit, batch>>
    /\ Smooth

\* One of the parallel writes fails, and what was written stays.
PersistAssetsFails(h, c, f) ==
    /\ At(h, "assets")
    /\ Fresh(c)
    /\ f.metadata # "revoked"
    /\ files' = [files EXCEPT ![c] = f]
    /\ RowEnds(h, "FAILED")
    /\ UNCHANGED <<row, queue, audit, batch>>
    /\ Fault(c)

Inserted(h) ==
    LET q == requests[h]
    IN  row' = [row EXCEPT
           ![q.credential] =
              [NoRow EXCEPT !.state = "live", !.pair = q.pair,
                            !.batch = IF q.kind = "bulkIssue" THEN h
                                                              ELSE None]]

\* Mutant: only the lookup before the first row keeps pairs apart.
InsertUnchecked(h) ==
    /\ At(h, "insert")
    /\ Inserted(h)
    /\ Goto(h, "enqueue")
    /\ UNCHANGED <<files, queue, audit, batch>>
    /\ Smooth

\* The insert is refused by the index alone.
Insert(h) ==
    /\ At(h, "insert")
    /\ IF Taken(requests[h].pair)
       THEN /\ requests' = [requests EXCEPT
                   ![h] = [@ EXCEPT !.pc = "cleanup", !.conflict = TRUE]]
            /\ UNCHANGED row
       ELSE /\ Inserted(h)
            /\ Goto(h, "enqueue")
    /\ UNCHANGED <<files, queue, audit, batch>>
    /\ Smooth

\* The insert fails, or only its reply is lost.
InsertFails(h) ==
    /\ At(h, "insert")
    /\ \/ UNCHANGED row /\ Fault(None)
       \/ /\ ~Taken(requests[h].pair)
          /\ Inserted(h)
          /\ Fault(requests[h].credential)
    /\ Goto(h, "cleanup")
    /\ UNCHANGED <<files, queue, audit, batch>>

EnqueueAnchor(h) ==
    /\ At(h, "enqueue")
    /\ queue' = [queue EXCEPT ![requests[h].credential] = @ \cup {"anchor"}]
    /\ Goto(h, "readBack")
    /\ UNCHANGED <<row, files, audit, batch>>
    /\ Smooth

EnqueueAnchorFails(h) ==
    /\ At(h, "enqueue")
    /\ Goto(h, "mark")
    /\ UNCHANGED stores
    /\ Fault(None)

MarkQueueFailure(h) ==
    /\ At(h, "mark")
    /\ queue' = [queue EXCEPT
          ![requests[h].credential] = @ \cup {"anchorFailed"}]
    /\ Goto(h, "readBack")
    /\ UNCHANGED <<row, files, audit, batch>>
    /\ Smooth

\* The catch takes this for a failed insert.
MarkQueueFailureFails(h) ==
    /\ At(h, "mark")
    /\ Goto(h, "cleanup")
    /\ UNCHANGED stores
    /\ FollowingFault(requests[h].credential)

\* Mutant: any error of the insert is taken for a duplicate.
CleanupAsDuplicate(h) ==
    /\ At(h, "cleanup")
    /\ files' = [files EXCEPT ![requests[h].credential] = NoFiles]
    /\ RowEnds(h, "EXISTS")
    /\ UNCHANGED <<row, queue, audit, batch>>
    /\ Smooth

\* Mutant: a duplicate's files are left where they are.
CleanupNothing(h) ==
    /\ At(h, "cleanup")
    /\ RowEnds(h, IF requests[h].conflict THEN "EXISTS" ELSE "FAILED")
    /\ UNCHANGED stores
    /\ Smooth

\* The catch of issueCredentialRecord: the credential's files are deleted.
Cleanup(h) ==
    /\ At(h, "cleanup")
    /\ files' = [files EXCEPT ![requests[h].credential] = NoFiles]
    /\ RowEnds(h, IF requests[h].conflict THEN "EXISTS" ELSE "FAILED")
    /\ UNCHANGED <<row, queue, audit, batch>>
    /\ Smooth

CleanupFails(h) ==
    /\ At(h, "cleanup")
    /\ RowEnds(h, "FAILED")
    /\ UNCHANGED stores
    /\ Fault(requests[h].credential)

\* The credential is read once more, outside the try; somebody may have deleted
\* it by now.
ReadBack(h) ==
    /\ At(h, "readBack")
    /\ RowEnds(h, IF row[requests[h].credential].state = "live"
                  THEN "ISSUED" ELSE "FAILED")
    /\ UNCHANGED stores
    /\ Smooth

ReadBackFails(h) ==
    /\ At(h, "readBack")
    /\ RowEnds(h, "FAILED")
    /\ UNCHANGED stores
    /\ Fault(requests[h].credential)

\* Only create does this.
AuditIssue(h) ==
    /\ At(h, "auditIssue")
    /\ Logs(Logged("ISSUED", requests[h].credential), None)
    /\ Ends(h)
    /\ UNCHANGED <<row, files, queue, batch>>

-----------------------------------------------------------------------------
(* revoke and bulkRevoke, remove and bulkDelete.  A bulk reads all its       *)
(* credentials at once and writes them one by one, whatever has become of    *)
(* them.                                                                     *)

Begin(h, kind, pc, ids) ==
    /\ At(h, "idle")
    /\ ids # {}
    /\ requests' = [requests EXCEPT
          ![h] = [Idle EXCEPT !.pc = pc, !.kind = kind, !.ids = ids]]
    /\ UNCHANGED stores
    /\ Begins

Revoke(h, c) == Live(c) /\ Begin(h, "revoke", "revoke", {c})

\* Those that are revoked already are skipped.
BulkRevoke(h, ids) ==
    Begin(h, "bulkRevoke", "revoke", {c \in ids : Live(c)})

\* Mutant: what is not revoked may be deleted.
RemoveAny(h, ids) ==
    Begin(h, "remove", "remove", {c \in ids : row[c].state = "live"})

\* remove, or bulkDelete, which skips those it may not delete.
Remove(h, ids) ==
    Begin(h, "remove", "remove",
          {c \in ids : row[c].state = "live" /\ row[c].revoked})

\* On to the next credential.
Next1(h, c) ==
    LET q == requests[h]
    IN  requests' = [requests EXCEPT
           ![h] = IF q.ids = {c} THEN Idle
                  ELSE [Idle EXCEPT
                          !.pc = IF q.kind = "remove" THEN "remove"
                                                      ELSE "revoke",
                          !.kind = q.kind, !.ids = q.ids \ {c}]]

Proceed(h, c, pc) ==
    requests' = [requests EXCEPT ![h] = [@ EXCEPT !.pc = pc,
                                                  !.credential = c]]

\* Mutant: the bulk's audit entry is written after its transaction.
RevokeRowAlone(h, c) ==
    /\ At(h, "revoke")
    /\ c \in requests[h].ids
    /\ row' = [row EXCEPT ![c].revoked = TRUE]
    /\ Overtakes(c)
    /\ UNCHANGED audit
    /\ Proceed(h, c, IF requests[h].kind = "revoke" THEN "auditRevoke"
                                                    ELSE "enqueueRevoke")
    /\ UNCHANGED <<files, queue, batch>>

\* The row is revoked, by a bulk in one transaction with the audit entry.
RevokeRow(h, c) ==
    /\ At(h, "revoke")
    /\ c \in requests[h].ids
    /\ row' = [row EXCEPT ![c].revoked = TRUE]
    /\ Overtakes(c)
    /\ IF requests[h].kind = "revoke"
       THEN UNCHANGED audit /\ Proceed(h, c, "auditRevoke")
       ELSE /\ audit' = audit \cup {Logged("BULK_REVOKED", c)}
            /\ Proceed(h, c, "enqueueRevoke")
    /\ UNCHANGED <<files, queue, batch>>

AuditRevoke(h) ==
    /\ At(h, "auditRevoke")
    /\ Logs(Logged("REVOKED", requests[h].credential), requests[h].credential)
    /\ Goto(h, "metadata")
    /\ UNCHANGED <<row, files, queue, batch>>

\* Mutant: the metadata is made from the row as it was before.
RefreshMetadataStale(h) ==
    /\ At(h, "metadata")
    /\ files' = [files EXCEPT
          ![requests[h].credential].metadata = "valid"]
    /\ Goto(h, "enqueueRevoke")
    /\ UNCHANGED <<row, queue, audit, batch>>
    /\ Smooth

\* refreshCredentialMetadata; a bulk does not do this.
RefreshMetadata(h) ==
    /\ At(h, "metadata")
    /\ files' = [files EXCEPT
          ![requests[h].credential].metadata = "revoked"]
    /\ Goto(h, "enqueueRevoke")
    /\ UNCHANGED <<row, queue, audit, batch>>
    /\ Smooth

EnqueueRevoke(h) ==
    LET c == requests[h].credential
    IN  /\ At(h, "enqueueRevoke")
        /\ queue' = [queue EXCEPT ![c] = @ \cup {"revoke"}]
        /\ Next1(h, c)
        /\ UNCHANGED <<row, files, audit, batch>>
        /\ Smooth

EnqueueRevokeFails(h) ==
    /\ At(h, "enqueueRevoke")
    /\ Goto(h, "markRevoke")
    /\ UNCHANGED stores
    /\ Fault(None)

MarkRevokeFailure(h) ==
    LET c == requests[h].credential
    IN  /\ At(h, "markRevoke")
        /\ queue' = [queue EXCEPT ![c] = @ \cup {"revokeFailed"}]
        /\ Next1(h, c)
        /\ UNCHANGED <<row, files, audit, batch>>
        /\ Smooth

RemoveRow(h, c) ==
    /\ At(h, "remove")
    /\ c \in requests[h].ids
    /\ row' = [row EXCEPT ![c].state = "deleted"]
    /\ Proceed(h, c, "auditRemove")
    /\ UNCHANGED <<files, queue, audit, batch>>
    /\ Smooth

AuditRemove(h) ==
    LET c == requests[h].credential
    IN  /\ At(h, "auditRemove")
        /\ Logs(Logged("DELETED", c), None)
        /\ Next1(h, c)
        /\ UNCHANGED <<row, files, queue, batch>>

\* One write of a bulk fails, and the bulk goes on with the others.
BulkStepFails(h, c) ==
    /\ requests[h].pc \in {"revoke", "markRevoke", "remove"}
    /\ requests[h].kind # "revoke"
    /\ c \in requests[h].ids
    /\ requests[h].credential \in {None, c}
    /\ Next1(h, c)
    /\ UNCHANGED stores
    /\ Fault(requests[h].credential)

-----------------------------------------------------------------------------
(* Secure PDFs and the files *)

\* registerSecurePdf, whose writes are one transaction.
RegisterSecurePdf(c) ==
    /\ row[c].state # "absent"
    /\ row' = [row EXCEPT ![c].securePdfEnabled = TRUE,
                          ![c].chainProofHash = "pdf"]
    /\ row' # row
    /\ Overtakes(c)
    /\ UNCHANGED <<files, queue, audit, batch, requests>>

\* Somebody asks for the metadata or the QR code, and the file cannot be read:
\* ensureAssets reads the row.
Regenerate(h, c) ==
    /\ At(h, "idle")
    /\ row[c].state = "live"
    /\ requests' = [requests EXCEPT
          ![h] = [Idle EXCEPT !.pc = "regenerate", !.kind = "regenerate",
                              !.credential = c, !.read = row[c]]]
    /\ UNCHANGED stores
    /\ Begins

\* The files are made from what was read.
RefreshFiles(h) ==
    LET q == requests[h]
    IN  /\ At(h, "regenerate")
        /\ files' = [files EXCEPT
              ![q.credential] =
                 [metadata |-> IF q.read.revoked THEN "revoked" ELSE "valid",
                  qr |-> TRUE]]
        /\ Goto(h, "refresh")
        /\ UNCHANGED <<row, queue, audit, batch>>
        /\ Smooth

\* Mutant: the proof hash is always the registry's.
RefreshRowRegistry(h) ==
    /\ At(h, "refresh")
    /\ row' = [row EXCEPT
          ![requests[h].credential].chainProofHash = "registry"]
    /\ Ends(h)
    /\ UNCHANGED <<files, queue, audit, batch>>
    /\ Smooth

\* refreshCredentialAssets writes the proof hash as well.  A secure PDF without
\* a document hash has had a certificate made for it.
RefreshRow(h) ==
    LET q == requests[h]
    IN  /\ At(h, "refresh")
        /\ row' = [row EXCEPT
              ![q.credential].chainProofHash =
                 IF q.read.securePdfEnabled
                    /\ q.read.chainProofHash = "registry"
                 THEN "certificate" ELSE q.read.chainProofHash]
        /\ Ends(h)
        /\ UNCHANGED <<files, queue, audit, batch>>
        /\ Smooth

\* The request ends where it is: an error that nothing handles, or the API
\* stops.
Dies(h) ==
    /\ ~At(h, "idle")
    /\ Ends(h)
    /\ UNCHANGED stores
    /\ Fault(requests[h].credential)

-----------------------------------------------------------------------------
Issue(h) ==
    \/ \E pair \in Pairs : Create(h, pair) \/ NextRow(h, pair)
    \/ \E csv \in SUBSET Pairs : BulkIssue(h, csv)
    \/ CreateBatch(h) \/ FinishBatch(h)
    \/ \E c \in Credentials :
          PersistAssets(h, c) \/ \E f \in Files : PersistAssetsFails(h, c, f)
    \/ Insert(h) \/ InsertFails(h)
    \/ EnqueueAnchor(h) \/ EnqueueAnchorFails(h)
    \/ MarkQueueFailure(h) \/ MarkQueueFailureFails(h)
    \/ Cleanup(h) \/ CleanupFails(h)
    \/ ReadBack(h) \/ ReadBackFails(h) \/ AuditIssue(h)

Withdraw(h) ==
    \/ \E c \in Credentials :
          Revoke(h, c) \/ RevokeRow(h, c) \/ RemoveRow(h, c)
          \/ BulkStepFails(h, c)
    \/ \E ids \in SUBSET Credentials : BulkRevoke(h, ids) \/ Remove(h, ids)
    \/ AuditRevoke(h) \/ RefreshMetadata(h)
    \/ EnqueueRevoke(h) \/ EnqueueRevokeFails(h) \/ MarkRevokeFailure(h)
    \/ AuditRemove(h)

Next ==
    \/ \E h \in Handlers :
          \/ Issue(h) \/ Withdraw(h)
          \/ \E c \in Credentials : Regenerate(h, c)
          \/ RefreshFiles(h) \/ RefreshRow(h) \/ Dies(h)
    \/ \E c \in Credentials : RegisterSecurePdf(c)

Spec == Init /\ [][Next]_vars

-----------------------------------------------------------------------------
(* Properties *)

TypeOK ==
    /\ row \in [Credentials -> Row]
    /\ files \in [Credentials -> Files]
    /\ queue \in [Credentials ->
                    SUBSET {"anchor", "anchorFailed", "revoke", "revokeFailed"}]
    /\ audit \subseteq
          [action: {"ISSUED", "REVOKED", "BULK_REVOKED", "DELETED"},
           credential: Credentials]
    /\ batch \in [Handlers -> Batch]
    /\ requests \in [Handlers -> Request]
    /\ served \in 0..MaxRequests
    /\ faults \in 0..MaxFaults
    /\ unfinished \subseteq Credentials
    /\ overlapped \subseteq Credentials

\* However many requests and CSVs issue for the same student and degree, all
\* of which found the pair free, one live credential comes of it; a revoked one
\* makes room for another.
OneLivePerPair ==
    \A c, d \in Credentials :
        Live(c) /\ Live(d) /\ row[c].pair = row[d].pair => c = d

\* The register behind the requests: an id issued once, to a pair that is free,
\* deleted only after it was revoked, and never back, although bulks read all
\* their credentials first and then write to whatever has become of them.
Standing(r) ==
    IF r.state = "live" THEN IF r.revoked THEN "revoked" ELSE "live"
                        ELSE r.state

Register == INSTANCE CredentialRegister WITH
    standing <- [c \in Credentials |-> Standing(row[c])],
    holder <- [c \in Credentials |-> row[c].pair]

ImplementsRegister == Register!Spec

BatchRows(h) == {c \in Credentials : row[c].batch = h}
Between(n, low, high) == low <= n /\ n <= high

\* What bulkIssue reports, and writes into the batch, bounds what it left in
\* the registry, whatever failed on the way: ISSUED rows are there, and only a
\* FAILED row may be there besides.
ReportsAreBacked ==
    \A h \in Handlers :
        LET q == requests[h]
            n == Cardinality(BatchRows(h))
        IN  /\ q.kind = "bulkIssue" /\ q.pc = "rows" =>
                  Between(n, q.issuedRows, q.issuedRows + q.failedRows)
            /\ batch[h].issuedRows + batch[h].failedRows > 0 =>
                  Between(n, batch[h].issuedRows,
                          batch[h].issuedRows + batch[h].failedRows)

HeldBy(c, kinds) ==
    \E h \in Handlers : requests[h].kind \in kinds /\ requests[h].credential = c

\* When an issuance is over, both files are there if the row is, and neither if
\* it is not, unless a failure went unhandled; deleting a credential keeps them.
FilesMatchRows ==
    \A c \in Credentials :
        ~HeldBy(c, {"create", "bulkIssue"}) /\ c \notin unfinished =>
            IF row[c].state = "absent" THEN files[c] = NoFiles
                                       ELSE Complete(files[c])

Audited(c) == {Logged("REVOKED", c), Logged("BULK_REVOKED", c)} \cap audit # {}

\* A revocation that is over has its audit entry and its job, or the mark that
\* the job failed, unless a failure of the request went unhandled or was
\* swallowed.  In a bulk the entry comes with the revocation.
RevocationsAreRecorded ==
    \A c \in Credentials :
        row[c].revoked /\ c \notin unfinished =>
            /\ Audited(c) \/ HeldBy(c, {"revoke"})
            /\ \/ queue[c] \cap {"revoke", "revokeFailed"} # {}
               \/ HeldBy(c, {"revoke", "bulkRevoke"})

\* The public metadata never calls a good credential revoked, and calls a
\* revoked one so unless a bulk revoked it, a failure went unhandled or the
\* files were being made again at that moment.
MetadataTellsRevocation ==
    \A c \in Credentials :
        /\ files[c].metadata = "revoked" => row[c].revoked
        /\ row[c].revoked /\ files[c].metadata = "valid" =>
              \/ Logged("BULK_REVOKED", c) \in audit
              \/ c \in unfinished \cup overlapped
              \/ HeldBy(c, {"revoke"})

\* A secure PDF that was registered stays what the chain is to prove, whatever
\* is made again, unless it was being made at that moment.
SecurePdfSticks ==
    \A c \in Credentials :
        row[c].securePdfEnabled /\ c \notin overlapped =>
            row[c].chainProofHash = "pdf"

=============================================================================
