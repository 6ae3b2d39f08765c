---------------------------- MODULE Verification ----------------------------
(***************************************************************************)
(* The public verification endpoints beside everything that changes what   *)
(* they report on: a request reads the credential (with its institution    *)
(* and its secure PDF) from PostgreSQL, then the chain in five separate    *)
(* calls, and only then records its verdict and answers.  Meanwhile the    *)
(* credential may be revoked or deleted, the chain may catch up, a secure  *)
(* PDF may be registered and the institution's settings may change.        *)
(*                                                                         *)
(* The credential and the chain move as ChainLifecycle says, which         *)
(* AnchorPipeline implements.                                              *)
(***************************************************************************)
EXTENDS Naturals, FiniteSets

CONSTANTS
    Credentials,   \* ids of the credentials that may be issued
    Verifiers,     \* verification requests, each of which asks once
    Pdfs,          \* contents of secure PDFs
    RegistryHash,  \* the proof hash a credential is issued with
    NoHash, NoCredential,
    MaxChanges     \* how many secure PDFs are registered, rows altered,
                   \* settings and authorizations changed, in all

ASSUME VerificationAssumption ==
    /\ IsFiniteSet(Verifiers)
    /\ RegistryHash \notin Pdfs
    /\ NoHash \notin Pdfs \cup {RegistryHash}
    /\ NoCredential \notin Credentials
    /\ MaxChanges \in Nat

VARIABLES
    row,          \* the credential table
    documents,    \* credential_document_proofs: the secure PDFs of each
    institution,  \* the issuer row
    chain,        \* the contract's record of each credential
    authorized,   \* is the institution's signer an authorized issuer?
    log,          \* verification_logs
    requests,     \* the verification requests
    condemned,    \* history: credentials once answered REVOKED or GONE
    changes       \* how many of MaxChanges have happened

registry == <<row, documents, institution>>
onChain == <<chain, authorized>>
vars == <<registry, onChain, log, requests, condemned, changes>>

Hashes == Pdfs \cup {RegistryHash}

\* "signature" says how the stored signature recomputes; credentials from
\* before signing have none.
CredentialRow ==
    [state: {"absent", "live", "deleted"}, revoked: BOOLEAN,
     signature: {"none", "good", "bad"}, chainProofHash: Hashes, count: Nat]
NoRow ==
    [state |-> "absent", revoked |-> FALSE, signature |-> "none",
     chainProofHash |-> RegistryHash, count |-> 0]

Institution == [active: BOOLEAN, walletIsSigner: BOOLEAN]

ChainRecord == [proofHash: Hashes \cup {NoHash}, revoked: BOOLEAN]
NoRecord == [proofHash |-> NoHash, revoked |-> FALSE]

Kinds == {"reference", "securePdf", "vc"}
Verdicts ==
    {"VALID", "REVOKED", "TAMPERED", "INVALID", "NOT_FOUND",
     "INTEGRITY_VERIFIED", "DOCUMENT_MODIFIED", "NO_SECURE_PDF_RECORD",
     "EXPORTED", "GONE"}

\* What the handler has read of the database and what its verdict will depend
\* on; "document" is how the uploaded PDF compares with the registered one.
Record ==
    [revoked: BOOLEAN, signature: {"none", "good", "bad"},
     chainProofHash: Hashes, institution: Institution,
     document: {"none", "same", "modified"}]
NothingRead ==
    [revoked |-> FALSE, signature |-> "none", chainProofHash |-> RegistryHash,
     institution |-> [active |-> TRUE, walletIsSigner |-> TRUE],
     document |-> "none"]

\* A request: what it holds between its awaits ("since": what the chain held
\* since the question), and four facts for the properties: whether VALID was
\* deserved when the question was asked, the verdict that is due if nothing
\* changes, whether a REVOKED answer was given before, and whether the chain's
\* own answer went into the verdict.
Request ==
    [pc: {"idle", "chain", "record", "done"},
     kind: Kinds, credential: Credentials \cup {NoCredential},
     read: Record, since: SUBSET ChainRecord,
     answer: Verdicts \cup {"none"},
     deserved: BOOLEAN, due: {"none", "VALID", "REVOKED"}, late: BOOLEAN,
     checked: BOOLEAN]
IdleRequest ==
    [pc |-> "idle", kind |-> "reference", credential |-> NoCredential,
     read |-> NothingRead, since |-> {}, answer |-> "none",
     deserved |-> FALSE, due |-> "none", late |-> FALSE, checked |-> FALSE]

\* One row for each verification that was recorded.
LogEntry == [by: Verifiers, credential: Credentials \cup {NoCredential}]

Init ==
    /\ row = [c \in Credentials |-> NoRow]
    /\ documents = [c \in Credentials |-> [p \in Pdfs |-> "none"]]
    /\ institution = [active |-> TRUE, walletIsSigner |-> TRUE]
    /\ chain = [c \in Credentials |-> NoRecord]
    /\ authorized = TRUE
    /\ log = {}
    /\ requests = [v \in Verifiers |-> IdleRequest]
    /\ condemned = {}
    /\ changes = 0

-----------------------------------------------------------------------------
(* What else goes on: issuance, revocation, deletion, the institution's     *)
(* settings, and the chain                                                  *)

Lifecycle == INSTANCE ChainLifecycle WITH
    issued <- {c \in Credentials : row[c].state # "absent"},
    revoked <- {c \in Credentials : row[c].revoked},
    chain <- [c \in Credentials |->
                IF chain[c].proofHash = NoHash THEN "absent"
                ELSE IF chain[c].revoked THEN "revoked" ELSE "active"]

Pending(q) == q.pc \in {"chain", "record"}

\* Something changes for the pending questions about the given credentials:
\* no verdict is due any more.
Disturb(cs) ==
    requests' = [v \in Verifiers |->
        IF Pending(requests[v]) /\ requests[v].credential \in cs
        THEN [requests[v] EXCEPT !.due = "none"]
        ELSE requests[v]]

\* The same for a change of the chain, which a question that is reading it may
\* see or have missed.
DisturbChain(c, record) ==
    requests' = [v \in Verifiers |->
        IF ~Pending(requests[v]) \/ requests[v].credential # c
        THEN requests[v]
        ELSE IF requests[v].pc = "chain"
        THEN [requests[v] EXCEPT !.due = "none", !.since = @ \cup {record}]
        ELSE [requests[v] EXCEPT !.due = "none"]]

\* The changes that may be taken back, or be made again, are bounded.
Counted ==
    /\ changes < MaxChanges
    /\ changes' = changes + 1

Issue(c, signature) ==
    /\ row[c].state = "absent"
    /\ row' = [row EXCEPT ![c].state = "live", ![c].signature = signature]
    /\ Disturb({c})
    /\ UNCHANGED <<documents, institution, onChain, log, condemned, changes>>
    /\ Lifecycle!Issue(c)

Revoke(c) ==
    /\ row[c].state = "live"
    /\ ~row[c].revoked
    /\ row' = [row EXCEPT ![c].revoked = TRUE]
    /\ Disturb({c})
    /\ UNCHANGED <<documents, institution, onChain, log, condemned, changes>>
    /\ Lifecycle!Revoke(c)

\* Only a revoked credential is deleted, and its row stays.
Remove(c) ==
    /\ row[c].state = "live"
    /\ row[c].revoked
    /\ row' = [row EXCEPT ![c].state = "deleted"]
    /\ Disturb({c})
    /\ UNCHANGED <<documents, institution, onChain, log, condemned, changes>>

\* Somebody edits a stored credential behind the program's back, so that its
\* signature no longer recomputes.
Alter(c) ==
    /\ Counted
    /\ row[c].signature = "good"
    /\ row' = [row EXCEPT ![c].signature = "bad"]
    /\ Disturb({c})
    /\ UNCHANGED <<documents, institution, onChain, log, condemned>>

Active(c) == {p \in Pdfs : documents[c][p] = "ACTIVE"}

\* registerDocumentProof, one transaction: every PDF it sees active is
\* superseded.  It does not see those ("missed") of registrations that have
\* not committed yet.
RegisterSecurePdf(c, pdf, missed) ==
    /\ Counted
    /\ row[c].state # "absent"
    /\ missed \subseteq Active(c) \ {pdf}
    /\ documents' = [documents EXCEPT
          ![c] = [p \in Pdfs |->
                    IF p = pdf THEN "ACTIVE"
                    ELSE IF p \in Active(c) \ missed THEN "SUPERSEDED"
                    ELSE documents[c][p]]]
    /\ row' = [row EXCEPT ![c].chainProofHash = pdf]
    /\ Disturb({c})
    /\ UNCHANGED <<institution, onChain, log, condemned>>

\* updateInstitution: an operator may suspend the institution or give it
\* another wallet, and take that back.
UpdateInstitution(new) ==
    /\ Counted
    /\ new # institution
    /\ institution' = new
    /\ Disturb(Credentials)
    /\ UNCHANGED <<row, documents, onChain, log, condemned>>

\* The worker anchors the hash that it read some time ago.
Anchor(c, hash) ==
    LET record == [chain[c] EXCEPT !.proofHash = hash]
    IN  /\ hash \in {RegistryHash} \cup {p \in Pdfs : documents[c][p] # "none"}
        /\ chain[c].proofHash = NoHash
        /\ authorized
        /\ chain' = [chain EXCEPT ![c] = record]
        /\ DisturbChain(c, record)
        /\ UNCHANGED <<registry, authorized, log, condemned, changes>>
        /\ Lifecycle!Anchor(c)

RevokeOnChain(c) ==
    LET record == [chain[c] EXCEPT !.revoked = TRUE]
    IN  /\ authorized
        /\ chain[c].proofHash # NoHash
        /\ chain' = [chain EXCEPT ![c] = record]
        /\ DisturbChain(c, record)
        /\ UNCHANGED <<registry, authorized, log, condemned, changes>>
        /\ Lifecycle!RevokeOnChain(c)

\* The contract's owner takes the signer off the list or puts it back.
SetAuthorized(allowed) ==
    /\ Counted
    /\ authorized # allowed
    /\ authorized' = allowed
    /\ Disturb(Credentials)
    /\ UNCHANGED <<registry, chain, log, condemned>>

-----------------------------------------------------------------------------
(* Verification requests *)

\* The registry's side of VALID, and the chain's: it holds nothing else of the
\* credential than the registry does.
Intact(r) == r.state = "live" /\ ~r.revoked /\ r.signature # "bad"
ChainAgrees(record, r, i) ==
    record.proofHash # NoHash
        => record.proofHash = r.chainProofHash /\ i.walletIsSigner

Deserved(c) ==
    /\ Intact(row[c])
    /\ institution.active
    /\ ChainAgrees(chain[c], row[c], institution)

\* A credential that was revoked and to which nothing else ever happened.
MerelyRevoked(c) ==
    /\ row[c].state = "live"
    /\ row[c].revoked
    /\ row[c].signature = "good"
    /\ institution.active
    /\ ChainAgrees(chain[c], row[c], institution)

Asks(v, question) ==
    LET c == question.credential
    IN  /\ requests[v].pc = "idle"
        /\ requests' = [requests EXCEPT
              ![v] = [question EXCEPT
                        !.deserved = Deserved(c),
                        !.due = IF Deserved(c) THEN "VALID"
                                ELSE IF MerelyRevoked(c) THEN "REVOKED"
                                ELSE "none",
                        !.late = c \in condemned]]
        /\ UNCHANGED <<registry, onChain, changes>>

\* The lookup finds the credential, by any of its references.
AskReference(v, c) ==
    /\ row[c].state = "live"
    /\ Asks(v, [IdleRequest EXCEPT
                  !.pc = "chain", !.credential = c, !.since = {chain[c]},
                  !.read = [revoked |-> row[c].revoked,
                            signature |-> row[c].signature,
                            chainProofHash |-> row[c].chainProofHash,
                            institution |-> institution,
                            document |-> "none"]])
    /\ UNCHANGED <<log, condemned>>

\* A PDF that carries the credential's reference (NoHash: one that nobody
\* registered); the newest active secure PDF is read along with the row.
\* Which of several is newest is up to the clocks.  Neither the signature nor
\* the institution will matter.
AskSecurePdf(v, c, upload, registered) ==
    /\ row[c].state = "live"
    /\ IF Active(c) = {} THEN registered = NoHash ELSE registered \in Active(c)
    /\ Asks(v, [IdleRequest EXCEPT
                  !.pc = "chain", !.kind = "securePdf", !.credential = c,
                  !.since = {chain[c]},
                  !.read = [NothingRead EXCEPT
                              !.revoked = row[c].revoked,
                              !.document = IF registered = NoHash THEN "none"
                                           ELSE IF registered = upload
                                           THEN "same" ELSE "modified"]])
    /\ UNCHANGED <<log, condemned>>

\* Nothing matches, be it that the credential is deleted: the lookup is logged
\* without a credential.
AskInVain(v, c) ==
    /\ row[c].state # "live"
    /\ Asks(v, [IdleRequest EXCEPT !.pc = "done", !.credential = c,
                                   !.answer = "NOT_FOUND"])
    /\ log' = log \cup {[by |-> v, credential |-> NoCredential]}
    /\ UNCHANGED condemned

\* The answer of getCredentialVc: the stored document, unless the credential
\* is withdrawn.
VcAnswer(r) ==
    IF r.state = "absent" \/ r.signature = "none" THEN "NOT_FOUND"
    ELSE IF r.revoked \/ r.state = "deleted" THEN "GONE"
    ELSE "EXPORTED"

Condemns(c, answer) ==
    condemned' = IF answer \in {"REVOKED", "GONE"} THEN condemned \cup {c}
                                                   ELSE condemned

\* One read, nothing recorded.
AskVc(v, c) ==
    /\ Asks(v, [IdleRequest EXCEPT !.pc = "done", !.kind = "vc",
                                   !.credential = c,
                                   !.answer = VcAnswer(row[c])])
    /\ Condemns(c, VcAnswer(row[c]))
    /\ UNCHANGED log

\* What readProof brings: five parallel calls, each with an answer of its own
\* moment since the question, and then isAuthorizedIssuer of the issuer it got,
\* if the proof exists.  The zero address, read too early, is nobody's.
Seen(exists, hash, issuer, revocation) ==
    [exists |-> exists.proofHash # NoHash,
     hash |-> hash.proofHash,
     issuer |-> issuer.proofHash # NoHash,
     revoked |-> revocation.revoked,
     authorized |-> issuer.proofHash # NoHash /\ authorized]

\* Mutant: a signer that is no longer authorized is a mismatch as well.
ChainStatusStrict(read, seen) ==
    IF ~seen.exists THEN "NOT_ANCHORED"
    ELSE IF /\ seen.issuer /\ read.institution.walletIsSigner
            /\ seen.hash = read.chainProofHash
            /\ seen.authorized
            /\ ~seen.revoked
         THEN "ON_CHAIN_VERIFIED"
    ELSE "MISMATCH"

\* Mutant: the hashes are not compared.
ChainStatusLenient(read, seen) ==
    IF ~seen.exists THEN "NOT_ANCHORED"
    ELSE IF /\ seen.issuer /\ read.institution.walletIsSigner
            /\ seen.authorized
            /\ ~seen.revoked
         THEN "ON_CHAIN_VERIFIED"
    ELSE IF ~seen.authorized THEN "ISSUER_UNAUTHORIZED"
    ELSE "MISMATCH"

\* verifyRecord.  PENDING, FAILED and ARCHIVED_V1 weigh no more than
\* NOT_ANCHORED.
ChainStatus(read, seen) ==
    IF ~seen.exists THEN "NOT_ANCHORED"
    ELSE IF /\ seen.issuer /\ read.institution.walletIsSigner
            /\ seen.hash = read.chainProofHash
            /\ seen.authorized
            /\ ~seen.revoked
         THEN "ON_CHAIN_VERIFIED"
    ELSE IF ~seen.authorized THEN "ISSUER_UNAUTHORIZED"
    ELSE "MISMATCH"

\* Mutant: only the chain's word on revocation counts.
ReferenceVerdictByChain(read, status, revokedOnChain) ==
    IF ~read.institution.active THEN "INVALID"
    ELSE IF status = "MISMATCH" THEN "TAMPERED"
    ELSE IF revokedOnChain THEN "REVOKED"
    ELSE IF read.signature = "bad" THEN "TAMPERED"
    ELSE "VALID"

\* resolveStatus: the first that applies.
ReferenceVerdict(read, status, revokedOnChain) ==
    IF ~read.institution.active THEN "INVALID"
    ELSE IF status = "MISMATCH" THEN "TAMPERED"
    ELSE IF revokedOnChain \/ read.revoked THEN "REVOKED"
    ELSE IF read.signature = "bad" THEN "TAMPERED"
    ELSE "VALID"

\* verifySecurePdf.
SecurePdfVerdict(read, revokedOnChain) ==
    IF read.revoked \/ revokedOnChain THEN "REVOKED"
    ELSE IF read.document = "none" THEN "NO_SECURE_PDF_RECORD"
    ELSE IF read.document = "modified" THEN "DOCUMENT_MODIFIED"
    ELSE "INTEGRITY_VERIFIED"

\* The verdict is made up as soon as the chain has answered; what was read is
\* not looked at again.
Decide(v, status, revokedOnChain, checked) ==
    LET q == requests[v]
    IN  requests' = [requests EXCEPT
           ![v] = [q EXCEPT
                     !.pc = "record", !.read = NothingRead, !.since = {},
                     !.checked = checked,
                     !.answer =
                        IF q.kind = "reference"
                        THEN ReferenceVerdict(q.read, status, revokedOnChain)
                        ELSE SecurePdfVerdict(q.read, revokedOnChain)]]

ReadProof(v, exists, hash, issuer, revocation) ==
    LET q == requests[v]
        seen == Seen(exists, hash, issuer, revocation)
    IN  /\ q.pc = "chain"
        /\ {exists, hash, issuer, revocation} \subseteq q.since
        /\ Decide(v, ChainStatus(q.read, seen), seen.exists /\ seen.revoked,
                  seen.exists => seen.authorized)
        /\ UNCHANGED <<registry, onChain, log, condemned, changes>>

\* The chain is not configured, or one of the calls fails: it counts as
\* unavailable, and the verification goes on.
ChainUnavailable(v) ==
    /\ requests[v].pc = "chain"
    /\ Decide(v, "UNAVAILABLE", FALSE, FALSE)
    /\ UNCHANGED <<registry, onChain, log, condemned, changes>>

Answered == [IdleRequest EXCEPT !.pc = "done"]

\* Mutant: an overlapping verification's count is overwritten.
RecordVerificationStale(v) ==
    LET q == requests[v]
        c == q.credential
    IN  /\ q.pc = "record"
        /\ log' = log \cup {[by |-> v, credential |-> c]}
        /\ row' = [row EXCEPT ![c].count = 1]
        /\ requests' = [requests EXCEPT ![v] = Answered]
        /\ Condemns(c, q.answer)
        /\ UNCHANGED <<documents, institution, onChain, changes>>

\* recordVerification: the log row and the counter in one transaction, and
\* then the answer.  A deleted credential's row is still there to be counted.
RecordVerification(v) ==
    LET q == requests[v]
        c == q.credential
    IN  /\ q.pc = "record"
        /\ log' = log \cup {[by |-> v, credential |-> c]}
        /\ row' = [row EXCEPT ![c].count = @ + 1]
        /\ requests' = [requests EXCEPT ![v] = Answered]
        /\ Condemns(c, q.answer)
        /\ UNCHANGED <<documents, institution, onChain, changes>>

\* The transaction fails: an error, and nothing is recorded.
RecordingFails(v) ==
    /\ requests[v].pc = "record"
    /\ requests' = [requests EXCEPT ![v] = Answered]
    /\ UNCHANGED <<registry, onChain, log, condemned, changes>>

VerifierStep(v) ==
    \/ \E c \in Credentials :
        \/ AskReference(v, c)
        \/ \E upload \in Pdfs \cup {NoHash},
              registered \in Pdfs \cup {NoHash} :
              AskSecurePdf(v, c, upload, registered)
        \/ AskInVain(v, c)
        \/ AskVc(v, c)
    \/ \E exists, hash, issuer, revocation \in requests[v].since :
          ReadProof(v, exists, hash, issuer, revocation)
    \/ ChainUnavailable(v)
    \/ RecordVerification(v)
    \/ RecordingFails(v)

Next ==
    \/ \E v \in Verifiers : VerifierStep(v)
    \/ \E c \in Credentials :
        \/ \E signature \in {"none", "good"} : Issue(c, signature)
        \/ Revoke(c) \/ Remove(c) \/ Alter(c)
        \/ \E pdf \in Pdfs, missed \in SUBSET Pdfs :
              RegisterSecurePdf(c, pdf, missed)
        \/ \E hash \in Hashes : Anchor(c, hash)
        \/ RevokeOnChain(c)
    \/ \E new \in Institution : UpdateInstitution(new)
    \/ \E allowed \in BOOLEAN : SetAuthorized(allowed)

Spec == Init /\ [][Next]_vars

-----------------------------------------------------------------------------
(* Properties *)

TypeOK ==
    /\ row \in [Credentials -> CredentialRow]
    /\ documents \in
          [Credentials -> [Pdfs -> {"none", "ACTIVE", "SUPERSEDED"}]]
    /\ institution \in Institution
    /\ chain \in [Credentials -> ChainRecord]
    /\ authorized \in BOOLEAN
    /\ log \subseteq LogEntry
    /\ requests \in [Verifiers -> Request]
    /\ condemned \subseteq Credentials
    /\ changes \in 0..MaxChanges

LogOf(c) == {entry \in log : entry.credential = c}

\* verificationCount, which the certificate page shows, is the number of log
\* rows about the credential, however many verifications overlap and fail.
CountsMatchLog == \A c \in Credentials : row[c].count = Cardinality(LogOf(c))

\* The verdict of a verification is made up before it is recorded; the other
\* answers are given at once.
Decided(v) == requests[v].pc \in {"record", "done"}

\* VALID is answered from two stores read at different times, and yet it was
\* deserved on both at the moment of the question.  The code lets two things
\* pass unchecked: a chain that cannot be read, and a signer that is no longer
\* authorized.
ValidIsDeserved ==
    \A v \in Verifiers :
        Decided(v) /\ requests[v].answer = "VALID" /\ requests[v].checked
            => requests[v].deserved

\* Once a verifier was told that a credential is withdrawn, nobody who asks
\* afterwards is told that it, or its secure PDF, is good, nor given its VC
\* export: through every endpoint, with or without the chain.
WithdrawalSticks ==
    \A v \in Verifiers :
        Decided(v) /\ requests[v].late =>
            requests[v].answer \notin
                {"VALID", "INTEGRITY_VERIFIED", "EXPORTED"}

\* No false alarm: if nothing changes before the verdict is recorded, a
\* credential that deserves it is answered VALID, anchored or not, whether the
\* chain answers or not and whether or not its signer is still authorized.
CalmAnswersAreRight ==
    \A v \in Verifiers :
        LET q == requests[v]
        IN  Decided(v) /\ q.kind = "reference" /\ q.due = "VALID"
                => q.answer = "VALID"

\* docs/COMPLIANCE.md:88: a revoked credential remains verifiable, but reports
\* a REVOKED status.
RevokedIsReported ==
    \A v \in Verifiers :
        LET q == requests[v]
        IN  Decided(v) /\ q.kind = "reference" /\ q.due = "REVOKED"
                => q.answer = "REVOKED"

=============================================================================
