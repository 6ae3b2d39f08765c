# Certiva: TLA+ models, checks and proofs

Certiva issues academic credentials, signs them, anchors their hashes in a
smart contract, lets anybody verify them, and keeps a tamper-evident log of
what its administrators do. This directory holds TLA+ modules translated from
that code, TLC configurations that check them on small instances, and theorems
about them that TLAPS proves for all instances. `PROJECT.json` names, for every
definition that models code, the lines it stands for.

## 1. The system

| Component | State it keeps | Operations | Talks to |
|---|---|---|---|
| `CredentialRegistry.sol` | records, index by proof hash, issuers, issuer profiles, owner | authorize/remove/name issuers, anchor, revoke, transfer/renounce ownership | called by the worker and the owner |
| API, credentials (`credential.service.ts`) | `Credential`, `IssuanceBatch`, files | issue, bulk issue, revoke, bulk revoke, delete, register secure PDF | queue service, audit log, signing keys, storage |
| API, queue service (`blockchain-queue.service.ts`) | `anchorStatus`, `chainStatus`, `BlockchainAnchorLog` | enqueueAnchor, enqueueRevoke, markQueueFailure | PostgreSQL, then Redis (BullMQ) |
| Worker (`credential-anchor.ts`, `lib/blockchain.ts`) | none of its own | process one job: read, compare with the chain, send, await receipt, record | Redis, PostgreSQL, chain |
| Audit log (`audit-log.service.ts`) | `AuditLog`, `AuditChainHead`, advisory lock | log (with or without a transaction), verifyChain | called by every service |
| Accounts (`auth.service.ts`, `jwt.strategy.ts`, `roles.guard.ts`) | `Admin` (role, active, tokenVersion) | register, login, update, delete; authenticate | audit log, every protected route |
| Signing keys (`signing-key.service.ts`, `scripts/rekey-signing-secret.ts`) | `IssuerSigningKey`, the secret in the API's environment | first key, rotation, sign; seal every key again with a new secret | issuing, audit log, the operator |
| Verification (`verification.service.ts`, `blockchain.service.ts`) | `VerificationLog`, `verificationCount` | verify by reference, secure PDF or verification id, export the VC | credentials, settings, chain |
| Document proofs (`document-proof.service.ts`) | `SecureDocumentProof` and its logs | create, remove, regenerate, verify | storage, PostgreSQL |
| Rate limiting (`common/rate-limit/`) | a sorted set per client and rule in Redis, a `Map` and `redisFallbackUntil` per process | consume, before every limited route | Redis, by a Lua script |
| Institution, assets, VC export, web | settings row, files | edits, rendering, encodings | - |

Three stores (PostgreSQL, Redis, the chain) are written by two programs (API
and worker) with no transaction across them, and within the API most handlers
read, decide and write in separate statements. That is where the hard
behaviours are:

- **Anchoring.** A request may die between any two of: row, log, queue. A
  `queue.add` may run and report a failure. An attempt of the worker may end
  after its transaction was sent. Anchor and revoke jobs of one credential
  retry independently, so their outcomes are recorded in any order.
- **Audit chain.** Appends overlap, and each needs its predecessor's hash;
  transactions roll back after a sequence number was drawn; a verification
  reads two tables while appends go on.
- **Accounts.** Rules about *other* accounts (an OWNER must be left) and about
  an earlier read (does this update end sessions?) are decided in one statement
  and acted on in another.
- **Issuance.** A credential is a row, two files, a job and a log entry, written
  one after the other by requests that overlap; any write may fail, and so may
  the clean-up after it. A duplicate is looked for long before the row is
  inserted. Public reads make lost files again from a row read some time ago.
- **Signing keys.** First issuances take no lock, rotations do, and an operator
  seals all keys again while the API serves with the old secret.
- **Verification.** The answer is put together from a database read and six
  separate chain reads, while the credential is revoked, deleted or anchored, a
  PDF is registered or the institution's settings change.
- **Rate limiting.** A request reads the clock, and Redis counts it later, after
  others, twice, or never. Without Redis each process counts alone, from zero.
- **Contract.** A long sequence of legal calls by the owner and issuers must
  not take the register, its index and the profiles apart.

What makes each component correct, in one line:

- contract: append-only; index = inverse of the register; profiles tell the
  truth about authorisations;
- pipeline: the chain holds only what was issued and revokes only what was
  revoked; what the database reports as anchored or revoked is so; every job
  ends; faults within the retry budget are made up for; the log explains the row;
- audit: what is committed verifies; an entry exists exactly with its work
  where the caller asked for that; the lock is given back;
- accounts: an active OWNER is left; ended sessions stay ended; only OWNERs
  rule over OWNERs;
- issuance: one live credential per student and degree; files follow rows;
  what a batch or a revocation reports or leaves behind is backed by the stores;
- signing keys: one key signs; the log accounts for each retired one; the
  runbook ends with keys the API can open;
- verification: VALID was deserved when it was asked; a withdrawal that was
  reported stays reported; nothing good is called bad when nothing happened;
- rate limiting: no counter lets more than its limit pass in its window, a login
  is counted in one place only, and nobody is refused for no reason.

## 2. Modules

```
ChainLifecycle      <--implements--  AnchorPipeline  --INSTANCE-->  CredentialRegistry
      ^
      +-------------INSTANCE-------  Verification
CredentialRegister  <--implements--  Issuance
AuditTrail          <--implements--  AuditChain
SigningKeys         Accounts         RateLimit

MC<Module>.tla + .cfg: instances for TLC     <Module>_proofs.tla: theorems
```

`AnchorPipeline` and `Verification` share `ChainLifecycle`: the first shows that
requests, queue, worker and chain together do no more than it allows, the second
takes its steps as the environment of the verifiers. `Issuance` looks at the same
requests as `AnchorPipeline` from the side of the other stores: there the queue
is only what was put into it, and here it is where the model begins.

### CredentialRegistry (contract)
One action per external state-changing function, with the caller as a
parameter; a call that reverts is a disabled action. Mappings are functions
whose unwritten entries read as zeroes (`EmptyRecord`, `EmptyProfile`).
`keccak256(credentialId)` is taken as injective, so the key is the id.
`authorizeIssuer` and `authorizeIssuerWithName` are one action, with and without
a name. OpenZeppelin's `Ownable` and the block clock (`NextBlock`) are external.

### ChainLifecycle (abstract)
The promise of the pipeline with no queue in sight: `Issue`, `Revoke`,
`Anchor`, `RevokeOnChain` over three variables.

### CredentialRegister (abstract)
What issuing, revoking and deleting promise with no request, file, batch or queue
in sight: `Issue` only where no live credential is for the same student and
degree, `Revoke` once and for good, `Delete` only what was revoked. `Issuance`
maps its rows to it, and its steps on anything else to stuttering.

### AuditTrail (abstract)
A log that only grows, by one entry at its end: `WorkAndRecord` for a fail-closed
operation, `Work` and later `Record`, if ever, for any other. `AuditChain` maps
the contents of its rows to the entries; hashes, lock, sequence and rollbacks
are stuttering.

### Verification
`requests` holds what a handler has between its awaits. `AskReference`,
`AskSecurePdf`, `AskInVain` and `AskVc` are the reads of the database (and the
answers given at once); `ReadProof` is the chain's answer, `ChainUnavailable`
its absence, and `RecordVerification` the transaction that adds the log row and
the count. The chain's five parallel calls may each see a different block:
`since` collects the records the chain has held since the question, and
`ReadProof` takes each field from one of them. `resolveStatus` is an operator.
Which ids a reference matches (credential id, code, verification id) and how a
PDF is read are left out; a PDF is a model value. `deserved`, `due`, `late`,
`checked` and `condemned` are history that only the properties read.

### Issuance
`create`, `bulkIssue`, `revoke`, `bulkRevoke`, `remove`, `bulkDelete`,
`registerSecurePdf` and the public reads that run `ensureAssets`. `requests[h].pc`
names the write that comes next. `issueCredentialRecord` is `PersistAssets` ->
`Insert` -> `EnqueueAnchor` -> `ReadBack`, with `MarkQueueFailure` and the catch
(`Cleanup`) beside it; each write has an action in which it fails, and a request
may die anywhere (`Dies`). `unfinished` is history: the credentials whose
handler met a failure that it does not handle; `overlapped`: those that changed
while their files were being made again. Parsing and validating a CSV, rendering
and signing are left out. `Spellings` are pairs that the duplicate look-up takes
for one (it ignores case and spacing) and the unique index for two.

### SigningKeys
`FindKey`/`FindNoKey` -> `CreateKey` -> `AuditKey` -> `Sign` is an issuance;
`Rotate` -> `LockAndFind` -> `Commit` a rotation, whose `findMany` and
`updateMany` are two statements under the audit lock (at READ COMMITTED the
second sees keys the first did not). The operator follows DEPLOY.md:
`StartRunbook`, `Plan`, `Apply`, `Restart`, and the check, which is an issuance.
A key is the secret it is sealed with and whether it is active; what a signature
is, and that it verifies, is left to the unit tests. `slipped` and `extra` are
history.

### AnchorPipeline (API requests, queue, worker, chain)
`requests` holds a program counter per API request; a step is one await:
`IssueCredential`/`ReadForRevoke` -> `RevokeRow` -> `RefreshMetadata` (single
revoke only) -> `WriteEnqueueLog` -> `AddToQueue` -> `MarkQueueFailure`.
The worker's steps are `LoadCredential` -> `DecideOnProof` -> `SendTransaction`
-> `ReceiveReceipt` -> `CommitSuccess` (or `RecordFailure`) -> `CompleteJob`/
`RetryJob`. A PostgreSQL transaction is one step. Each call that leaves the
process may succeed, fail, or take effect and fail (`Fault`, bounded by
`MaxFaults`; `AttemptFails` at `complete` is a commit whose reply is lost);
requests and the worker may also die (`AbortRequest`, `CrashWorker`). The contract is an instance of `CredentialRegistry` at one block
time; `MineTransaction` runs the signer's transactions in nonce order and a
reverting one has no effect. The job ids are fixed per operation and
credential, so the queue is a function from job id to job (state, attempts made,
stalls). `ForgetJob` is `removeOnComplete` and `removeOnFail`: a finished job's
id is free again. A hash is a pair of its kind and the credential: hashes of different
credentials differ.

### AuditChain
`Begin`, `LockChain`, `ReadLast`, `Insert`, `Commit`, `RollBack` per operation,
and a verifier that reads rows and head apart. A hash is the list of everything
chained into it, which is sha256 without collisions. READ COMMITTED: a
transaction's rows appear at its commit. `FailClosed` operations pass their
transaction to `log()`. Rows without a hash (from before chaining) and edits
from outside the program are left out.

### Accounts
A request holds what its handler holds between awaits: the actor *as it was
authenticated*, the target and the account as it was read. `updateAdmin`,
`deleteAdmin`, `register` and `login` have one action per statement. `dismissed`
is a history variable: the tokens whose account was later disabled or given
another role. `worked` stands for the five counts of `adminHasActivity`.
No code path creates the first OWNER (the seed script creates a SUPER_ADMIN and
only an OWNER can make one), so the initial state is that of a deployment whose
operator did.

### RateLimit
One client: the keys of two clients share nothing. `UsesMemory`, `ConsumeInMemory`
and `ConsumeInRedis` are `consumeFromStore` up to its await, `Answer`,
`RefuseUncounted` and `FallBack` what follows it; `RunScript` is the Lua script.
A hit is the request it stands for, since each script has a `randomUUID` of its
own. A script carries the clock reading of its request (`sent`) and may be sent a
second time (`Resend`), run without a listener (`RunUnheard`) or be lost. `Tick`
keeps every script from being on its way for longer than `MaxDelay`, which is the
one assumption about the network. Redis restarts from its last snapshot
(`--save 60 1`), a process with nothing. `at` is the reading a request was judged
by and `counter` the store, and the run of that store, that judged it. Headers,
`resetAt` and the hash of the address are left out.

## 3. Runs

| Run | Instance | Shows |
|---|---|---|
| `registry` | 2 callers, 3 ids (one empty), 2 hashes, 1 name, time 1..3; ids and hashes symmetric | `HashIndexIsInverse`, `ProfilesAgree`, `IssuersWereAuthorized`, `RecordsAreAppendOnly` |
| `anchor_safety` | 1 credential, 2 requests, 2 attempts, 1 stall, 2 faults, secure PDFs and a removable signer | the safety of the pipeline (what rows, log, jobs and chain say of each other, attempts and restarts within their bounds), and that it implements `ChainLifecycle` |
| `anchor_liveness` | 1 credential, 2 requests, 3 attempts, 1 stall, 1 fault | `QueueDrains`, `AnchorsLand`, `RevocationsLand` |
| `audit_chain` | 3 operations (2 fail-closed), 2 rollbacks, a verifier | `CommittedLogVerifies`, `EntriesMatchWork`, `OperationsFinish`; implements `AuditTrail` |
| `accounts` | 2 accounts, 1 administering and 1 other request, tokenVersion up to 2 | `DismissedSessionsStayOut`, `SomeOwnerIsActive`, `OnlyOwnersRuleOverOwners` |
| `verification` | 1 credential, 2 requests (symmetric), 1 secure PDF, 2 changes | `ValidIsDeserved`, `WithdrawalSticks`, `CalmAnswersAreRight`, `CountsMatchLog` |
| `issuance` | 2 credentials, 3 pairs of which 2 are spellings of one, 2 requests at a time, 3 in all, 1 fault; all symmetric | `OneLivePerPair`, `ReportsAreBacked`, `FilesMatchRows`, `RevocationsAreRecorded`, `MetadataTellsRevocation`, `SecurePdfSticks`; implements `CredentialRegister` |
| `signing_keys` | 3 requests at a time, 2 rotations, 1 fault | `RetirementsAreLogged`, `OneSigner`, `VerifiedMeansUsable`, `SigningResumes` |
| `rate_limit` | 1 login, 2 verifications (symmetric), limit 1, window 2, delay 1, 1 restart (of the process or of Redis) | `CountersKeepTheLimit`, `LoginsKeepTheLimit`, `RefusalsAreEarned` |
| `audit_breaks`, `accounts_race`, `verification_revoked` | see section 6 | a documented claim that the code does not keep |

No run checks a type invariant (`TypeOK`): each module's is a theorem, and so is
the contract's `RecordsAreWellFormed`.

Why the bounds are enough to meet the interesting cases:

- *Pipeline.* Credentials share nothing but the worker and the signer's nonce
  order, so one credential has all the conflicts over its row. Two requests
  give an issue that overlaps a revoke and two revokes that overlap. Two
  attempts are the least with a retry; two faults make a lost reply followed by
  a lost retry, and with two attempts they exhaust a job. A secure PDF registered
  and the signer's removal (`SecurePdfs`, `SignerRemovable`) and a forgotten job
  count as faults, so that the run has any two of these disturbances. Several credentials
  are covered by the theorems, which bound nothing.
- *Liveness* needs fewer faults than attempts, else giving up is right; three
  attempts (the code has five) against one fault also leave an attempt for the
  failures that are nobody's fault, such as a revoke job that runs before the
  credential is on the chain.
- *Audit.* Three operations are a holder, a waiter and one that has finished;
  two rollbacks make gaps next to each other and at the end.
- *Accounts.* Two accounts can be each other's last OWNER, and each can be made
  an OWNER, disabled, re-enabled and deleted while the other's request is on its
  way. `MaxVersion` only cuts off behaviours in which an account is dismissed a
  third time; tokens of three versions coexist before that. Any number of
  accounts is covered by the theorems.
- *Verification.* Verifiers share nothing but the counter and the history of
  what was answered, so two are a question before and one after a withdrawal.
  Revocation, deletion and the chain's progress are not bounded; `MaxChanges`
  bounds the rest (altered rows, secure PDFs, settings, authorizations), and two
  make a change and its opposite.
- *Issuance.* Two requests at a time are every pair of overlapping operations, and
  the third meets what they leave; two credentials compete for one pair, and three
  pairs let a CSV hold two spellings and something else. `MaxFaults` counts
  failures with a reason of their own: the marking of a queue that is down may
  fail along with it (`FollowingFault`).
- *Signing keys.* Three requests are two rotations and an issuance, or three
  first issuances; two rotations let the second retire what the first made.
  A fault is a death of a request or of the script, or an entry that is lost.

- *Rate limiting.* Two verifications compete for one place, and one of them may
  start the cooldown that the login must not share. The clock runs to 3, which
  with a window of 2 lets the first hits be trimmed, and drops a set by its
  expiry. With one login the run shows that logins are counted in Redis alone;
  that all processes together keep its limit is the theorem.
  `CountersKeepTheLimit` speaks, for Redis, of a span of the window less
  `MaxDelay`: of two scripts that overtake each other, the later one may find hits
  trimmed that its own clock would still count.

`CHECK_DEADLOCK FALSE` stands where the system really may stop: a contract
nobody calls because its owner renounced, a pipeline whose jobs are all done
and whose fault budget is used up, an account list that reached `MaxVersion`,
verifiers that have their answers, requests that were all served, a clock that
reached `MaxTime`.

### Fairness
`AnchorPipeline!Fairness`: handlers and the worker go on after an await
(weak), the chain mines what a node accepted (weak: the signer's transactions
have increasing nonces and there is no competitor for them), and a job that is
again and again ready while the worker is idle is started (strong: BullMQ
serves in order, and backoff ends). No fairness is given to requests starting,
to faults, to secure PDFs or to the owner. `AuditChain!Fairness`: a
transaction that can go on does (weak), and PostgreSQL grants the advisory
lock to waiters in order (strong per waiter). `SigningKeys!FairSpec`: a request
that was begun goes on (weak), and the operator, once the runbook was started,
carries it through, checking included (weak); nothing makes anybody begin an
issuance, a rotation or the runbook.

## 4. Proofs

| Module | Theorems | Inductive invariant |
|---|---|---|
| `CredentialRegistry_proofs` | `RegistryCorrect`, `TypesHold`, `RecordsCorrect`, `ProfilesCorrect`, `HashIndexCorrect`, `IssuersCorrect`, `RegisterAppendOnly` | `RegistryInv` |
| `AnchorPipeline_proofs` | `PipelineInvariant`, `PipelineTypes`, `ReportedAnchorsAreTrue`, `ReportedRevocationsAreTrue`, `RevocationStatusesAreTrue`, `PipelineImplementsLifecycle` | `PipelineInv` |
| | `LogTellsStatus` | `LogInv` |
| | `AttemptsStayBounded`, `ReleasesAreCounted` | `QueueInv`, `AttemptLogInv` |
| | `CompletedMeansLanded` | `PipelineInv`, `DoneInv` |
| `AuditChain_proofs` | `AuditInvariant`, `TypesHold`, `CommittedLogIsIntact`, `EntriesAreHonest` | `AuditInv` |
| | `LogIsATrail` | `AuditInv`, `TrailInv` |
| `Accounts_proofs` | `ManagerInvariant`, `TypesHold`, `AnOwnerIsLeft`, `DismissalIsFinal`, `OwnersAloneRuleOverOwners` | `ManagerInv(m)` |
| `Verification_proofs` | `TypesHold`, `ValidWasDeserved`, `WithdrawalsStick`, `NoFalseAlarms` | `IInv` |
| | `CountsAreExact` | `CountInv` |
| `Issuance_proofs` | `TypesHold`, `PairsStayUnique` | `TypeInv`, with `OneLivePerPair` |
| | `SecurePdfsStick` | `BaseInv`, `ReadInv` |
| | `RevocationsRecorded` | `BaseInv`, `RecordInv` |
| | `MetadataHonest` | `BaseInv`, `ReadInv`, `MetaInv` |
| | `FilesFollowRows` | `BaseInv`, `FilesInv` |
| | `BatchesAreBacked` | `BaseInv`, `BatchInv` |
| | `IssuanceKeepsRegister` | `BaseInv`, `DueInv` |
| `SigningKeys_proofs` | `TypesHold`, `OneKeySigns` | `TypeInv`, with `OneSigner` |
| | `RetirementsAccounted` | `TypeInv`, `LogInv` |
| | `RunbookHolds` | `TypeInv`, `RunbookInv` |
| `RateLimit_proofs` | `RateInvariant`, `RateTypesHold`, `CountersNeverExceedTheLimit`, `LoginsNeverExceedTheLimit`, `RefusalsAreAlwaysEarned` | `RateInv` |

All are for every value of the constants, from the assumptions named in the
modules (`RegistryAssumption`, `PipelineAssumption`, `AuditAssumption`,
`AccountsAssumption`, `VerificationAssumption`, `IssuanceAssumption`,
`SigningKeysAssumption`, `RateLimitAssumption`), which say little more than that
the null values are not among the values and that requests and credentials are
finitely many where they are counted. `RateLimitAssumption` also takes limits and
windows to be positive and the delay of a script to be shorter than a window: with
no bound on the delay Redis would judge by clocks whose hits it has trimmed, and
the limit would not hold. The bounds (`MaxTime`, `MaxRuns`, `MaxRestarted`, `MaxFaults`,
`MaxRollbacks`, `MaxVersion`, `MaxChanges`, `MaxRequests`, `MaxRotations`)
are arbitrary naturals.

- *Registry.* The four invariants of the run are inductive together with the
  types. `IssuersWereAuthorized` needs `ProfilesAgree` (who may anchor has a
  date), and append-only follows from the two reverts of `anchorCredential`
  and `revokeCredential`.
- *Pipeline.* "Reported REVOKED is revoked" is not inductive: the status is
  written some steps after the fact. `PipelineInv` therefore follows a job from
  the request to the mempool: which rows stand behind a request, a job, a
  worker step and a pending transaction; that the chain's records are the
  institution's; and that a worker which has its receipt, or found its work
  already done, sees it on the chain. The heart is the receipt whose status
  nobody reads: it is sound because the worker alone sends transactions of this
  key, one at a time and in nonce order, so that when its last one is mined
  either that one or an earlier one of the same job has had its effect, unless
  the owner took the signer off the list, which is the exception
  `ReportedAnchorsExist` states. The refinement theorem uses the same
  invariant: a transaction in the mempool is always for a credential that was
  issued (anchor) or revoked (revoke). `LogInv` adds that the row's two statuses
  are what the last deciding rows of its log say; that these rows lie within the
  log is part of the invariant, which spares an induction over the log. `QueueInv`
  ties the worker to the one active job and keeps every live job within its
  attempts and restarts, `AttemptLogInv` bounds what the log says of them; together
  with `StartsAreCounted` (a job that is let go uses up an attempt or a restart, and
  a finished one is not opened again under its id) this is the safety half of
  `QueueDrains`. `DoneInv`: a worker about to complete its job, and a completed job,
  has its outcome in the log and its effect on the chain.
- *Audit.* `AuditInv` says that whoever is between its first read and its commit
  holds the lock, that the hash it read is still the last one, that the head is
  the last row, and that as long as nothing was rolled back the sequence is one
  ahead of the table (two, once the holder has drawn its number). The refinement
  adds `TrailInv`: where an operation is tells whether its entry is there and its
  work is visible. That every commit puts its row behind all others
  (`CommitAppends`) is what the lock is for.
- *Accounts.* The theorems assume that one request at a time administers
  accounts (`Managers = {m}`), with any number of logins and other work beside
  it: the code has no lock that gives more, and the `accounts_race` run is the
  counterexample without the assumption. Under it `ManagerInv` says that what
  the manager read is still what the account is (`TargetStands`), that its
  actor still has its role (`ActorStands`), and that no token handed out, or about
  to be, is ahead of its account's version (`SessionsInv`).

- *Verification.* A verdict rests on what was read before. `IInv` carries it to
  the answer: as long as a request waits for the chain, every record in `since`
  with which its reading would pass for VALID was deserved when it asked; what
  the chain or an earlier answer called revoked is revoked in the row. The torn
  read cannot produce VALID undeservedly because the existence, the hash and the
  revocation it combines only ever move one way. `CountInv` needs that a
  request adds its log row once.
- *Issuance.* `TypeInv` includes what a request holds at each step, `BaseInv` what
  has become of the credentials that requests hold (an id is inserted by the one
  request that made it). On these stand four independent arguments, each a
  condition on the stores at every step of a request beside its property: what a
  regeneration has read is still so unless the credential is in `overlapped`
  (`ReadInv`); how far a revocation has got (`RecordInv`, `MetaInv`); which files
  a request in progress answers for (`FilesInv`). `PairsStayUnique` follows from
  the index alone, whatever the look-up found. `BatchInv` counts the rows of a bulk
  issuance at each of its steps: a row inserted may still be reported FAILED, a
  row reported ISSUED is there. The refinement of `CredentialRegister` needs of
  the requests only `DueInv`: an insertion is for a pair that was asked for, and a
  removal holds only credentials that are revoked.
- *Signing keys.* What a rotation found is still active when it writes, because it
  holds the lock and issuances only add keys (`LogInv`). `RunbookInv`: after the
  restart the requests of the old process are gone and nothing is sealed with
  the old secret any more, so that a newest key that a request has seen open is
  followed by newest keys that open.

- *Rate limiting.* That the set is never overfull does not bound what a counter let
  pass: sets are trimmed and dropped. `RateInv` says which hits a counter must
  still hold, namely those of the requests it let pass less than a window ago
  (`KeptByRedis`, `KeptInMemory`). A script runs at most `MaxDelay` after its clock
  reading, so that what it does not find lies more than the window less `MaxDelay`
  before the request it judges, and what it does find counts against the limit.
  For refusals it is the other way round: every hit, in the snapshot as well
  (`SavedInv`), stands for a request that was counted, once.

Only model-checked: the liveness properties (`QueueDrains`, `AnchorsLand`,
`RevocationsLand`, `OperationsFinish`, `SigningResumes`), which TLAPS cannot
prove under fairness. Every other property of a passing run is a theorem.

## 5. Mutants

Next to the definition it changes stands, for every property, a variant with a
plausible bug (`...Unchecked`, `...Lax`, `...Forgetful`, `RevokeRowLater`, ...).
It is not part of any specification; substituting it for the definition makes
TLC find the property violated, which shows that the property sees that code.

## 6. Where the code and its documentation differ

- **A break of the audit chain** (`audit-log.service.ts:332`: "A break means a
  row was edited, deleted or reordered after the fact"). `verifyChain` reads the
  rows and the head in two statements; an append between them is reported as
  rows removed from the end (`audit_breaks`). A gap after a rollback is a break
  too; the code's own message names that cause.
- **The last OWNER** (`SECURITY.md:45`: "The last active OWNER account cannot be
  deleted, disabled, or demoted"). Two overlapping updates each count the other's
  target as the OWNER that is left (`accounts_race`).
- **REVOKED** (`docs/COMPLIANCE.md:88-89`: a revoked credential "remains visible and
  verifiable, but reports a `REVOKED` status"). Once the worker has revoked it on
  the chain too, the comparison with the chain is a mismatch, which
  `resolveStatus` reports as TAMPERED before it looks at the revocation
  (`verification_revoked`).

What else the models show, and no run is about:

- *Pipeline.* REVOKE_ENQUEUE_FAILED, which `packages/types/src/index.ts:41-42` takes
  for a job that never got queued, also stands on a credential that the worker
  revokes: when the reply of `queue.add` is lost, or a second overlapping revoke
  fails to enqueue what the first did enqueue. A late failing attempt of an
  anchor job overwrites `chainStatus` REVOKED with FAILED, and a late succeeding
  one overwrites REVOKE_FAILED with ANCHORED (the log explains both, `LogExplainsStatus`). A secure PDF registered
  between anchoring and revoking makes the on-chain revocation fail for good,
  since the worker compares the chain with the new hash.
- *Verification.* A chain that cannot be read, and a signer that is no longer
  authorized, let VALID pass (the latter even over a mismatch);
  `ValidIsDeserved` excepts both. `verifySecurePdf` looks neither at the
  institution's status nor at the signature. A read of the chain torn by an
  anchoring, a change of wallet, and a secure PDF registered after anchoring are
  reported as TAMPERED; `CalmAnswersAreRight` is about undisturbed requests.
- *Issuance.* Two live credentials can be issued for two spellings of one student
  and degree by overlapping requests, for the index compares exactly and the
  look-up does not. `OneLivePerPair` is about equal pairs. When `Insert`
  succeeded and `markQueueFailure` then failed, or the insert's reply was lost,
  the catch deletes the files of a live credential. A row whose last read fails
  is reported FAILED although it was issued. `bulkIssue` writes no entry into the
  audit log, and `bulkRevoke` does not refresh the public metadata. `ensureAssets`
  on a row read before `registerSecurePdf` puts the old hash back. A batch whose
  request dies keeps counters of zero. Overlapping revocations overwrite the
  reason and the revoker of one another.
- *Signing keys.* A key made between a rotation's two statements is retired
  without being named in the entry (`slipped`). Two first issuances make two
  active keys (`extra`). Signing fails between the script and the restart, and
  after it for a key made meanwhile until the script is run again. A key that is
  not the newest may stay under the old secret for good. The entry of a key's
  creation may be missing.

## 7. Not modelled, and what is left

Left out for good: rendering, storage and encodings (functions of their
input), the web application (no state of the system; its pages, its client and
its dictionaries are nearly half of the repository's TypeScript), the contract's
generated ABI, health checks, the worker's `verification`, `audit`, `issuance`
and `retry` queues (their processors keep no state), password hashing, token
expiry, gas and RPC details, `BLOCKCHAIN_ENABLED=false` (both sides then do
nothing). BullMQ drops a finished job after 200 later ones; `ForgetJob` may drop
it at any time.
The API's crash between the transaction that writes PENDING and `queue.add` is
in the model; nothing repairs it, so that no property is about it.

Left for later:

1. **Document proofs**: `create`, `remove`, `bulkDelete`, `regenerate` and a
   verification that overlaps them (`document-proof.service.ts:60-660`). State:
   proof rows, their files and verification logs. Property: a proof that answers
   VALID has its file and was not removed when it was asked for.
2. **Accounts** with two administering requests and a lock around the count, as
   the specification of a repair of `accounts_race`.
