------------------------ MODULE Verification_proofs ------------------------
(***************************************************************************)
(* What a verification may answer, for any number of credentials, requests *)
(* and changes.  The properties are about verdicts, which are made up from *)
(* what was read some time ago; Sound says how that still relates to the   *)
(* credential and the chain while the request waits.                       *)
(***************************************************************************)
EXTENDS Verification, FiniteSetTheorems, TLAPS

DeletedAreRevoked ==
    \A c \in Credentials : row[c].state = "deleted" => row[c].revoked
ChainFollows == \A c \in Credentials : chain[c].revoked => row[c].revoked
CondemnedAreRevoked == \A c \in condemned : row[c].revoked

\* The request's reading would pass for VALID with this record of the chain.
Passes(read, record) ==
    /\ ~read.revoked
    /\ read.signature # "bad"
    /\ read.institution.active
    /\ ChainAgrees(record, read, read.institution)

Sound(v) ==
    LET q == requests[v]
        c == q.credential
    IN  /\ q.pc \in {"chain", "record"} => c \in Credentials
        /\ q.pc = "chain" =>
              /\ q.kind \in {"reference", "securePdf"}
              /\ chain[c] \in q.since
              /\ q.read.revoked => row[c].revoked
              /\ \A record \in q.since : record.revoked => row[c].revoked
              /\ q.late => q.read.revoked
              /\ q.kind = "reference" =>
                    \A record \in q.since :
                        Passes(q.read, record) => q.deserved
              /\ q.kind = "reference" /\ q.due = "VALID" =>
                    /\ q.since = {chain[c]}
                    /\ Passes(q.read, chain[c])
                    /\ ~chain[c].revoked
        /\ q.pc = "record" => /\ q.answer # "GONE"
                              /\ q.answer = "REVOKED" => row[c].revoked

IInv ==
    /\ TypeOK
    /\ DeletedAreRevoked
    /\ ChainFollows
    /\ CondemnedAreRevoked
    /\ \A v \in Verifiers : Sound(v)
    /\ ValidIsDeserved
    /\ WithdrawalSticks
    /\ CalmAnswersAreRight

-----------------------------------------------------------------------------
(* Types *)

LEMMA IdleRequestType == IdleRequest \in Request
  BY DEF IdleRequest, Request, NothingRead, Record, Institution, Hashes, Kinds

LEMMA InitEstablishesIInv == Init => IInv
<1> SUFFICES ASSUME Init PROVE IInv
  OBVIOUS
<1>1. TypeOK
  BY IdleRequestType, VerificationAssumption
  DEF Init, TypeOK, NoRow, CredentialRow, Hashes, Institution, NoRecord,
      ChainRecord
<1>2. /\ DeletedAreRevoked
      /\ ChainFollows
      /\ CondemnedAreRevoked
  BY DEF Init, DeletedAreRevoked, ChainFollows, CondemnedAreRevoked, NoRow,
         NoRecord
<1>3. \A v \in Verifiers : requests[v].pc = "idle"
  BY DEF Init, IdleRequest
<1>4. /\ \A v \in Verifiers : Sound(v)
      /\ ValidIsDeserved
      /\ WithdrawalSticks
      /\ CalmAnswersAreRight
  BY <1>3 DEF Sound, ValidIsDeserved, WithdrawalSticks, CalmAnswersAreRight,
              Decided
<1> QED
  BY <1>1, <1>2, <1>4 DEF IInv

\* A question about cs, or about the chain's record of c, is only disturbed.
LEMMA DisturbOnlyDisturbs ==
    ASSUME TypeOK, NEW cs, Disturb(cs)
    PROVE  /\ requests' \in [Verifiers -> Request]
           /\ \A v \in Verifiers :
                 \/ requests'[v] = requests[v]
                 \/ requests'[v] = [requests[v] EXCEPT !.due = "none"]
<1>1. \A v \in Verifiers : requests[v] \in Request
  BY DEF TypeOK
<1>2. \A v \in Verifiers : [requests[v] EXCEPT !.due = "none"] \in Request
  <2> TAKE v \in Verifiers
  <2> DEFINE q == requests[v]
  <2>1. q \in Request
    BY <1>1
  <2> HIDE DEF q
  <2>2. [q EXCEPT !.due = "none"] \in Request
    BY <2>1 DEF Request
  <2> QED
    BY <2>2 DEF q
<1> QED
  BY <1>1, <1>2 DEF Disturb

LEMMA DisturbChainType ==
    ASSUME TypeOK, NEW c, NEW record \in ChainRecord, DisturbChain(c, record)
    PROVE  requests' \in [Verifiers -> Request]
<1>1. \A v \in Verifiers : requests[v] \in Request
  BY DEF TypeOK
<1>2. \A q \in Request :
         /\ [q EXCEPT !.due = "none"] \in Request
         /\ [q EXCEPT !.due = "none", !.since = @ \cup {record}] \in Request
  BY DEF Request
<1> QED
  BY <1>1, <1>2 DEF DisturbChain

-----------------------------------------------------------------------------
(* Everything but the chain and the requests *)

\* Whatever else changes in the database, withdrawals stay, and the requests
\* hold what they read.
LEMMA RegistryStepKeepsIInv ==
    ASSUME IInv, NEW cs, Disturb(cs),
           row' \in [Credentials -> CredentialRow],
           documents' \in
              [Credentials -> [Pdfs -> {"none", "ACTIVE", "SUPERSEDED"}]],
           institution' \in Institution,
           authorized' \in BOOLEAN,
           changes' \in 0..MaxChanges,
           \A c \in Credentials : row[c].revoked => row'[c].revoked,
           \A c \in Credentials :
              row'[c].state = "deleted" => row'[c].revoked,
           UNCHANGED <<chain, log, condemned>>
    PROVE  IInv'
<1> USE DEF IInv
<1>1. /\ requests' \in [Verifiers -> Request]
      /\ \A v \in Verifiers :
            \/ requests'[v] = requests[v]
            \/ requests'[v] = [requests[v] EXCEPT !.due = "none"]
  BY DisturbOnlyDisturbs
<1>2. TypeOK'
  BY <1>1 DEF TypeOK
<1>3. DeletedAreRevoked' /\ ChainFollows' /\ CondemnedAreRevoked'
  BY DEF DeletedAreRevoked, ChainFollows, CondemnedAreRevoked, TypeOK
<1>4. ASSUME NEW v \in Verifiers
      PROVE  /\ requests[v] \in Request
             /\ requests'[v].pc = requests[v].pc
             /\ requests'[v].kind = requests[v].kind
             /\ requests'[v].credential = requests[v].credential
             /\ requests'[v].read = requests[v].read
             /\ requests'[v].since = requests[v].since
             /\ requests'[v].answer = requests[v].answer
             /\ requests'[v].deserved = requests[v].deserved
             /\ requests'[v].late = requests[v].late
             /\ requests'[v].checked = requests[v].checked
             /\ requests'[v].due = "VALID" => requests[v].due = "VALID"
  <2>1. requests[v] \in Request
    BY DEF TypeOK
  <2> QED
    BY <1>1, <2>1 DEF Request
<1>5. ASSUME NEW v \in Verifiers PROVE Sound(v)'
  BY <1>4, Sound(v) DEF Sound, Passes, ChainAgrees
<1>6. ValidIsDeserved' /\ WithdrawalSticks' /\ CalmAnswersAreRight'
  BY <1>4 DEF ValidIsDeserved, WithdrawalSticks, CalmAnswersAreRight, Decided
<1> QED
  BY <1>2, <1>3, <1>5, <1>6

LEMMA IssueKeepsIInv ==
    ASSUME IInv, NEW c \in Credentials, NEW signature \in {"none", "good"},
           Issue(c, signature)
    PROVE  IInv'
<1>1. /\ row' \in [Credentials -> CredentialRow]
      /\ \A k \in Credentials : row[k].revoked => row'[k].revoked
      /\ \A k \in Credentials :
            row'[k].state = "deleted" => row'[k].revoked
  <2>1. \A k \in Credentials :
           row'[k] = IF k = c
                     THEN [row[c] EXCEPT !.state = "live",
                                         !.signature = signature]
                     ELSE row[k]
    BY DEF IInv, TypeOK, Issue
  <2>2. /\ row[c] \in CredentialRow
        /\ [row[c] EXCEPT !.state = "live", !.signature = signature]
              \in CredentialRow
    BY DEF IInv, TypeOK, CredentialRow
  <2>3. row' \in [Credentials -> CredentialRow]
    BY <2>1, <2>2 DEF IInv, TypeOK, Issue
  <2> QED
    BY <2>1, <2>2, <2>3 DEF IInv, DeletedAreRevoked, CredentialRow
<1> QED
  BY <1>1, RegistryStepKeepsIInv DEF Issue, IInv, TypeOK, registry, onChain

LEMMA RevokeKeepsIInv ==
    ASSUME IInv, NEW c \in Credentials, Revoke(c)
    PROVE  IInv'
<1>1. /\ row' \in [Credentials -> CredentialRow]
      /\ \A k \in Credentials : row[k].revoked => row'[k].revoked
      /\ \A k \in Credentials :
            row'[k].state = "deleted" => row'[k].revoked
  BY ZenonT(60) DEF IInv, TypeOK, Revoke, CredentialRow, DeletedAreRevoked
<1> QED
  BY <1>1, RegistryStepKeepsIInv DEF Revoke, IInv, TypeOK, registry, onChain

LEMMA RemoveKeepsIInv ==
    ASSUME IInv, NEW c \in Credentials, Remove(c)
    PROVE  IInv'
<1>1. /\ row' \in [Credentials -> CredentialRow]
      /\ \A k \in Credentials : row[k].revoked => row'[k].revoked
      /\ \A k \in Credentials :
            row'[k].state = "deleted" => row'[k].revoked
  BY DEF IInv, TypeOK, Remove, CredentialRow, DeletedAreRevoked
<1> QED
  BY <1>1, RegistryStepKeepsIInv DEF Remove, IInv, TypeOK, registry, onChain

LEMMA CountedType ==
    ASSUME TypeOK, Counted
    PROVE  changes' \in 0..MaxChanges
  BY VerificationAssumption DEF TypeOK, Counted

LEMMA AlterKeepsIInv ==
    ASSUME IInv, NEW c \in Credentials, Alter(c)
    PROVE  IInv'
<1>1. /\ row' \in [Credentials -> CredentialRow]
      /\ \A k \in Credentials : row[k].revoked => row'[k].revoked
      /\ \A k \in Credentials :
            row'[k].state = "deleted" => row'[k].revoked
  BY DEF IInv, TypeOK, Alter, CredentialRow, DeletedAreRevoked
<1>2. changes' \in 0..MaxChanges
  BY CountedType DEF Alter, IInv
<1> QED
  BY <1>1, <1>2, RegistryStepKeepsIInv DEF Alter, IInv, TypeOK, onChain

LEMMA RegisterSecurePdfKeepsIInv ==
    ASSUME IInv, NEW c \in Credentials, NEW pdf \in Pdfs,
           NEW missed \in SUBSET Pdfs, RegisterSecurePdf(c, pdf, missed)
    PROVE  IInv'
<1>1. /\ row' \in [Credentials -> CredentialRow]
      /\ \A k \in Credentials : row[k].revoked => row'[k].revoked
      /\ \A k \in Credentials :
            row'[k].state = "deleted" => row'[k].revoked
  BY ZenonT(60) DEF IInv, TypeOK, RegisterSecurePdf, CredentialRow, DeletedAreRevoked,
         Hashes
<1>2. changes' \in 0..MaxChanges
  BY CountedType DEF RegisterSecurePdf, IInv
<1>3. documents' \in
         [Credentials -> [Pdfs -> {"none", "ACTIVE", "SUPERSEDED"}]]
  BY DEF RegisterSecurePdf, IInv, TypeOK
<1> QED
  BY <1>1, <1>2, <1>3, RegistryStepKeepsIInv
  DEF RegisterSecurePdf, IInv, TypeOK, onChain

LEMMA UpdateInstitutionKeepsIInv ==
    ASSUME IInv, NEW new \in Institution, UpdateInstitution(new)
    PROVE  IInv'
<1>1. changes' \in 0..MaxChanges
  BY CountedType DEF UpdateInstitution, IInv
<1> QED
  BY <1>1, RegistryStepKeepsIInv
  DEF UpdateInstitution, IInv, TypeOK, onChain, DeletedAreRevoked

LEMMA SetAuthorizedKeepsIInv ==
    ASSUME IInv, NEW allowed \in BOOLEAN, SetAuthorized(allowed)
    PROVE  IInv'
<1>1. changes' \in 0..MaxChanges
  BY CountedType DEF SetAuthorized, IInv
<1> QED
  BY <1>1, RegistryStepKeepsIInv
  DEF SetAuthorized, IInv, TypeOK, registry, DeletedAreRevoked

-----------------------------------------------------------------------------
(* The chain catches up *)

\* A record takes the place of one that either had no proof, and so passed
\* for any reading, or had the same; and only a revoked credential's is
\* revoked.
LEMMA ChainStepKeepsIInv ==
    ASSUME IInv, NEW c \in Credentials, NEW record \in ChainRecord,
           DisturbChain(c, record),
           chain' = [chain EXCEPT ![c] = record],
           chain[c].proofHash \in {NoHash, record.proofHash},
           record.revoked => row[c].revoked,
           UNCHANGED <<registry, authorized, log, condemned, changes>>
    PROVE  IInv'
<1> USE DEF IInv
<1>1. requests' \in [Verifiers -> Request]
  BY DisturbChainType
<1>2. TypeOK'
  BY <1>1 DEF TypeOK, registry
<1>3. DeletedAreRevoked' /\ ChainFollows' /\ CondemnedAreRevoked'
  BY DEF DeletedAreRevoked, ChainFollows, CondemnedAreRevoked, TypeOK,
         registry
<1>4. ASSUME NEW v \in Verifiers
      PROVE  /\ requests[v] \in Request
             /\ requests'[v].pc = requests[v].pc
             /\ requests'[v].kind = requests[v].kind
             /\ requests'[v].credential = requests[v].credential
             /\ requests'[v].read = requests[v].read
             /\ requests'[v].answer = requests[v].answer
             /\ requests'[v].deserved = requests[v].deserved
             /\ requests'[v].late = requests[v].late
             /\ requests'[v].checked = requests[v].checked
             /\ requests'[v].due = "VALID" =>
                   requests[v].due = "VALID"
             /\ Pending(requests[v]) /\ requests'[v].due = "VALID" =>
                   requests[v].credential # c
             /\ requests'[v].since =
                   IF requests[v].pc = "chain" /\ requests[v].credential = c
                   THEN requests[v].since \cup {record}
                   ELSE requests[v].since
  <2>1. requests[v] \in Request
    BY DEF TypeOK
  <2>2. requests'[v] =
            IF ~Pending(requests[v]) \/ requests[v].credential # c
            THEN requests[v]
            ELSE IF requests[v].pc = "chain"
            THEN [requests[v] EXCEPT !.due = "none",
                                     !.since = @ \cup {record}]
            ELSE [requests[v] EXCEPT !.due = "none"]
    BY DEF DisturbChain
  <2> QED
    BY <2>1, <2>2 DEF Request, Pending
<1>5. ASSUME NEW v \in Verifiers PROVE Sound(v)'
  <2> DEFINE q == requests[v]
  <2>0. Sound(v)
    OBVIOUS
  <2>1. CASE q.pc = "chain" /\ q.credential = c
    <3>1. q.kind = "reference" => (Passes(q.read, record) => q.deserved)
      <4>1. Passes(q.read, record) => Passes(q.read, chain[c])
        BY DEF Passes, ChainAgrees
      <4> QED
        BY <4>1, <2>0, <2>1 DEF Sound
    <3>2. chain'[c] = record
      BY DEF TypeOK
    <3>3. /\ requests'[v].pc = "chain"
          /\ requests'[v].credential = c
          /\ requests'[v].kind = q.kind
          /\ requests'[v].read = q.read
          /\ requests'[v].late = q.late
          /\ requests'[v].deserved = q.deserved
          /\ requests'[v].due # "VALID"
          /\ requests'[v].since = q.since \cup {record}
      BY <2>1, <1>4 DEF Pending
    <3>5. \A rec \in requests'[v].since : rec.revoked => row'[c].revoked
      BY <3>3, <2>0, <2>1 DEF Sound, registry
    <3>6. requests'[v].kind = "reference" =>
             \A rec \in requests'[v].since :
                 Passes(requests'[v].read, rec) => requests'[v].deserved
      BY <3>1, <3>3, <2>0, <2>1 DEF Sound
    <3>7. row' = row
      BY DEF registry
    <3> QED
      BY <3>2, <3>3, <3>5, <3>6, <3>7, <2>0, <2>1 DEF Sound, Passes, ChainAgrees
  <2>2. CASE q.pc = "chain" /\ q.credential # c
    <3>1. chain'[q.credential] = chain[q.credential]
      BY <2>0, <2>2 DEF TypeOK, Sound
    <3>2. row' = row
      BY DEF registry
    <3>3. /\ requests'[v].pc = "chain"
          /\ requests'[v].credential = q.credential
          /\ requests'[v].kind = q.kind
          /\ requests'[v].read = q.read
          /\ requests'[v].late = q.late
          /\ requests'[v].deserved = q.deserved
          /\ requests'[v].due = "VALID" => q.due = "VALID"
          /\ requests'[v].since = q.since
      BY <2>2, <1>4
    <3> QED
      BY <3>1, <3>2, <3>3, <2>0, <2>2 DEF Sound, Passes, ChainAgrees
  <2>3. CASE q.pc # "chain"
    BY <2>3, <2>0, <1>4 DEF Sound, registry
  <2> QED
    BY <2>1, <2>2, <2>3
<1>6. ValidIsDeserved' /\ WithdrawalSticks' /\ CalmAnswersAreRight'
  BY ZenonT(60), <1>4 DEF ValidIsDeserved, WithdrawalSticks, CalmAnswersAreRight, Decided
<1> QED
  BY <1>2, <1>3, <1>5, <1>6

LEMMA AnchorKeepsIInv ==
    ASSUME IInv, NEW c \in Credentials, NEW hash \in Hashes, Anchor(c, hash)
    PROVE  IInv'
<1> DEFINE record == [chain[c] EXCEPT !.proofHash = hash]
<1>1. /\ record \in ChainRecord
      /\ record.revoked = chain[c].revoked
  BY DEF IInv, TypeOK, ChainRecord
<1>2. record.revoked => row[c].revoked
  BY <1>1 DEF IInv, ChainFollows
<1>3. /\ DisturbChain(c, record)
      /\ chain' = [chain EXCEPT ![c] = record]
      /\ chain[c].proofHash = NoHash
      /\ UNCHANGED <<registry, authorized, log, condemned, changes>>
  BY DEF Anchor
<1> HIDE DEF record
<1> QED
  BY <1>1, <1>2, <1>3, ChainStepKeepsIInv

LEMMA RevokeOnChainKeepsIInv ==
    ASSUME IInv, NEW c \in Credentials, RevokeOnChain(c)
    PROVE  IInv'
<1> DEFINE record == [chain[c] EXCEPT !.revoked = TRUE]
<1>1. /\ record \in ChainRecord
      /\ record.proofHash = chain[c].proofHash
  BY DEF IInv, TypeOK, ChainRecord
<1>2. row[c].revoked
  BY DEF RevokeOnChain, Lifecycle!RevokeOnChain
<1>3. /\ DisturbChain(c, record)
      /\ chain' = [chain EXCEPT ![c] = record]
      /\ UNCHANGED <<registry, authorized, log, condemned, changes>>
  BY DEF RevokeOnChain
<1> HIDE DEF record
<1> QED
  BY <1>1, <1>2, <1>3, ChainStepKeepsIInv

-----------------------------------------------------------------------------
(* The requests *)

\* What the properties say of one request.
Right(q) ==
    q.pc \in {"record", "done"} =>
        /\ q.answer = "VALID" /\ q.checked => q.deserved
        /\ q.late =>
              q.answer \notin {"VALID", "INTEGRITY_VERIFIED", "EXPORTED"}
        /\ q.kind = "reference" /\ q.due = "VALID" => q.answer = "VALID"

\* A step of one request leaves the others as they were.
LEMMA RequestStepKeepsIInv ==
    ASSUME IInv, NEW v \in Verifiers, NEW q \in Request,
           requests' = [requests EXCEPT ![v] = q],
           Right(q),
           Sound(v)',
           row' \in [Credentials -> CredentialRow],
           \A c \in Credentials : /\ row'[c].revoked = row[c].revoked
                                  /\ row'[c].state = row[c].state,
           log' \subseteq LogEntry,
           condemned' \subseteq Credentials,
           \A c \in condemned' : row[c].revoked,
           UNCHANGED <<documents, institution, onChain, changes>>
    PROVE  IInv'
<1> USE DEF IInv, onChain
<1>1. TypeOK'
  BY DEF TypeOK
<1>2. DeletedAreRevoked' /\ ChainFollows' /\ CondemnedAreRevoked'
  BY DEF DeletedAreRevoked, ChainFollows, CondemnedAreRevoked, TypeOK
<1>3. requests'[v] = q /\ \A w \in Verifiers \ {v} : requests'[w] = requests[w]
  BY DEF TypeOK
<1>4. ASSUME NEW w \in Verifiers PROVE Sound(w)'
  <2>1. CASE w = v
    BY <2>1
  <2>2. CASE w # v
    BY <2>2, <1>3, Sound(w) DEF Sound, Passes, ChainAgrees
  <2> QED
    BY <2>1, <2>2
<1>5. ValidIsDeserved' /\ WithdrawalSticks' /\ CalmAnswersAreRight'
  BY <1>3 DEF ValidIsDeserved, WithdrawalSticks, CalmAnswersAreRight, Decided,
              Right
<1> QED
  BY <1>1, <1>2, <1>4, <1>5

\* The question as it is stored, with what is noted beside it.
Noted(question) ==
    [question EXCEPT
       !.deserved = Deserved(question.credential),
       !.due = IF Deserved(question.credential) THEN "VALID"
               ELSE IF MerelyRevoked(question.credential) THEN "REVOKED"
               ELSE "none",
       !.late = question.credential \in condemned]

LEMMA NotedType ==
    ASSUME NEW question \in Request
    PROVE  /\ Noted(question) \in Request
           /\ Noted(question).pc = question.pc
           /\ Noted(question).kind = question.kind
           /\ Noted(question).credential = question.credential
           /\ Noted(question).read = question.read
           /\ Noted(question).since = question.since
           /\ Noted(question).answer = question.answer
           /\ Noted(question).checked = question.checked
           /\ Noted(question).deserved = Deserved(question.credential)
           /\ Noted(question).due = "VALID" => Deserved(question.credential)
           /\ Noted(question).late = (question.credential \in condemned)
<1>1. Deserved(question.credential) \in BOOLEAN
  BY DEF Deserved
<1>2. (question.credential \in condemned) \in BOOLEAN
  OBVIOUS
<1> DEFINE due == IF Deserved(question.credential) THEN "VALID"
                  ELSE IF MerelyRevoked(question.credential) THEN "REVOKED"
                  ELSE "none"
<1>3. /\ due \in {"none", "VALID", "REVOKED"}
      /\ due = "VALID" => Deserved(question.credential)
  OBVIOUS
<1> HIDE DEF due
<1>4. Noted(question) = [question EXCEPT !.deserved = Deserved(question.credential),
                                         !.due = due,
                                         !.late = question.credential \in condemned]
  BY DEF Noted, due
<1> QED
  BY <1>1, <1>2, <1>3, <1>4 DEF Request

LEMMA AskReferenceKeepsIInv ==
    ASSUME IInv, NEW v \in Verifiers, NEW c \in Credentials,
           AskReference(v, c)
    PROVE  IInv'
<1> DEFINE read == [revoked |-> row[c].revoked,
                    signature |-> row[c].signature,
                    chainProofHash |-> row[c].chainProofHash,
                    institution |-> institution, document |-> "none"]
           question == [IdleRequest EXCEPT
                          !.pc = "chain", !.credential = c,
                          !.since = {chain[c]}, !.read = read]
<1>0. row[c] \in CredentialRow /\ chain[c] \in ChainRecord
  BY DEF IInv, TypeOK
<1>1. read \in Record
  BY <1>0 DEF IInv, TypeOK, CredentialRow, Record
<1> HIDE DEF read
<1>2. /\ question \in Request
      /\ question.pc = "chain"
      /\ question.kind = "reference"
      /\ question.credential = c
      /\ question.read = read
      /\ question.since = {chain[c]}
  BY <1>0, <1>1, IdleRequestType DEF Request, IdleRequest, Kinds
<1>3. /\ Asks(v, question)
      /\ row[c].state = "live"
      /\ UNCHANGED <<log, condemned>>
  BY DEF AskReference, question, read
<1> HIDE DEF question
<1>4. /\ requests' = [requests EXCEPT ![v] = Noted(question)]
      /\ UNCHANGED <<registry, onChain, changes>>
  BY <1>3, <1>2 DEF Asks, Noted
<1>5. Right(Noted(question))
  BY <1>2, NotedType DEF Right
<1>6. Sound(v)'
  <2>1. requests'[v] = Noted(question)
    BY <1>4 DEF IInv, TypeOK
  <2>2. Deserved(c) <=> Passes(read, chain[c]) /\ row[c].state = "live"
    BY DEF Deserved, Intact, Passes, ChainAgrees, read
  <2>3. row' = row /\ chain' = chain
    BY <1>4 DEF registry, onChain
  <2>4. /\ chain[c].revoked => row[c].revoked
        /\ c \in condemned => row[c].revoked
        /\ read.revoked = row[c].revoked
    BY DEF IInv, ChainFollows, CondemnedAreRevoked, read
  <2>5. Passes(read, chain[c]) => ~chain[c].revoked
    BY <2>4 DEF Passes
  <2>6. /\ requests'[v].pc = "chain"
        /\ requests'[v].kind = "reference"
        /\ requests'[v].credential = c
        /\ requests'[v].read = read
        /\ requests'[v].since = {chain[c]}
        /\ requests'[v].deserved = Deserved(c)
        /\ requests'[v].due = "VALID" => Deserved(c)
        /\ requests'[v].late = (c \in condemned)
    BY <1>2, <2>1, NotedType
  <2> QED
    BY <1>3, <2>2, <2>3, <2>4, <2>5, <2>6 DEF Sound, Passes, ChainAgrees
<1> QED
  BY <1>2, <1>3, <1>4, <1>5, <1>6, NotedType, RequestStepKeepsIInv
  DEF IInv, TypeOK, registry, CondemnedAreRevoked

LEMMA AskSecurePdfKeepsIInv ==
    ASSUME IInv, NEW v \in Verifiers, NEW c \in Credentials,
           NEW upload, NEW registered, AskSecurePdf(v, c, upload, registered)
    PROVE  IInv'
<1> DEFINE document == IF registered = NoHash THEN "none"
                       ELSE IF registered = upload THEN "same"
                       ELSE "modified"
           read == [NothingRead EXCEPT !.revoked = row[c].revoked,
                                       !.document = document]
           question == [IdleRequest EXCEPT
                          !.pc = "chain", !.kind = "securePdf",
                          !.credential = c, !.since = {chain[c]},
                          !.read = read]
<1>0. row[c] \in CredentialRow /\ chain[c] \in ChainRecord
  BY DEF IInv, TypeOK
<1>1. read \in Record /\ read.revoked = row[c].revoked
  <2>1. document \in {"none", "same", "modified"}
    OBVIOUS
  <2> HIDE DEF document
  <2> QED
    BY <2>1, <1>0 DEF CredentialRow, Record, NothingRead, Institution, Hashes
<1>3. /\ Asks(v, question)
      /\ row[c].state = "live"
      /\ UNCHANGED <<log, condemned>>
  BY DEF AskSecurePdf
<1> HIDE DEF read
<1>2. /\ question \in Request
      /\ question.pc = "chain"
      /\ question.kind = "securePdf"
      /\ question.credential = c
      /\ question.read = read
      /\ question.since = {chain[c]}
  BY <1>0, <1>1, IdleRequestType DEF Request, IdleRequest, Kinds
<1> HIDE DEF question
<1>4. /\ requests' = [requests EXCEPT ![v] = Noted(question)]
      /\ UNCHANGED <<registry, onChain, changes>>
  BY <1>3, <1>2 DEF Asks, Noted
<1>5. Right(Noted(question))
  BY <1>2, NotedType DEF Right
<1>6. Sound(v)'
  <2>1. requests'[v] = Noted(question)
    BY <1>4 DEF IInv, TypeOK
  <2>2. row' = row /\ chain' = chain
    BY <1>4 DEF registry, onChain
  <2>3. /\ chain[c].revoked => row[c].revoked
        /\ c \in condemned => row[c].revoked
    BY DEF IInv, ChainFollows, CondemnedAreRevoked
  <2>4. /\ requests'[v].pc = "chain"
        /\ requests'[v].kind = "securePdf"
        /\ requests'[v].credential = c
        /\ requests'[v].read = read
        /\ requests'[v].since = {chain[c]}
        /\ requests'[v].late = (c \in condemned)
    BY <1>2, <2>1, NotedType
  <2> QED
    BY <1>1, <2>2, <2>3, <2>4 DEF Sound
<1> QED
  BY <1>2, <1>3, <1>4, <1>5, <1>6, NotedType, RequestStepKeepsIInv
  DEF IInv, TypeOK, registry, CondemnedAreRevoked

LEMMA AskInVainKeepsIInv ==
    ASSUME IInv, NEW v \in Verifiers, NEW c \in Credentials, AskInVain(v, c)
    PROVE  IInv'
<1> DEFINE question == [IdleRequest EXCEPT !.pc = "done", !.credential = c,
                                           !.answer = "NOT_FOUND"]
<1>1. /\ question \in Request
      /\ question.pc = "done"
      /\ question.credential = c
      /\ question.answer = "NOT_FOUND"
  BY IdleRequestType DEF Request, IdleRequest, Verdicts
<1>2. /\ Asks(v, question)
      /\ row[c].state # "live"
      /\ log' = log \cup {[by |-> v, credential |-> NoCredential]}
      /\ UNCHANGED condemned
  BY DEF AskInVain
<1> HIDE DEF question
<1>3. /\ requests' = [requests EXCEPT ![v] = Noted(question)]
      /\ UNCHANGED <<registry, onChain, changes>>
  BY <1>1, <1>2 DEF Asks, Noted
<1>4. Right(Noted(question))
  <2>1. Noted(question).due # "VALID"
    BY <1>1, <1>2, NotedType DEF Deserved, Intact
  <2> QED
    BY <2>1, <1>1, NotedType DEF Right
<1>5. Sound(v)'
  <2>1. requests'[v] = Noted(question)
    BY <1>3 DEF IInv, TypeOK
  <2> QED
    BY <2>1, <1>1, NotedType DEF Sound
<1>6. log' \subseteq LogEntry
  BY <1>2 DEF IInv, TypeOK, LogEntry
<1> QED
  BY <1>1, <1>2, <1>3, <1>4, <1>5, <1>6, NotedType, RequestStepKeepsIInv
  DEF IInv, TypeOK, registry, CondemnedAreRevoked

LEMMA AskVcKeepsIInv ==
    ASSUME IInv, NEW v \in Verifiers, NEW c \in Credentials, AskVc(v, c)
    PROVE  IInv'
<1> DEFINE answer == VcAnswer(row[c])
           question == [IdleRequest EXCEPT !.pc = "done", !.kind = "vc",
                                           !.credential = c,
                                           !.answer = answer]
<1>1. /\ answer \in Verdicts
      /\ answer \notin {"VALID", "INTEGRITY_VERIFIED", "REVOKED"}
      /\ answer = "EXPORTED" => ~row[c].revoked
      /\ answer = "GONE" => row[c].revoked
  BY DEF VcAnswer, Verdicts, IInv, DeletedAreRevoked
<1>2. /\ Asks(v, question)
      /\ Condemns(c, answer)
      /\ UNCHANGED log
  BY DEF AskVc
<1> HIDE DEF answer
<1>3. /\ question \in Request
      /\ question.pc = "done"
      /\ question.kind = "vc"
      /\ question.credential = c
      /\ question.answer = answer
  BY <1>1, IdleRequestType DEF Request, IdleRequest, Kinds
<1> HIDE DEF question
<1>4. /\ requests' = [requests EXCEPT ![v] = Noted(question)]
      /\ UNCHANGED <<registry, onChain, changes>>
  BY <1>2, <1>3 DEF Asks, Noted
<1>5. Right(Noted(question))
  BY <1>1, <1>3, NotedType DEF Right, IInv, CondemnedAreRevoked
<1>6. Sound(v)'
  <2>1. requests'[v] = Noted(question)
    BY <1>4 DEF IInv, TypeOK
  <2> QED
    BY <2>1, <1>3, NotedType DEF Sound
<1>7. condemned' \subseteq Credentials /\ \A k \in condemned' : row[k].revoked
  BY <1>1, <1>2 DEF Condemns, IInv, TypeOK, CondemnedAreRevoked
<1> QED
  BY <1>2, <1>3, <1>4, <1>5, <1>6, <1>7, NotedType, RequestStepKeepsIInv
  DEF IInv, TypeOK, registry

\* A verdict is as good as what the chain was seen to hold: a revocation seen
\* was there, VALID goes with a record that the reading passes, and a chain
\* that has not changed raises no alarm.
LEMMA DecideKeepsIInv ==
    ASSUME IInv, NEW v \in Verifiers, NEW status,
           NEW revokedOnChain \in BOOLEAN, NEW checked \in BOOLEAN,
           requests[v].pc = "chain",
           Decide(v, status, revokedOnChain, checked),
           revokedOnChain => \E record \in requests[v].since : record.revoked,
           (/\ requests[v].kind = "reference"
            /\ checked
            /\ status # "MISMATCH"
            /\ requests[v].read.institution.active
            /\ ~requests[v].read.revoked
            /\ requests[v].read.signature # "bad")
              => \E record \in requests[v].since :
                    Passes(requests[v].read, record),
           requests[v].kind = "reference" /\ requests[v].due = "VALID"
              => status # "MISMATCH" /\ ~revokedOnChain,
           UNCHANGED <<registry, onChain, log, condemned, changes>>
    PROVE  IInv'
<1> DEFINE q == requests[v]
           verdict == IF q.kind = "reference"
                      THEN ReferenceVerdict(q.read, status, revokedOnChain)
                      ELSE SecurePdfVerdict(q.read, revokedOnChain)
           decided == [q EXCEPT !.pc = "record", !.read = NothingRead,
                                !.since = {}, !.checked = checked,
                                !.answer = verdict]
<1>1. /\ q \in Request
      /\ q.pc = "chain"
      /\ Sound(v)
  BY DEF IInv, TypeOK
<1>2. /\ verdict \in Verdicts \ {"GONE"}
      /\ verdict = "REVOKED" => row[q.credential].revoked
      /\ verdict = "VALID" =>
            /\ q.kind = "reference"
            /\ q.read.institution.active
            /\ ~q.read.revoked
            /\ q.read.signature # "bad"
            /\ status # "MISMATCH"
      /\ q.read.revoked =>
            verdict \notin {"VALID", "INTEGRITY_VERIFIED", "EXPORTED"}
      /\ q.kind = "reference" /\ q.due = "VALID" => verdict = "VALID"
  BY <1>1 DEF ReferenceVerdict, SecurePdfVerdict, Verdicts, Sound, Passes
<1>3. requests' = [requests EXCEPT ![v] = decided]
  BY DEF Decide
<1> HIDE DEF verdict
<1>4. /\ decided \in Request
      /\ decided.pc = "record"
      /\ decided.kind = q.kind
      /\ decided.credential = q.credential
      /\ decided.checked = checked
      /\ decided.answer = verdict
      /\ decided.deserved = q.deserved
      /\ decided.due = q.due
      /\ decided.late = q.late
  BY <1>1, <1>2, IdleRequestType DEF Request, IdleRequest
<1> HIDE DEF decided
<1>5. Right(decided)
  BY <1>1, <1>2, <1>4 DEF Right, Sound
<1>6. Sound(v)'
  <2>1. requests'[v] = decided
    BY <1>3 DEF IInv, TypeOK
  <2>2. row' = row
    BY DEF registry
  <2> QED
    BY <1>1, <1>2, <1>4, <2>1, <2>2 DEF Sound
<1> QED
  BY <1>3, <1>4, <1>5, <1>6, RequestStepKeepsIInv
  DEF IInv, TypeOK, registry, CondemnedAreRevoked

LEMMA ReadProofKeepsIInv ==
    ASSUME IInv, NEW v \in Verifiers,
           NEW exists \in requests[v].since, NEW hash \in requests[v].since,
           NEW issuer \in requests[v].since,
           NEW revocation \in requests[v].since,
           ReadProof(v, exists, hash, issuer, revocation)
    PROVE  IInv'
<1> DEFINE q == requests[v]
           seen == Seen(exists, hash, issuer, revocation)
           status == ChainStatus(q.read, seen)
           revokedOnChain == seen.exists /\ seen.revoked
           checked == seen.exists => seen.authorized
<1>1. /\ q \in Request
      /\ q.since \subseteq ChainRecord
      /\ q.read \in Record
      /\ q.pc = "chain"
      /\ Sound(v)
  BY DEF IInv, TypeOK, Request, ReadProof
<1>2. /\ revokedOnChain \in BOOLEAN
      /\ checked \in BOOLEAN
      /\ revokedOnChain => revocation.revoked
  BY DEF Seen
<1>3. ASSUME checked, status # "MISMATCH", q.read.institution.active,
             ~q.read.revoked, q.read.signature # "bad"
      PROVE  \E record \in q.since : Passes(q.read, record)
  <2>1. CASE ~seen.exists
    BY <2>1, <1>3 DEF Seen, Passes, ChainAgrees
  <2>2. CASE seen.exists
    <3>1. /\ hash.proofHash = q.read.chainProofHash
          /\ q.read.institution.walletIsSigner
      BY <2>2, <1>3 DEF Seen, ChainStatus
    <3> QED
      BY <3>1, <1>3 DEF Passes, ChainAgrees
  <2> QED
    BY <2>1, <2>2
<1>4. ASSUME q.kind = "reference", q.due = "VALID"
      PROVE  status # "MISMATCH" /\ ~revokedOnChain
  <2>1. /\ exists = issuer
        /\ hash = issuer
        /\ revocation = issuer
        /\ Passes(q.read, issuer)
        /\ ~issuer.revoked
    BY <1>1, <1>4 DEF Sound
  <2> QED
    BY <2>1 DEF Seen, ChainStatus, Passes, ChainAgrees
<1>5. /\ Decide(v, status, revokedOnChain, checked)
      /\ UNCHANGED <<registry, onChain, log, condemned, changes>>
  BY DEF ReadProof
<1> HIDE DEF status, revokedOnChain, checked
<1> QED
  BY <1>1, <1>2, <1>3, <1>4, <1>5, DecideKeepsIInv

LEMMA ChainUnavailableKeepsIInv ==
    ASSUME IInv, NEW v \in Verifiers, ChainUnavailable(v)
    PROVE  IInv'
  BY DecideKeepsIInv DEF ChainUnavailable

LEMMA AnsweredType ==
    /\ Answered \in Request
    /\ Answered.pc = "done"
    /\ Answered.answer = "none"
    /\ Answered.due = "none"
    /\ Answered.late = FALSE
  BY IdleRequestType DEF Answered, IdleRequest, Request

LEMMA RecordVerificationKeepsIInv ==
    ASSUME IInv, NEW v \in Verifiers, RecordVerification(v)
    PROVE  IInv'
<1> DEFINE q == requests[v]
           c == q.credential
<1>1. /\ q.pc = "record"
      /\ c \in Credentials
      /\ q.answer = "REVOKED" => row[c].revoked
      /\ q.answer # "GONE"
  BY DEF IInv, RecordVerification, Sound
<1>2. /\ row' = [row EXCEPT ![c].count = @ + 1]
      /\ log' = log \cup {[by |-> v, credential |-> c]}
      /\ requests' = [requests EXCEPT ![v] = Answered]
      /\ Condemns(c, q.answer)
      /\ UNCHANGED <<documents, institution, onChain, changes>>
  BY DEF RecordVerification
<1>3. /\ row' \in [Credentials -> CredentialRow]
      /\ \A k \in Credentials : /\ row'[k].revoked = row[k].revoked
                               /\ row'[k].state = row[k].state
  <2>1. \A k \in Credentials :
           row'[k] = IF k = c THEN [row[c] EXCEPT !.count = @ + 1]
                              ELSE row[k]
    BY <1>1, <1>2 DEF IInv, TypeOK
  <2>2. row[c] \in CredentialRow
    BY <1>1 DEF IInv, TypeOK
  <2>3. /\ [row[c] EXCEPT !.count = @ + 1] \in CredentialRow
        /\ [row[c] EXCEPT !.count = @ + 1].revoked = row[c].revoked
        /\ [row[c] EXCEPT !.count = @ + 1].state = row[c].state
    BY <2>2 DEF CredentialRow
  <2> QED
    BY <1>2, <2>1, <2>3 DEF IInv, TypeOK
<1>4. Right(Answered)
  BY AnsweredType DEF Right
<1>5. Sound(v)'
  <2>1. requests'[v] = Answered
    BY <1>2 DEF IInv, TypeOK
  <2> QED
    BY <2>1, AnsweredType DEF Sound
<1>6. log' \subseteq LogEntry
  BY <1>1, <1>2 DEF IInv, TypeOK, LogEntry
<1>7. condemned' \subseteq Credentials /\ \A k \in condemned' : row[k].revoked
  BY <1>1, <1>2 DEF Condemns, IInv, TypeOK, CondemnedAreRevoked
<1> QED
  BY <1>2, <1>3, <1>4, <1>5, <1>6, <1>7, AnsweredType, RequestStepKeepsIInv

LEMMA RecordingFailsKeepsIInv ==
    ASSUME IInv, NEW v \in Verifiers, RecordingFails(v)
    PROVE  IInv'
<1>1. /\ requests' = [requests EXCEPT ![v] = Answered]
      /\ UNCHANGED <<registry, onChain, log, condemned, changes>>
  BY DEF RecordingFails
<1>2. Right(Answered)
  BY AnsweredType DEF Right
<1>3. Sound(v)'
  <2>1. requests'[v] = Answered
    BY <1>1 DEF IInv, TypeOK
  <2> QED
    BY <2>1, AnsweredType DEF Sound
<1> QED
  BY <1>1, <1>2, <1>3, AnsweredType, RequestStepKeepsIInv
  DEF IInv, TypeOK, registry, CondemnedAreRevoked

-----------------------------------------------------------------------------
LEMMA NextKeepsIInv ==
    ASSUME IInv, [Next]_vars
    PROVE  IInv'
<1>1. CASE \E v \in Verifiers : VerifierStep(v)
  <2>1. PICK v \in Verifiers : VerifierStep(v)
    BY <1>1
  <2>2. CASE \E c \in Credentials : AskReference(v, c)
    BY <2>2, AskReferenceKeepsIInv
  <2>3. CASE \E c \in Credentials, upload \in Pdfs \cup {NoHash},
               registered \in Pdfs \cup {NoHash} :
               AskSecurePdf(v, c, upload, registered)
    BY <2>3, AskSecurePdfKeepsIInv
  <2>4. CASE \E c \in Credentials : AskInVain(v, c)
    BY <2>4, AskInVainKeepsIInv
  <2>5. CASE \E c \in Credentials : AskVc(v, c)
    BY <2>5, AskVcKeepsIInv
  <2>6. CASE \E exists, hash, issuer, revocation \in requests[v].since :
               ReadProof(v, exists, hash, issuer, revocation)
    BY <2>6, ReadProofKeepsIInv
  <2>7. CASE ChainUnavailable(v)
    BY <2>7, ChainUnavailableKeepsIInv
  <2>8. CASE RecordVerification(v)
    BY <2>8, RecordVerificationKeepsIInv
  <2>9. CASE RecordingFails(v)
    BY <2>9, RecordingFailsKeepsIInv
  <2> QED
    BY <2>1, <2>2, <2>3, <2>4, <2>5, <2>6, <2>7, <2>8, <2>9 DEF VerifierStep
<1>2. CASE \E c \in Credentials :
              \/ \E signature \in {"none", "good"} : Issue(c, signature)
              \/ Revoke(c) \/ Remove(c) \/ Alter(c)
              \/ \E pdf \in Pdfs, missed \in SUBSET Pdfs :
                    RegisterSecurePdf(c, pdf, missed)
              \/ \E hash \in Hashes : Anchor(c, hash)
              \/ RevokeOnChain(c)
  BY <1>2, IssueKeepsIInv, RevokeKeepsIInv, RemoveKeepsIInv, AlterKeepsIInv,
     RegisterSecurePdfKeepsIInv, AnchorKeepsIInv, RevokeOnChainKeepsIInv
<1>3. CASE \E new \in Institution : UpdateInstitution(new)
  BY <1>3, UpdateInstitutionKeepsIInv
<1>4. CASE \E allowed \in BOOLEAN : SetAuthorized(allowed)
  BY <1>4, SetAuthorizedKeepsIInv
<1>5. CASE UNCHANGED vars
  BY <1>5 DEF vars, registry, onChain, IInv, TypeOK, DeletedAreRevoked,
              ChainFollows, CondemnedAreRevoked, Sound, Passes, ChainAgrees,
              ValidIsDeserved, WithdrawalSticks, CalmAnswersAreRight, Decided
<1> QED
  BY <1>1, <1>2, <1>3, <1>4, <1>5 DEF Next

LEMMA InvariantHolds == Spec => []IInv
  BY InitEstablishesIInv, NextKeepsIInv, PTL DEF Spec

\* Every variable keeps its type, for any sets of credentials, requests and
\* secure PDFs.
THEOREM TypesHold == Spec => []TypeOK
<1>1. IInv => TypeOK
  BY DEF IInv
<1> QED
  BY <1>1, InvariantHolds, PTL

\* Where the chain's own answer went into it, VALID was deserved on both sides
\* when it was asked for, however the five reads of the chain fall between the
\* steps of the anchoring.
THEOREM ValidWasDeserved == Spec => []ValidIsDeserved
<1>1. IInv => ValidIsDeserved
  BY DEF IInv
<1> QED
  BY <1>1, InvariantHolds, PTL

\* A withdrawal that was once answered is never taken back, by any endpoint.
THEOREM WithdrawalsStick == Spec => []WithdrawalSticks
<1>1. IInv => WithdrawalSticks
  BY DEF IInv
<1> QED
  BY <1>1, InvariantHolds, PTL

\* A good credential that is left alone is answered VALID.
THEOREM NoFalseAlarms == Spec => []CalmAnswersAreRight
<1>1. IInv => CalmAnswersAreRight
  BY DEF IInv
<1> QED
  BY <1>1, InvariantHolds, PTL

-----------------------------------------------------------------------------
(* The counter on the certificate page *)

\* Only an answered request is in the log.
LoggedAreDone == \A entry \in log : requests[entry.by].pc = "done"

CountInv ==
    /\ CountsMatchLog
    /\ LoggedAreDone
    /\ IsFiniteSet(log)

\* Whatever neither logs nor counts, and reopens no request.
LEMMA QuietStepKeepsCountInv ==
    ASSUME IInv, CountInv, log' = log,
           \A c \in Credentials : row'[c].count = row[c].count,
           \A v \in Verifiers :
              requests[v].pc = "done" => requests'[v].pc = "done"
    PROVE  CountInv'
<1>1. LoggedAreDone'
  BY DEF CountInv, LoggedAreDone, IInv, TypeOK, LogEntry
<1> QED
  BY <1>1 DEF CountInv, CountsMatchLog, LogOf

LEMMA AskInVainKeepsCountInv ==
    ASSUME IInv, CountInv, NEW v \in Verifiers, NEW c \in Credentials,
           AskInVain(v, c)
    PROVE  CountInv'
<1> DEFINE entry == [by |-> v, credential |-> NoCredential]
<1>1. /\ log' = log \cup {entry}
      /\ row' = row
      /\ \A w \in Verifiers \ {v} : requests'[w] = requests[w]
      /\ requests'[v].pc = "done"
  BY DEF AskInVain, Asks, registry, IInv, TypeOK, IdleRequest
<1>2. LoggedAreDone'
  BY <1>1 DEF CountInv, LoggedAreDone, IInv, TypeOK, LogEntry
<1>3. IsFiniteSet(log')
  BY <1>1, FS_AddElement DEF CountInv
<1>4. \A k \in Credentials : LogOf(k)' = LogOf(k)
  BY <1>1, VerificationAssumption DEF LogOf
<1>5. CountsMatchLog'
  BY <1>1, <1>4 DEF CountInv, CountsMatchLog
<1> QED
  BY <1>2, <1>3, <1>5 DEF CountInv

\* The row that is written is new: its request was not answered before.
LEMMA RecordVerificationKeepsCountInv ==
    ASSUME IInv, CountInv, NEW v \in Verifiers, RecordVerification(v)
    PROVE  CountInv'
<1> DEFINE c == requests[v].credential
           entry == [by |-> v, credential |-> c]
<1>1. /\ requests[v].pc = "record"
      /\ c \in Credentials
      /\ log' = log \cup {entry}
      /\ row' = [row EXCEPT ![c].count = @ + 1]
      /\ requests' = [requests EXCEPT ![v] = Answered]
  BY DEF RecordVerification, IInv, Sound
<1>2. entry \notin log
  BY <1>1 DEF CountInv, LoggedAreDone
<1>3. LoggedAreDone'
  BY <1>1, AnsweredType DEF CountInv, LoggedAreDone, IInv, TypeOK, LogEntry
<1>4. IsFiniteSet(log')
  BY <1>1, FS_AddElement DEF CountInv
<1>5. ASSUME NEW k \in Credentials
      PROVE  row'[k].count = Cardinality(LogOf(k)')
  <2>1. CASE k # c
    <3>1. LogOf(k)' = LogOf(k)
      BY <1>1, <2>1 DEF LogOf
    <3>2. row'[k] = row[k]
      BY <1>1, <2>1 DEF IInv, TypeOK
    <3> QED
      BY <3>1, <3>2 DEF CountInv, CountsMatchLog
  <2>2. CASE k = c
    <3>1. LogOf(k)' = LogOf(k) \cup {entry}
      BY <1>1, <2>2 DEF LogOf
    <3>2. entry \notin LogOf(k)
      BY <1>2 DEF LogOf
    <3>3. IsFiniteSet(LogOf(k))
      BY FS_Subset DEF LogOf, CountInv
    <3>4. Cardinality(LogOf(k)') = Cardinality(LogOf(k)) + 1
      BY <3>1, <3>2, <3>3, FS_AddElement
    <3>5. row[k] \in CredentialRow
      BY DEF IInv, TypeOK
    <3>6. row'[k].count = row[k].count + 1
      BY <1>1, <2>2, <3>5 DEF IInv, TypeOK, CredentialRow
    <3> QED
      BY <3>4, <3>6 DEF CountInv, CountsMatchLog
  <2> QED
    BY <2>1, <2>2
<1> QED
  BY <1>3, <1>4, <1>5 DEF CountInv, CountsMatchLog

\* A change of the registry or the chain leaves every request where it is.
LEMMA DisturbKeepsCountInv ==
    ASSUME IInv, CountInv, log' = log,
           \A c \in Credentials : row'[c].count = row[c].count,
           \/ \E cs : Disturb(cs)
           \/ \E c, record : DisturbChain(c, record)
    PROVE  CountInv'
<1>1. ASSUME NEW v \in Verifiers PROVE requests'[v].pc = requests[v].pc
  <2>1. requests[v] \in Request
    BY DEF IInv, TypeOK
  <2> QED
    BY ZenonT(60), <2>1 DEF Disturb, DisturbChain, Request
<1> QED
  BY <1>1, QuietStepKeepsCountInv

LEMMA NextKeepsCountInv ==
    ASSUME IInv, CountInv, [Next]_vars
    PROVE  CountInv'
<1>1. CASE \E v \in Verifiers : VerifierStep(v)
  <2>1. PICK v \in Verifiers : VerifierStep(v)
    BY <1>1
  <2>2. CASE \/ \E c \in Credentials :
                 \/ AskReference(v, c)
                 \/ \E upload, registered :
                       AskSecurePdf(v, c, upload, registered)
                 \/ AskVc(v, c)
             \/ \E exists, hash, issuer, revocation \in requests[v].since :
                    ReadProof(v, exists, hash, issuer, revocation)
             \/ ChainUnavailable(v)
             \/ RecordingFails(v)
    <3>1. requests[v].pc # "done" \/ requests'[v].pc = "done"
      BY ZenonT(60), <2>2 DEF AskReference, AskSecurePdf, AskVc, Asks, ReadProof,
                  ChainUnavailable, RecordingFails
    <3>2. row' = row /\ log' = log
      BY ZenonT(60), <2>2 DEF AskReference, AskSecurePdf, AskVc, Asks, ReadProof,
                  ChainUnavailable, RecordingFails, registry
    <3>3. \E q : requests' = [requests EXCEPT ![v] = q]
      <4>1. \A question : Asks(v, question) =>
               requests' = [requests EXCEPT ![v] = Noted(question)]
        BY DEF Asks, Noted
      <4>2. \A status, revoked, checked : Decide(v, status, revoked, checked)
               => \E q : requests' = [requests EXCEPT ![v] = q]
        BY DEF Decide
      <4>3. \A c, upload, registered :
               AskReference(v, c) \/ AskSecurePdf(v, c, upload, registered)
               \/ AskVc(v, c) => \E question : Asks(v, question)
        BY DEF AskReference, AskSecurePdf, AskVc
      <4>4. \A exists, hash, issuer, revocation :
               ReadProof(v, exists, hash, issuer, revocation)
               \/ ChainUnavailable(v)
               => \E status, revoked, checked :
                     Decide(v, status, revoked, checked)
        BY ZenonT(60) DEF ReadProof, ChainUnavailable
      <4>5. RecordingFails(v) =>
               requests' = [requests EXCEPT ![v] = Answered]
        BY DEF RecordingFails
      <4> QED
        BY <2>2, <4>1, <4>2, <4>3, <4>4, <4>5
    <3>4. \A w \in Verifiers \ {v} : requests'[w] = requests[w]
      BY <3>3 DEF IInv, TypeOK
    <3> QED
      BY <3>1, <3>2, <3>4, QuietStepKeepsCountInv
  <2>3. CASE \E c \in Credentials : AskInVain(v, c)
    BY <2>3, AskInVainKeepsCountInv
  <2>4. CASE RecordVerification(v)
    BY <2>4, RecordVerificationKeepsCountInv
  <2> QED
    BY <2>1, <2>2, <2>3, <2>4 DEF VerifierStep
<1>2. ASSUME NEW c \in Credentials,
             \/ \E signature \in {"none", "good"} : Issue(c, signature)
             \/ Revoke(c) \/ Remove(c) \/ Alter(c)
             \/ \E pdf \in Pdfs, missed \in SUBSET Pdfs :
                   RegisterSecurePdf(c, pdf, missed)
      PROVE  CountInv'
  <2>1. \A k \in Credentials : row[k] \in CredentialRow
    BY DEF IInv, TypeOK
  <2>2. \A k \in Credentials : row'[k].count = row[k].count
    BY SMTT(30), <1>2, <2>1 DEF Issue, Revoke, Remove, Alter, RegisterSecurePdf, IInv,
                      TypeOK, CredentialRow
  <2>3. log' = log /\ \E cs : Disturb(cs)
    BY <1>2 DEF Issue, Revoke, Remove, Alter, RegisterSecurePdf
  <2> QED
    BY <2>2, <2>3, DisturbKeepsCountInv
<1>3. ASSUME NEW c \in Credentials,
             (\E hash \in Hashes : Anchor(c, hash)) \/ RevokeOnChain(c)
      PROVE  CountInv'
  <2>1. row' = row /\ log' = log /\ \E record : DisturbChain(c, record)
    BY <1>3 DEF Anchor, RevokeOnChain, registry
  <2> QED
    BY <2>1, DisturbKeepsCountInv
<1>4. CASE \/ \E new \in Institution : UpdateInstitution(new)
           \/ \E allowed \in BOOLEAN : SetAuthorized(allowed)
  <2>1. row' = row /\ log' = log /\ \E cs : Disturb(cs)
    BY <1>4 DEF UpdateInstitution, SetAuthorized, registry
  <2> QED
    BY <2>1, DisturbKeepsCountInv
<1>5. CASE UNCHANGED vars
  BY <1>5, QuietStepKeepsCountInv DEF vars, registry
<1> QED
  BY <1>1, <1>2, <1>3, <1>4, <1>5 DEF Next

\* verificationCount is the number of logged verifications, however they
\* overlap and fail.
THEOREM CountsAreExact == Spec => []CountsMatchLog
<1>1. Init => CountInv
  <2> SUFFICES ASSUME Init PROVE CountInv
    OBVIOUS
  <2>1. log = {} /\ \A c \in Credentials : LogOf(c) = {} /\ row[c].count = 0
    BY DEF Init, LogOf, NoRow
  <2> QED
    BY <2>1, FS_EmptySet DEF CountInv, CountsMatchLog, LoggedAreDone
<1>2. IInv /\ CountInv /\ [Next]_vars => CountInv'
  BY NextKeepsCountInv
<1>3. CountInv => CountsMatchLog
  BY DEF CountInv
<1> QED
  BY <1>1, <1>2, <1>3, InvariantHolds, PTL DEF Spec

=============================================================================
