---------------------- MODULE CredentialRegistry_proofs ----------------------
(***************************************************************************)
(* What CredentialRegistry guarantees for any number of accounts, ids and  *)
(* hashes and whatever the owner does.  RegistryInv is inductive: the      *)
(* index facts need the types, the dates need each other (a revocation     *)
(* follows an anchoring, which follows an authorisation).                  *)
(***************************************************************************)
EXTENDS CredentialRegistry, TLAPS

RegistryInv ==
    /\ TypeOK
    /\ HashIndexIsInverse
    /\ RecordsAreWellFormed
    /\ ProfilesAgree
    /\ IssuersWereAuthorized

\* The constructor leaves an empty register with nobody authorised.
LEMMA InitEstablishesRegistryInv == Init => RegistryInv
  <1> SUFFICES ASSUME Init PROVE RegistryInv
    OBVIOUS
  <1> USE RegistryAssumption DEF Init
  <1>1. TypeOK
    BY DEF TypeOK, CredentialRecord, IssuerProfile, EmptyRecord, EmptyProfile,
           OptAddress
  <1>2. HashIndexIsInverse
    BY DEF HashIndexIsInverse, EmptyRecord
  <1>3. RecordsAreWellFormed
    BY DEF RecordsAreWellFormed
  <1>4. ProfilesAgree
    BY DEF ProfilesAgree, EmptyProfile
  <1>5. IssuersWereAuthorized
    BY DEF IssuersWereAuthorized, EmptyRecord
  <1> QED BY <1>1, <1>2, <1>3, <1>4, <1>5 DEF RegistryInv

\* authorizeIssuer and authorizeIssuerWithName.
LEMMA AuthorizeIssuerKeepsInv ==
  ASSUME RegistryInv, NEW caller \in Addresses, NEW a \in OptAddress,
         NEW name \in IssuerNames \cup {NoName},
         AuthorizeIssuer(caller, a, name)
  PROVE  RegistryInv'
  <1> USE RegistryAssumption DEF RegistryInv, TypeOK, AuthorizeIssuer,
          credentialVars, OptAddress
  <1>1. a \in Addresses
    OBVIOUS
  <1>2. AuthorizedProfile(issuerProfiles[a], name) \in IssuerProfile
    BY <1>1 DEF AuthorizedProfile, IssuerProfile
  <1>3. /\ issuerProfiles' \in [Addresses -> IssuerProfile]
        /\ \A b \in Addresses : b # a => issuerProfiles'[b] = issuerProfiles[b]
        /\ issuerProfiles'[a] = AuthorizedProfile(issuerProfiles[a], name)
    BY <1>1, <1>2
  <1>4. TypeOK'
    BY <1>1, <1>3
  <1>5. HashIndexIsInverse'
    BY DEF HashIndexIsInverse
  <1>6. RecordsAreWellFormed'
    BY DEF RecordsAreWellFormed
  <1> DEFINE p == issuerProfiles[a]
             q == AuthorizedProfile(p, name)
  <1>7. /\ q.exists /\ q.removedAt = 0
        /\ q.authorizedAt # 0 /\ q.authorizedAt <= now
        /\ p.authorizedAt # 0 => q.authorizedAt = p.authorizedAt
    BY <1>1 DEF AuthorizedProfile, IssuerProfile, ProfilesAgree
  <1>8. ProfilesAgree'
    BY <1>1, <1>3, <1>7 DEF ProfilesAgree
  <1>9. IssuersWereAuthorized'
    BY <1>1, <1>3, <1>7 DEF IssuersWereAuthorized, IssuerProfile
  <1> QED BY <1>4, <1>5, <1>6, <1>8, <1>9

\* removeIssuer: authorizedAt stays, so the credentials it covers stay covered.
LEMMA RemoveIssuerKeepsInv ==
  ASSUME RegistryInv, NEW caller \in Addresses, NEW a \in OptAddress,
         RemoveIssuer(caller, a)
  PROVE  RegistryInv'
  <1> USE RegistryAssumption DEF RegistryInv, TypeOK, RemoveIssuer,
          credentialVars, OptAddress, IssuerProfile
  <1>1. a \in Addresses
    OBVIOUS
  <1>2. /\ issuerProfiles' \in [Addresses -> IssuerProfile]
        /\ \A b \in Addresses :
              /\ issuerProfiles'[b].authorizedAt = issuerProfiles[b].authorizedAt
              /\ issuerProfiles'[b].exists = issuerProfiles[b].exists
              /\ b # a => issuerProfiles'[b].removedAt
                             = issuerProfiles[b].removedAt
    BY <1>1
  <1>3. TypeOK'
    BY <1>2
  <1>4. HashIndexIsInverse'
    BY DEF HashIndexIsInverse
  <1>5. RecordsAreWellFormed'
    BY DEF RecordsAreWellFormed
  <1>6. ProfilesAgree'
    BY <1>2 DEF ProfilesAgree
  <1>7. IssuersWereAuthorized'
    BY <1>2 DEF IssuersWereAuthorized
  <1> QED BY <1>3, <1>4, <1>5, <1>6, <1>7

\* setIssuerName touches neither the dates nor the authorisations.
LEMMA SetIssuerNameKeepsInv ==
  ASSUME RegistryInv, NEW caller \in Addresses, NEW a \in OptAddress,
         NEW name \in IssuerNames \cup {NoName},
         SetIssuerName(caller, a, name)
  PROVE  RegistryInv'
  <1> USE RegistryAssumption DEF RegistryInv, TypeOK, SetIssuerName,
          credentialVars, OptAddress, IssuerProfile
  <1>1. a \in Addresses
    OBVIOUS
  <1>2. /\ issuerProfiles' \in [Addresses -> IssuerProfile]
        /\ \A b \in Addresses :
              /\ issuerProfiles'[b].authorizedAt = issuerProfiles[b].authorizedAt
              /\ issuerProfiles'[b].removedAt = issuerProfiles[b].removedAt
              /\ issuerProfiles[b].exists => issuerProfiles'[b].exists
    BY <1>1
  <1>3. TypeOK'
    BY <1>2
  <1>4. HashIndexIsInverse'
    BY DEF HashIndexIsInverse
  <1>5. RecordsAreWellFormed'
    BY DEF RecordsAreWellFormed
  <1>6. ProfilesAgree'
    BY <1>2 DEF ProfilesAgree
  <1>7. IssuersWereAuthorized'
    BY <1>2 DEF IssuersWereAuthorized
  <1> QED BY <1>3, <1>4, <1>5, <1>6, <1>7

\* anchorCredential: the new record and the new index entry name each other.
LEMMA AnchorCredentialKeepsInv ==
  ASSUME RegistryInv, NEW caller \in Addresses, NEW id \in CredentialIds,
         NEW hash \in ProofHashes \cup {NoHash},
         AnchorCredential(caller, id, hash)
  PROVE  RegistryInv'
  <1> USE RegistryAssumption DEF RegistryInv, TypeOK, AnchorCredential,
          CanAnchor, issuerVars, OptAddress
  <1> DEFINE r == [EmptyRecord EXCEPT !.proofHash = hash, !.issuer = caller,
                                      !.anchoredAt = now, !.exists = TRUE]
  <1>1. /\ r \in CredentialRecord
        /\ r.exists /\ ~r.revoked /\ r.proofHash = hash /\ r.issuer = caller
        /\ r.anchoredAt = now /\ r.revokedAt = 0 /\ r.revokedBy = NoAddress
    BY DEF EmptyRecord, CredentialRecord
  <1>2. /\ credentials' = [credentials EXCEPT ![id] = r]
        /\ credentials'[id] = r
        /\ \A other \in CredentialIds :
              other # id => credentials'[other] = credentials[other]
    OBVIOUS
  <1>3. TypeOK'
    <2>1. credentials' \in [CredentialIds -> CredentialRecord]
      BY <1>1, <1>2
    <2>2. credentialKeyByProofHash' \in
            [ProofHashes \cup {NoHash} -> CredentialIds \cup {NoCredential}]
      OBVIOUS
    <2> QED BY <2>1, <2>2
  <1>4. HashIndexIsInverse'
    BY <1>1, <1>2 DEF HashIndexIsInverse
  <1>5. RecordsAreWellFormed'
    BY <1>1, <1>2 DEF RecordsAreWellFormed
  <1>6. ProfilesAgree'
    BY DEF ProfilesAgree
  <1>7. IssuersWereAuthorized'
    BY <1>1, <1>2 DEF IssuersWereAuthorized, ProfilesAgree, IssuerProfile
  <1> QED BY <1>3, <1>4, <1>5, <1>6, <1>7

\* revokeCredential: only the revocation fields of one anchored record move.
LEMMA RevokeCredentialKeepsInv ==
  ASSUME RegistryInv, NEW caller \in Addresses, NEW id \in CredentialIds,
         RevokeCredential(caller, id)
  PROVE  RegistryInv'
  <1> USE RegistryAssumption DEF RegistryInv, TypeOK, RevokeCredential,
          CanRevoke, issuerVars, OptAddress
  <1>1. /\ credentials' \in [CredentialIds -> CredentialRecord]
        /\ \A other \in CredentialIds :
              /\ credentials'[other].exists = credentials[other].exists
              /\ credentials'[other].proofHash = credentials[other].proofHash
              /\ credentials'[other].issuer = credentials[other].issuer
              /\ credentials'[other].anchoredAt = credentials[other].anchoredAt
              /\ other # id => credentials'[other] = credentials[other]
        /\ credentials'[id].revoked /\ credentials'[id].revokedAt = now
        /\ credentials'[id].revokedBy = caller
    BY ZenonT(60) DEF CredentialRecord
  <1>2. TypeOK'
    BY <1>1
  <1>3. HashIndexIsInverse'
    BY <1>1 DEF HashIndexIsInverse
  <1>4. RecordsAreWellFormed'
    <2>1. /\ credentials[id].anchoredAt \in Nat
          /\ 0 < credentials[id].anchoredAt
          /\ credentials[id].anchoredAt <= now
      BY DEF RecordsAreWellFormed, EmptyRecord, CredentialRecord
    <2>2. ASSUME NEW other \in CredentialIds, other # id
          PROVE  credentials'[other] = credentials[other]
      BY <1>1, <2>2
    <2> QED BY <1>1, <2>1, <2>2 DEF RecordsAreWellFormed
  <1>5. ProfilesAgree'
    BY DEF ProfilesAgree
  <1>6. IssuersWereAuthorized'
    BY <1>1 DEF IssuersWereAuthorized
  <1> QED BY <1>2, <1>3, <1>4, <1>5, <1>6

\* Ownership moves and blocks touch no register entry.
LEMMA OwnerAndClockKeepInv ==
  ASSUME RegistryInv,
         \/ NextBlock
         \/ \E caller \in Addresses : RenounceOwnership(caller)
         \/ \E caller \in Addresses, a \in OptAddress :
               TransferOwnership(caller, a)
         \/ UNCHANGED vars
  PROVE  RegistryInv'
  <1> USE RegistryAssumption DEF RegistryInv, NextBlock, RenounceOwnership,
          TransferOwnership, credentialVars, issuerVars, OptAddress, vars
  <1>1. TypeOK' /\ now' \in Nat /\ now <= now'
    BY DEF TypeOK
  <1>2. HashIndexIsInverse'
    BY DEF HashIndexIsInverse
  <1>3. RecordsAreWellFormed'
    BY <1>1 DEF RecordsAreWellFormed, TypeOK, CredentialRecord
  <1>4. ProfilesAgree'
    BY <1>1 DEF ProfilesAgree, TypeOK, IssuerProfile
  <1>5. IssuersWereAuthorized'
    BY DEF IssuersWereAuthorized
  <1> QED BY <1>1, <1>2, <1>3, <1>4, <1>5

\* Every call keeps the invariant.
LEMMA NextKeepsRegistryInv == RegistryInv /\ [Next]_vars => RegistryInv'
  <1> SUFFICES ASSUME RegistryInv, [Next]_vars PROVE RegistryInv'
    OBVIOUS
  <1>1. CASE NextBlock \/ UNCHANGED vars
    BY <1>1, OwnerAndClockKeepInv
  <1>2. ASSUME NEW caller \in Addresses, RenounceOwnership(caller)
        PROVE  RegistryInv'
    BY <1>2, OwnerAndClockKeepInv
  <1>3. ASSUME NEW caller \in Addresses, NEW a \in OptAddress,
               TransferOwnership(caller, a)
        PROVE  RegistryInv'
    BY <1>3, OwnerAndClockKeepInv
  <1> QED
    BY <1>1, <1>2, <1>3, AuthorizeIssuerKeepsInv, RemoveIssuerKeepsInv,
       SetIssuerNameKeepsInv, AnchorCredentialKeepsInv,
       RevokeCredentialKeepsInv DEF Next

\* The contract's invariants hold for ever, for every set of accounts, ids and
\* hashes: the hash index is the inverse of the register, records are well
\* formed, profiles agree with the authorisations, issuers were authorised.
THEOREM RegistryCorrect == Spec => []RegistryInv
  BY InitEstablishesRegistryInv, NextKeepsRegistryInv, PTL DEF Spec

\* Every mapping of the contract keeps its type (TypeOK).
THEOREM TypesHold == Spec => []TypeOK
  <1>1. RegistryInv => TypeOK
    BY DEF RegistryInv
  <1> QED BY <1>1, RegistryCorrect, PTL

\* Revocations follow anchorings, and what does not exist reads as zeroes
\* (RecordsAreWellFormed).
THEOREM RecordsCorrect == Spec => []RecordsAreWellFormed
  <1>1. RegistryInv => RecordsAreWellFormed
    BY DEF RegistryInv
  <1> QED BY <1>1, RegistryCorrect, PTL

\* A profile says of an issuer what its authorisations were (ProfilesAgree).
THEOREM ProfilesCorrect == Spec => []ProfilesAgree
  <1>1. RegistryInv => ProfilesAgree
    BY DEF RegistryInv
  <1> QED BY <1>1, RegistryCorrect, PTL

\* The hash index is the inverse of the register (HashIndexIsInverse).
THEOREM HashIndexCorrect == Spec => []HashIndexIsInverse
  <1>1. RegistryInv => HashIndexIsInverse
    BY DEF RegistryInv
  <1> QED BY <1>1, RegistryCorrect, PTL

\* Whoever anchored a credential had been authorised (IssuersWereAuthorized).
THEOREM IssuersCorrect == Spec => []IssuersWereAuthorized
  <1>1. RegistryInv => IssuersWereAuthorized
    BY DEF RegistryInv
  <1> QED BY <1>1, RegistryCorrect, PTL

\* No call rewrites an anchored proof or touches a revoked one
\* (RecordsAreAppendOnly): anchorCredential needs an unused id and
\* revokeCredential an unrevoked one.
THEOREM RegisterAppendOnly == Spec => RecordsAreAppendOnly
  <1> DEFINE Kept(id) ==
        LET r == credentials[id] IN
          /\ r.exists => /\ credentials'[id].exists
                         /\ credentials'[id].proofHash = r.proofHash
                         /\ credentials'[id].issuer = r.issuer
                         /\ credentials'[id].anchoredAt = r.anchoredAt
          /\ r.revoked => credentials'[id] = r
  <1>1. ASSUME RegistryInv, [Next]_vars, NEW id \in CredentialIds
        PROVE  Kept(id)
    <2> USE DEF RegistryInv, TypeOK, credentialVars
    <2>1. CASE UNCHANGED credentials
      BY <2>1
    <2>2. ASSUME NEW caller \in Addresses, NEW other \in CredentialIds,
                 NEW hash \in ProofHashes \cup {NoHash},
                 AnchorCredential(caller, other, hash)
          PROVE  Kept(id)
      <3>1. CASE id = other
        <4>1. ~credentials[id].exists
          BY <2>2, <3>1 DEF AnchorCredential, CanAnchor
        <4>2. ~credentials[id].revoked
          BY <1>1, <4>1 DEF RecordsAreWellFormed, EmptyRecord
        <4> QED BY <4>1, <4>2
      <3>2. CASE id # other
        BY <1>1, <2>2, <3>2 DEF AnchorCredential
      <3> QED BY <3>1, <3>2
    <2>3. ASSUME NEW caller \in Addresses, NEW other \in CredentialIds,
                 RevokeCredential(caller, other)
          PROVE  Kept(id)
      <3>1. CASE id = other
        BY <1>1, <2>3, <3>1 DEF RevokeCredential, CanRevoke, CredentialRecord
      <3>2. CASE id # other
        BY <1>1, <2>3, <3>2 DEF RevokeCredential
      <3> QED BY <3>1, <3>2
    <2> QED
      BY <1>1, <2>1, <2>2, <2>3 DEF Next, vars, NextBlock, RenounceOwnership,
         TransferOwnership, RemoveIssuer, AuthorizeIssuer, SetIssuerName
  <1>2. RegistryInv /\ [Next]_vars
           => [\A id \in CredentialIds : Kept(id)]_vars
    BY <1>1
  <1> QED BY <1>2, RegistryCorrect, PTL DEF Spec, RecordsAreAppendOnly

=============================================================================
