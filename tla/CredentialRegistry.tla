------------------------- MODULE CredentialRegistry -------------------------
(***************************************************************************)
(* The Solidity contract CredentialRegistry: an append-only register of    *)
(* credential proofs, an index from proof hash to credential, the set of   *)
(* issuers allowed to anchor and a profile per issuer.                     *)
(*                                                                         *)
(* One action per external function.  A call that reverts changes nothing  *)
(* and is a disabled action.  keccak256 is injective as far as the         *)
(* contract is concerned, so a credential's key is the credential id.      *)
(***************************************************************************)
EXTENDS Naturals

CONSTANTS
    Addresses,       \* accounts that may call the contract or be named in a call
    NoAddress,       \* address(0)
    CredentialIds,   \* the ids callers pass, EmptyId among them
    EmptyId,         \* the empty string
    NoCredential,    \* bytes32(0) read as a credential key
    ProofHashes,     \* non-zero proof hashes
    NoHash,          \* bytes32(0) read as a proof hash
    IssuerNames,     \* non-empty issuer names
    NoName,          \* the empty string read as a name
    Deployer,        \* the account that ran the constructor
    MaxTime          \* bound on block.timestamp

ASSUME RegistryAssumption ==
    /\ NoAddress \notin Addresses
    /\ NoHash \notin ProofHashes
    /\ NoName \notin IssuerNames
    /\ NoCredential \notin CredentialIds
    /\ Deployer \in Addresses
    /\ MaxTime \in Nat \ {0}

VARIABLES
    credentials,               \* key -> CredentialRecord
    credentialKeyByProofHash,  \* proof hash -> key, NoCredential when unused
    authorizedIssuers,         \* the addresses mapped to true
    issuerProfiles,            \* address -> IssuerProfile
    owner,                     \* Ownable's owner
    now                        \* block.timestamp

credentialVars == <<credentials, credentialKeyByProofHash>>
issuerVars == <<authorizedIssuers, issuerProfiles>>
vars == <<credentials, credentialKeyByProofHash, authorizedIssuers,
          issuerProfiles, owner, now>>

OptAddress == Addresses \cup {NoAddress}

CredentialRecord ==
    [proofHash: ProofHashes \cup {NoHash}, issuer: OptAddress,
     anchoredAt: Nat, revoked: BOOLEAN, revokedAt: Nat,
     revokedBy: OptAddress, exists: BOOLEAN]

IssuerProfile ==
    [name: IssuerNames \cup {NoName}, authorizedAt: Nat, removedAt: Nat,
     exists: BOOLEAN]

\* A mapping entry nobody has written reads as zeroes.
EmptyRecord ==
    [proofHash |-> NoHash, issuer |-> NoAddress, anchoredAt |-> 0,
     revoked |-> FALSE, revokedAt |-> 0, revokedBy |-> NoAddress,
     exists |-> FALSE]

EmptyProfile ==
    [name |-> NoName, authorizedAt |-> 0, removedAt |-> 0, exists |-> FALSE]

Init ==
    /\ credentials = [id \in CredentialIds |-> EmptyRecord]
    /\ credentialKeyByProofHash =
          [h \in ProofHashes \cup {NoHash} |-> NoCredential]
    /\ authorizedIssuers = {}
    /\ issuerProfiles = [a \in Addresses |-> EmptyProfile]
    /\ owner = Deployer
    /\ now = 1

-----------------------------------------------------------------------------
(* Issuers *)

\* Mutants of AuthorizedProfile: the date of the first authorisation moves on
\* a later one; a profile that setIssuerName created first gets no date.
AuthorizedProfileRestamped(profile, name) ==
    [profile EXCEPT !.authorizedAt = now, !.removedAt = 0, !.exists = TRUE,
                    !.name = IF name # NoName THEN name ELSE @]

AuthorizedProfileByExists(profile, name) ==
    [profile EXCEPT !.authorizedAt = IF ~profile.exists THEN now ELSE @,
                    !.removedAt = 0, !.exists = TRUE,
                    !.name = IF name # NoName THEN name ELSE @]

\* What _authorizeIssuer makes of a profile: the first authorisation dates it,
\* removedAt is cleared, an empty name leaves the name alone.
AuthorizedProfile(profile, name) ==
    [profile EXCEPT !.authorizedAt =
                        IF ~profile.exists \/ @ = 0 THEN now ELSE @,
                    !.removedAt = 0, !.exists = TRUE,
                    !.name = IF name # NoName THEN name ELSE @]

\* authorizeIssuer (no name) and authorizeIssuerWithName (a non-empty one).
AuthorizeIssuer(caller, issuer, name) ==
    /\ caller = owner
    /\ issuer # NoAddress
    /\ authorizedIssuers' = authorizedIssuers \cup {issuer}
    /\ issuerProfiles' =
          [issuerProfiles EXCEPT ![issuer] = AuthorizedProfile(@, name)]
    /\ UNCHANGED <<credentialVars, owner, now>>

\* removeIssuer asks nothing about the issuer but that it is not address(0).
RemoveIssuer(caller, issuer) ==
    /\ caller = owner
    /\ issuer # NoAddress
    /\ authorizedIssuers' = authorizedIssuers \ {issuer}
    /\ issuerProfiles' = [issuerProfiles EXCEPT ![issuer].removedAt = now]
    /\ UNCHANGED <<credentialVars, owner, now>>

\* setIssuerName creates the profile of an address nobody has authorised.
SetIssuerName(caller, issuer, name) ==
    /\ caller = owner
    /\ issuer # NoAddress
    /\ name # NoName
    /\ issuerProfiles' = [issuerProfiles EXCEPT ![issuer].name = name,
                                                ![issuer].exists = TRUE]
    /\ UNCHANGED <<credentialVars, authorizedIssuers, owner, now>>

-----------------------------------------------------------------------------
(* Credentials *)

\* Mutant: anchorCredential does not look at the hash index.
CanAnchorReusedHash(caller, id, hash) ==
    /\ caller \in authorizedIssuers
    /\ id # EmptyId
    /\ hash # NoHash
    /\ ~credentials[id].exists

\* anchorCredential does not revert.
CanAnchor(caller, id, hash) ==
    /\ caller \in authorizedIssuers
    /\ id # EmptyId
    /\ hash # NoHash
    /\ ~credentials[id].exists
    /\ credentialKeyByProofHash[hash] = NoCredential

AnchorCredential(caller, id, hash) ==
    /\ CanAnchor(caller, id, hash)
    /\ credentials' =
          [credentials EXCEPT ![id] =
              [EmptyRecord EXCEPT !.proofHash = hash, !.issuer = caller,
                                  !.anchoredAt = now, !.exists = TRUE]]
    /\ credentialKeyByProofHash' =
          [credentialKeyByProofHash EXCEPT ![hash] = id]
    /\ UNCHANGED <<issuerVars, owner, now>>

\* Mutant of CanRevoke: a second revocation is let through.
CanRevokeAgain(caller, id) ==
    /\ credentials[id].exists
    /\ caller \in {credentials[id].issuer, owner}

\* revokeCredential does not revert.  The record's issuer may revoke even
\* after the owner removed it from the authorised issuers.
CanRevoke(caller, id) ==
    /\ credentials[id].exists
    /\ caller \in {credentials[id].issuer, owner}
    /\ ~credentials[id].revoked

RevokeCredential(caller, id) ==
    /\ CanRevoke(caller, id)
    /\ credentials' = [credentials EXCEPT ![id].revoked = TRUE,
                                          ![id].revokedAt = now,
                                          ![id].revokedBy = caller]
    /\ UNCHANGED <<credentialKeyByProofHash, issuerVars, owner, now>>

-----------------------------------------------------------------------------
(* Ownable (OpenZeppelin) and the chain's clock *)

TransferOwnership(caller, newOwner) ==
    /\ caller = owner
    /\ newOwner # NoAddress
    /\ owner' = newOwner
    /\ UNCHANGED <<credentialVars, issuerVars, now>>

RenounceOwnership(caller) ==
    /\ caller = owner
    /\ owner' = NoAddress
    /\ UNCHANGED <<credentialVars, issuerVars, now>>

\* block.timestamp grows; several calls may share a block.
NextBlock ==
    /\ now < MaxTime
    /\ now' = now + 1
    /\ UNCHANGED <<credentialVars, issuerVars, owner>>

Next ==
    \/ NextBlock
    \/ \E caller \in Addresses :
        \/ RenounceOwnership(caller)
        \/ \E a \in OptAddress :
            \/ TransferOwnership(caller, a)
            \/ RemoveIssuer(caller, a)
            \/ \E name \in IssuerNames \cup {NoName} :
                \/ AuthorizeIssuer(caller, a, name)
                \/ SetIssuerName(caller, a, name)
        \/ \E id \in CredentialIds :
            \/ RevokeCredential(caller, id)
            \/ \E hash \in ProofHashes \cup {NoHash} :
                AnchorCredential(caller, id, hash)

Spec == Init /\ [][Next]_vars

-----------------------------------------------------------------------------
(* Properties *)

\* The types of the contract's storage.
TypeOK ==
    /\ credentials \in [CredentialIds -> CredentialRecord]
    /\ credentialKeyByProofHash \in
          [ProofHashes \cup {NoHash} -> CredentialIds \cup {NoCredential}]
    /\ authorizedIssuers \subseteq Addresses
    /\ issuerProfiles \in [Addresses -> IssuerProfile]
    /\ owner \in OptAddress
    /\ now \in Nat \ {0}

\* The hash index is exactly the inverse of the register: every anchored
\* credential is found under its own hash, and every used hash leads to a
\* credential anchored with it.  So no two credentials share a proof hash and
\* bytes32(0) is never anchored (the two reverts of anchorCredential).
HashIndexIsInverse ==
    /\ \A id \in CredentialIds :
          credentials[id].exists =>
              credentialKeyByProofHash[credentials[id].proofHash] = id
    /\ \A hash \in ProofHashes \cup {NoHash} :
          LET key == credentialKeyByProofHash[hash]
          IN  key # NoCredential => /\ hash # NoHash
                                    /\ credentials[key].exists
                                    /\ credentials[key].proofHash = hash

\* A record is in one of three shapes: nothing was written, anchored, or
\* anchored and then revoked at a date no earlier by somebody who is known.
RecordsAreWellFormed ==
    \A id \in CredentialIds :
        LET r == credentials[id]
        IN  \/ r = EmptyRecord
            \/ /\ r.exists
               /\ 0 < r.anchoredAt /\ r.anchoredAt <= now
               /\ ~r.revoked /\ r.revokedAt = 0 /\ r.revokedBy = NoAddress
            \/ /\ r.exists /\ r.revoked
               /\ 0 < r.anchoredAt /\ r.anchoredAt <= r.revokedAt
               /\ r.revokedAt <= now
               /\ r.revokedBy # NoAddress

\* What getIssuerProfile reports agrees with isAuthorizedIssuer: an authorised
\* issuer has an authorisation date and no removal date, whatever order the
\* owner called authorizeIssuer, removeIssuer and setIssuerName in; and a
\* profile with an authorisation date is one that exists.
ProfilesAgree ==
    /\ \A a \in authorizedIssuers :
          /\ issuerProfiles[a].authorizedAt # 0
          /\ issuerProfiles[a].removedAt = 0
    /\ \A a \in Addresses :
          issuerProfiles[a].authorizedAt # 0 =>
              /\ issuerProfiles[a].exists
              /\ issuerProfiles[a].authorizedAt <= now

\* Whoever anchored a credential had been authorised by then, and the profile
\* still shows it: a later removal and re-authorisation never moves
\* authorizedAt past a credential anchored under the first one.
IssuersWereAuthorized ==
    \A id \in CredentialIds :
        credentials[id].exists =>
            LET issuer == credentials[id].issuer
            IN  /\ issuer \in Addresses
                /\ 0 < issuerProfiles[issuer].authorizedAt
                /\ issuerProfiles[issuer].authorizedAt
                      <= credentials[id].anchoredAt

\* The register is append-only: an anchored proof keeps its hash, issuer and
\* date for ever, and a revoked record never changes again.
RecordsAreAppendOnly ==
    [][\A id \in CredentialIds :
          LET r == credentials[id] IN
          /\ r.exists => /\ credentials'[id].exists
                         /\ credentials'[id].proofHash = r.proofHash
                         /\ credentials'[id].issuer = r.issuer
                         /\ credentials'[id].anchoredAt = r.anchoredAt
          /\ r.revoked => credentials'[id] = r]_vars

=============================================================================
