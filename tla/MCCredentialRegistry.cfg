SPECIFICATION Spec
CONSTANTS
    id1 = id1
    id2 = id2
    hash1 = hash1
    hash2 = hash2
    NoAddress = NoAddress
    EmptyId = EmptyId
    NoCredential = NoCredential
    NoHash = NoHash
    NoName = NoName
    Addresses = {deployer, university}
    CredentialIds = {id1, id2, EmptyId}
    ProofHashes = {hash1, hash2}
    IssuerNames = {name}
    Deployer = deployer
    MaxTime = 3
SYMMETRY MCSymmetry
INVARIANTS
    HashIndexIsInverse
    ProfilesAgree
    IssuersWereAuthorized
PROPERTY RecordsAreAppendOnly
CHECK_DEADLOCK FALSE
