SPECIFICATION FairSpec
CONSTANTS
    Credentials = {c1}
    Requests = {r1, r2}
    Signer = signer
    Owner = owner
    MaxAttempts = 3
    MaxStalled = 1
    MaxFaults = 1
    SecurePdfs = FALSE
    SignerRemovable = FALSE
    NoAddress = NoAddress
    NoCredential = NoCredential
    EmptyId = EmptyId
    NoHash = NoHash
    NoName = NoName
PROPERTIES
    QueueDrains
    AnchorsLand
    RevocationsLand
CHECK_DEADLOCK FALSE
