SPECIFICATION Spec
CONSTANTS
    Credentials = {c1}
    Requests = {r1, r2}
    Signer = signer
    Owner = owner
    MaxAttempts = 2
    MaxStalled = 1
    MaxFaults = 2
    SecurePdfs = TRUE
    SignerRemovable = TRUE
    NoAddress = NoAddress
    NoCredential = NoCredential
    EmptyId = EmptyId
    NoHash = NoHash
    NoName = NoName
SYMMETRY RequestSymmetry
INVARIANTS
    ReportedAnchorsExist
    ReportedRevocationsExist
    RevocationStatusesAreDeserved
    LogExplainsStatus
    CompletedJobsLanded
    
PROPERTIES
    
    ImplementsLifecycle
CHECK_DEADLOCK FALSE
