SPECIFICATION Spec
CONSTANTS
    Credentials = {c1}
    Verifiers = {v1, v2}
    Pdfs = {p1}
    RegistryHash = RegistryHash
    NoHash = NoHash
    NoCredential = NoCredential
    MaxChanges = 2
SYMMETRY VerifierSymmetry
INVARIANTS
    CountsMatchLog
    ValidIsDeserved
    WithdrawalSticks
    CalmAnswersAreRight
CHECK_DEADLOCK FALSE
