SPECIFICATION Spec
CONSTANTS
    Credentials = {c1}
    Verifiers = {v1, v2}
    Pdfs = {p1}
    RegistryHash = RegistryHash
    NoHash = NoHash
    NoCredential = NoCredential
    MaxChanges = 2
SYMMETRY VerifierSymmetry
CHECK_DEADLOCK FALSE
INVARIANT RevokedIsReported
