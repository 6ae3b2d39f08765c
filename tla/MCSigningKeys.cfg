SPECIFICATION FairSpec
CONSTANTS
    Handlers = {h1, h2, h3}
    MaxRotations = 2
    MaxFaults = 1
    None = None
INVARIANTS
    RetirementsAreLogged
    OneSigner
    VerifiedMeansUsable
PROPERTIES
    SigningResumes
