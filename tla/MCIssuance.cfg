SPECIFICATION Spec
CONSTANTS
    Credentials = {c1, c2}
    Pairs = {p1, p2, p3}
    Spellings = {{p2, p3}}
    Handlers = {h1, h2}
    MaxRequests = 3
    MaxFaults = 1
    None = None
SYMMETRY Symmetric
INVARIANTS
    
    ReportsAreBacked
    FilesMatchRows
    RevocationsAreRecorded
    MetadataTellsRevocation
    SecurePdfSticks
PROPERTY
    ImplementsRegister
CHECK_DEADLOCK FALSE
