SPECIFICATION FairSpec
CONSTANTS
    rotateKey = rotateKey
    bulkRevoke = bulkRevoke
    login = login
    Operations = {rotateKey, bulkRevoke, login}
    FailClosed = {rotateKey, bulkRevoke}
    MaxRollbacks = 2
    NoOperation = NoOperation
    NoHead = NoHead
INVARIANTS
    CommittedLogVerifies
    EntriesMatchWork
PROPERTIES
    OperationsFinish
    ImplementsTrail
