SPECIFICATION Spec
CONSTANTS
    rotateKey = rotateKey
    bulkRevoke = bulkRevoke
    login = login
    Operations = {rotateKey, bulkRevoke, login}
    FailClosed = {rotateKey, bulkRevoke}
    MaxRollbacks = 0
    NoOperation = NoOperation
    NoHead = NoHead
INVARIANT BreaksAreReal
