SPECIFICATION Spec
CONSTANTS
    Admins = {a1, a2}
    FirstOwner = a1
    Managers = {manager}
    Clients = {client}
    Workers = {client}
    MaxVersion = 2
    None = None
INVARIANTS
    DismissedSessionsStayOut
    SomeOwnerIsActive
 
CHECK_DEADLOCK FALSE
