SPECIFICATION Spec
CONSTANTS
    Admins = {a1, a2}
    FirstOwner = a1
    Managers = {manager1, manager2}
    Clients = {client}
    Workers = {}
    MaxVersion = 1
    None = None
INVARIANT SomeOwnerIsActive
CHECK_DEADLOCK FALSE
