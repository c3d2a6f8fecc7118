SPECIFICATION Spec
CONSTANTS
    u1 = u1
    u2 = u2
    u3 = u3
    c1 = c1
    c2 = c2
    Users = {u1, u2, u3}
    Founder = u1
    KeyUsers = {u2, u3}
    Copies = {c1}
    MaxSlots = 3
    MaxClock = 2
SYMMETRY AnyUser
INVARIANTS
    OwnerExists
    UsersHaveKeys
PROPERTIES
    UsersLeaveByRevocation
CHECK_DEADLOCK FALSE
