SPECIFICATION Spec
CONSTANTS
    a1 = a1
    a2 = a2
    here = here
    there = there
    Admins = {a1}
    Internal = {}
    Home <- MCHome
    Addresses = {here}
    Rules = {n1, n2}
    Jtis = {j1}
    Requests = {r1, r2}
    Staff = Staff
    NoUser = NoUser
    NoToken = NoToken
    NoRule = NoRule
SYMMETRY Symmetry
INVARIANT LockedOutWasSentToken
