SPECIFICATION Spec
CONSTANTS
    a1 = a1
    a2 = a2
    here = here
    there = there
    Admins = {a1, a2}
    Internal = {a2}
    Home <- MCHomes
    Addresses = {here, there}
    Rules = {n1, n2}
    Jtis = {j1}
    Requests = {r1, r2}
    Staff = Staff
    NoUser = NoUser
    NoToken = NoToken
    NoRule = NoRule
SYMMETRY Symmetry
INVARIANTS
    TypeOK
    OnlyOverlapUndoes
    ForcedHasWayOut
    ShutOutOnlyForced
PROPERTY EmergencyIsOneTime
