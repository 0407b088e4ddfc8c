SPECIFICATION Spec
CONSTANTS
    Users = {u1}
    Operators = {}
    Internals = {}
    Tokens = {t1, t2}
    Links = {l1}
    Requests = {r1, r2}
    MaxEpoch = 1
    NoUser = NoUser
    NoToken = NoToken
    NoLink = NoLink
SYMMETRY Symmetry
INVARIANT DeletedStaysAnonymised
CHECK_DEADLOCK FALSE
