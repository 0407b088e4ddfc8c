SPECIFICATION Spec
CONSTANTS
    Users = {u1}
    Operators = {u1}
    Internals = {u1}
    Tokens = {t1, t2}
    Links = {l1, l2}
    Requests = {r1, r2}
    MaxEpoch = 2
    NoUser = NoUser
    NoToken = NoToken
    NoLink = NoLink
SYMMETRY Symmetry
INVARIANTS
    TypeOK
    OnlyOverlapSurvivesChange
    RotatedIsSpent
PROPERTIES
    TokensAreOneTime
    LinksAreOneTime
    SettledDeletionIsFinal
CHECK_DEADLOCK FALSE
