SPECIFICATION FairSpec
CONSTANTS
    u1 = u1
    u2 = u2
    t1 = t1
    r1 = r1
    r2 = r2
    Users <- MCUsers
    Tokens = {t1}
    Roles <- MCRoles
    Admins = {u1}
    Owner <- MCOwner
    Families <- MCFamilies
    NoLock = NoLock
    MaxStarts = 3
CHECK_DEADLOCK FALSE
INVARIANTS
    TypeOK
    CyclesReplaceKeys
    OnlyCyclesStop
PROPERTY AllEnd
