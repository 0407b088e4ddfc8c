SPECIFICATION Spec
CONSTANTS
    Accounts = {a1, a2}
    Emails = {x, y}
    Invites = {i1, i2}
    ChangeLinks = {c1}
    ResetLinks = {w1}
    Requests = {r1, r2}
    NoAccount = NoAccount
    NoEmail = NoEmail
    NoLink = NoLink
SYMMETRY Symmetry
INVARIANTS
    TypeOK
    OneHolderPerAddress
    PendingWasMailed
PROPERTIES
    FirstPasswordStays
    DeletedStaysAnonymous
    InvitationsAreOneTime
    EmailChangesAreOneTime
    KeepsAddressBook
