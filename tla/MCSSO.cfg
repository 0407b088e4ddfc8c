SPECIFICATION Spec
CONSTANTS
    Methods = {"sso", "password"}
    People = {p1, p2}
    Others = {o1}
    Accounts = {a1, a2, a3}
    Attempts = {q1, q2}
    Requests = {r1, r2}
    Nobody = Nobody
    NoAccount = NoAccount
    NoAttempt = NoAttempt
SYMMETRY Symmetry
INVARIANTS
    TypeOK
    EachRequestOnce
    SecondAccountOnlyAfterMove
    AccountEnteredByItsPerson
    PasswordTenantAdmitsOnlyProvisioned
PROPERTY KeepsAddressBook
