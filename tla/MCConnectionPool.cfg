SPECIFICATION FairSpec
CONSTANTS
    Requests = {p1, n1, n2, n3}
    Nested = {n1, n2, n3}
    Conns = {c1, c2, c3}
    Rows = {x1, x2}
    Nobody = Nobody
    NoRow = NoRow
INVARIANTS
    TypeOK
    OnlyNestedStall
PROPERTY WaitsEnd
