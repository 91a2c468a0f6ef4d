\* Two clients, two machines of the operator, every list of trusted ones.
CONSTANTS
    p1 = p1
    p2 = p2
    Clients = {c1, c2}
    Proxies = {p1, p2}
    TrustLists <- Lists
    Malformed = malformed
    Empty = empty
    MaxForged = 2
    MaxHops = 2
CHECK_DEADLOCK FALSE
SPECIFICATION Spec
INVARIANTS
    TypeOK
    KeyIsLastStranger
