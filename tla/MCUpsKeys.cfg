\* Requests and reports are numbered from small numbers by both peers.
CONSTANTS
    s1 = s1
    s2 = s2
    d1 = d1
    d2 = d2
    u1 = u1
    u2 = u2
    Scenarios <- RedirectedOnly
    Trucks = {0, 1, 2}
    Stride = 2
    Users = {u1}
    WorldSeq <- SmallNumbers
    FirstQuery = 50
    MaxQueries <- OneQuery
    MaxCopies = 2
SPECIFICATION Spec
CHECK_DEADLOCK FALSE
INVARIANTS
    FirstSeenIsHandled
