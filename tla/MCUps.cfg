\* Seven courses of business, lost and repeated messages, numbers that do not meet.
CONSTANTS
    s1 = s1
    s2 = s2
    d1 = d1
    d2 = d2
    u1 = u1
    u2 = u2
    Scenarios <- AllScenarios
    Trucks = {0, 1, 2}
    Stride = 2
    Users = {u1}
    WorldSeq <- SeparateNumbers
    FirstQuery = 50
    MaxQueries <- OneQuery
    MaxCopies = 2
SPECIFICATION FairSpec
CHECK_DEADLOCK FALSE
INVARIANTS
    TypeOK
    ActedOnOnce
    HeardBeforeDone
    StaysUp
    RightTruck
PROPERTIES
    ImplementsParcels
    RequestsEnd
