\* Two clients that write the same rows, one of them opening an account; two with nothing in common;
\* one alone.
CONSTANTS
    c1 = c1
    c2 = c2
    a1 = a1
    a2 = a2
    x = x
    y = y
    Clients = {c1, c2}
    Accounts = {a1, a2}
    Symbols = {x, y}
    Courses <- MCCourses
    MaxOrders = 3
    MaxShares = 2
SPECIFICATION FairSpec
CHECK_DEADLOCK FALSE
INVARIANTS
    TypeOK
    UndisturbedApart
PROPERTIES
    CancelledStaysCancelled
    OrdersKeptApart
    RequestsEnd
    ImplementsExchange
