\* Two traders, one symbol, orders of one or two shares at two limits.
CONSTANTS
    Accounts = {a1, a2}
    Symbols = {x}
    Prices = {1, 2}
    Amounts = {1, 2}
    Deposits = {3}
    Grants = {2}
    MaxOrders = 3
    MaxTime = 1
    MaxShares = 2
SPECIFICATION Spec
SYMMETRY MCSymmetry
CHECK_DEADLOCK FALSE
INVARIANTS
    TypeOK
    NonNegative
    NoCrossedBook
    ExecutedWithinLimits
    VectorsMirrorBook
PROPERTIES
    EverythingAccounted
    ImplementsMarket
    TurnsCloseOrders
