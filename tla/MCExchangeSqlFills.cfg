\* Two sellers meet one buyer.
CONSTANTS
    c1 = c1
    c2 = c2
    a1 = a1
    a2 = a2
    x = x
    y = y
    Clients = {c1, c2}
    Accounts = {a1, a2}
    Symbols = {x}
    Courses <- TwoSellers
    MaxOrders = 3
    MaxShares = 1
SPECIFICATION Spec
CHECK_DEADLOCK FALSE
PROPERTIES
    OrdersAddUp
