\* Two connections that trade, share an account, or are refused.
CONSTANTS
    a1 = a1
    a2 = a2
    x = x
    c1 = c1
    c2 = c2
    Accounts = {a1, a2}
    Symbols = {x}
    Prices = {1, 2}
    Amounts = {1, 2}
    Deposits = {0, 1, 3, 4}
    Grants = {1, 2}
    MaxOrders = 3
    MaxTime = 0
    MaxShares = 4
    Clients = {c1, c2}
    Rough = {c1}
    Scripts <- MCScripts
SPECIFICATION FairRequestsSpec
CHECK_DEADLOCK FALSE
INVARIANTS
    RequestsTypeOK
    AnswersFitRequests
    AnswersAreTrue
    AnswersAddUp
PROPERTIES
    WholeRequestsAnswered
