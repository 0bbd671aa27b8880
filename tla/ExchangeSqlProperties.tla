------------------------ MODULE ExchangeSqlProperties ------------------------
(***************************************************************************)
(* What holds of the server of ExchangeSql.tla with several clients, and   *)
(* what the code says of it.                                               *)
(***************************************************************************)
EXTENDS ExchangeSql

\* No transaction is open.
Quiet == \A c \in Clients : pc[c] \in {"idle", "down"}

OrderIds == {i \in 1..serial : Order(i) \in DOMAIN db}
Active(i) == db[Order(i)].CancelTime = NOTCANCELLED /\ db[Order(i)].Amount # 0

Steps == {"idle", "down", "findaccount", "newaccount", "findrow", "addrow", "newrow", "commit",
          "findsymbol", "newsymbol", "check", "insert", "selectmax", "reread", "charge",
          "selectbuys", "selectsells", "loop", "sellrow", "findposition", "addposition",
          "newposition", "readseller", "payseller", "readorder", "readcancel", "setcancel",
          "readrefund", "refund"}

Keys == {Balance(a) : a \in Accounts} \cup {Symbol(s) : s \in Symbols}
        \cup {Position(a, s) : a \in Accounts, s \in Symbols} \cup {Order(i) : i \in 1..serial}

\* Types, and what the locks promise: no row is written by two open
\* transactions, and an idle client holds none.
TypeOK ==
    /\ DOMAIN db \subseteq Keys
    /\ pc \in [Clients -> Steps]
    /\ up \in BOOLEAN
    /\ \A c \in Clients : DOMAIN tx[c] \subseteq Keys
    /\ \A c, d \in Clients : c # d => DOMAIN tx[c] \cap DOMAIN tx[d] = {}
    /\ \A c \in Clients : pc[c] \in {"idle", "down"} => tx[c] = NoRows
-----------------------------------------------------------------------------
(* What the statements keep, however the clients interleave                 *)

\* update_TRANSACTION_Amount and update_TRANSACTION_CancelTime each write one
\* column: a match that commits after a cancellation does not undo it.
CancelledStaysCancelled ==
    [][\A i \in OrderIds : db[Order(i)].CancelTime # NOTCANCELLED =>
            db'[Order(i)].CancelTime = db[Order(i)].CancelTime]_vars

\* Every request is answered, unless the process dies: a client that waits for a
\* row gets it or is failed.
RequestsEnd == \A c \in Clients : pc[c] # "idle" ~> pc[c] \in {"idle", "down"}
-----------------------------------------------------------------------------
(* What only clients with nothing in common may count on                    *)

AccountsOf(c) == {r.id : r \in requests[c]}
SymbolsOf(c) == {r.sym : r \in {q \in requests[c] : q.kind \in {"order", "position"}}}

\* No two clients use the same account or symbol.
Apart ==
    \A c, d \in Clients : c # d =>
        AccountsOf(c) \cap AccountsOf(d) = {} /\ SymbolsOf(c) \cap SymbolsOf(d) = {}

\* Between requests no two active orders of a symbol could trade.
Uncrossed ==
    \A b, a \in OrderIds :
        LET buy == db[Order(b)]
            sell == db[Order(a)]
        IN  (Active(b) /\ Active(a) /\ buy.Amount > 0 /\ sell.Amount < 0
               /\ buy.SymbolName = sell.SymbolName) => buy.PriceLimit < sell.PriceLimit

\* Whatever such clients do at once, no exception ends the process, nobody comes to owe cash or
\* shares, and no two orders that could trade are left open: the reads of a handler
\* are still true when it writes.
UndisturbedApart ==
    Apart =>
        /\ up
        /\ \A k \in DOMAIN db : k[1] \in {"balance", "position"} => db[k] >= 0
        /\ Quiet => Uncrossed

Abs(n) == IF n < 0 THEN -n ELSE n

\* What rows of EXECUTED say of order i, and what order i asked for: what is open and what was executed.
Filled(rows, i) == SumFunction([k \in DOMAIN rows |-> IF rows[k].TransID = i THEN rows[k].Amount ELSE 0])
Asked(i) == db[Order(i)].Amount + Filled(executed, i)

\* What the client that is about to commit order i asked for.
Request(i) == local[CHOOSE c \in Clients : Order(i) \in DOMAIN tx[c]].req.amount

OrderKeepsSum(i) == Asked(i)' = IF i \in OrderIds THEN Asked(i) ELSE Request(i)

\* An order never executes more than it asked for: its open amount and its
\* executions, what <status> shows, add up to the order placed.
OrdersAddUp == [][\A i \in OrderIds' : OrderKeepsSum(i)]_vars

\* Clients apart have their orders kept so, and a cancellation gives back what the order still had
\* open when it was cancelled: cancel_order reads that amount before it takes the row.
OrdersKeptApart ==
    [][Apart =>
        /\ \A i \in OrderIds' : OrderKeepsSum(i)
        /\ \A c \in Clients :
               (pc[c] = "commit" /\ pc'[c] = "idle" /\ local[c].req.kind = "cancel") =>
                   db'[Order(local[c].id)].Amount = local[c].open]_vars
-----------------------------------------------------------------------------
(* One client alone gets Exchange.tla                                       *)

TheClient == CHOOSE c \in Clients : TRUE
InLoop == pc[TheClient] \in {"loop", "sellrow", "findposition", "addposition", "newposition",
                             "readseller", "payseller"}
InTurn == InLoop /\ pc[TheClient] # "loop"
Heads == {local[TheClient].buying[1], local[TheClient].selling[1]}

\* Exchange.tla takes an order up to the first turn of the loop, and each turn,
\* as one step: it sees the transaction's rows from then on, without the part of
\* a turn that is under way.
View == IF InLoop THEN Seen(TheClient) ELSE db

BeforeTurn(k) ==
    CASE InTurn /\ \E e \in Heads : k = Order(e.TransID)
           -> [View[k] EXCEPT !.Amount = (CHOOSE e \in Heads : k = Order(e.TransID)).Amount]
      [] InTurn /\ k = BuyerPosition(TheClient) /\ pc[TheClient] \in {"readseller", "payseller"}
           -> View[k] - MatchAmount(TheClient)
      [] OTHER -> View[k]

NumberOf(k) == IF k \in DOMAIN View THEN BeforeTurn(k) ELSE 0

FillsBeforeTurn ==
    LET fills == local[TheClient].fills
    IN  IF InTurn THEN SubSeq(fills, 1, Len(fills) - 2) ELSE fills

Asks(kind) == UNION {{r \in course.requests[c] : r.kind = kind} : course \in Courses, c \in Clients}
Limits == {r.limit : r \in Asks("order")}
Sizes == {Abs(r.amount) : r \in Asks("order")}
Openings == {r.amount : r \in Asks("account")}
Given == {r.amount : r \in Asks("position")}

ViewOpened == {a \in Accounts : Balance(a) \in DOMAIN View}
ViewBalance == [a \in Accounts |-> NumberOf(Balance(a))]
ViewPosition == [h \in Accounts \X Symbols |-> NumberOf(Position(h[1], h[2]))]
ViewOrders == [i \in {j \in 1..serial : Order(j) \in DOMAIN View} |-> BeforeTurn(Order(i))]
ViewExecuted == executed \o (IF InLoop THEN FillsBeforeTurn ELSE <<>>)
ViewMatching == IF InLoop THEN {local[TheClient].req.sym} ELSE {}
ViewBuying == IF InLoop THEN local[TheClient].buying ELSE <<>>
ViewSelling == IF InLoop THEN local[TheClient].selling ELSE <<>>

Serial == INSTANCE Exchange WITH
    Prices <- Limits, Amounts <- Sizes, Deposits <- Openings, Grants <- Given, MaxTime <- 0,
    opened <- ViewOpened, balance <- ViewBalance, position <- ViewPosition, orders <- ViewOrders,
    executed <- ViewExecuted, clock <- 0,
    matching <- ViewMatching, buying <- ViewBuying, selling <- ViewSelling

\* Nobody else asks for anything.
OthersSilent == \A c \in Clients \ {TheClient} : requests[c] = {}

\* The statements of a handler that nobody disturbs add up to the atomic
\* requests and the turns of the loop of Exchange.tla: reading a balance, an
\* amount or a position first and writing it back later is then as good as one
\* step, on every path, a trader matching his own order included.  A client alone
\* begins with an empty database.
ImplementsExchange ==
    /\ OthersSilent => Serial!Init
    /\ [][OthersSilent => Serial!Next]_(Serial!vars)
=============================================================================
