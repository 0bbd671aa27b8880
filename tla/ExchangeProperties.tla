------------------------- MODULE ExchangeProperties -------------------------
(***************************************************************************)
(* What makes the exchange server of Exchange.tla correct.                 *)
(***************************************************************************)
EXTENDS Exchange

Active(i) == orders[i].CancelTime = NOTCANCELLED /\ orders[i].Amount # 0

\* Nobody owes cash or shares: an order is only accepted when its owner can
\* pay for all of it (insufficientFunds, insufficientShares), and neither a
\* cancellation nor a match may take more than was put aside.
NonNegative ==
    /\ \A a \in Accounts : balance[a] >= 0
    /\ \A a \in Accounts, s \in Symbols : position[<<a, s>>] >= 0

\* Between requests nothing is left to trade: matchOrders runs until the best
\* buying limit is below the best selling limit, for every symbol.
NoCrossedBook ==
    matching = {} =>
        \A s \in Symbols : \A b \in Buys(orders, s), a \in Sells(orders, s) :
            orders[b].PriceLimit < orders[a].PriceLimit

\* No order trades at a price worse than its limit, whatever the partner's
\* limit and age (matchOrders picks one of the two limits).
ExecutedWithinLimits ==
    \A k \in DOMAIN executed :
        LET e == executed[k]
            o == orders[e.TransID]
        IN  /\ e.TransID \in DOMAIN orders
            /\ e.Amount > 0 => e.Price =< o.PriceLimit
            /\ e.Amount < 0 => e.Price >= o.PriceLimit

\* The vector v holds a copy of each of the rows ids of the table t, once.
Mirrors(v, t, ids) ==
    /\ \A k \in DOMAIN v : v[k].TransID \in ids /\ v[k] = ActiveOrderOf(t, v[k].TransID)
    /\ \A i \in ids : \E k \in DOMAIN v : v[k].TransID = i
    /\ \A j, k \in DOMAIN v : v[j].TransID = v[k].TransID => j = k

Descending(v) == \A j, k \in DOMAIN v : j < k => v[j].PriceLimit >= v[k].PriceLimit
Ascending(v) == \A j, k \in DOMAIN v : j < k => v[j].PriceLimit =< v[k].PriceLimit

\* matchOrders writes rows from the copies in its vectors and looks at their
\* heads only.  That is right while every copy equals its row, no active row is
\* missing, the best limits come first, and no other symbol has work left.
VectorsMirrorBook ==
    /\ \A s, t \in matching : s = t
    /\ \A s \in matching :
         /\ Mirrors(buying, orders, Buys(orders, s)) /\ Descending(buying)
         /\ Mirrors(selling, orders, Sells(orders, s)) /\ Ascending(selling)
    /\ \A s \in Symbols \ matching : \A b \in Buys(orders, s), a \in Sells(orders, s) :
         orders[b].PriceLimit < orders[a].PriceLimit
-----------------------------------------------------------------------------
(* Accounting                                                               *)

Reserved(t, i) == IF t[i].CancelTime # NOTCANCELLED \/ t[i].Amount < 0 THEN 0 ELSE t[i].Amount * t[i].PriceLimit
Offered(t, i, s) ==
    IF t[i].CancelTime # NOTCANCELLED \/ t[i].Amount > 0 \/ t[i].SymbolName # s THEN 0 ELSE -t[i].Amount

\* Cash in the accounts and cash set aside for buying orders.
TotalCash == SumFunction(balance) + SumFunction([i \in DOMAIN orders |-> Reserved(orders, i)])

\* Shares of s in the accounts and shares set aside for selling orders.
TotalShares(s) ==
    SumFunction([a \in Accounts |-> position[<<a, s>>]])
    + SumFunction([i \in DOMAIN orders |-> Offered(orders, i, s)])

\* What the buyer of the match just made had set aside beyond the price paid.
Forfeited ==
    IF Len(executed') = Len(executed) THEN 0
    ELSE LET e == executed'[Len(executed) + 1]
         IN  e.Amount * (orders[e.TransID].PriceLimit - e.Price)

\* Ordering, matching and cancelling neither make nor destroy shares: only a
\* <create><symbol> changes how many there are, and it touches no order.
SharesConserved ==
    \A s \in Symbols : TotalShares(s)' # TotalShares(s) =>
        /\ matching = {} /\ UNCHANGED <<orders, executed, balance>>

\* Cash enters with <create><account> only, and leaves only when a buyer
\* trades below his limit: matchOrders returns no part of what
\* handle_transaction_buyorder set aside at the limit.
CashAccounted == opened' = opened => TotalCash' = TotalCash - Forfeited

\* What an order executed, bought or sold.
Filled(rows, i) == SumFunction([k \in DOMAIN rows |-> IF rows[k].TransID = i THEN rows[k].Amount ELSE 0])

\* An order's open amount moves by exactly what EXECUTED records for it, so the
\* <status> of an order (open plus executed) always adds up to what was asked.
OpenAmountsExplained ==
    \A i \in DOMAIN orders :
        orders[i].Amount - orders'[i].Amount = Filled(executed', i) - Filled(executed, i)

\* Over any sequence of partial fills, cancellations and self-trades the shares, the
\* cash and the open amounts are all explained by what was granted, deposited and executed.
EverythingAccounted == [][SharesConserved /\ CashAccounted /\ OpenAmountsExplained]_vars

\* Once cancelled or filled an order never changes, never comes back, is never
\* refunded twice, and EXECUTED gets no further row for it.
KeepsClosed ==
    \A i \in DOMAIN orders : ~Active(i) =>
        /\ orders'[i] = orders[i]
        /\ \A k \in DOMAIN executed' \ DOMAIN executed : executed'[k].TransID # i
ClosedOrdersStayClosed == [][KeepsClosed]_vars

\* When two orders trade, no active order on either side of that symbol has a
\* better limit: a request cannot overtake a better resting one.
TradesBest ==
    Len(executed') > Len(executed) =>
        LET b == executed'[Len(executed) + 1].TransID
            a == executed'[Len(executed) + 2].TransID
            s == orders[b].SymbolName
        IN  /\ a \in Sells(orders, s) /\ b \in Buys(orders, s)
            /\ \A i \in Buys(orders, s) : orders[i].PriceLimit =< orders[b].PriceLimit
            /\ \A i \in Sells(orders, s) : orders[i].PriceLimit >= orders[a].PriceLimit
BestLimitsFirst == [][TradesBest]_vars

\* Every turn of the loop closes an order and takes it out of its vector, so that
\* the loop ends after at most as many turns as there were open orders.
ClosesAnOrder ==
    Len(executed') > Len(executed) =>
        /\ Len(buying') + Len(selling') < Len(buying) + Len(selling)
        /\ \E k \in DOMAIN executed' \ DOMAIN executed :
              Active(executed'[k].TransID) /\ orders'[executed'[k].TransID].Amount = 0
TurnsCloseOrders == [][ClosesAnOrder]_vars
-----------------------------------------------------------------------------
\* What the market sees of a row, and of the table.
Entry(o) == [owner |-> o.AccountID, sym |-> o.SymbolName, open |-> o.Amount, limit |-> o.PriceLimit,
             state |-> IF o.CancelTime = NOTCANCELLED THEN "placed" ELSE "withdrawn"]
Book(t) == [i \in DOMAIN t |-> Entry(t[i])]

\* A match, a refund or a new order is what the abstract market allows.
MarketPlace == INSTANCE Market WITH cash <- balance, shares <- position, book <- Book(orders)

\* The server implements the market: the loop's literal updates amount to
\* trades of the best bid with the best ask, and nothing else happens.
ImplementsMarket == MarketPlace!Spec
=============================================================================
