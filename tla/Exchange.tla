------------------------------ MODULE Exchange ------------------------------
(***************************************************************************)
(* The stock exchange server (Mini Stock Exchange Server/docker-deploy/src) *)
(* serving one request at a time: the handlers of handle_xml.cpp over the   *)
(* tables of database_func.cpp, with the matching loop of matchOrders step  *)
(* by step.  What one client sees of the database inside its transaction is *)
(* what is modelled; ExchangeSql.tla lets several clients interleave their  *)
(* statements.                                                              *)
(*                                                                          *)
(* A child of a <transactions> element runs in its own transaction, so a    *)
(* request with many children is a sequence of these actions.  A refused    *)
(* child (unknown account, zero amount, insufficient funds or shares, order  *)
(* already cancelled or finished) and a <query> leave every table alone:    *)
(* they are stuttering steps.                                               *)
(***************************************************************************)
EXTENDS Integers, Sequences, FiniteSets, Functions

CONSTANTS
    Accounts,   \* account numbers the clients use
    Symbols,    \* symbol names the clients use
    Prices,     \* limits an order may carry
    Amounts,    \* sizes of orders; <order amount> is one of these or its negation
    Deposits,   \* balances a <create><account> may carry
    Grants,     \* shares a <create><symbol> may hand out
    MaxOrders,  \* bound on the rows of TRANSACTION
    MaxTime,    \* bound on the seconds that pass
    MaxShares   \* bound on what <create> hands to one position

\* The handlers parse these numbers with atof and check only that an order's
\* amount is not zero: clients are assumed to send no negative numbers.
ASSUME NumbersAssumption ==
    /\ Prices \subseteq Nat
    /\ Amounts \subseteq Nat \ {0}
    /\ Deposits \subseteq Nat
    /\ Grants \subseteq Nat

\* A table holds finitely many rows.
ASSUME AccountsAssumption == IsFiniteSet(Accounts)

VARIABLES
    opened,     \* accounts with a row in ACCOUNT
    balance,    \* ACCOUNT.Balance, on the account's NOSYMBOL row
    position,   \* ACCOUNT.Amount per account and symbol, 0 when there is no row
    orders,     \* TRANSACTION, indexed by the serial TransID
    executed,   \* EXECUTED, in order of ExecID
    clock,      \* time(nullptr), in whole seconds
    matching,   \* {s} while matchOrders runs for symbol s, {} between requests
    buying,     \* matchOrders' vector BuyingOrders
    selling     \* matchOrders' vector SellingOrders

tables == <<opened, balance, position, orders, executed>>
vars == <<tables, clock, matching, buying, selling>>

NOTCANCELLED == -1

\* A row of TRANSACTION.  Amount > 0 is what a buy still wants, Amount < 0 what
\* a sell still offers.
OrderRow == [OrderTime: Nat, AccountID: Accounts, SymbolName: Symbols,
             Amount: Int, PriceLimit: Prices, CancelTime: Int]

\* A row of EXECUTED; ExecTime is left out.
ExecRow == [TransID: Nat, Amount: Int, Price: Prices]

\* What matchOrders copies out of TRANSACTION.
ActiveOrder == [TransID: Nat, OrderTime: Nat, AccountID: Accounts,
                Amount: Int, PriceLimit: Prices]

TypeOK ==
    /\ opened \subseteq Accounts
    /\ balance \in [Accounts -> Int]
    /\ position \in [Accounts \X Symbols -> Int]
    /\ orders \in Seq(OrderRow)
    /\ executed \in Seq(ExecRow)
    /\ clock \in Nat
    /\ matching \in SUBSET Symbols
    /\ buying \in Seq(ActiveOrder)
    /\ selling \in Seq(ActiveOrder)

Init ==
    /\ opened = {}
    /\ balance = [a \in Accounts |-> 0]
    /\ position = [h \in Accounts \X Symbols |-> 0]
    /\ orders = <<>>
    /\ executed = <<>>
    /\ clock = 0
    /\ matching = {}
    /\ buying = <<>>
    /\ selling = <<>>
-----------------------------------------------------------------------------
(* Reading the book                                                         *)

\* TransIDs of the buying (selling) orders of s that are neither filled nor
\* cancelled in the table t.
Buys(t, s) == {i \in DOMAIN t : t[i].CancelTime = NOTCANCELLED /\ t[i].SymbolName = s /\ t[i].Amount > 0}
Sells(t, s) == {i \in DOMAIN t : t[i].CancelTime = NOTCANCELLED /\ t[i].SymbolName = s /\ t[i].Amount < 0}

ActiveOrderOf(t, i) ==
    [TransID |-> i, OrderTime |-> t[i].OrderTime, AccountID |-> t[i].AccountID,
     Amount |-> t[i].Amount, PriceLimit |-> t[i].PriceLimit]

\* Mutant of DescendingOrders: no ORDER BY.
UnsortedOrders(t, ids) ==
    {[k \in 1..Cardinality(ids) |-> ActiveOrderOf(t, f[k])] :
        f \in Bijection(1..Cardinality(ids), ids)}

\* The answers the database may give to SELECT ... ORDER BY PriceLimit DESC
\* (ASC) for the rows ids: any order that sorts the limits, ties as they fall.
DescendingOrders(t, ids) ==
    {[k \in 1..Cardinality(ids) |-> ActiveOrderOf(t, f[k])] :
        f \in {g \in Bijection(1..Cardinality(ids), ids) :
                 \A j, k \in 1..Cardinality(ids) :
                    j < k => t[g[j]].PriceLimit >= t[g[k]].PriceLimit}}

AscendingOrders(t, ids) ==
    {[k \in 1..Cardinality(ids) |-> ActiveOrderOf(t, f[k])] :
        f \in {g \in Bijection(1..Cardinality(ids), ids) :
                 \A j, k \in 1..Cardinality(ids) :
                    j < k => t[g[j]].PriceLimit =< t[g[k]].PriceLimit}}

\* matchOrders begins: both vectors are read from the table just updated.
FetchVectors(s) ==
    /\ matching' = {s}
    /\ buying' \in DescendingOrders(orders', Buys(orders', s))
    /\ selling' \in AscendingOrders(orders', Sells(orders', s))
-----------------------------------------------------------------------------
(* <create>                                                                 *)

CreateAccount(a, money) ==
    /\ matching = {}
    /\ a \notin opened
    /\ opened' = opened \cup {a}
    /\ balance' = [balance EXCEPT ![a] = money]
    /\ UNCHANGED <<position, orders, executed, clock, matching, buying, selling>>

CreatePosition(a, s, n) ==
    /\ matching = {}
    /\ a \in opened
    /\ position[<<a, s>>] + n =< MaxShares
    /\ position' = [position EXCEPT ![<<a, s>>] = @ + n]
    /\ UNCHANGED <<opened, balance, orders, executed, clock, matching, buying, selling>>
-----------------------------------------------------------------------------
(* <transactions><order>                                                    *)

\* Mutant of InsufficientFunds: the price of one share is compared.
InsufficientForOneShare(a, n, p) == balance[a] < p

InsufficientFunds(a, n, p) == balance[a] < n * p
InsufficientShares(a, s, n) == position[<<a, s>>] < n

\* Mutant of CreateTransaction: two columns of the INSERT are swapped.
CreateTransactionSwapped(a, s, amount, p) ==
    /\ Len(orders) < MaxOrders
    /\ orders' = Append(orders,
            [OrderTime |-> clock, AccountID |-> s, SymbolName |-> a,
             Amount |-> amount, PriceLimit |-> p, CancelTime |-> NOTCANCELLED])

CreateTransaction(a, s, amount, p) ==
    /\ Len(orders) < MaxOrders
    /\ orders' = Append(orders,
            [OrderTime |-> clock, AccountID |-> a, SymbolName |-> s,
             Amount |-> amount, PriceLimit |-> p, CancelTime |-> NOTCANCELLED])

BuyOrder(a, s, n, p) ==
    /\ matching = {}
    /\ a \in opened
    /\ ~InsufficientFunds(a, n, p)
    /\ CreateTransaction(a, s, n, p)
    /\ balance' = [balance EXCEPT ![a] = @ - n * p]
    /\ FetchVectors(s)
    /\ UNCHANGED <<opened, position, executed, clock>>

SellOrder(a, s, n, p) ==
    /\ matching = {}
    /\ a \in opened
    /\ ~InsufficientShares(a, s, n)
    /\ CreateTransaction(a, s, -n, p)
    /\ position' = [position EXCEPT ![<<a, s>>] = @ - n]
    /\ FetchVectors(s)
    /\ UNCHANGED <<opened, balance, executed, clock>>
-----------------------------------------------------------------------------
(* matchOrders                                                              *)

Lesser(m, n) == IF m =< n THEN m ELSE n

\* Mutant of MatchAmount: one share a turn.
MatchOneShare(b, s) == 1

MatchAmount(b, s) == Lesser(b.Amount, -s.Amount)
MatchPrice(b, s) == IF b.OrderTime =< s.OrderTime THEN b.PriceLimit ELSE s.PriceLimit

\* Mutant of CanMatch: equal limits do not trade.
CanMatchStrictly ==
    /\ buying # <<>> /\ selling # <<>>
    /\ buying[1].PriceLimit > selling[1].PriceLimit

\* Mutant of CanMatch: the limits are not compared.
CanMatchAtAnyPrice == buying # <<>> /\ selling # <<>>

CanMatch ==
    /\ buying # <<>> /\ selling # <<>>
    /\ buying[1].PriceLimit >= selling[1].PriceLimit

\* Mutant of AfterMatch: a head that traded in part keeps its amount.
AfterMatchStale(vector, amount) ==
    IF vector[1].Amount = amount THEN Tail(vector) ELSE vector

\* The vector after its head traded: dropped when filled, lowered otherwise.
AfterMatch(vector, amount) ==
    IF vector[1].Amount = amount THEN Tail(vector)
    ELSE [vector EXCEPT ![1].Amount = @ - amount]

\* One turn of the loop on the heads of the two vectors.  The rows take the
\* vectors' amounts, not their own.
MatchHeads ==
    LET b == buying[1]
        s == selling[1]
        n == MatchAmount(b, s)
        p == MatchPrice(b, s)
    IN  /\ CanMatch
        /\ executed' = executed \o <<[TransID |-> b.TransID, Amount |-> n, Price |-> p],
                                     [TransID |-> s.TransID, Amount |-> -n, Price |-> p]>>
        /\ orders' = [orders EXCEPT ![b.TransID].Amount = b.Amount - n,
                                    ![s.TransID].Amount = s.Amount + n]
        /\ \E sym \in matching : position' = [position EXCEPT ![<<b.AccountID, sym>>] = @ + n]
        /\ balance' = [balance EXCEPT ![s.AccountID] = n * p + @]
        /\ buying' = AfterMatch(buying, n)
        /\ selling' = AfterMatch(selling, -n)
        /\ UNCHANGED <<opened, clock, matching>>

\* The loop ends, the order's transaction commits and the vectors go away.
Commit ==
    /\ matching # {} /\ ~CanMatch
    /\ matching' = {}
    /\ buying' = <<>>
    /\ selling' = <<>>
    /\ UNCHANGED <<tables, clock>>
-----------------------------------------------------------------------------
(* <transactions><cancel>                                                   *)

\* Mutant of CancelOrder: a sell's negative amount is added, not subtracted,
\* and a buy is refunded at one unit a share.
CancelOrderWrongRefund(i) ==
    LET o == orders[i] IN
    /\ matching = {}
    /\ o.Amount # 0 /\ o.CancelTime = NOTCANCELLED
    /\ orders' = [orders EXCEPT ![i].CancelTime = clock]
    /\ IF o.Amount < 0
       THEN /\ position' = [position EXCEPT ![<<o.AccountID, o.SymbolName>>] = @ + o.Amount]
            /\ UNCHANGED balance
       ELSE /\ balance' = [balance EXCEPT ![o.AccountID] = @ + o.Amount]
            /\ UNCHANGED position
    /\ UNCHANGED <<opened, executed, clock, matching, buying, selling>>

CancelOrder(i) ==
    LET o == orders[i] IN
    /\ matching = {}
    /\ o.Amount # 0 /\ o.CancelTime = NOTCANCELLED
    /\ orders' = [orders EXCEPT ![i].CancelTime = clock]
    /\ IF o.Amount < 0
       THEN /\ position' = [position EXCEPT ![<<o.AccountID, o.SymbolName>>] = @ - o.Amount]
            /\ UNCHANGED balance
       ELSE /\ balance' = [balance EXCEPT ![o.AccountID] = @ + o.Amount * o.PriceLimit]
            /\ UNCHANGED position
    /\ UNCHANGED <<opened, executed, clock, matching, buying, selling>>

\* A second passes.
Tick ==
    /\ clock < MaxTime
    /\ clock' = clock + 1
    /\ UNCHANGED <<tables, matching, buying, selling>>

Next ==
    \/ \E a \in Accounts, money \in Deposits : CreateAccount(a, money)
    \/ \E a \in Accounts, s \in Symbols, n \in Grants : CreatePosition(a, s, n)
    \/ \E a \in Accounts, s \in Symbols, n \in Amounts, p \in Prices : BuyOrder(a, s, n, p)
    \/ \E a \in Accounts, s \in Symbols, n \in Amounts, p \in Prices : SellOrder(a, s, n, p)
    \/ MatchHeads
    \/ Commit
    \/ \E i \in DOMAIN orders : CancelOrder(i)
    \/ Tick

Spec == Init /\ [][Next]_vars
=============================================================================
