--------------------------- MODULE ExchangeProofs ---------------------------
(***************************************************************************)
(* Proofs about the exchange server for every set of accounts, symbols,    *)
(* limits and sizes, any number of orders and any length of the run.       *)
(***************************************************************************)
EXTENDS ExchangeProperties, Induction, FiniteSetTheorems, SequenceTheorems, TLAPS

-----------------------------------------------------------------------------
LEMMA ActiveIdsFinite ==
    ASSUME NEW t \in Seq(OrderRow), NEW s
    PROVE  /\ IsFiniteSet(Buys(t, s)) /\ Cardinality(Buys(t, s)) \in Nat
           /\ IsFiniteSet(Sells(t, s)) /\ Cardinality(Sells(t, s)) \in Nat
<1>1. DOMAIN t = 1..Len(t) /\ Len(t) \in Nat
  OBVIOUS
<1>2. IsFiniteSet(1..Len(t))
  BY <1>1, FS_Interval
<1>3. Buys(t, s) \subseteq 1..Len(t) /\ Sells(t, s) \subseteq 1..Len(t)
  BY <1>1 DEF Buys, Sells
<1>4. IsFiniteSet(Buys(t, s)) /\ IsFiniteSet(Sells(t, s))
  BY <1>2, <1>3, FS_Subset
<1>. QED
  BY <1>4, FS_CardinalityType

LEMMA ActiveOrderType ==
    ASSUME NEW t \in Seq(OrderRow), NEW i \in DOMAIN t
    PROVE  ActiveOrderOf(t, i) \in ActiveOrder
<1>1. t[i] \in OrderRow /\ i \in Nat
  OBVIOUS
<1>. QED
  BY <1>1 DEF OrderRow, ActiveOrderOf, ActiveOrder

LEMMA FetchedVectors ==
    ASSUME NEW t \in Seq(OrderRow), NEW ids \in SUBSET DOMAIN t,
           IsFiniteSet(ids), Cardinality(ids) \in Nat, NEW v
    PROVE  /\ v \in DescendingOrders(t, ids) =>
                 v \in Seq(ActiveOrder) /\ Mirrors(v, t, ids) /\ Descending(v)
           /\ v \in AscendingOrders(t, ids) =>
                 v \in Seq(ActiveOrder) /\ Mirrors(v, t, ids) /\ Ascending(v)
<1> DEFINE n == Cardinality(ids)
<1>1. ASSUME NEW f \in Bijection(1..n, ids),
             v = [k \in 1..n |-> ActiveOrderOf(t, f[k])]
      PROVE  /\ v \in Seq(ActiveOrder) /\ Mirrors(v, t, ids)
             /\ DOMAIN v = 1..n
             /\ \A k \in 1..n : v[k].PriceLimit = t[f[k]].PriceLimit
  <2>1. /\ f \in [1..n -> ids]
        /\ \A i \in ids : \E k \in 1..n : f[k] = i
        /\ \A j, k \in 1..n : f[j] = f[k] => j = k
    BY <1>1 DEF Bijection, Injection, Surjection, IsInjective
  <2>2. \A k \in 1..n : ActiveOrderOf(t, f[k]) \in ActiveOrder
    BY <2>1, ActiveOrderType
  <2>3. v \in [1..n -> ActiveOrder]
    BY <1>1, <2>2
  <2>4. v \in Seq(ActiveOrder)
    BY <2>3
  <2>5. \A k \in 1..n : v[k] = ActiveOrderOf(t, f[k]) /\ v[k].TransID = f[k]
                        /\ v[k].PriceLimit = t[f[k]].PriceLimit
    BY <1>1 DEF ActiveOrderOf
  <2>6. DOMAIN v = 1..n
    BY <1>1
  <2>7. Mirrors(v, t, ids)
    <3>1. ASSUME NEW k \in DOMAIN v
          PROVE  v[k].TransID \in ids /\ v[k] = ActiveOrderOf(t, v[k].TransID)
      <4>1. v[k].TransID = f[k] /\ v[k] = ActiveOrderOf(t, f[k]) /\ f[k] \in ids
        BY <2>1, <2>5, <2>6
      <4>. QED
        BY <4>1
    <3>2. \A i \in ids : \E k \in DOMAIN v : v[k].TransID = i
      BY <2>1, <2>5, <2>6
    <3>3. \A j, k \in DOMAIN v : v[j].TransID = v[k].TransID => j = k
      BY <2>1, <2>5, <2>6
    <3>. QED
      BY <3>1, <3>2, <3>3 DEF Mirrors
  <2>. QED
    BY <2>4, <2>5, <2>6, <2>7
<1>2. ASSUME v \in DescendingOrders(t, ids)
      PROVE  v \in Seq(ActiveOrder) /\ Mirrors(v, t, ids) /\ Descending(v)
  <2>1. PICK f \in Bijection(1..n, ids) :
            /\ v = [k \in 1..n |-> ActiveOrderOf(t, f[k])]
            /\ \A j, k \in 1..n : j < k => t[f[j]].PriceLimit >= t[f[k]].PriceLimit
    BY <1>2 DEF DescendingOrders
  <2>. QED
    BY <2>1, <1>1 DEF Descending
<1>3. ASSUME v \in AscendingOrders(t, ids)
      PROVE  v \in Seq(ActiveOrder) /\ Mirrors(v, t, ids) /\ Ascending(v)
  <2>1. PICK f \in Bijection(1..n, ids) :
            /\ v = [k \in 1..n |-> ActiveOrderOf(t, f[k])]
            /\ \A j, k \in 1..n : j < k => t[f[j]].PriceLimit =< t[f[k]].PriceLimit
    BY <1>3 DEF AscendingOrders
  <2>. QED
    BY <2>1, <1>1 DEF Ascending
<1>. QED
  BY <1>2, <1>3

-----------------------------------------------------------------------------
(* Type correctness                                                         *)

LEMMA RowFields ==
    ASSUME NEW o \in OrderRow
    PROVE  /\ o.OrderTime \in Nat /\ o.AccountID \in Accounts /\ o.SymbolName \in Symbols
           /\ o.Amount \in Int /\ o.PriceLimit \in Prices /\ o.PriceLimit \in Nat
           /\ o.CancelTime \in Int
BY NumbersAssumption DEF OrderRow

LEMMA ActiveFields ==
    ASSUME NEW o \in ActiveOrder
    PROVE  /\ o.TransID \in Nat /\ o.OrderTime \in Nat /\ o.AccountID \in Accounts
           /\ o.Amount \in Int /\ o.PriceLimit \in Prices /\ o.PriceLimit \in Nat
BY NumbersAssumption DEF ActiveOrder

LEMMA NewRow ==
    ASSUME TypeOK, NEW a \in Accounts, NEW s \in Symbols, NEW n \in Int, NEW p \in Prices,
           CreateTransaction(a, s, n, p)
    PROVE  LET o == [OrderTime |-> clock, AccountID |-> a, SymbolName |-> s, Amount |-> n,
                     PriceLimit |-> p, CancelTime |-> NOTCANCELLED]
           IN  /\ o \in OrderRow
               /\ orders' = Append(orders, o)
               /\ orders' \in Seq(OrderRow)
<1>1. [OrderTime |-> clock, AccountID |-> a, SymbolName |-> s, Amount |-> n,
       PriceLimit |-> p, CancelTime |-> NOTCANCELLED] \in OrderRow
  BY DEF TypeOK, OrderRow, NOTCANCELLED
<1>. QED
  BY <1>1 DEF CreateTransaction, TypeOK

LEMMA AfterMatchType ==
    ASSUME NEW v \in Seq(ActiveOrder), v # <<>>, NEW n \in Int
    PROVE  AfterMatch(v, n) \in Seq(ActiveOrder)
<1>1. CASE v[1].Amount = n
  BY <1>1 DEF AfterMatch
<1>2. CASE v[1].Amount # n
  <2>1. v[1] \in ActiveOrder
    OBVIOUS
  <2>2. [v[1] EXCEPT !.Amount = @ - n] \in ActiveOrder
    BY <2>1 DEF ActiveOrder
  <2>. QED
    BY <1>2, <2>2 DEF AfterMatch
<1>. QED
  BY <1>1, <1>2

\* What a step of matchOrders works with.
LEMMA HeadsType ==
    ASSUME TypeOK, CanMatch
    PROVE  /\ buying[1] \in ActiveOrder /\ selling[1] \in ActiveOrder
           /\ MatchAmount(buying[1], selling[1]) \in Int
           /\ MatchPrice(buying[1], selling[1]) \in Prices
           /\ MatchPrice(buying[1], selling[1]) \in Nat
<1>1. buying[1] \in ActiveOrder /\ selling[1] \in ActiveOrder
  BY DEF TypeOK, CanMatch
<1>. QED
  BY <1>1, ActiveFields DEF MatchAmount, Lesser, MatchPrice

LEMMA FetchType ==
    ASSUME TypeOK, NEW s \in Symbols, orders' \in Seq(OrderRow), FetchVectors(s)
    PROVE  /\ matching' = {s}
           /\ buying' \in Seq(ActiveOrder) /\ Descending(buying')
           /\ Mirrors(buying', orders', Buys(orders', s))
           /\ selling' \in Seq(ActiveOrder) /\ Ascending(selling')
           /\ Mirrors(selling', orders', Sells(orders', s))
<1>1. Buys(orders', s) \subseteq DOMAIN orders' /\ Sells(orders', s) \subseteq DOMAIN orders'
  BY DEF Buys, Sells
<1>2. /\ IsFiniteSet(Buys(orders', s)) /\ Cardinality(Buys(orders', s)) \in Nat
      /\ IsFiniteSet(Sells(orders', s)) /\ Cardinality(Sells(orders', s)) \in Nat
  BY ActiveIdsFinite
<1>3. /\ buying' \in DescendingOrders(orders', Buys(orders', s))
      /\ selling' \in AscendingOrders(orders', Sells(orders', s))
      /\ matching' = {s}
  BY DEF FetchVectors
<1>4. buying' \in Seq(ActiveOrder) /\ Mirrors(buying', orders', Buys(orders', s)) /\ Descending(buying')
  BY <1>1, <1>2, <1>3, FetchedVectors
<1>5. selling' \in Seq(ActiveOrder) /\ Mirrors(selling', orders', Sells(orders', s)) /\ Ascending(selling')
  BY <1>1, <1>2, <1>3, FetchedVectors
<1>. QED
  BY <1>3, <1>4, <1>5

\* An account or a position that goes up or down.
LEMMA Additions ==
    ASSUME NEW S, NEW f \in [S -> Int], NEW x \in S, NEW d \in Int
    PROVE  /\ [f EXCEPT ![x] = @ + d] \in [S -> Int]
           /\ [f EXCEPT ![x] = d + @] \in [S -> Int]
           /\ [f EXCEPT ![x] = @ - d] \in [S -> Int]
           /\ \A y \in S : /\ [f EXCEPT ![x] = @ + d][y] = IF y = x THEN f[x] + d ELSE f[y]
                           /\ [f EXCEPT ![x] = d + @][y] = IF y = x THEN d + f[x] ELSE f[y]
                           /\ [f EXCEPT ![x] = @ - d][y] = IF y = x THEN f[x] - d ELSE f[y]
OBVIOUS

\* A row of TRANSACTION whose amount or cancel time is overwritten is still a
\* row, and nothing else in the table changes.
LEMMA RowUpdates ==
    ASSUME NEW t \in Seq(OrderRow), NEW i \in DOMAIN t, NEW m \in Int
    PROVE  LET u == [t EXCEPT ![i].Amount = m]
               w == [t EXCEPT ![i].CancelTime = m]
           IN  /\ u \in Seq(OrderRow) /\ DOMAIN u = DOMAIN t
               /\ u[i] = [t[i] EXCEPT !.Amount = m]
               /\ \A k \in DOMAIN t \ {i} : u[k] = t[k]
               /\ w \in Seq(OrderRow) /\ DOMAIN w = DOMAIN t
               /\ w[i] = [t[i] EXCEPT !.CancelTime = m]
               /\ \A k \in DOMAIN t \ {i} : w[k] = t[k]
<1>1. t[i] \in OrderRow /\ DOMAIN t = 1..Len(t)
  OBVIOUS
<1>2. [t[i] EXCEPT !.Amount = m] \in OrderRow /\ [t[i] EXCEPT !.CancelTime = m] \in OrderRow
  BY <1>1 DEF OrderRow
<1>. QED
  BY <1>1, <1>2, ExceptSeq

\* Two rows at once, as a match does.
LEMMA TwoRowUpdates ==
    ASSUME NEW t \in Seq(OrderRow), NEW i \in DOMAIN t, NEW j \in DOMAIN t, i # j,
           NEW m \in Int, NEW n \in Int
    PROVE  LET u == [t EXCEPT ![i].Amount = m, ![j].Amount = n]
           IN  /\ u \in Seq(OrderRow) /\ DOMAIN u = DOMAIN t
               /\ u[i] = [t[i] EXCEPT !.Amount = m]
               /\ u[j] = [t[j] EXCEPT !.Amount = n]
               /\ \A k \in DOMAIN t \ {i, j} : u[k] = t[k]
<1> DEFINE v == [t EXCEPT ![i].Amount = m]
<1>1. /\ v \in Seq(OrderRow) /\ DOMAIN v = DOMAIN t
      /\ v[i] = [t[i] EXCEPT !.Amount = m]
      /\ \A k \in DOMAIN t \ {i} : v[k] = t[k]
  BY RowUpdates
<1>2. [t EXCEPT ![i].Amount = m, ![j].Amount = n] = [v EXCEPT ![j].Amount = n]
  OBVIOUS
<1> HIDE DEF v
<1>3. /\ [v EXCEPT ![j].Amount = n] \in Seq(OrderRow)
      /\ DOMAIN [v EXCEPT ![j].Amount = n] = DOMAIN v
      /\ [v EXCEPT ![j].Amount = n][j] = [v[j] EXCEPT !.Amount = n]
      /\ \A k \in DOMAIN v \ {j} : [v EXCEPT ![j].Amount = n][k] = v[k]
  BY <1>1, RowUpdates
<1>. QED
  BY <1>1, <1>2, <1>3

-----------------------------------------------------------------------------
\* What every step preserves.
IInv == TypeOK /\ VectorsMirrorBook /\ NonNegative /\ ExecutedWithinLimits

\* The two heads are the rows of a buying and of a selling order.
LEMMA Heads ==
    ASSUME TypeOK, VectorsMirrorBook, CanMatch, NEW s \in matching
    PROVE  /\ s \in Symbols
           /\ buying[1].TransID \in Buys(orders, s)
           /\ selling[1].TransID \in Sells(orders, s)
           /\ buying[1] = ActiveOrderOf(orders, buying[1].TransID)
           /\ selling[1] = ActiveOrderOf(orders, selling[1].TransID)
           /\ buying[1].TransID \in DOMAIN orders /\ selling[1].TransID \in DOMAIN orders
           /\ buying[1].TransID # selling[1].TransID
           /\ buying[1].Amount > 0 /\ selling[1].Amount < 0
<1>1. 1 \in DOMAIN buying /\ 1 \in DOMAIN selling /\ s \in Symbols
  BY DEF TypeOK, CanMatch
<1>2. /\ buying[1].TransID \in Buys(orders, s)
      /\ selling[1].TransID \in Sells(orders, s)
      /\ buying[1] = ActiveOrderOf(orders, buying[1].TransID)
      /\ selling[1] = ActiveOrderOf(orders, selling[1].TransID)
  BY <1>1 DEF VectorsMirrorBook, Mirrors
<1>3. /\ buying[1].TransID \in DOMAIN orders /\ selling[1].TransID \in DOMAIN orders
      /\ orders[buying[1].TransID].Amount > 0 /\ orders[selling[1].TransID].Amount < 0
  BY <1>2 DEF Buys, Sells
<1>4. /\ buying[1].Amount = orders[buying[1].TransID].Amount
      /\ selling[1].Amount = orders[selling[1].TransID].Amount
  BY <1>2 DEF ActiveOrderOf
<1>5. /\ orders[buying[1].TransID].Amount \in Int /\ orders[selling[1].TransID].Amount \in Int
  BY <1>3, RowFields DEF TypeOK
<1>. QED
  BY <1>1, <1>2, <1>3, <1>4, <1>5

LEMMA TypeInvariance == TypeOK /\ VectorsMirrorBook /\ [Next]_vars => TypeOK'
<1>. SUFFICES ASSUME TypeOK, VectorsMirrorBook, [Next]_vars PROVE TypeOK'
  OBVIOUS
<1>. USE NumbersAssumption
<1>1. ASSUME NEW a \in Accounts, NEW money \in Deposits, CreateAccount(a, money)
      PROVE  TypeOK'
  BY <1>1 DEF CreateAccount, TypeOK
<1>2. ASSUME NEW a \in Accounts, NEW s \in Symbols, NEW n \in Grants, CreatePosition(a, s, n)
      PROVE  TypeOK'
  BY <1>2 DEF CreatePosition, TypeOK
<1>3. ASSUME NEW a \in Accounts, NEW s \in Symbols, NEW n \in Amounts, NEW p \in Prices,
             BuyOrder(a, s, n, p)
      PROVE  TypeOK'
  <2>1. n \in Int /\ p \in Int /\ n * p \in Int
    OBVIOUS
  <2>2. orders' \in Seq(OrderRow)
    BY <1>3, <2>1, NewRow DEF BuyOrder
  <2>3. balance' \in [Accounts -> Int]
    BY <1>3, <2>1 DEF BuyOrder, TypeOK
  <2>4. FetchVectors(s) /\ UNCHANGED <<opened, position, executed, clock>>
    BY <1>3 DEF BuyOrder
  <2>. QED
    BY <2>2, <2>3, <2>4, FetchType DEF TypeOK
<1>4. ASSUME NEW a \in Accounts, NEW s \in Symbols, NEW n \in Amounts, NEW p \in Prices,
             SellOrder(a, s, n, p)
      PROVE  TypeOK'
  <2>1. n \in Int /\ -n \in Int
    OBVIOUS
  <2>2. orders' \in Seq(OrderRow)
    BY <1>4, <2>1, NewRow DEF SellOrder
  <2>3. position' \in [Accounts \X Symbols -> Int]
    BY <1>4, <2>1 DEF SellOrder, TypeOK
  <2>4. FetchVectors(s) /\ UNCHANGED <<opened, balance, executed, clock>>
    BY <1>4 DEF SellOrder
  <2>. QED
    BY <2>2, <2>3, <2>4, FetchType DEF TypeOK
<1>5. ASSUME MatchHeads PROVE TypeOK'
  <2> DEFINE b == buying[1]
             s == selling[1]
             n == MatchAmount(b, s)
             p == MatchPrice(b, s)
  <2>1. CanMatch
    BY <1>5 DEF MatchHeads
  <2>2. b \in ActiveOrder /\ s \in ActiveOrder /\ n \in Int /\ p \in Prices /\ p \in Int
    BY <2>1, HeadsType
  <2>3. /\ b.TransID \in Nat /\ b.AccountID \in Accounts /\ b.Amount \in Int
        /\ s.TransID \in Nat /\ s.AccountID \in Accounts /\ s.Amount \in Int
    BY <2>2, ActiveFields
  <2> HIDE DEF b, s, n, p
  <2>4. n * p \in Int /\ -n \in Int /\ b.Amount - n \in Int /\ s.Amount + n \in Int
    BY <2>2, <2>3
  <2>5. orders' \in Seq(OrderRow)
    <3>1. orders' = [orders EXCEPT ![b.TransID].Amount = b.Amount - n,
                                   ![s.TransID].Amount = s.Amount + n]
      BY <1>5 DEF MatchHeads, b, s, n
    <3>2. /\ b.TransID \in DOMAIN orders /\ s.TransID \in DOMAIN orders
          /\ b.TransID # s.TransID
      BY <1>5, <2>1, Heads DEF MatchHeads, b, s
    <3>3. orders \in Seq(OrderRow)
      BY DEF TypeOK
    <3>4. \A i, j \in DOMAIN orders, m, l \in Int : i # j =>
              [orders EXCEPT ![i].Amount = m, ![j].Amount = l] \in Seq(OrderRow)
      BY <3>3, TwoRowUpdates
    <3>5. [orders EXCEPT ![b.TransID].Amount = b.Amount - n,
                         ![s.TransID].Amount = s.Amount + n] \in Seq(OrderRow)
      BY <3>2, <2>4, <3>4
    <3>. QED
      BY <3>1, <3>5
  <2>6. executed' \in Seq(ExecRow)
    <3>1. /\ [TransID |-> b.TransID, Amount |-> n, Price |-> p] \in ExecRow
          /\ [TransID |-> s.TransID, Amount |-> -n, Price |-> p] \in ExecRow
      BY <2>2, <2>3, <2>4 DEF ExecRow
    <3>2. executed' = executed \o <<[TransID |-> b.TransID, Amount |-> n, Price |-> p],
                                    [TransID |-> s.TransID, Amount |-> -n, Price |-> p]>>
      BY <1>5 DEF MatchHeads, b, s, n, p
    <3>. QED
      BY <3>1, <3>2 DEF TypeOK
  <2>7. position' \in [Accounts \X Symbols -> Int]
    <3>1. PICK sym \in matching : position' = [position EXCEPT ![<<b.AccountID, sym>>] = @ + n]
      BY <1>5 DEF MatchHeads, b, s, n
    <3>2. <<b.AccountID, sym>> \in Accounts \X Symbols
      BY <2>3 DEF TypeOK
    <3>. QED
      BY <3>1, <3>2, <2>2, Additions DEF TypeOK
  <2>8. balance' \in [Accounts -> Int]
    <3>1. balance' = [balance EXCEPT ![s.AccountID] = n * p + @]
      BY <1>5 DEF MatchHeads, b, s, n, p
    <3>. QED
      BY <3>1, <2>3, <2>4, Additions DEF TypeOK
  <2>9. buying' \in Seq(ActiveOrder) /\ selling' \in Seq(ActiveOrder)
    <3>1. /\ buying' = AfterMatch(buying, n) /\ selling' = AfterMatch(selling, -n)
          /\ buying # <<>> /\ selling # <<>>
      BY <1>5, <2>1 DEF MatchHeads, CanMatch, b, s, n
    <3>. QED
      BY <3>1, <2>2, <2>4, AfterMatchType DEF TypeOK
  <2>. QED
    BY <1>5, <2>5, <2>6, <2>7, <2>8, <2>9 DEF MatchHeads, TypeOK
<1>6. ASSUME Commit PROVE TypeOK'
  BY <1>6 DEF Commit, tables, TypeOK
<1>7. ASSUME NEW i \in DOMAIN orders, CancelOrder(i) PROVE TypeOK'
  <2> DEFINE o == orders[i]
  <2>1. o \in OrderRow
    BY DEF TypeOK
  <2>2. /\ o.AccountID \in Accounts /\ o.SymbolName \in Symbols
        /\ o.Amount \in Int /\ o.PriceLimit \in Int
    BY <2>1, RowFields
  <2> HIDE DEF o
  <2>3. o.Amount * o.PriceLimit \in Int /\ <<o.AccountID, o.SymbolName>> \in Accounts \X Symbols
    BY <2>2
  <2>4. orders' \in Seq(OrderRow)
    <3>1. orders' = [orders EXCEPT ![i].CancelTime = clock] /\ clock \in Int
      BY <1>7 DEF CancelOrder, TypeOK
    <3>. QED
      BY <3>1, RowUpdates DEF TypeOK
  <2>5. /\ \/ position' = [position EXCEPT ![<<o.AccountID, o.SymbolName>>] = @ - o.Amount]
           \/ position' = position
        /\ \/ balance' = [balance EXCEPT ![o.AccountID] = @ + o.Amount * o.PriceLimit]
           \/ balance' = balance
    BY <1>7 DEF CancelOrder, o
  <2>6. position' \in [Accounts \X Symbols -> Int]
    <3>1. position \in [Accounts \X Symbols -> Int]
      BY DEF TypeOK
    <3>2. [position EXCEPT ![<<o.AccountID, o.SymbolName>>] = @ - o.Amount]
            \in [Accounts \X Symbols -> Int]
      BY <2>2, <2>3, <3>1, Additions
    <3>. QED
      BY <2>5, <3>1, <3>2
  <2>7. balance' \in [Accounts -> Int]
    BY <2>2, <2>3, <2>5, Additions DEF TypeOK
  <2>. QED
    BY <1>7, <2>4, <2>6, <2>7 DEF CancelOrder, TypeOK
<1>8. ASSUME Tick PROVE TypeOK'
  BY <1>8 DEF Tick, tables, TypeOK
<1>9. ASSUME UNCHANGED vars PROVE TypeOK'
  BY <1>9 DEF vars, tables, TypeOK
<1>. QED
  BY <1>1, <1>2, <1>3, <1>4, <1>5, <1>6, <1>7, <1>8, <1>9 DEF Next

\* AfterMatch, entry by entry.
LEMMA AfterMatchEntries ==
    ASSUME NEW v \in Seq(ActiveOrder), v # <<>>, NEW n \in Int
    PROVE  LET w == AfterMatch(v, n)
           IN  /\ v[1].Amount = n =>
                     /\ DOMAIN w = 1..(Len(v) - 1)
                     /\ \A k \in DOMAIN w : k + 1 \in DOMAIN v /\ w[k] = v[k + 1]
               /\ v[1].Amount # n =>
                     /\ DOMAIN w = DOMAIN v
                     /\ w[1] = [v[1] EXCEPT !.Amount = @ - n]
                     /\ \A k \in DOMAIN v \ {1} : w[k] = v[k]
<1>1. CASE v[1].Amount = n
  BY <1>1, HeadTailProperties DEF AfterMatch
<1>2. CASE v[1].Amount # n
  BY <1>2 DEF AfterMatch
<1>. QED
  BY <1>1, <1>2

\* Dropping or lowering the head keeps the vector sorted.
LEMMA AfterMatchSorted ==
    ASSUME NEW v \in Seq(ActiveOrder), v # <<>>, NEW n \in Int
    PROVE  /\ Descending(v) => Descending(AfterMatch(v, n))
           /\ Ascending(v) => Ascending(AfterMatch(v, n))
<1> DEFINE w == AfterMatch(v, n)
<1>1. DOMAIN v = 1..Len(v) /\ Len(v) \in Nat /\ 1 \in DOMAIN v /\ v[1] \in ActiveOrder
  OBVIOUS
<1>2. CASE v[1].Amount = n
  <2>1. /\ DOMAIN w = 1..(Len(v) - 1)
        /\ \A k \in DOMAIN w : k + 1 \in DOMAIN v /\ w[k] = v[k + 1]
    BY <1>2, AfterMatchEntries
  <2> HIDE DEF w
  <2>2. \A j, k \in DOMAIN w : j < k => j + 1 < k + 1
    BY <2>1, <1>1
  <2>. QED
    BY <2>1, <2>2 DEF Descending, Ascending, w
<1>3. CASE v[1].Amount # n
  <2>1. /\ DOMAIN w = DOMAIN v
        /\ w[1] = [v[1] EXCEPT !.Amount = @ - n]
        /\ \A k \in DOMAIN v \ {1} : w[k] = v[k]
    BY <1>3, AfterMatchEntries
  <2>2. w[1].PriceLimit = v[1].PriceLimit
    BY <2>1, <1>1 DEF ActiveOrder
  <2> HIDE DEF w
  <2>3. \A k \in DOMAIN w : w[k].PriceLimit = v[k].PriceLimit
    BY <2>1, <2>2
  <2>. QED
    BY <2>1, <2>3 DEF Descending, Ascending, w
<1>. QED
  BY <1>2, <1>3

\* If the row of the head is lowered by n too and leaves the set of active rows
\* exactly when nothing is left of it, the vector still mirrors the table.
LEMMA AfterMatchMirrors ==
    ASSUME NEW v \in Seq(ActiveOrder), v # <<>>, NEW n \in Int,
           NEW t \in Seq(OrderRow), NEW u \in Seq(OrderRow), DOMAIN u = DOMAIN t,
           NEW ids \in SUBSET DOMAIN t, NEW ids2,
           Mirrors(v, t, ids),
           u[v[1].TransID] = [t[v[1].TransID] EXCEPT !.Amount = v[1].Amount - n],
           \A i \in ids \ {v[1].TransID} : u[i] = t[i],
           ids2 = IF v[1].Amount = n THEN ids \ {v[1].TransID} ELSE ids
    PROVE  Mirrors(AfterMatch(v, n), u, ids2)
<1> DEFINE w == AfterMatch(v, n)
           h == v[1].TransID
<1>1. /\ DOMAIN v = 1..Len(v) /\ Len(v) \in Nat /\ 1 \in DOMAIN v
      /\ v[1] \in ActiveOrder /\ v[1].Amount \in Int
      /\ h \in ids /\ t[h] \in OrderRow
  BY ActiveFields DEF Mirrors
<1>2. \A k \in DOMAIN v \ {1} : v[k].TransID \in ids \ {h}
  BY <1>1 DEF Mirrors
<1>3. \A k \in DOMAIN v \ {1} : v[k] = ActiveOrderOf(u, v[k].TransID)
  BY <1>2 DEF Mirrors, ActiveOrderOf
<1>4. CASE v[1].Amount = n
  <2>1. /\ DOMAIN w = 1..(Len(v) - 1)
        /\ \A k \in DOMAIN w : k + 1 \in DOMAIN v \ {1} /\ w[k] = v[k + 1]
    <3>1. w = Tail(v)
      BY <1>4 DEF AfterMatch
    <3>2. /\ DOMAIN w = 1..(Len(v) - 1)
          /\ \A k \in 1..(Len(v) - 1) : w[k] = v[k + 1]
      BY <3>1, <1>1
    <3>3. \A k \in 1..(Len(v) - 1) : k + 1 \in DOMAIN v \ {1}
      BY <1>1
    <3>. QED
      BY <3>2, <3>3
  <2>2. \A k \in DOMAIN v \ {1} : k - 1 \in DOMAIN w /\ w[k - 1] = v[k]
    BY <2>1, <1>1
  <2> HIDE DEF w
  <2>3. \A k \in DOMAIN w : w[k].TransID \in ids2 /\ w[k] = ActiveOrderOf(u, w[k].TransID)
    BY <2>1, <1>2, <1>3, <1>4
  <2>4. \A i \in ids2 : \E k \in DOMAIN w : w[k].TransID = i
    BY <2>2, <1>4 DEF Mirrors
  <2>5. \A j, k \in DOMAIN w : w[j].TransID = w[k].TransID => j = k
    BY <2>1, <1>1 DEF Mirrors
  <2>. QED
    BY <2>3, <2>4, <2>5 DEF Mirrors, w
<1>5. CASE v[1].Amount # n
  <2>1. /\ DOMAIN w = DOMAIN v
        /\ w[1] = [v[1] EXCEPT !.Amount = @ - n]
        /\ \A k \in DOMAIN v \ {1} : w[k] = v[k]
    BY <1>5, AfterMatchEntries
  <2>2. w[1].TransID = h
    BY <2>1, <1>1 DEF ActiveOrder
  <2>3. w[1] = ActiveOrderOf(u, h)
    <3>1. v[1] = ActiveOrderOf(t, h)
      BY <1>1 DEF Mirrors
    <3>2. /\ u[h].Amount = v[1].Amount - n /\ u[h].OrderTime = t[h].OrderTime
          /\ u[h].AccountID = t[h].AccountID /\ u[h].PriceLimit = t[h].PriceLimit
      BY <1>1 DEF OrderRow
    <3>. QED
      BY <2>1, <3>1, <3>2 DEF ActiveOrderOf
  <2> HIDE DEF w
  <2>4. \A k \in DOMAIN w : w[k].TransID = v[k].TransID
    BY <2>1, <2>2
  <2>5. \A k \in DOMAIN w : w[k].TransID \in ids2 /\ w[k] = ActiveOrderOf(u, w[k].TransID)
    BY <2>1, <2>2, <2>3, <1>1, <1>2, <1>3, <1>5
  <2>6. \A i \in ids2 : \E k \in DOMAIN w : w[k].TransID = i
    BY <2>1, <2>4, <1>5 DEF Mirrors
  <2>7. \A j, k \in DOMAIN w : w[j].TransID = w[k].TransID => j = k
    BY <2>1, <2>4 DEF Mirrors
  <2>. QED
    BY <2>5, <2>6, <2>7 DEF Mirrors, w
<1>. QED
  BY <1>4, <1>5

-----------------------------------------------------------------------------
(* The vectors mirror the book                                              *)

\* The state after a match, in terms of the table before it.
LEMMA MatchEffect ==
    ASSUME TypeOK, VectorsMirrorBook, MatchHeads
    PROVE  \E s \in matching :
             LET b == buying[1].TransID
                 a == selling[1].TransID
                 n == MatchAmount(buying[1], selling[1])
             IN  /\ matching = {s} /\ CanMatch
                 /\ n \in Int /\ n > 0
                 /\ n =< buying[1].Amount /\ n =< -selling[1].Amount
                 /\ b \in Buys(orders, s) /\ a \in Sells(orders, s) /\ b # a
                 /\ orders' \in Seq(OrderRow) /\ DOMAIN orders' = DOMAIN orders
                 /\ orders'[b] = [orders[b] EXCEPT !.Amount = buying[1].Amount - n]
                 /\ orders'[a] = [orders[a] EXCEPT !.Amount = selling[1].Amount + n]
                 /\ \A i \in DOMAIN orders \ {a, b} : orders'[i] = orders[i]
<1>1. PICK s \in matching : TRUE
  BY DEF MatchHeads
<1>2. matching = {s} /\ CanMatch
  BY <1>1 DEF VectorsMirrorBook, MatchHeads
<1> DEFINE b == buying[1].TransID
           a == selling[1].TransID
           n == MatchAmount(buying[1], selling[1])
<1>3. /\ b \in Buys(orders, s) /\ a \in Sells(orders, s) /\ b # a
      /\ b \in DOMAIN orders /\ a \in DOMAIN orders
      /\ buying[1].Amount > 0 /\ selling[1].Amount < 0
  BY <1>2, Heads
<1>4. buying[1].Amount \in Int /\ selling[1].Amount \in Int
  BY <1>2, HeadsType, ActiveFields
<1>5. n \in Int /\ n > 0 /\ n =< buying[1].Amount /\ n =< -selling[1].Amount
  BY <1>3, <1>4 DEF MatchAmount, Lesser
<1>6. orders' = [orders EXCEPT ![b].Amount = buying[1].Amount - n,
                               ![a].Amount = selling[1].Amount + n]
  BY DEF MatchHeads
<1> HIDE DEF a, b, n
<1>7. buying[1].Amount - n \in Int /\ selling[1].Amount + n \in Int
  BY <1>4, <1>5
<1>8. orders \in Seq(OrderRow)
  BY DEF TypeOK
<1>9. ASSUME NEW i \in DOMAIN orders, NEW j \in DOMAIN orders, i # j, NEW m \in Int, NEW l \in Int,
             NEW u, u = [orders EXCEPT ![i].Amount = m, ![j].Amount = l]
      PROVE  /\ u \in Seq(OrderRow) /\ DOMAIN u = DOMAIN orders
             /\ u[i] = [orders[i] EXCEPT !.Amount = m]
             /\ u[j] = [orders[j] EXCEPT !.Amount = l]
             /\ \A k \in DOMAIN orders \ {i, j} : u[k] = orders[k]
  BY <1>8, <1>9, TwoRowUpdates
<1>10. /\ orders' \in Seq(OrderRow) /\ DOMAIN orders' = DOMAIN orders
       /\ orders'[b] = [orders[b] EXCEPT !.Amount = buying[1].Amount - n]
       /\ orders'[a] = [orders[a] EXCEPT !.Amount = selling[1].Amount + n]
       /\ \A i \in DOMAIN orders \ {b, a} : orders'[i] = orders[i]
  BY <1>3, <1>6, <1>7, <1>9
<1>. QED
  BY <1>2, <1>3, <1>5, <1>10 DEF a, b, n

\* The active rows after a match.
LEMMA MatchedBook ==
    ASSUME TypeOK, VectorsMirrorBook, MatchHeads, NEW s \in matching
    PROVE  LET b == buying[1].TransID
               a == selling[1].TransID
               n == MatchAmount(buying[1], selling[1])
           IN  /\ Buys(orders', s) = IF buying[1].Amount = n THEN Buys(orders, s) \ {b}
                                     ELSE Buys(orders, s)
               /\ Sells(orders', s) = IF selling[1].Amount = -n THEN Sells(orders, s) \ {a}
                                      ELSE Sells(orders, s)
               /\ \A t \in Symbols \ matching :
                    Buys(orders', t) = Buys(orders, t) /\ Sells(orders', t) = Sells(orders, t)
<1> DEFINE b == buying[1].TransID
           a == selling[1].TransID
           n == MatchAmount(buying[1], selling[1])
<1>1. /\ matching = {s} /\ CanMatch
      /\ n \in Int /\ n > 0
      /\ n =< buying[1].Amount /\ n =< -selling[1].Amount
      /\ b \in Buys(orders, s) /\ a \in Sells(orders, s) /\ b # a
      /\ DOMAIN orders' = DOMAIN orders
      /\ orders'[b] = [orders[b] EXCEPT !.Amount = buying[1].Amount - n]
      /\ orders'[a] = [orders[a] EXCEPT !.Amount = selling[1].Amount + n]
      /\ \A i \in DOMAIN orders \ {a, b} : orders'[i] = orders[i]
  BY MatchEffect
<1>2. buying[1].Amount \in Int /\ selling[1].Amount \in Int
  BY <1>1, HeadsType, ActiveFields
<1> HIDE DEF a, b, n
<1>3. /\ orders[b] \in OrderRow /\ orders[a] \in OrderRow
      /\ b \in DOMAIN orders /\ a \in DOMAIN orders
      /\ orders[b].SymbolName = s /\ orders[a].SymbolName = s
      /\ orders[b].CancelTime = NOTCANCELLED /\ orders[a].CancelTime = NOTCANCELLED
  BY <1>1 DEF Buys, Sells, TypeOK
<1>4. /\ orders'[b].Amount = buying[1].Amount - n /\ orders'[a].Amount = selling[1].Amount + n
      /\ orders'[b].SymbolName = s /\ orders'[a].SymbolName = s
      /\ orders'[b].CancelTime = NOTCANCELLED /\ orders'[a].CancelTime = NOTCANCELLED
  BY <1>1, <1>3 DEF OrderRow
<1>5. /\ orders'[b].Amount >= 0 /\ (orders'[b].Amount = 0 <=> buying[1].Amount = n)
      /\ orders'[a].Amount =< 0 /\ (orders'[a].Amount = 0 <=> selling[1].Amount = -n)
      /\ orders'[b].Amount \in Int /\ orders'[a].Amount \in Int
  BY <1>1, <1>2, <1>4
<1>16. a \in DOMAIN orders' /\ b \in DOMAIN orders'
  BY <1>1, <1>3
<1>17. /\ orders'[b].Amount > 0 <=> buying[1].Amount # n
       /\ orders'[a].Amount < 0 <=> selling[1].Amount # -n
  BY <1>5
<1>6. b \in Buys(orders', s) <=> buying[1].Amount # n
  BY <1>4, <1>16, <1>17 DEF Buys
<1>7. a \in Sells(orders', s) <=> selling[1].Amount # -n
  BY <1>4, <1>16, <1>17 DEF Sells
<1>8. /\ a \notin Buys(orders', s) /\ a \notin Buys(orders, s)
      /\ b \notin Sells(orders', s) /\ b \notin Sells(orders, s)
  <2>1. orders[a].Amount < 0 /\ orders[b].Amount > 0
    BY <1>1 DEF Buys, Sells
  <2>2. orders[a].Amount \in Int /\ orders[b].Amount \in Int
    BY <1>3, RowFields
  <2>. QED
    BY <2>1, <2>2, <1>5 DEF Buys, Sells
<1>9. \A i \in DOMAIN orders \ {a, b}, t \in Symbols :
         (i \in Buys(orders', t) <=> i \in Buys(orders, t))
         /\ (i \in Sells(orders', t) <=> i \in Sells(orders, t))
  BY <1>1 DEF Buys, Sells
<1>10. \A t : /\ Buys(orders', t) \subseteq DOMAIN orders /\ Buys(orders, t) \subseteq DOMAIN orders
              /\ Sells(orders', t) \subseteq DOMAIN orders /\ Sells(orders, t) \subseteq DOMAIN orders
  BY <1>1 DEF Buys, Sells
<1>11. \A t \in Symbols \ matching :
         /\ a \notin Buys(orders', t) /\ b \notin Buys(orders', t)
         /\ a \notin Buys(orders, t) /\ b \notin Buys(orders, t)
         /\ a \notin Sells(orders', t) /\ b \notin Sells(orders', t)
         /\ a \notin Sells(orders, t) /\ b \notin Sells(orders, t)
  BY <1>1, <1>3, <1>4 DEF Buys, Sells
<1>12. s \in Symbols
  BY DEF TypeOK
<1>13. Buys(orders', s) = IF buying[1].Amount = n THEN Buys(orders, s) \ {b} ELSE Buys(orders, s)
  <2>1. \A i \in DOMAIN orders : i # b => (i \in Buys(orders', s) <=> i \in Buys(orders, s))
    BY <1>8, <1>9, <1>12
  <2>2. b \in Buys(orders, s)
    BY <1>1
  <2>. QED
    BY <1>6, <1>10, <2>1, <2>2
<1>14. Sells(orders', s) = IF selling[1].Amount = -n THEN Sells(orders, s) \ {a}
                           ELSE Sells(orders, s)
  <2>1. \A i \in DOMAIN orders : i # a => (i \in Sells(orders', s) <=> i \in Sells(orders, s))
    BY <1>8, <1>9, <1>12
  <2>2. a \in Sells(orders, s)
    BY <1>1
  <2>. QED
    BY <1>7, <1>10, <2>1, <2>2
<1>15. \A t \in Symbols \ matching :
          Buys(orders', t) = Buys(orders, t) /\ Sells(orders', t) = Sells(orders, t)
  <2>1. ASSUME NEW t \in Symbols \ matching
        PROVE  Buys(orders', t) = Buys(orders, t) /\ Sells(orders', t) = Sells(orders, t)
    <3>1. \A i \in DOMAIN orders : /\ i \in Buys(orders', t) <=> i \in Buys(orders, t)
                                   /\ i \in Sells(orders', t) <=> i \in Sells(orders, t)
      BY <1>9, <1>11, <2>1
    <3>2. /\ Buys(orders', t) \subseteq DOMAIN orders /\ Buys(orders, t) \subseteq DOMAIN orders
          /\ Sells(orders', t) \subseteq DOMAIN orders /\ Sells(orders, t) \subseteq DOMAIN orders
      BY <1>10
    <3>3. Buys(orders', t) \subseteq Buys(orders, t) /\ Buys(orders, t) \subseteq Buys(orders', t)
      BY <3>1, <3>2
    <3>4. Sells(orders', t) \subseteq Sells(orders, t) /\ Sells(orders, t) \subseteq Sells(orders', t)
      BY <3>1, <3>2
    <3>. QED
      BY <3>3, <3>4
  <2>. QED
    BY <2>1
<1>. QED
  BY <1>13, <1>14, <1>15 DEF a, b, n

\* Filing an order in an empty-handed state: the new row belongs to s, and the
\* other symbols keep their rows.
LEMMA FiledBook ==
    ASSUME TypeOK, NEW o \in OrderRow, orders' = Append(orders, o),
           NEW t \in Symbols, t # o.SymbolName
    PROVE  /\ Buys(orders', t) = Buys(orders, t)
           /\ Sells(orders', t) = Sells(orders, t)
           /\ \A i \in DOMAIN orders : orders'[i] = orders[i]
<1>1. /\ orders \in Seq(OrderRow) /\ Len(orders) \in Nat /\ DOMAIN orders = 1..Len(orders)
      /\ DOMAIN orders' = 1..(Len(orders) + 1)
      /\ orders'[Len(orders) + 1] = o
      /\ \A i \in DOMAIN orders : orders'[i] = orders[i]
  BY DEF TypeOK
<1>2. \A i \in DOMAIN orders' : i \in DOMAIN orders \/ orders'[i] = o
  BY <1>1
<1>3. \A i \in DOMAIN orders : i \in DOMAIN orders'
  BY <1>1
<1>4. Buys(orders', t) = Buys(orders, t)
  BY <1>1, <1>2, <1>3 DEF Buys
<1>5. Sells(orders', t) = Sells(orders, t)
  BY <1>1, <1>2, <1>3 DEF Sells
<1>. QED
  BY <1>1, <1>4, <1>5

LEMMA FilingKeepsMirrors ==
    ASSUME TypeOK, VectorsMirrorBook, matching = {}, NEW a \in Accounts, NEW s \in Symbols,
           NEW n \in Int, NEW p \in Prices, CreateTransaction(a, s, n, p), FetchVectors(s)
    PROVE  VectorsMirrorBook'
<1>1. PICK o \in OrderRow : orders' = Append(orders, o) /\ o.SymbolName = s
  BY NewRow
<1>2. orders' \in Seq(OrderRow)
  BY NewRow
<1>3. /\ matching' = {s}
      /\ Mirrors(buying', orders', Buys(orders', s)) /\ Descending(buying')
      /\ Mirrors(selling', orders', Sells(orders', s)) /\ Ascending(selling')
  BY <1>2, FetchType
<1>4. ASSUME NEW t \in Symbols \ {s}, NEW b \in Buys(orders', t), NEW c \in Sells(orders', t)
      PROVE  orders'[b].PriceLimit < orders'[c].PriceLimit
  <2>1. /\ b \in Buys(orders, t) /\ c \in Sells(orders, t)
        /\ \A i \in DOMAIN orders : orders'[i] = orders[i]
    BY <1>1, <1>4, FiledBook
  <2>2. b \in DOMAIN orders /\ c \in DOMAIN orders
    BY <2>1 DEF Buys, Sells
  <2>3. orders[b].PriceLimit < orders[c].PriceLimit
    BY <2>1 DEF VectorsMirrorBook
  <2>. QED
    BY <2>1, <2>2, <2>3
<1>. QED
  BY <1>3, <1>4 DEF VectorsMirrorBook

LEMMA MirrorsInvariance == TypeOK /\ VectorsMirrorBook /\ [Next]_vars => VectorsMirrorBook'
<1>. SUFFICES ASSUME TypeOK, VectorsMirrorBook, [Next]_vars PROVE VectorsMirrorBook'
  OBVIOUS
<1>1. ASSUME UNCHANGED <<matching, orders, buying, selling>> PROVE VectorsMirrorBook'
  BY <1>1 DEF VectorsMirrorBook
<1>2. ASSUME NEW a \in Accounts, NEW money \in Deposits, CreateAccount(a, money)
      PROVE  VectorsMirrorBook'
  BY <1>1, <1>2 DEF CreateAccount
<1>3. ASSUME NEW a \in Accounts, NEW s \in Symbols, NEW n \in Grants, CreatePosition(a, s, n)
      PROVE  VectorsMirrorBook'
  BY <1>1, <1>3 DEF CreatePosition
<1>4. ASSUME NEW a \in Accounts, NEW s \in Symbols, NEW n \in Amounts, NEW p \in Prices,
             BuyOrder(a, s, n, p)
      PROVE  VectorsMirrorBook'
  <2>1. n \in Int
    BY NumbersAssumption
  <2>. QED
    BY <1>4, <2>1, FilingKeepsMirrors DEF BuyOrder
<1>5. ASSUME NEW a \in Accounts, NEW s \in Symbols, NEW n \in Amounts, NEW p \in Prices,
             SellOrder(a, s, n, p)
      PROVE  VectorsMirrorBook'
  <2>1. -n \in Int
    BY NumbersAssumption
  <2>. QED
    BY <1>5, <2>1, FilingKeepsMirrors DEF SellOrder
<1>6. ASSUME MatchHeads PROVE VectorsMirrorBook'
  <2>1. PICK s \in matching : TRUE
    BY <1>6 DEF MatchHeads
  <2> DEFINE b == buying[1].TransID
             a == selling[1].TransID
             n == MatchAmount(buying[1], selling[1])
  <2>2. /\ matching = {s} /\ CanMatch /\ n \in Int
        /\ b \in Buys(orders, s) /\ a \in Sells(orders, s) /\ b # a
        /\ orders' \in Seq(OrderRow) /\ DOMAIN orders' = DOMAIN orders
        /\ orders'[b] = [orders[b] EXCEPT !.Amount = buying[1].Amount - n]
        /\ orders'[a] = [orders[a] EXCEPT !.Amount = selling[1].Amount + n]
        /\ \A i \in DOMAIN orders \ {a, b} : orders'[i] = orders[i]
    BY <1>6, <2>1, MatchEffect
  <2>3. /\ Buys(orders', s) = IF buying[1].Amount = n THEN Buys(orders, s) \ {b}
                              ELSE Buys(orders, s)
        /\ Sells(orders', s) = IF selling[1].Amount = -n THEN Sells(orders, s) \ {a}
                               ELSE Sells(orders, s)
        /\ \A t \in Symbols \ matching :
             Buys(orders', t) = Buys(orders, t) /\ Sells(orders', t) = Sells(orders, t)
    BY <1>6, <2>1, MatchedBook
  <2>4. /\ matching' = matching
        /\ buying' = AfterMatch(buying, n) /\ selling' = AfterMatch(selling, -n)
        /\ buying # <<>> /\ selling # <<>>
        /\ buying \in Seq(ActiveOrder) /\ selling \in Seq(ActiveOrder)
        /\ orders \in Seq(OrderRow)
    BY <1>6 DEF MatchHeads, CanMatch, TypeOK
  <2>5. selling[1].Amount \in Int /\ -n \in Int
    BY <2>2, HeadsType, ActiveFields
  <2>6. /\ Mirrors(buying, orders, Buys(orders, s)) /\ Descending(buying)
        /\ Mirrors(selling, orders, Sells(orders, s)) /\ Ascending(selling)
    BY <2>2 DEF VectorsMirrorBook
  <2>7. /\ Buys(orders, s) \subseteq DOMAIN orders /\ Sells(orders, s) \subseteq DOMAIN orders
        /\ a \notin Buys(orders, s) /\ b \notin Sells(orders, s)
    <3>1. /\ a \in DOMAIN orders /\ b \in DOMAIN orders
          /\ orders[a].Amount < 0 /\ orders[b].Amount > 0
      BY <2>2 DEF Buys, Sells
    <3>2. orders[a].Amount \in Int /\ orders[b].Amount \in Int
      BY <3>1, <2>4, RowFields
    <3>. QED
      BY <3>1, <3>2 DEF Buys, Sells
  <2>8. Mirrors(buying', orders', Buys(orders', s))
    <3>1. \A i \in Buys(orders, s) \ {b} : orders'[i] = orders[i]
      BY <2>2, <2>7
    <3>. QED
      BY <3>1, <2>2, <2>3, <2>4, <2>6, <2>7, AfterMatchMirrors
  <2>9. Mirrors(selling', orders', Sells(orders', s))
    <3>1. \A i \in Sells(orders, s) \ {a} : orders'[i] = orders[i]
      BY <2>2, <2>7
    <3>2. selling[1].Amount - (-n) = selling[1].Amount + n
      BY <2>2, <2>5
    <3>3. orders'[a] = [orders[a] EXCEPT !.Amount = selling[1].Amount - (-n)]
      BY <2>2, <3>2
    <3>. QED
      BY <3>1, <3>3, <2>2, <2>3, <2>4, <2>5, <2>6, <2>7, AfterMatchMirrors
  <2>10. Descending(buying') /\ Ascending(selling')
    BY <2>2, <2>4, <2>5, <2>6, AfterMatchSorted
  <2>11. ASSUME NEW t \in Symbols \ matching', NEW c \in Buys(orders', t), NEW d \in Sells(orders', t)
         PROVE  orders'[c].PriceLimit < orders'[d].PriceLimit
    <3>1. t \in Symbols \ matching /\ t # s
      BY <2>2, <2>4, <2>11
    <3>2. c \in Buys(orders, t) /\ d \in Sells(orders, t)
      BY <3>1, <2>3, <2>11
    <3>3. orders[c].PriceLimit < orders[d].PriceLimit
      BY <3>1, <3>2 DEF VectorsMirrorBook
    <3>4. /\ c \in DOMAIN orders /\ d \in DOMAIN orders
          /\ orders[c].SymbolName = t /\ orders[d].SymbolName = t
          /\ orders[b].SymbolName = s /\ orders[a].SymbolName = s
      BY <3>2, <2>2 DEF Buys, Sells
    <3>5. orders'[c] = orders[c] /\ orders'[d] = orders[d]
      BY <3>1, <3>4, <2>2
    <3>. QED
      BY <3>3, <3>5
  <2> HIDE DEF a, b, n
  <2>. QED
    BY <2>2, <2>4, <2>8, <2>9, <2>10, <2>11 DEF VectorsMirrorBook
<1>7. ASSUME Commit PROVE VectorsMirrorBook'
  <2>1. PICK s \in matching : TRUE
    BY <1>7 DEF Commit
  <2>2. /\ matching = {s} /\ s \in Symbols /\ ~CanMatch
        /\ matching' = {} /\ orders' = orders
    BY <1>7, <2>1 DEF Commit, tables, VectorsMirrorBook, TypeOK
  <2>3. ASSUME NEW c \in Buys(orders, s), NEW d \in Sells(orders, s)
        PROVE  orders[c].PriceLimit < orders[d].PriceLimit
    <3>1. PICK j \in DOMAIN buying : buying[j].TransID = c /\ buying[j] = ActiveOrderOf(orders, c)
      BY <2>2, <2>3 DEF VectorsMirrorBook, Mirrors
    <3>2. PICK k \in DOMAIN selling : selling[k].TransID = d /\ selling[k] = ActiveOrderOf(orders, d)
      BY <2>2, <2>3 DEF VectorsMirrorBook, Mirrors
    <3>3. buying[j].PriceLimit = orders[c].PriceLimit /\ selling[k].PriceLimit = orders[d].PriceLimit
      BY <3>1, <3>2 DEF ActiveOrderOf
    <3>4. /\ 1 \in DOMAIN buying /\ j \in Nat /\ 1 =< j /\ buying # <<>>
          /\ 1 \in DOMAIN selling /\ k \in Nat /\ 1 =< k /\ selling # <<>>
      BY DEF TypeOK
    <3>5. /\ buying[1].PriceLimit \in Nat /\ buying[j].PriceLimit \in Nat
          /\ selling[1].PriceLimit \in Nat /\ selling[k].PriceLimit \in Nat
      BY <3>4, ActiveFields DEF TypeOK
    <3>6. Descending(buying) /\ Ascending(selling)
      BY <2>2 DEF VectorsMirrorBook
    <3>7. buying[1].PriceLimit >= buying[j].PriceLimit /\ selling[1].PriceLimit =< selling[k].PriceLimit
      BY <3>4, <3>5, <3>6 DEF Descending, Ascending
    <3>8. buying[1].PriceLimit < selling[1].PriceLimit
      BY <2>2, <3>4, <3>5 DEF CanMatch
    <3>. QED
      BY <3>3, <3>5, <3>7, <3>8
  <2>. QED
    BY <2>2, <2>3 DEF VectorsMirrorBook
<1>8. ASSUME NEW i \in DOMAIN orders, CancelOrder(i) PROVE VectorsMirrorBook'
  <2>1. /\ matching = {} /\ matching' = {}
        /\ orders' = [orders EXCEPT ![i].CancelTime = clock]
    BY <1>8 DEF CancelOrder
  <2>2. orders \in Seq(OrderRow) /\ orders[i] \in OrderRow /\ clock \in Int
    BY DEF TypeOK
  <2>3. /\ DOMAIN orders' = DOMAIN orders
        /\ orders'[i] = [orders[i] EXCEPT !.CancelTime = clock]
        /\ \A k \in DOMAIN orders \ {i} : orders'[k] = orders[k]
    BY <2>1, <2>2, RowUpdates
  <2>4. /\ clock # NOTCANCELLED
        /\ orders'[i].CancelTime = clock
    BY <2>2, <2>3 DEF TypeOK, OrderRow, NOTCANCELLED
  <2>5. ASSUME NEW t \in Symbols, NEW c \in Buys(orders', t), NEW d \in Sells(orders', t)
        PROVE  orders'[c].PriceLimit < orders'[d].PriceLimit
    <3>1. /\ c \in DOMAIN orders /\ d \in DOMAIN orders /\ c # i /\ d # i
      BY <2>3, <2>4, <2>5 DEF Buys, Sells
    <3>2. orders'[c] = orders[c] /\ orders'[d] = orders[d]
      BY <2>3, <3>1
    <3>3. c \in Buys(orders, t) /\ d \in Sells(orders, t)
      BY <2>5, <3>1, <3>2 DEF Buys, Sells
    <3>. QED
      BY <2>1, <3>2, <3>3 DEF VectorsMirrorBook
  <2>. QED
    BY <2>1, <2>5 DEF VectorsMirrorBook
<1>9. ASSUME Tick PROVE VectorsMirrorBook'
  BY <1>1, <1>9 DEF Tick, tables
<1>10. ASSUME UNCHANGED vars PROVE VectorsMirrorBook'
  BY <1>1, <1>10 DEF vars, tables
<1>. QED
  BY <1>2, <1>3, <1>4, <1>5, <1>6, <1>7, <1>8, <1>9, <1>10 DEF Next

-----------------------------------------------------------------------------
(* Cash, shares and prices                                                  *)

LEMMA Products ==
    ASSUME NEW m \in Nat, NEW n \in Nat
    PROVE  m * n \in Nat
OBVIOUS

LEMMA NonNegativeInvariance ==
    TypeOK /\ VectorsMirrorBook /\ NonNegative /\ [Next]_vars => NonNegative'
<1>. SUFFICES ASSUME TypeOK, VectorsMirrorBook, NonNegative, [Next]_vars PROVE NonNegative'
  OBVIOUS
<1>. USE NumbersAssumption
<1>0. /\ balance \in [Accounts -> Int] /\ position \in [Accounts \X Symbols -> Int]
      /\ \A a \in Accounts : balance[a] >= 0
      /\ \A h \in Accounts \X Symbols : position[h] >= 0
  BY DEF TypeOK, NonNegative
<1>1. ASSUME NEW x \in Accounts, NEW d \in Int, balance[x] + d >= 0,
             balance' = [balance EXCEPT ![x] = @ + d]
      PROVE  \A a \in Accounts : balance'[a] >= 0
  BY <1>0, <1>1, Additions
<1>3. ASSUME \A a \in Accounts : balance'[a] >= 0, \A h \in Accounts \X Symbols : position'[h] >= 0
      PROVE  NonNegative'
  BY <1>3 DEF NonNegative
<1>4. ASSUME UNCHANGED <<balance, position>> PROVE NonNegative'
  BY <1>4 DEF NonNegative
<1>5. ASSUME NEW a \in Accounts, NEW money \in Deposits, CreateAccount(a, money)
      PROVE  NonNegative'
  BY <1>5, <1>0, <1>3 DEF CreateAccount
<1>6. ASSUME NEW a \in Accounts, NEW s \in Symbols, NEW n \in Grants, CreatePosition(a, s, n)
      PROVE  NonNegative'
  <2>1. <<a, s>> \in Accounts \X Symbols /\ n \in Nat /\ n \in Int
    OBVIOUS
  <2>2. position' = [position EXCEPT ![<<a, s>>] = @ + n] /\ balance' = balance
    BY <1>6 DEF CreatePosition
  <2>3. \A h \in Accounts \X Symbols :
            position'[h] = IF h = <<a, s>> THEN position[h] + n ELSE position[h]
    BY <1>0, <2>1, <2>2, Additions
  <2>4. \A h \in Accounts \X Symbols : position'[h] >= 0
    BY <1>0, <2>1, <2>3
  <2>. QED
    BY <1>0, <1>3, <2>2, <2>4
<1>7. ASSUME NEW a \in Accounts, NEW s \in Symbols, NEW n \in Amounts, NEW p \in Prices,
             BuyOrder(a, s, n, p)
      PROVE  NonNegative'
  <2> DEFINE d == n * p
  <2>1. d \in Int
    BY Products
  <2>2. ~(balance[a] < d) /\ balance' = [balance EXCEPT ![a] = @ - d] /\ position' = position
    BY <1>7 DEF BuyOrder, InsufficientFunds
  <2> HIDE DEF d
  <2>3. \A x \in Accounts : balance'[x] = IF x = a THEN balance[a] - d ELSE balance[x]
    BY <1>0, <2>1, <2>2, Additions
  <2>4. \A x \in Accounts : balance'[x] >= 0
    BY <1>0, <2>1, <2>2, <2>3
  <2>. QED
    BY <1>0, <1>3, <2>2, <2>4
<1>8. ASSUME NEW a \in Accounts, NEW s \in Symbols, NEW n \in Amounts, NEW p \in Prices,
             SellOrder(a, s, n, p)
      PROVE  NonNegative'
  <2>1. <<a, s>> \in Accounts \X Symbols /\ n \in Int
    OBVIOUS
  <2>2. /\ ~(position[<<a, s>>] < n) /\ position' = [position EXCEPT ![<<a, s>>] = @ - n]
        /\ balance' = balance
    BY <1>8 DEF SellOrder, InsufficientShares
  <2>3. \A h \in Accounts \X Symbols :
            position'[h] = IF h = <<a, s>> THEN position[<<a, s>>] - n ELSE position[h]
    BY <1>0, <2>1, <2>2, Additions
  <2>4. \A h \in Accounts \X Symbols : position'[h] >= 0
    BY <1>0, <2>1, <2>2, <2>3
  <2>. QED
    BY <1>0, <1>3, <2>2, <2>4
<1>9. ASSUME MatchHeads PROVE NonNegative'
  <2> DEFINE b == buying[1]
             s == selling[1]
             n == MatchAmount(b, s)
             p == MatchPrice(b, s)
             d == n * p
  <2>1. CanMatch /\ n > 0 /\ n \in Int
    BY <1>9, MatchEffect
  <2>2. p \in Nat /\ b.AccountID \in Accounts /\ s.AccountID \in Accounts
    BY <2>1, HeadsType, ActiveFields
  <2>3. balance' = [balance EXCEPT ![s.AccountID] = d + @]
    BY <1>9 DEF MatchHeads
  <2>4. PICK sym \in matching : position' = [position EXCEPT ![<<b.AccountID, sym>>] = @ + n]
    BY <1>9 DEF MatchHeads
  <2> HIDE DEF b, s, n, p
  <2>5. n \in Nat /\ d \in Nat /\ d \in Int
    BY <2>1, <2>2, Products
  <2> HIDE DEF d
  <2>6. <<b.AccountID, sym>> \in Accounts \X Symbols
    BY <2>2 DEF TypeOK
  <2>7. \A h \in Accounts \X Symbols :
            position'[h] = IF h = <<b.AccountID, sym>> THEN position[h] + n ELSE position[h]
    BY <1>0, <2>1, <2>4, <2>6, Additions
  <2>8. \A h \in Accounts \X Symbols : position'[h] >= 0
    BY <1>0, <2>5, <2>7
  <2>9. \A x \in Accounts : balance'[x] = IF x = s.AccountID THEN d + balance[x] ELSE balance[x]
    BY <1>0, <2>2, <2>3, <2>5, Additions
  <2>10. \A x \in Accounts : balance'[x] >= 0
    BY <1>0, <2>5, <2>9
  <2>. QED
    BY <1>3, <2>8, <2>10
<1>10. ASSUME NEW i \in DOMAIN orders, CancelOrder(i) PROVE NonNegative'
  <2> DEFINE o == orders[i]
             h == <<o.AccountID, o.SymbolName>>
             d == o.Amount * o.PriceLimit
  <2>1. /\ o.Amount \in Int /\ o.PriceLimit \in Nat /\ h \in Accounts \X Symbols
        /\ o.AccountID \in Accounts
    BY RowFields DEF TypeOK
  <2>2. CASE o.Amount < 0
    <3>1. position' = [position EXCEPT ![h] = @ - o.Amount] /\ balance' = balance
      BY <1>10, <2>2 DEF CancelOrder
    <3> HIDE DEF o, h
    <3>2. \A g \in Accounts \X Symbols :
              position'[g] = IF g = h THEN position[h] - o.Amount ELSE position[g]
      BY <1>0, <2>1, <3>1, Additions
    <3>3. \A g \in Accounts \X Symbols : position'[g] >= 0
      BY <1>0, <2>1, <2>2, <3>2
    <3>. QED
      BY <1>0, <1>3, <3>1, <3>3
  <2>3. CASE ~(o.Amount < 0)
    <3>1. balance' = [balance EXCEPT ![o.AccountID] = @ + d] /\ position' = position
      BY <1>10, <2>3 DEF CancelOrder
    <3> HIDE DEF o, h
    <3>2. o.Amount \in Nat
      BY <2>1, <2>3
    <3>3. d \in Nat /\ d \in Int
      BY <2>1, <3>2, Products
    <3> HIDE DEF d
    <3>4. balance[o.AccountID] + d >= 0
      BY <1>0, <2>1, <3>3
    <3>5. \A x \in Accounts : balance'[x] >= 0
      BY <1>1, <2>1, <3>1, <3>3, <3>4
    <3>. QED
      BY <1>0, <1>3, <3>1, <3>5
  <2>. QED
    BY <2>2, <2>3
<1>11. ASSUME Commit \/ Tick \/ UNCHANGED vars PROVE NonNegative'
  BY <1>4, <1>11 DEF Commit, Tick, tables, vars
<1>. QED
  BY <1>5, <1>6, <1>7, <1>8, <1>9, <1>10, <1>11 DEF Next

\* An order keeps its limit for as long as the table exists.
LEMMA LimitsKept ==
    ASSUME TypeOK, VectorsMirrorBook, [Next]_vars, NEW i \in DOMAIN orders
    PROVE  /\ i \in DOMAIN orders' /\ orders'[i].PriceLimit = orders[i].PriceLimit
           /\ orders'[i].AccountID = orders[i].AccountID /\ orders'[i].SymbolName = orders[i].SymbolName
<1>0. orders \in Seq(OrderRow) /\ orders[i] \in OrderRow /\ DOMAIN orders = 1..Len(orders)
      /\ Len(orders) \in Nat
  BY DEF TypeOK
<1>1. CASE UNCHANGED orders
  BY <1>1
<1>2. ASSUME NEW o, orders' = Append(orders, o)
      PROVE  /\ i \in DOMAIN orders' /\ orders'[i].PriceLimit = orders[i].PriceLimit
             /\ orders'[i].AccountID = orders[i].AccountID /\ orders'[i].SymbolName = orders[i].SymbolName
  BY <1>0, <1>2
<1>3. CASE MatchHeads
  <2> DEFINE b == buying[1].TransID
             a == selling[1].TransID
             n == MatchAmount(buying[1], selling[1])
  <2>1. /\ DOMAIN orders' = DOMAIN orders
        /\ orders'[b] = [orders[b] EXCEPT !.Amount = buying[1].Amount - n]
        /\ orders'[a] = [orders[a] EXCEPT !.Amount = selling[1].Amount + n]
        /\ \A k \in DOMAIN orders \ {a, b} : orders'[k] = orders[k]
    BY <1>3, MatchEffect
  <2> HIDE DEF a, b, n
  <2>2. CASE i = a \/ i = b
    BY <1>0, <2>1, <2>2 DEF OrderRow
  <2>3. CASE i # a /\ i # b
    BY <2>1, <2>3
  <2>. QED
    BY <2>1, <2>2, <2>3
<1>4. ASSUME NEW j \in DOMAIN orders, CancelOrder(j)
      PROVE  /\ i \in DOMAIN orders' /\ orders'[i].PriceLimit = orders[i].PriceLimit
             /\ orders'[i].AccountID = orders[i].AccountID /\ orders'[i].SymbolName = orders[i].SymbolName
  <2>1. /\ DOMAIN orders' = DOMAIN orders
        /\ orders'[j] = [orders[j] EXCEPT !.CancelTime = clock]
        /\ \A k \in DOMAIN orders \ {j} : orders'[k] = orders[k]
    BY <1>0, <1>4, RowUpdates DEF CancelOrder, TypeOK
  <2>2. CASE i = j
    BY <1>0, <2>1, <2>2 DEF OrderRow
  <2>3. CASE i # j
    BY <2>1, <2>3
  <2>. QED
    BY <2>1, <2>2, <2>3
<1>. QED
  BY <1>1, <1>2, <1>3, <1>4
     DEF Next, vars, tables, CreateAccount, CreatePosition, BuyOrder, SellOrder,
         CreateTransaction, Commit, Tick

LEMMA ExecutedInvariance ==
    TypeOK /\ VectorsMirrorBook /\ ExecutedWithinLimits /\ [Next]_vars => ExecutedWithinLimits'
<1>. SUFFICES ASSUME TypeOK, VectorsMirrorBook, ExecutedWithinLimits, [Next]_vars
              PROVE  ExecutedWithinLimits'
  OBVIOUS
<1>1. ASSUME NEW k \in DOMAIN executed, executed'[k] = executed[k]
      PROVE  LET e == executed'[k]
             IN  /\ e.TransID \in DOMAIN orders'
                 /\ e.Amount > 0 => e.Price =< orders'[e.TransID].PriceLimit
                 /\ e.Amount < 0 => e.Price >= orders'[e.TransID].PriceLimit
  <2>1. /\ executed[k].TransID \in DOMAIN orders
        /\ executed[k].Amount > 0 => executed[k].Price =< orders[executed[k].TransID].PriceLimit
        /\ executed[k].Amount < 0 => executed[k].Price >= orders[executed[k].TransID].PriceLimit
    BY DEF ExecutedWithinLimits
  <2>. QED
    BY <1>1, <2>1, LimitsKept
<1>2. CASE UNCHANGED executed
  BY <1>1, <1>2 DEF ExecutedWithinLimits
<1>3. CASE MatchHeads
  <2> DEFINE b == buying[1]
             a == selling[1]
             n == MatchAmount(b, a)
             p == MatchPrice(b, a)
             l == Len(executed)
             row1 == [TransID |-> b.TransID, Amount |-> n, Price |-> p]
             row2 == [TransID |-> a.TransID, Amount |-> -n, Price |-> p]
  <2>1. PICK s \in matching : matching = {s} /\ CanMatch /\ n \in Int /\ n > 0
    BY <1>3, MatchEffect
  <2>2. /\ b = ActiveOrderOf(orders, b.TransID) /\ a = ActiveOrderOf(orders, a.TransID)
        /\ b.TransID \in DOMAIN orders /\ a.TransID \in DOMAIN orders
    BY <2>1, Heads
  <2>3. b \in ActiveOrder /\ a \in ActiveOrder
    BY <2>1, HeadsType
  <2>4. b.PriceLimit = orders[b.TransID].PriceLimit /\ a.PriceLimit = orders[a.TransID].PriceLimit
    BY <2>2 DEF ActiveOrderOf
  <2>5. b.PriceLimit \in Nat /\ a.PriceLimit \in Nat /\ b.PriceLimit >= a.PriceLimit
    BY <2>1, <2>3, ActiveFields DEF CanMatch
  <2>6. p \in Nat /\ p =< b.PriceLimit /\ p >= a.PriceLimit
    BY <2>5 DEF MatchPrice
  <2>7. /\ b.TransID \in DOMAIN orders' /\ orders'[b.TransID].PriceLimit = b.PriceLimit
        /\ a.TransID \in DOMAIN orders' /\ orders'[a.TransID].PriceLimit = a.PriceLimit
    BY <2>2, <2>4, LimitsKept
  <2>8. executed' = executed \o <<row1, row2>>
    BY <1>3 DEF MatchHeads
  <2>9. /\ row1.TransID = b.TransID /\ row1.Amount = n /\ row1.Price = p
        /\ row2.TransID = a.TransID /\ row2.Amount = -n /\ row2.Price = p
    OBVIOUS
  <2> HIDE DEF b, a, n, p, row1, row2
  <2>10. /\ l \in Nat /\ DOMAIN executed = 1..l /\ DOMAIN executed' = 1..(l + 2)
         /\ \A k \in 1..l : executed'[k] = executed[k]
         /\ executed'[l + 1] = row1 /\ executed'[l + 2] = row2
    BY <2>8 DEF TypeOK
  <2>11. ASSUME NEW k \in DOMAIN executed'
         PROVE  LET e == executed'[k]
                IN  /\ e.TransID \in DOMAIN orders'
                    /\ e.Amount > 0 => e.Price =< orders'[e.TransID].PriceLimit
                    /\ e.Amount < 0 => e.Price >= orders'[e.TransID].PriceLimit
    <3>1. CASE k \in 1..l
      BY <1>1, <2>10, <3>1
    <3>2. CASE k = l + 1
      BY <2>1, <2>6, <2>7, <2>9, <2>10, <3>2
    <3>3. CASE k = l + 2
      BY <2>1, <2>6, <2>7, <2>9, <2>10, <3>3
    <3>4. k \in 1..l \/ k = l + 1 \/ k = l + 2
      BY <2>10
    <3>. QED
      BY <3>1, <3>2, <3>3, <3>4
  <2>. QED
    BY <2>11 DEF ExecutedWithinLimits
<1>. QED
  BY <1>2, <1>3 DEF Next, vars, tables, CreateAccount, CreatePosition, BuyOrder, SellOrder,
                    CancelOrder, Commit, Tick

-----------------------------------------------------------------------------
(* The results                                                              *)

LEMMA InitInv == Init => IInv
<1>. SUFFICES ASSUME Init PROVE IInv
  OBVIOUS
<1>1. TypeOK
  BY DEF Init, TypeOK
<1>2. VectorsMirrorBook
  BY DEF Init, VectorsMirrorBook, Buys, Sells
<1>3. NonNegative /\ ExecutedWithinLimits
  BY DEF Init, NonNegative, ExecutedWithinLimits
<1>. QED
  BY <1>1, <1>2, <1>3 DEF IInv

LEMMA NextInv == IInv /\ [Next]_vars => IInv'
BY TypeInvariance, MirrorsInvariance, NonNegativeInvariance, ExecutedInvariance DEF IInv

LEMMA InvariantHolds == Spec => []IInv
BY InitInv, NextInv, PTL DEF Spec

\* Every table, vector and counter keeps its type: no handler writes a value of
\* the wrong kind into a column, and the vectors only ever hold active orders.
THEOREM TypeCorrect == Spec => []TypeOK
<1>1. IInv => TypeOK
  BY DEF IInv
<1>. QED
  BY <1>1, InvariantHolds, PTL

\* The copies in matchOrders' vectors never differ from the rows they are
\* written back to, so its literal UPDATEs lose nothing.
THEOREM VectorsAreTheBook == Spec => []VectorsMirrorBook
<1>1. IInv => VectorsMirrorBook
  BY DEF IInv
<1>. QED
  BY <1>1, InvariantHolds, PTL

\* However many requests come, no balance and no position is ever negative.
THEOREM NobodyOverdraws == Spec => []NonNegative
<1>1. IInv => NonNegative
  BY DEF IInv
<1>. QED
  BY <1>1, InvariantHolds, PTL

\* Whenever a request arrives, no two orders are left that could trade.
THEOREM BookUncrossedBetweenRequests == Spec => []NoCrossedBook
<1>1. IInv => NoCrossedBook
  BY DEF IInv, VectorsMirrorBook, NoCrossedBook
<1>. QED
  BY <1>1, InvariantHolds, PTL

\* Nobody ever buys above or sells below his limit.
THEOREM LimitsRespected == Spec => []ExecutedWithinLimits
<1>1. IInv => ExecutedWithinLimits
  BY DEF IInv
<1>. QED
  BY <1>1, InvariantHolds, PTL

-----------------------------------------------------------------------------
(* What a step may do, from the invariant                                   *)

\* A row is active for a symbol as a buying or as a selling order.
LEMMA ActiveRows ==
    ASSUME TypeOK, NEW s, NEW i, i \in Buys(orders, s) \/ i \in Sells(orders, s)
    PROVE  /\ i \in DOMAIN orders /\ orders[i] \in OrderRow /\ Active(i)
           /\ orders[i].SymbolName = s /\ orders[i].CancelTime = NOTCANCELLED
           /\ i \in Buys(orders, s) <=> orders[i].Amount > 0
           /\ i \in Sells(orders, s) <=> orders[i].Amount < 0
<1>1. i \in DOMAIN orders /\ orders[i] \in OrderRow
  BY DEF Buys, Sells, TypeOK
<1>2. orders[i].Amount \in Int
  BY <1>1, RowFields
<1>. QED
  BY <1>1, <1>2 DEF Buys, Sells, Active

\* What a turn of the loop appends to EXECUTED.
LEMMA MatchRecords ==
    ASSUME TypeOK, MatchHeads
    PROVE  LET l == Len(executed)
               n == MatchAmount(buying[1], selling[1])
               p == MatchPrice(buying[1], selling[1])
           IN  /\ l \in Nat /\ DOMAIN executed = 1..l /\ Len(executed') = l + 2
               /\ DOMAIN executed' = 1..(l + 2)
               /\ executed'[l + 1] = [TransID |-> buying[1].TransID, Amount |-> n, Price |-> p]
               /\ executed'[l + 2] = [TransID |-> selling[1].TransID, Amount |-> -n, Price |-> p]
<1> DEFINE n == MatchAmount(buying[1], selling[1])
           p == MatchPrice(buying[1], selling[1])
           row1 == [TransID |-> buying[1].TransID, Amount |-> n, Price |-> p]
           row2 == [TransID |-> selling[1].TransID, Amount |-> -n, Price |-> p]
<1>1. executed' = executed \o <<row1, row2>>
  BY DEF MatchHeads
<1> HIDE DEF row1, row2
<1>2. executed \in Seq(ExecRow)
  BY DEF TypeOK
<1>3. /\ Len(executed) \in Nat /\ DOMAIN executed = 1..Len(executed)
      /\ Len(executed') = Len(executed) + 2
      /\ DOMAIN executed' = 1..(Len(executed) + 2)
      /\ executed'[Len(executed) + 1] = row1 /\ executed'[Len(executed) + 2] = row2
  BY <1>1, <1>2
<1>. QED
  BY <1>3 DEF row1, row2

\* EXECUTED grows in a turn of the loop only.
LEMMA OthersExecuteNothing ==
    ASSUME [Next]_vars, ~MatchHeads
    PROVE  UNCHANGED executed
BY DEF Next, vars, tables, CreateAccount, CreatePosition, BuyOrder, SellOrder, CancelOrder, Commit, Tick

-----------------------------------------------------------------------------
(* Closed orders                                                            *)

LEMMA ClosedStep ==
    ASSUME IInv, [Next]_vars, NEW i \in DOMAIN orders, ~Active(i)
    PROVE  /\ orders'[i] = orders[i]
           /\ \A k \in DOMAIN executed' \ DOMAIN executed : executed'[k].TransID # i
<1>0. /\ TypeOK /\ VectorsMirrorBook
      /\ orders \in Seq(OrderRow) /\ orders[i] \in OrderRow
      /\ DOMAIN orders = 1..Len(orders) /\ Len(orders) \in Nat
  BY DEF IInv, TypeOK
<1>1. CASE MatchHeads
  <2> DEFINE b == buying[1].TransID
             a == selling[1].TransID
  <2>1. PICK s \in matching :
            /\ b \in Buys(orders, s) /\ a \in Sells(orders, s)
            /\ \A k \in DOMAIN orders \ {a, b} : orders'[k] = orders[k]
    BY <1>0, <1>1, MatchEffect
  <2>2. Active(b) /\ Active(a)
    BY <1>0, <2>1, ActiveRows
  <2>3. i # b /\ i # a
    BY <2>2
  <2>4. \A k \in DOMAIN executed' \ DOMAIN executed : executed'[k].TransID \in {a, b}
    BY <1>0, <1>1, MatchRecords
  <2>. QED
    BY <2>1, <2>3, <2>4
<1>2. ASSUME NEW j \in DOMAIN orders, CancelOrder(j)
      PROVE  orders'[i] = orders[i]
  <2>1. j # i
    BY <1>2 DEF CancelOrder, Active
  <2>2. orders' = [orders EXCEPT ![j].CancelTime = clock]
    BY <1>2 DEF CancelOrder
  <2>. QED
    BY <1>0, <2>1, <2>2
<1>3. ASSUME NEW o, orders' = Append(orders, o)
      PROVE  orders'[i] = orders[i]
  BY <1>0, <1>3
<1>4. CASE ~MatchHeads
  <2>1. executed' = executed
    BY <1>4, OthersExecuteNothing
  <2>2. orders'[i] = orders[i]
    BY <1>2, <1>3, <1>4
       DEF Next, vars, tables, CreateAccount, CreatePosition, BuyOrder, SellOrder,
           CreateTransaction, Commit, Tick
  <2>. QED
    BY <2>1, <2>2
<1>. QED
  BY <1>1, <1>4

\* Whatever clients send, a cancelled or filled order is closed for good: no match
\* writes its row from an old copy and no cancellation refunds it again.
THEOREM ClosedForGood == Spec => ClosedOrdersStayClosed
<1>1. IInv /\ [Next]_vars => KeepsClosed
  BY ClosedStep DEF KeepsClosed
<1>. QED
  BY <1>1, InvariantHolds, PTL DEF Spec, ClosedOrdersStayClosed

-----------------------------------------------------------------------------
(* The turns of the loop                                                    *)

\* The heads are the rows with the best limits.
LEMMA HeadsAreBest ==
    ASSUME TypeOK, VectorsMirrorBook, CanMatch, NEW s \in matching
    PROVE  /\ \A i \in Buys(orders, s) : orders[i].PriceLimit =< orders[buying[1].TransID].PriceLimit
           /\ \A i \in Sells(orders, s) : orders[i].PriceLimit >= orders[selling[1].TransID].PriceLimit
<1>1. /\ buying # <<>> /\ selling # <<>>
      /\ buying \in Seq(ActiveOrder) /\ selling \in Seq(ActiveOrder)
      /\ Mirrors(buying, orders, Buys(orders, s)) /\ Descending(buying)
      /\ Mirrors(selling, orders, Sells(orders, s)) /\ Ascending(selling)
  BY DEF TypeOK, CanMatch, VectorsMirrorBook
<1>2. \A k \in DOMAIN buying : /\ 1 \in DOMAIN buying /\ k >= 1 /\ k \in Nat
                               /\ buying[k].PriceLimit \in Nat
                               /\ buying[k].PriceLimit = orders[buying[k].TransID].PriceLimit
  BY <1>1, ActiveFields DEF Mirrors, ActiveOrderOf
<1>3. \A k \in DOMAIN selling : /\ 1 \in DOMAIN selling /\ k >= 1 /\ k \in Nat
                                /\ selling[k].PriceLimit \in Nat
                                /\ selling[k].PriceLimit = orders[selling[k].TransID].PriceLimit
  BY <1>1, ActiveFields DEF Mirrors, ActiveOrderOf
<1>4. ASSUME NEW i \in Buys(orders, s)
      PROVE  orders[i].PriceLimit =< orders[buying[1].TransID].PriceLimit
  <2>1. PICK k \in DOMAIN buying : buying[k].TransID = i
    BY <1>1 DEF Mirrors
  <2>2. buying[1].PriceLimit >= buying[k].PriceLimit
    BY <1>1, <1>2 DEF Descending
  <2>. QED
    BY <1>2, <2>1, <2>2
<1>5. ASSUME NEW i \in Sells(orders, s)
      PROVE  orders[i].PriceLimit >= orders[selling[1].TransID].PriceLimit
  <2>1. PICK k \in DOMAIN selling : selling[k].TransID = i
    BY <1>1 DEF Mirrors
  <2>2. selling[1].PriceLimit =< selling[k].PriceLimit
    BY <1>1, <1>3 DEF Ascending
  <2>. QED
    BY <1>3, <2>1, <2>2
<1>. QED
  BY <1>4, <1>5

LEMMA BestStep == IInv /\ [Next]_vars => TradesBest
<1>. SUFFICES ASSUME IInv, [Next]_vars, Len(executed') > Len(executed)
              PROVE  LET b == executed'[Len(executed) + 1].TransID
                         a == executed'[Len(executed) + 2].TransID
                         s == orders[b].SymbolName
                     IN  /\ a \in Sells(orders, s) /\ b \in Buys(orders, s)
                         /\ \A i \in Buys(orders, s) : orders[i].PriceLimit =< orders[b].PriceLimit
                         /\ \A i \in Sells(orders, s) : orders[i].PriceLimit >= orders[a].PriceLimit
  BY DEF TradesBest
<1>1. TypeOK /\ VectorsMirrorBook
  BY DEF IInv
<1>2. MatchHeads
  <2>1. Len(executed) \in Nat
    BY <1>1 DEF TypeOK
  <2>. QED
    BY <2>1, OthersExecuteNothing
<1>3. /\ executed'[Len(executed) + 1].TransID = buying[1].TransID
      /\ executed'[Len(executed) + 2].TransID = selling[1].TransID
  BY <1>1, <1>2, MatchRecords
<1>4. PICK s \in matching : /\ CanMatch
                            /\ buying[1].TransID \in Buys(orders, s)
                            /\ selling[1].TransID \in Sells(orders, s)
  BY <1>1, <1>2, MatchEffect
<1>5. orders[buying[1].TransID].SymbolName = s
  BY <1>1, <1>4, ActiveRows
<1>. QED
  BY <1>1, <1>3, <1>4, <1>5, HeadsAreBest

\* A trade is always one of the highest buying limit with the lowest selling limit
\* that are open for the symbol: no request overtakes a better one that waits.
THEOREM BestTradesFirst == Spec => BestLimitsFirst
<1>. QED
  BY BestStep, InvariantHolds, PTL DEF Spec, BestLimitsFirst

\* The length of a vector whose head has traded.
LEMMA AfterMatchLength ==
    ASSUME NEW v \in Seq(ActiveOrder), v # <<>>, NEW n
    PROVE  /\ v[1].Amount = n => Len(AfterMatch(v, n)) = Len(v) - 1
           /\ v[1].Amount # n => Len(AfterMatch(v, n)) = Len(v)
<1>1. CASE v[1].Amount = n
  BY <1>1 DEF AfterMatch
<1>2. CASE v[1].Amount # n
  <2>1. AfterMatch(v, n) = [v EXCEPT ![1] = [v[1] EXCEPT !.Amount = @ - n]]
    BY <1>2 DEF AfterMatch
  <2>. QED
    BY <1>2, <2>1
<1>. QED
  BY <1>1, <1>2

LEMMA ClosingStep == IInv /\ [Next]_vars => ClosesAnOrder
<1>. SUFFICES ASSUME IInv, [Next]_vars, Len(executed') > Len(executed)
              PROVE  /\ Len(buying') + Len(selling') < Len(buying) + Len(selling)
                     /\ \E k \in DOMAIN executed' \ DOMAIN executed :
                           Active(executed'[k].TransID) /\ orders'[executed'[k].TransID].Amount = 0
  BY DEF ClosesAnOrder
<1> DEFINE b == buying[1]
           a == selling[1]
           n == MatchAmount(b, a)
<1>1. /\ TypeOK /\ VectorsMirrorBook
      /\ buying \in Seq(ActiveOrder) /\ selling \in Seq(ActiveOrder)
      /\ Len(buying) \in Nat /\ Len(selling) \in Nat /\ Len(executed) \in Nat
  BY DEF IInv, TypeOK
<1>2. MatchHeads
  BY <1>1, OthersExecuteNothing
<1>3. PICK s \in matching :
         /\ CanMatch
         /\ b.TransID \in Buys(orders, s) /\ a.TransID \in Sells(orders, s)
         /\ orders'[b.TransID] = [orders[b.TransID] EXCEPT !.Amount = b.Amount - n]
         /\ orders'[a.TransID] = [orders[a.TransID] EXCEPT !.Amount = a.Amount + n]
  BY <1>1, <1>2, MatchEffect
<1>4. /\ b \in ActiveOrder /\ a \in ActiveOrder /\ b.Amount \in Int /\ a.Amount \in Int
      /\ buying # <<>> /\ selling # <<>>
  BY <1>1, <1>3, HeadsType, ActiveFields DEF CanMatch
<1>5. n \in Int /\ (n = b.Amount \/ n = -a.Amount)
  BY <1>4 DEF MatchAmount, Lesser
<1>6. buying' = AfterMatch(buying, n) /\ selling' = AfterMatch(selling, -n)
  BY <1>2 DEF MatchHeads
<1>7. /\ Active(b.TransID) /\ orders[b.TransID] \in OrderRow
      /\ Active(a.TransID) /\ orders[a.TransID] \in OrderRow
  BY <1>1, <1>3, ActiveRows
<1>8. /\ orders'[b.TransID].Amount = b.Amount - n
      /\ orders'[a.TransID].Amount = a.Amount + n
  BY <1>3, <1>7 DEF OrderRow
<1>9. /\ Len(executed) + 1 \in DOMAIN executed' \ DOMAIN executed
      /\ Len(executed) + 2 \in DOMAIN executed' \ DOMAIN executed
      /\ executed'[Len(executed) + 1].TransID = b.TransID
      /\ executed'[Len(executed) + 2].TransID = a.TransID
  BY <1>1, <1>2, MatchRecords
<1> HIDE DEF a, b, n
<1>10. /\ b.Amount = n => Len(buying') = Len(buying) - 1
       /\ b.Amount # n => Len(buying') = Len(buying)
       /\ a.Amount = -n => Len(selling') = Len(selling) - 1
       /\ a.Amount # -n => Len(selling') = Len(selling)
  BY <1>1, <1>4, <1>6, AfterMatchLength DEF a, b
<1>11. Len(buying') + Len(selling') < Len(buying) + Len(selling)
  BY <1>1, <1>4, <1>5, <1>10
<1>12. CASE n = b.Amount
  BY <1>4, <1>7, <1>8, <1>9, <1>11, <1>12
<1>13. CASE n = -a.Amount
  BY <1>4, <1>7, <1>8, <1>9, <1>11, <1>13
<1>. QED
  BY <1>5, <1>12, <1>13

\* Every turn of matchOrders closes an order and shortens the vectors, so that
\* the loop makes no more turns than they have entries, whatever the book holds.
THEOREM EveryTurnClosesAnOrder == Spec => TurnsCloseOrders
<1>. QED
  BY ClosingStep, InvariantHolds, PTL DEF Spec, TurnsCloseOrders

-----------------------------------------------------------------------------
(* Every step is a step of the market                                       *)

LEMMA SameBook ==
    ASSUME NEW s
    PROVE  MarketPlace!Bids(s) = Buys(orders, s) /\ MarketPlace!Asks(s) = Sells(orders, s)
BY DEF MarketPlace!Bids, MarketPlace!Asks, Buys, Sells, Book, Entry

\* Between requests the market has nothing left to trade.
LEMMA RestIsSettled ==
    ASSUME TypeOK, VectorsMirrorBook, matching = {}
    PROVE  MarketPlace!Settled
<1>. SUFFICES ASSUME NEW s \in Symbols, NEW b \in Buys(orders, s), NEW a \in Sells(orders, s)
              PROVE  ~(Book(orders)[b].limit >= Book(orders)[a].limit)
  BY SameBook DEF MarketPlace!Settled, MarketPlace!Crosses
<1>1. orders[b].PriceLimit < orders[a].PriceLimit
  BY DEF VectorsMirrorBook
<1>2. b \in DOMAIN orders /\ a \in DOMAIN orders
  BY DEF Buys, Sells
<1>3. orders[b].PriceLimit \in Nat /\ orders[a].PriceLimit \in Nat
  BY <1>2, RowFields DEF TypeOK
<1>. QED
  BY <1>1, <1>2, <1>3 DEF Book, Entry

LEMMA BookOfAppended ==
    ASSUME NEW t \in Seq(OrderRow), NEW o \in OrderRow
    PROVE  Book(Append(t, o)) = Append(Book(t), Entry(o))
<1>1. /\ DOMAIN t = 1..Len(t) /\ Len(t) \in Nat
      /\ DOMAIN Append(t, o) = 1..(Len(t) + 1)
      /\ \A i \in 1..Len(t) : Append(t, o)[i] = t[i]
      /\ Append(t, o)[Len(t) + 1] = o
  OBVIOUS
<1>2. Book(t) \in Seq({Entry(t[i]) : i \in DOMAIN t}) /\ Len(Book(t)) = Len(t)
  BY <1>1 DEF Book
<1>. QED
  BY <1>1, <1>2 DEF Book

LEMMA OrderIsBidOrAsk ==
    ASSUME TypeOK, VectorsMirrorBook,
           NEW a \in Accounts, NEW s \in Symbols, NEW n \in Amounts, NEW p \in Prices
    PROVE  /\ BuyOrder(a, s, n, p) => MarketPlace!Bid(a, s, n, p)
           /\ SellOrder(a, s, n, p) => MarketPlace!Ask(a, s, n, p)
<1>0. n \in Nat /\ p \in Nat /\ n * p \in Int /\ balance[a] \in Int /\ position[<<a, s>>] \in Int
  BY NumbersAssumption DEF TypeOK
<1>1. ASSUME NEW m \in Int, CreateTransaction(a, s, m, p)
      PROVE  Book(orders)' = Append(Book(orders),
                 [owner |-> a, sym |-> s, open |-> m, limit |-> p, state |-> "placed"])
  <2> DEFINE o == [OrderTime |-> clock, AccountID |-> a, SymbolName |-> s, Amount |-> m,
                   PriceLimit |-> p, CancelTime |-> NOTCANCELLED]
  <2>1. o \in OrderRow /\ orders' = Append(orders, o)
    BY <1>1, NewRow
  <2>2. Entry(o) = [owner |-> a, sym |-> s, open |-> m, limit |-> p, state |-> "placed"]
    BY DEF Entry
  <2>3. orders \in Seq(OrderRow)
    BY DEF TypeOK
  <2> HIDE DEF o
  <2>. QED
    BY <2>1, <2>2, <2>3, BookOfAppended
<1>2. ASSUME BuyOrder(a, s, n, p) PROVE MarketPlace!Bid(a, s, n, p)
  BY <1>0, <1>1, <1>2, RestIsSettled DEF BuyOrder, InsufficientFunds, MarketPlace!Bid
<1>3. ASSUME SellOrder(a, s, n, p) PROVE MarketPlace!Ask(a, s, n, p)
  BY <1>0, <1>1, <1>3, RestIsSettled DEF SellOrder, InsufficientShares, MarketPlace!Ask
<1>. QED
  BY <1>2, <1>3

LEMMA CancelIsWithdraw ==
    ASSUME TypeOK, VectorsMirrorBook, NEW i \in DOMAIN orders, CancelOrder(i)
    PROVE  i \in DOMAIN Book(orders) /\ MarketPlace!Withdraw(i)
<1>1. /\ i \in DOMAIN Book(orders) /\ Book(orders)[i] = Entry(orders[i])
      /\ orders \in Seq(OrderRow) /\ clock \in Nat
  BY DEF Book, TypeOK
<1>2. /\ DOMAIN orders' = DOMAIN orders
      /\ orders'[i] = [orders[i] EXCEPT !.CancelTime = clock]
      /\ \A k \in DOMAIN orders \ {i} : orders'[k] = orders[k]
  BY <1>1, RowUpdates DEF CancelOrder
<1>3. orders[i] \in OrderRow
  BY <1>1
<1>4. Entry(orders'[i]) = [Entry(orders[i]) EXCEPT !.state = "withdrawn"]
  <2>1. /\ orders'[i].CancelTime = clock /\ clock # NOTCANCELLED
        /\ orders'[i].AccountID = orders[i].AccountID /\ orders'[i].SymbolName = orders[i].SymbolName
        /\ orders'[i].Amount = orders[i].Amount /\ orders'[i].PriceLimit = orders[i].PriceLimit
    BY <1>1, <1>2, <1>3 DEF OrderRow, NOTCANCELLED
  <2>2. Entry(orders'[i]) =
            [owner |-> orders[i].AccountID, sym |-> orders[i].SymbolName,
             open |-> orders[i].Amount, limit |-> orders[i].PriceLimit, state |-> "withdrawn"]
    BY <2>1 DEF Entry
  <2>. QED
    BY <2>2 DEF Entry
<1>5. Book(orders)' = [Book(orders) EXCEPT ![i].state = "withdrawn"]
  BY <1>1, <1>2, <1>4 DEF Book
<1>6. /\ Entry(orders[i]).state = "placed" /\ Entry(orders[i]).open = orders[i].Amount
      /\ Entry(orders[i]).owner = orders[i].AccountID
      /\ Entry(orders[i]).sym = orders[i].SymbolName
      /\ Entry(orders[i]).limit = orders[i].PriceLimit
      /\ orders[i].Amount # 0 /\ matching = {}
  BY DEF Entry, CancelOrder
<1>7. MarketPlace!Settled
  BY <1>6, RestIsSettled
<1>. QED
  BY <1>1, <1>5, <1>6, <1>7 DEF CancelOrder, MarketPlace!Withdraw

LEMMA MatchIsTrade ==
    ASSUME TypeOK, VectorsMirrorBook, MatchHeads
    PROVE  \E b, a \in DOMAIN Book(orders) : \E n \in 1..Book(orders)[b].open, p \in Prices :
              MarketPlace!Trade(b, a, n, p)
<1> DEFINE b == buying[1].TransID
           a == selling[1].TransID
           n == MatchAmount(buying[1], selling[1])
           p == MatchPrice(buying[1], selling[1])
<1>1. PICK s \in matching :
         /\ matching = {s} /\ CanMatch
         /\ n \in Int /\ n > 0
         /\ n =< buying[1].Amount /\ n =< -selling[1].Amount
         /\ b \in Buys(orders, s) /\ a \in Sells(orders, s) /\ b # a
         /\ DOMAIN orders' = DOMAIN orders
         /\ orders'[b] = [orders[b] EXCEPT !.Amount = buying[1].Amount - n]
         /\ orders'[a] = [orders[a] EXCEPT !.Amount = selling[1].Amount + n]
         /\ \A i \in DOMAIN orders \ {a, b} : orders'[i] = orders[i]
  BY MatchEffect
<1>2. /\ buying[1] = ActiveOrderOf(orders, b) /\ selling[1] = ActiveOrderOf(orders, a)
      /\ b \in DOMAIN orders /\ a \in DOMAIN orders
      /\ orders[b] \in OrderRow /\ orders[a] \in OrderRow
      /\ orders[b].SymbolName = s /\ s \in Symbols
  BY <1>1, Heads, ActiveRows
<1>3. /\ buying[1].Amount = orders[b].Amount /\ selling[1].Amount = orders[a].Amount
      /\ buying[1].AccountID = orders[b].AccountID /\ selling[1].AccountID = orders[a].AccountID
      /\ buying[1].PriceLimit = orders[b].PriceLimit /\ selling[1].PriceLimit = orders[a].PriceLimit
  BY <1>2 DEF ActiveOrderOf
<1>4. /\ orders[b].Amount \in Int /\ orders[a].Amount \in Int
      /\ orders[b].PriceLimit \in Nat /\ orders[a].PriceLimit \in Nat
      /\ orders[b].AccountID \in Accounts /\ orders[a].AccountID \in Accounts
  BY <1>2, RowFields
<1>5. p \in Prices /\ p \in Nat /\ p =< orders[b].PriceLimit /\ orders[a].PriceLimit =< p
  BY <1>1, <1>3, <1>4, HeadsType DEF MatchPrice, CanMatch
<1>6. /\ position' = [position EXCEPT ![<<orders[b].AccountID, s>>] = @ + n]
      /\ balance' = [balance EXCEPT ![orders[a].AccountID] = n * p + @]
      /\ opened' = opened
  BY <1>1, <1>3 DEF MatchHeads
<1> HIDE DEF a, b, n, p
<1>7. /\ Book(orders)[b] = Entry(orders[b]) /\ Book(orders)[a] = Entry(orders[a])
      /\ b \in DOMAIN Book(orders) /\ a \in DOMAIN Book(orders)
  BY <1>2 DEF Book
<1>8. /\ Entry(orders[b]).open = orders[b].Amount /\ Entry(orders[a]).open = orders[a].Amount
      /\ Entry(orders[b]).limit = orders[b].PriceLimit /\ Entry(orders[a]).limit = orders[a].PriceLimit
      /\ Entry(orders[b]).owner = orders[b].AccountID /\ Entry(orders[a]).owner = orders[a].AccountID
      /\ Entry(orders[b]).sym = s
  BY <1>2 DEF Entry
<1>9. Book(orders)' = [Book(orders) EXCEPT ![b].open = @ - n, ![a].open = @ + n]
  <2>1. /\ Entry(orders'[b]) = [Entry(orders[b]) EXCEPT !.open = @ - n]
        /\ Entry(orders'[a]) = [Entry(orders[a]) EXCEPT !.open = @ + n]
    BY <1>1, <1>2, <1>3 DEF Entry, OrderRow
  <2>2. /\ DOMAIN Book(orders)' = DOMAIN orders
        /\ Book(orders)'[b] = [Entry(orders[b]) EXCEPT !.open = @ - n]
        /\ Book(orders)'[a] = [Entry(orders[a]) EXCEPT !.open = @ + n]
        /\ \A i \in DOMAIN orders \ {a, b} : Book(orders)'[i] = Book(orders)[i]
    BY <1>1, <1>2, <2>1 DEF Book
  <2>. QED
    BY <1>1, <1>7, <2>2 DEF Book
<1>10. balance' = [balance EXCEPT ![orders[a].AccountID] = @ + n * p]
  <2>1. balance[orders[a].AccountID] \in Int /\ n * p \in Int
    BY <1>1, <1>4, <1>5 DEF TypeOK
  <2>2. n * p + balance[orders[a].AccountID] = balance[orders[a].AccountID] + n * p
    BY <2>1
  <2>. QED
    BY <1>6, <2>2, Zenon
<1>11. /\ \A i \in Buys(orders, s) : Book(orders)[i].limit =< Book(orders)[b].limit
       /\ \A i \in Sells(orders, s) : Book(orders)[i].limit >= Book(orders)[a].limit
  <2>1. /\ \A i \in Buys(orders, s) : orders[i].PriceLimit =< orders[b].PriceLimit
        /\ \A i \in Sells(orders, s) : orders[i].PriceLimit >= orders[a].PriceLimit
    BY <1>1, HeadsAreBest DEF a, b
  <2>2. \A i \in DOMAIN orders : Book(orders)[i].limit = orders[i].PriceLimit
    BY DEF Book, Entry
  <2>3. Buys(orders, s) \subseteq DOMAIN orders /\ Sells(orders, s) \subseteq DOMAIN orders
    BY DEF Buys, Sells
  <2>. QED
    BY <1>2, <2>1, <2>2, <2>3
<1>12. MarketPlace!Trade(b, a, n, p)
  <2>1. /\ Book(orders)[b].sym = s
        /\ Book(orders)[b].owner = orders[b].AccountID /\ Book(orders)[a].owner = orders[a].AccountID
        /\ Book(orders)[a].limit =< p /\ p =< Book(orders)[b].limit
        /\ n =< Book(orders)[b].open /\ n =< -Book(orders)[a].open
    BY <1>1, <1>3, <1>5, <1>7, <1>8
  <2>2. /\ MarketPlace!Bids(s) = Buys(orders, s) /\ MarketPlace!Asks(s) = Sells(orders, s)
        /\ b \in Buys(orders, s) /\ a \in Sells(orders, s)
    BY <1>1, SameBook
  <2>. QED
    BY <1>6, <1>9, <1>10, <1>11, <2>1, <2>2 DEF MarketPlace!Trade
<1>13. n \in 1..Book(orders)[b].open
  BY <1>1, <1>3, <1>4, <1>7, <1>8
<1>. QED
  BY <1>5, <1>7, <1>12, <1>13

LEMMA StepIsMarketStep ==
    IInv /\ [Next]_vars => [MarketPlace!Next]_(MarketPlace!vars)
<1>. SUFFICES ASSUME IInv, [Next]_vars
              PROVE  MarketPlace!Next \/ UNCHANGED MarketPlace!vars
  OBVIOUS
<1>0. TypeOK /\ VectorsMirrorBook
  BY DEF IInv
<1>1. ASSUME NEW a \in Accounts, NEW money \in Deposits, CreateAccount(a, money)
      PROVE  MarketPlace!Next
  <2>1. MarketPlace!Open(a, money)
    BY <1>0, <1>1, RestIsSettled DEF CreateAccount, MarketPlace!Open
  <2>. QED
    BY <2>1 DEF MarketPlace!Next
<1>2. ASSUME NEW a \in Accounts, NEW s \in Symbols, NEW n \in Grants, CreatePosition(a, s, n)
      PROVE  MarketPlace!Next
  <2>1. MarketPlace!Grant(a, s, n)
    BY <1>0, <1>2, RestIsSettled DEF CreatePosition, MarketPlace!Grant
  <2>. QED
    BY <2>1 DEF MarketPlace!Next
<1>3. ASSUME NEW a \in Accounts, NEW s \in Symbols, NEW n \in Amounts, NEW p \in Prices,
             BuyOrder(a, s, n, p) \/ SellOrder(a, s, n, p)
      PROVE  MarketPlace!Next
  BY <1>0, <1>3, OrderIsBidOrAsk DEF MarketPlace!Next
<1>4. CASE MatchHeads
  BY <1>0, <1>4, MatchIsTrade DEF MarketPlace!Next
<1>5. ASSUME NEW i \in DOMAIN orders, CancelOrder(i)
      PROVE  MarketPlace!Next
  BY <1>0, <1>5, CancelIsWithdraw DEF MarketPlace!Next
<1>6. CASE Commit \/ Tick \/ UNCHANGED vars
  BY <1>6 DEF Commit, Tick, vars, tables, MarketPlace!vars
<1>. QED
  BY <1>1, <1>2, <1>3, <1>4, <1>5, <1>6 DEF Next

\* The server's tables, vectors and literal updates amount to the market: every
\* request, every turn of the loop and every commit is one of its steps or changes
\* nothing that it speaks of.
THEOREM ServerIsMarket == Spec => ImplementsMarket
<1>1. Init => MarketPlace!Init
  BY DEF Init, MarketPlace!Init, Book
<1>. QED
  BY <1>1, StepIsMarketStep, InvariantHolds, PTL DEF Spec, ImplementsMarket, MarketPlace!Spec
-----------------------------------------------------------------------------
(* Cash and shares                                                          *)

AllReserved(t) == SumFunction([i \in DOMAIN t |-> Reserved(t, i)])
AllOffered(t, s) == SumFunction([i \in DOMAIN t |-> Offered(t, i, s)])
AllHeld(held, s) == SumFunction([a \in Accounts |-> held[<<a, s>>]])

LEMMA Shown ==
    ASSUME NEW t \in Seq(OrderRow), NEW i \in DOMAIN t, NEW s
    PROVE  Reserved(t, i) \in Int /\ Offered(t, i, s) \in Int
<1>1. t[i] \in OrderRow
  OBVIOUS
<1>2. t[i].Amount \in Int /\ t[i].PriceLimit \in Int /\ t[i].Amount * t[i].PriceLimit \in Int
  BY <1>1, RowFields
<1>. QED
  BY <1>2 DEF Reserved, Offered

\* A table that has changed in one row, or has one row more.
RowChange(t, u, i, s) ==
    /\ AllReserved(t) \in Int /\ AllOffered(t, s) \in Int
    /\ AllReserved(u) = AllReserved(t) + Reserved(u, i) - (IF i \in DOMAIN t THEN Reserved(t, i) ELSE 0)
    /\ AllOffered(u, s) = AllOffered(t, s) + Offered(u, i, s) - (IF i \in DOMAIN t THEN Offered(t, i, s) ELSE 0)

LEMMA OneRow ==
    ASSUME NEW t \in Seq(OrderRow), NEW u \in Seq(OrderRow), NEW i \in DOMAIN u,
           DOMAIN u = DOMAIN t \cup {i}, \A k \in DOMAIN t \ {i} : u[k] = t[k], NEW s
    PROVE  RowChange(t, u, i, s)
<1>1. IsFiniteSet(DOMAIN t)
  <2>1. DOMAIN t = 1..Len(t) /\ Len(t) \in Int
    OBVIOUS
  <2>. QED
    BY <2>1, FS_Interval
<1>2. \A k \in DOMAIN t : Reserved(t, k) \in Int /\ Offered(t, k, s) \in Int
  BY Shown
<1>3. Reserved(u, i) \in Int /\ Offered(u, i, s) \in Int
  BY Shown
<1>4. \A k \in DOMAIN t \ {i} : Reserved(u, k) = Reserved(t, k) /\ Offered(u, k, s) = Offered(t, k, s)
  BY DEF Reserved, Offered
<1> DEFINE R(v) == [k \in DOMAIN v |-> Reserved(v, k)]
           O(v) == [k \in DOMAIN v |-> Offered(v, k, s)]
<1>5. /\ DOMAIN R(t) = DOMAIN t /\ DOMAIN R(u) = DOMAIN t \cup {i}
      /\ DOMAIN O(t) = DOMAIN t /\ DOMAIN O(u) = DOMAIN t \cup {i}
      /\ \A k \in DOMAIN t : R(t)[k] = Reserved(t, k) /\ O(t)[k] = Offered(t, k, s)
      /\ \A k \in DOMAIN u : R(u)[k] = Reserved(u, k) /\ O(u)[k] = Offered(u, k, s)
  OBVIOUS
<1> HIDE DEF R, O
<1>6. /\ SumFunction(R(t)) \in Int
      /\ SumFunction(R(u)) = SumFunction(R(t)) + R(u)[i] - (IF i \in DOMAIN R(t) THEN R(t)[i] ELSE 0)
  <2>1. SumMoves(R(t), R(u), i)
    BY <1>1, <1>2, <1>3, <1>4, <1>5, SumChanged
  <2>. QED
    BY <2>1 DEF SumMoves
<1>7. /\ SumFunction(O(t)) \in Int
      /\ SumFunction(O(u)) = SumFunction(O(t)) + O(u)[i] - (IF i \in DOMAIN O(t) THEN O(t)[i] ELSE 0)
  <2>1. SumMoves(O(t), O(u), i)
    BY <1>1, <1>2, <1>3, <1>4, <1>5, SumChanged
  <2>. QED
    BY <2>1 DEF SumMoves
<1>8. /\ AllReserved(t) = SumFunction(R(t)) /\ AllReserved(u) = SumFunction(R(u))
      /\ AllOffered(t, s) = SumFunction(O(t)) /\ AllOffered(u, s) = SumFunction(O(u))
  BY DEF AllReserved, AllOffered, R, O
<1>. QED
  BY <1>5, <1>6, <1>7, <1>8 DEF RowChange

\* An account that is written.
LEMMA OneBalance ==
    ASSUME TypeOK, NEW a \in Accounts, NEW m \in Int, NEW cash, cash = [balance EXCEPT ![a] = m]
    PROVE  /\ SumFunction(balance) \in Int
           /\ SumFunction(cash) = SumFunction(balance) + m - balance[a]
<1>1. balance \in [Accounts -> Int]
  BY DEF TypeOK
<1>2. /\ DOMAIN balance = Accounts /\ DOMAIN cash = Accounts /\ IsFiniteSet(Accounts)
      /\ Accounts = Accounts \cup {a} /\ cash[a] = m
      /\ \A x \in Accounts : balance[x] \in Int /\ (x # a => cash[x] = balance[x])
  BY <1>1, AccountsAssumption
<1>3. SumMoves(balance, cash, a)
  BY <1>2, SumChanged
<1>. QED
  BY <1>2, <1>3 DEF SumMoves

\* A position that is written.
PositionChange(held, a, s, m, r) ==
    /\ AllHeld(position, r) \in Int
    /\ AllHeld(held, r) = AllHeld(position, r) + (IF r = s THEN m - position[<<a, s>>] ELSE 0)

LEMMA OnePosition ==
    ASSUME TypeOK, NEW a \in Accounts, NEW s \in Symbols, NEW r \in Symbols, NEW m \in Int,
           NEW held, held = [position EXCEPT ![<<a, s>>] = m]
    PROVE  PositionChange(held, a, s, m, r)
<1> DEFINE H(p) == [x \in Accounts |-> p[<<x, r>>]]
<1>1. position \in [Accounts \X Symbols -> Int]
  BY DEF TypeOK
<1>2. \A x \in Accounts : position[<<x, r>>] \in Int
  BY <1>1
<1>3. \A x \in Accounts : held[<<x, r>>] = IF x = a /\ r = s THEN m ELSE position[<<x, r>>]
  BY <1>1
<1>4. /\ DOMAIN H(position) = Accounts /\ DOMAIN H(held) = Accounts /\ Accounts = Accounts \cup {a}
      /\ \A x \in Accounts : H(position)[x] = position[<<x, r>>] /\ H(held)[x] = held[<<x, r>>]
  OBVIOUS
<1> HIDE DEF H
<1>5. /\ SumFunction(H(position)) \in Int
      /\ SumFunction(H(held)) = SumFunction(H(position)) + H(held)[a] - H(position)[a]
  <2>1. IsFiniteSet(DOMAIN H(position)) /\ DOMAIN H(held) = DOMAIN H(position) \cup {a} /\ a \in DOMAIN H(position)
    BY <1>4, AccountsAssumption
  <2>2. ASSUME NEW x \in Accounts
        PROVE  H(position)[x] \in Int /\ H(held)[x] \in Int /\ (x # a => H(held)[x] = H(position)[x])
    <3>1. H(position)[x] = position[<<x, r>>] /\ H(held)[x] = held[<<x, r>>] /\ position[<<x, r>>] \in Int
      BY <1>2, <1>4
    <3>2. CASE x = a /\ r = s
      BY <1>3, <3>1, <3>2
    <3>3. CASE ~(x = a /\ r = s)
      BY <1>3, <3>1, <3>3
    <3>. QED
      BY <3>2, <3>3
  <2>3. SumMoves(H(position), H(held), a)
    BY <1>4, <2>1, <2>2, SumChanged
  <2>. QED
    BY <2>1, <2>3 DEF SumMoves
<1>6. AllHeld(position, r) = SumFunction(H(position)) /\ AllHeld(held, r) = SumFunction(H(held))
  BY DEF AllHeld, H
<1>7. H(held)[a] - H(position)[a] = IF r = s THEN m - position[<<a, s>>] ELSE 0
  <2>1. H(held)[a] = held[<<a, r>>] /\ H(position)[a] = position[<<a, r>>] /\ position[<<a, r>>] \in Int
    BY <1>2, <1>4
  <2>. QED
    BY <1>3, <2>1
<1>8. H(held)[a] \in Int /\ H(position)[a] \in Int
  BY <1>2, <1>3, <1>4
<1>. QED
  BY <1>5, <1>6, <1>7, <1>8 DEF PositionChange

LEMMA ReservedTyped ==
    ASSUME NEW t \in Seq(OrderRow)
    PROVE  AllReserved(t) \in Int
<1> DEFINE R == [k \in DOMAIN t |-> Reserved(t, k)]
<1>1. IsFiniteSet(DOMAIN t)
  <2>1. DOMAIN t = 1..Len(t) /\ Len(t) \in Int
    OBVIOUS
  <2>. QED
    BY <2>1, FS_Interval
<1>2. DOMAIN R = DOMAIN t /\ \A k \in DOMAIN t : R[k] \in Int
  BY Shown
<1> HIDE DEF R
<1>3. SumFunctionOnSet(R, DOMAIN R) \in Int
  BY <1>1, <1>2, SumOfSet
<1>. QED
  BY <1>3 DEF AllReserved, SumFunction, R

LEMMA Totals ==
    ASSUME TypeOK
    PROVE  /\ TotalCash = SumFunction(balance) + AllReserved(orders)
           /\ TotalCash' = SumFunction(balance') + AllReserved(orders')
           /\ \A s : /\ TotalShares(s) = AllHeld(position, s) + AllOffered(orders, s)
                     /\ TotalShares(s)' = AllHeld(position', s) + AllOffered(orders', s)
BY DEF TotalCash, TotalShares, AllReserved, AllOffered, AllHeld
LEMMA FilledTyped ==
    ASSUME NEW rows \in Seq(ExecRow), NEW i
    PROVE  Filled(rows, i) \in Int
<1> DEFINE F == [k \in DOMAIN rows |-> IF rows[k].TransID = i THEN rows[k].Amount ELSE 0]
<1>1. /\ DOMAIN rows = 1..Len(rows) /\ Len(rows) \in Int
      /\ \A k \in DOMAIN rows : rows[k] \in ExecRow
  OBVIOUS
<1>2. IsFiniteSet(DOMAIN rows) /\ \A k \in DOMAIN rows : rows[k].Amount \in Int
  BY <1>1, FS_Interval DEF ExecRow
<1>3. DOMAIN F = DOMAIN rows /\ \A k \in DOMAIN rows : F[k] \in Int
  BY <1>2
<1> HIDE DEF F
<1>4. SumFunctionOnSet(F, DOMAIN F) \in Int
  BY <1>2, <1>3, SumOfSet
<1>. QED
  BY <1>4 DEF Filled, SumFunction, F

\* Rows of EXECUTED that are appended.
LEMMA TwoExecutions ==
    ASSUME NEW rows \in Seq(ExecRow), NEW x \in ExecRow, NEW y \in ExecRow, NEW i
    PROVE  Filled(rows \o <<x, y>>, i) = Filled(rows, i) + (IF x.TransID = i THEN x.Amount ELSE 0)
                                                        + (IF y.TransID = i THEN y.Amount ELSE 0)
<1> DEFINE F(r) == [k \in DOMAIN r |-> IF r[k].TransID = i THEN r[k].Amount ELSE 0]
           one == Append(rows, x)
           two == Append(one, y)
<1>1. ASSUME NEW r \in Seq(ExecRow), NEW z \in ExecRow
      PROVE  /\ Append(r, z) \in Seq(ExecRow) /\ Filled(r, i) \in Int
             /\ Filled(Append(r, z), i) = Filled(r, i) + (IF z.TransID = i THEN z.Amount ELSE 0)
  <2>1. /\ DOMAIN r = 1..Len(r) /\ Len(r) \in Int /\ Len(r) \in Nat
        /\ \A k \in DOMAIN r : r[k] \in ExecRow
    OBVIOUS
  <2>2. IsFiniteSet(DOMAIN r)
    BY <2>1, FS_Interval
  <2>3. \A w \in ExecRow : w.Amount \in Int
    BY DEF ExecRow
  <2>4. PICK u : u = Append(r, z) /\ u \in Seq(ExecRow)
    BY AppendProperties
  <2>5. /\ DOMAIN u = DOMAIN r \cup {Len(r) + 1} /\ Len(r) + 1 \notin DOMAIN r
        /\ u[Len(r) + 1] = z /\ \A k \in DOMAIN r : u[k] = r[k]
    BY <2>1, <2>4
  <2>6. /\ DOMAIN F(r) = DOMAIN r /\ DOMAIN F(u) = DOMAIN r \cup {Len(r) + 1}
        /\ \A k \in DOMAIN r : F(r)[k] \in Int /\ F(u)[k] = F(r)[k]
        /\ F(u)[Len(r) + 1] = IF z.TransID = i THEN z.Amount ELSE 0
        /\ F(u)[Len(r) + 1] \in Int
    BY <2>1, <2>3, <2>5
  <2> HIDE DEF F
  <2>7. SumFunction(F(r)) \in Int /\ SumFunction(F(u)) = SumFunction(F(r)) + F(u)[Len(r) + 1] - 0
    <3>1. SumMoves(F(r), F(u), Len(r) + 1)
      BY <2>2, <2>6, SumChanged
    <3>. QED
      BY <2>5, <2>6, <3>1 DEF SumMoves
  <2>8. Filled(r, i) = SumFunction(F(r)) /\ Filled(u, i) = SumFunction(F(u))
    BY DEF Filled, F
  <2>. QED
    BY <2>4, <2>6, <2>7, <2>8
<1>2. one \in Seq(ExecRow) /\ Filled(rows, i) \in Int
      /\ Filled(one, i) = Filled(rows, i) + (IF x.TransID = i THEN x.Amount ELSE 0)
  BY <1>1
<1>3. Filled(one, i) \in Int /\ Filled(two, i) = Filled(one, i) + (IF y.TransID = i THEN y.Amount ELSE 0)
  <2> HIDE DEF one
  <2>. QED
    BY <1>1, <1>2
<1>4. two = rows \o <<x, y>>
  OBVIOUS
<1>. QED
  BY <1>2, <1>3, <1>4

LEMMA OrderAccounted ==
    ASSUME TypeOK, NEW a \in Accounts, NEW s \in Symbols, NEW n \in Amounts, NEW p \in Prices,
           BuyOrder(a, s, n, p) \/ SellOrder(a, s, n, p)
    PROVE  TotalCash' = TotalCash /\ \A r \in Symbols : TotalShares(r)' = TotalShares(r)
<1>0. n \in Nat /\ n > 0 /\ p \in Nat /\ n * p \in Int /\ balance[a] \in Int /\ position[<<a, s>>] \in Int
      /\ -n \in Int /\ n \in Int
  BY NumbersAssumption DEF TypeOK
<1>1. ASSUME NEW m \in Int, m # 0, CreateTransaction(a, s, m, p), NEW r \in Symbols
      PROVE  /\ AllReserved(orders) \in Int /\ AllOffered(orders, r) \in Int
             /\ AllReserved(orders') = AllReserved(orders) + (IF m < 0 THEN 0 ELSE m * p)
             /\ AllOffered(orders', r) = AllOffered(orders, r) + (IF m > 0 \/ r # s THEN 0 ELSE -m)
  <2>1. PICK o \in OrderRow : /\ o = [OrderTime |-> clock, AccountID |-> a, SymbolName |-> s, Amount |-> m,
                                      PriceLimit |-> p, CancelTime |-> NOTCANCELLED]
                             /\ orders' = Append(orders, o) /\ orders' \in Seq(OrderRow)
    BY <1>1, NewRow
  <2>2. orders \in Seq(OrderRow)
    BY DEF TypeOK
  <2>3. PICK i : i = Len(orders) + 1
    OBVIOUS
  <2>4. /\ i \in DOMAIN orders' /\ DOMAIN orders' = DOMAIN orders \cup {i} /\ i \notin DOMAIN orders
        /\ orders'[i] = o /\ \A k \in DOMAIN orders : orders'[k] = orders[k]
    BY <2>1, <2>2, <2>3
  <2>5. /\ AllReserved(orders) \in Int /\ AllOffered(orders, r) \in Int
        /\ AllReserved(orders') = AllReserved(orders) + Reserved(orders', i) - 0
        /\ AllOffered(orders', r) = AllOffered(orders, r) + Offered(orders', i, r) - 0
    <3>1. RowChange(orders, orders', i, r)
      BY <2>1, <2>2, <2>4, OneRow
    <3>. QED
      BY <2>4, <3>1 DEF RowChange
  <2>6. o.Amount = m /\ o.PriceLimit = p /\ o.SymbolName = s /\ o.CancelTime = NOTCANCELLED
    BY <2>1
  <2>7. Reserved(orders', i) \in Int /\ Offered(orders', i, r) \in Int
    BY <2>1, <2>4, Shown
  <2>8. Reserved(orders', i) = IF m < 0 THEN 0 ELSE m * p
    BY <2>4, <2>6 DEF Reserved
  <2>9. Offered(orders', i, r) = IF m > 0 \/ r # s THEN 0 ELSE -m
    BY <2>4, <2>6, Zenon DEF Offered
  <2>. QED
    BY <2>5, <2>7, <2>8, <2>9
<1>2. CASE BuyOrder(a, s, n, p)
  <2>1. CreateTransaction(a, s, n, p) /\ position' = position /\ balance' = [balance EXCEPT ![a] = @ - n * p]
    BY <1>2 DEF BuyOrder
  <2>2. PICK m \in Int : m = balance[a] - n * p
    BY <1>0
  <2>3. balance' = [balance EXCEPT ![a] = m]
    BY <2>1, <2>2
  <2>4. SumFunction(balance) \in Int /\ SumFunction(balance') = SumFunction(balance) + m - balance[a]
    BY <2>3, OneBalance
  <2>5. ASSUME NEW r \in Symbols
        PROVE  /\ TotalCash' = TotalCash
               /\ TotalShares(r)' = TotalShares(r)
    <3>1. /\ AllReserved(orders) \in Int /\ AllOffered(orders, r) \in Int
          /\ AllReserved(orders') = AllReserved(orders) + n * p
          /\ AllOffered(orders', r) = AllOffered(orders, r)
      BY <1>0, <1>1, <2>1
    <3>2. PICK np \in Int : np = n * p
      BY <1>0
    <3>. QED
      BY <1>0, <2>1, <2>2, <2>4, <3>1, <3>2, Totals
  <2>. QED
    BY <2>5
<1>3. CASE SellOrder(a, s, n, p)
  <2>1. CreateTransaction(a, s, -n, p) /\ balance' = balance /\ position' = [position EXCEPT ![<<a, s>>] = @ - n]
    BY <1>3 DEF SellOrder
  <2>2. PICK m \in Int : m = position[<<a, s>>] - n
    BY <1>0
  <2>3. position' = [position EXCEPT ![<<a, s>>] = m]
    BY <2>1, <2>2
  <2>4. PICK k \in Int : k = -n
    BY <1>0
  <2>5. ASSUME NEW r \in Symbols
        PROVE  /\ TotalCash' = TotalCash
               /\ TotalShares(r)' = TotalShares(r)
    <3>1. /\ AllReserved(orders) \in Int /\ AllOffered(orders, r) \in Int
          /\ AllReserved(orders') = AllReserved(orders) + 0
          /\ AllOffered(orders', r) = AllOffered(orders, r) + (IF r # s THEN 0 ELSE -k)
      BY <1>0, <1>1, <2>1, <2>4
    <3>2. /\ AllHeld(position, r) \in Int
          /\ AllHeld(position', r) = AllHeld(position, r) + (IF r = s THEN m - position[<<a, s>>] ELSE 0)
      <4>1. PositionChange(position', a, s, m, r)
        BY <2>3, OnePosition
      <4>. QED
        BY <4>1 DEF PositionChange
    <3>3. TotalCash' = TotalCash
      BY <2>1, <3>1, Totals
    <3>4. CASE r = s
      <4>1. AllHeld(position', r) + AllOffered(orders', r) = AllHeld(position, r) + AllOffered(orders, r)
        BY <1>0, <2>2, <2>4, <3>1, <3>2, <3>4
      <4>. QED
        BY <3>3, <4>1, Totals
    <3>5. CASE r # s
      <4>1. AllHeld(position', r) + AllOffered(orders', r) = AllHeld(position, r) + AllOffered(orders, r)
        BY <3>1, <3>2, <3>5
      <4>. QED
        BY <3>3, <4>1, Totals
    <3>. QED
      BY <3>4, <3>5
  <2>. QED
    BY <2>5
<1>. QED
  BY <1>2, <1>3
LEMMA CancelAccounted ==
    ASSUME TypeOK, NEW i \in DOMAIN orders, CancelOrder(i)
    PROVE  TotalCash' = TotalCash /\ \A r \in Symbols : TotalShares(r)' = TotalShares(r)
<1>1. orders \in Seq(OrderRow) /\ clock \in Nat /\ clock \in Int
  BY DEF TypeOK
<1>2. orders[i] \in OrderRow
  BY <1>1
<1>3. PICK o : o = orders[i]
  OBVIOUS
<1>4. /\ o.AccountID \in Accounts /\ o.SymbolName \in Symbols /\ o.Amount \in Int /\ o.PriceLimit \in Nat
      /\ o.Amount * o.PriceLimit \in Int
      /\ balance[o.AccountID] \in Int /\ position[<<o.AccountID, o.SymbolName>>] \in Int
  <2>1. /\ o.AccountID \in Accounts /\ o.SymbolName \in Symbols /\ o.Amount \in Int /\ o.PriceLimit \in Nat
        /\ o.Amount * o.PriceLimit \in Int
    BY <1>2, <1>3, RowFields
  <2>2. balance \in [Accounts -> Int] /\ position \in [Accounts \X Symbols -> Int]
    BY DEF TypeOK
  <2>. QED
    BY <2>1, <2>2
<1>5. PICK v \in Int : v = o.Amount * o.PriceLimit
  BY <1>4
<1>6. /\ orders' \in Seq(OrderRow) /\ DOMAIN orders' = DOMAIN orders
      /\ orders'[i] = [orders[i] EXCEPT !.CancelTime = clock]
      /\ \A k \in DOMAIN orders \ {i} : orders'[k] = orders[k]
      /\ o.Amount # 0 /\ o.CancelTime = NOTCANCELLED
  BY <1>1, <1>3, RowUpdates DEF CancelOrder
<1>7. orders'[i].CancelTime = clock /\ clock # NOTCANCELLED
  BY <1>1, <1>2, <1>6 DEF OrderRow, NOTCANCELLED
<1>8. ASSUME NEW r \in Symbols
      PROVE  /\ AllReserved(orders) \in Int /\ AllOffered(orders, r) \in Int
             /\ AllReserved(orders') = AllReserved(orders) - (IF o.Amount < 0 THEN 0 ELSE v)
             /\ AllOffered(orders', r) = AllOffered(orders, r)
                    - (IF o.Amount > 0 \/ r # o.SymbolName THEN 0 ELSE -o.Amount)
  <2>1. Reserved(orders', i) = 0 /\ Offered(orders', i, r) = 0
    BY <1>7 DEF Reserved, Offered
  <2>2. Reserved(orders, i) = IF o.Amount < 0 THEN 0 ELSE v
    BY <1>3, <1>5, <1>6 DEF Reserved
  <2>3. Offered(orders, i, r) = IF o.Amount > 0 \/ r # o.SymbolName THEN 0 ELSE -o.Amount
    BY <1>3, <1>6, Zenon DEF Offered
  <2>4. /\ AllReserved(orders) \in Int /\ AllOffered(orders, r) \in Int
        /\ AllReserved(orders') = AllReserved(orders) + Reserved(orders', i) - Reserved(orders, i)
        /\ AllOffered(orders', r) = AllOffered(orders, r) + Offered(orders', i, r) - Offered(orders, i, r)
    <3>1. DOMAIN orders' = DOMAIN orders \cup {i}
      BY <1>6
    <3>2. RowChange(orders, orders', i, r)
      BY <1>1, <1>6, <3>1, OneRow
    <3>. QED
      BY <3>2 DEF RowChange
  <2>. QED
    BY <1>4, <2>1, <2>2, <2>3, <2>4
<1>9. CASE o.Amount < 0
  <2>1. balance' = balance /\ position' = [position EXCEPT ![<<o.AccountID, o.SymbolName>>] = @ - o.Amount]
    BY <1>3, <1>9 DEF CancelOrder
  <2>2. PICK m \in Int : m = position[<<o.AccountID, o.SymbolName>>] - o.Amount
    BY <1>4
  <2>3. position' = [position EXCEPT ![<<o.AccountID, o.SymbolName>>] = m]
    BY <2>1, <2>2
  <2>4. ASSUME NEW r \in Symbols PROVE TotalCash' = TotalCash /\ TotalShares(r)' = TotalShares(r)
    <3>1. /\ AllHeld(position, r) \in Int
          /\ AllHeld(position', r) = AllHeld(position, r)
                 + (IF r = o.SymbolName THEN m - position[<<o.AccountID, o.SymbolName>>] ELSE 0)
      <4>1. PositionChange(position', o.AccountID, o.SymbolName, m, r)
        BY <1>4, <2>3, OnePosition
      <4>. QED
        BY <4>1 DEF PositionChange
    <3>2. TotalCash' = TotalCash
      BY <1>8, <1>9, <2>1, Totals
    <3>3. AllHeld(position', r) + AllOffered(orders', r) = AllHeld(position, r) + AllOffered(orders, r)
      <4>1. CASE r = o.SymbolName
        BY <1>4, <1>8, <1>9, <2>2, <3>1, <4>1
      <4>2. CASE r # o.SymbolName
        BY <1>4, <1>8, <1>9, <3>1, <4>2
      <4>. QED
        BY <4>1, <4>2
    <3>. QED
      BY <3>2, <3>3, Totals
  <2>. QED
    BY <1>4, <2>4
<1>10. CASE o.Amount > 0
  <2>1. position' = position /\ balance' = [balance EXCEPT ![o.AccountID] = @ + v]
    BY <1>3, <1>4, <1>5, <1>10 DEF CancelOrder
  <2>2. PICK m \in Int : m = balance[o.AccountID] + v
    BY <1>4
  <2>3. balance' = [balance EXCEPT ![o.AccountID] = m]
    BY <2>1, <2>2
  <2>4. SumFunction(balance) \in Int /\ SumFunction(balance') = SumFunction(balance) + m - balance[o.AccountID]
    BY <1>4, <2>3, OneBalance
  <2>5. ASSUME NEW r \in Symbols PROVE TotalCash' = TotalCash /\ TotalShares(r)' = TotalShares(r)
    BY <1>4, <1>8, <1>10, <2>1, <2>2, <2>4, Totals
  <2>. QED
    BY <1>4, <2>5
<1>. QED
  BY <1>4, <1>6, <1>9, <1>10

\* A turn of the loop: the buyer's reserve shrinks by the amount at his limit, the
\* seller is paid at the price.
LEMMA MatchAccounted ==
    ASSUME TypeOK, VectorsMirrorBook, MatchHeads
    PROVE  TotalCash' = TotalCash - Forfeited /\ \A r \in Symbols : TotalShares(r)' = TotalShares(r)
<1> DEFINE b == buying[1].TransID
           a == selling[1].TransID
           n == MatchAmount(buying[1], selling[1])
           p == MatchPrice(buying[1], selling[1])
<1>1. PICK s \in matching :
         /\ matching = {s} /\ CanMatch
         /\ n \in Int /\ n > 0
         /\ n =< buying[1].Amount /\ n =< -selling[1].Amount
         /\ b \in Buys(orders, s) /\ a \in Sells(orders, s) /\ b # a
         /\ orders' \in Seq(OrderRow) /\ DOMAIN orders' = DOMAIN orders
         /\ orders'[b] = [orders[b] EXCEPT !.Amount = buying[1].Amount - n]
         /\ orders'[a] = [orders[a] EXCEPT !.Amount = selling[1].Amount + n]
         /\ \A i \in DOMAIN orders \ {a, b} : orders'[i] = orders[i]
  BY MatchEffect
<1>2. /\ buying[1] = ActiveOrderOf(orders, b) /\ selling[1] = ActiveOrderOf(orders, a)
      /\ b \in DOMAIN orders /\ a \in DOMAIN orders
      /\ orders[b] \in OrderRow /\ orders[a] \in OrderRow
      /\ orders[b].SymbolName = s /\ orders[a].SymbolName = s /\ s \in Symbols
      /\ orders[b].CancelTime = NOTCANCELLED /\ orders[a].CancelTime = NOTCANCELLED
      /\ orders[b].Amount > 0 /\ orders[a].Amount < 0
  BY <1>1, Heads, ActiveRows
<1>3. /\ buying[1].Amount = orders[b].Amount /\ selling[1].Amount = orders[a].Amount
      /\ buying[1].AccountID = orders[b].AccountID /\ selling[1].AccountID = orders[a].AccountID
  BY <1>2 DEF ActiveOrderOf
<1>4. /\ position' = [position EXCEPT ![<<orders[b].AccountID, s>>] = @ + n]
      /\ balance' = [balance EXCEPT ![orders[a].AccountID] = n * p + @]
  BY <1>1, <1>3 DEF MatchHeads
<1>5. p \in Nat
  BY <1>1, HeadsType
<1>6. PICK e \in ExecRow : /\ e = executed'[Len(executed) + 1] /\ Len(executed') # Len(executed)
                          /\ e.TransID = b /\ e.Amount = n /\ e.Price = p
  <2>1. PICK l : l = Len(executed)
    OBVIOUS
  <2>2. /\ l \in Nat /\ Len(executed') = l + 2
        /\ executed'[l + 1] = [TransID |-> b, Amount |-> n, Price |-> p]
    BY <2>1, MatchRecords
  <2>3. [TransID |-> b, Amount |-> n, Price |-> p] \in ExecRow
    BY <1>1, HeadsType, ActiveFields DEF ExecRow
  <2>. QED
    BY <2>1, <2>2, <2>3
<1> HIDE DEF a, b, n, p
<1>7. PICK mb, ma, lb, la : /\ mb = orders[b].Amount /\ ma = orders[a].Amount
                            /\ lb = orders[b].PriceLimit /\ la = orders[a].PriceLimit
  OBVIOUS
<1>8. mb \in Int /\ ma \in Int /\ lb \in Nat /\ la \in Nat /\ n =< mb /\ n =< -ma
  BY <1>1, <1>2, <1>3, <1>7, RowFields
<1>9. /\ orders'[b].Amount = mb - n /\ orders'[b].PriceLimit = lb
      /\ orders'[b].CancelTime = NOTCANCELLED /\ orders'[b].SymbolName = s
      /\ orders'[a].Amount = ma + n /\ orders'[a].PriceLimit = la
      /\ orders'[a].CancelTime = NOTCANCELLED /\ orders'[a].SymbolName = s
  BY <1>1, <1>2, <1>3, <1>7 DEF OrderRow
<1>10. PICK np \in Int : np = n * p
  BY <1>1, <1>5
<1>11. PICK nl \in Int : nl = n * lb
  BY <1>1, <1>8
<1>12. PICK ml \in Int : ml = mb * lb
  BY <1>8
<1>13. (mb - n) * lb = ml - nl
  BY <1>1, <1>8, <1>11, <1>12
<1>14. Forfeited = nl - np
  <2>1. Forfeited = n * (lb - p)
    BY <1>6, <1>7 DEF Forfeited
  <2>. QED
    BY <1>1, <1>5, <1>8, <1>10, <1>11, <2>1
<1>15. ASSUME NEW r \in Symbols
       PROVE  /\ AllReserved(orders) \in Int /\ AllOffered(orders, r) \in Int
              /\ AllReserved(orders') = AllReserved(orders) - nl
              /\ AllOffered(orders', r) = AllOffered(orders, r) - (IF r = s THEN n ELSE 0)
  <2>1. orders \in Seq(OrderRow)
    BY DEF TypeOK
  <2>2. PICK t : t = [orders EXCEPT ![b].Amount = mb - n]
    OBVIOUS
  <2>3. /\ t \in Seq(OrderRow) /\ DOMAIN t = DOMAIN orders /\ t[b] = [orders[b] EXCEPT !.Amount = mb - n]
        /\ \A k \in DOMAIN orders \ {b} : t[k] = orders[k]
    <3>1. mb - n \in Int
      BY <1>1, <1>8
    <3>. QED
      BY <1>2, <2>1, <2>2, <3>1, RowUpdates
  <2>4. t[b] = orders'[b] /\ t[a] = orders[a] /\ \A k \in DOMAIN t \ {a} : orders'[k] = t[k]
    BY <1>1, <1>2, <1>3, <1>7, <2>3
  <2>5. /\ AllReserved(orders) \in Int /\ AllOffered(orders, r) \in Int
        /\ AllReserved(t) = AllReserved(orders) + Reserved(t, b) - Reserved(orders, b)
        /\ AllOffered(t, r) = AllOffered(orders, r) + Offered(t, b, r) - Offered(orders, b, r)
    <3>1. DOMAIN t = DOMAIN orders \cup {b}
      BY <1>2, <2>3
    <3>2. RowChange(orders, t, b, r)
      BY <1>2, <2>1, <2>3, <3>1, OneRow
    <3>. QED
      BY <1>2, <3>2 DEF RowChange
  <2>6. /\ AllReserved(t) \in Int /\ AllOffered(t, r) \in Int
        /\ AllReserved(orders') = AllReserved(t) + Reserved(orders', a) - Reserved(t, a)
        /\ AllOffered(orders', r) = AllOffered(t, r) + Offered(orders', a, r) - Offered(t, a, r)
    <3>1. DOMAIN orders' = DOMAIN t \cup {a} /\ a \in DOMAIN orders' /\ a \in DOMAIN t
      BY <1>1, <1>2, <2>3
    <3>2. RowChange(t, orders', a, r)
      BY <1>1, <2>3, <2>4, <3>1, OneRow
    <3>. QED
      BY <3>1, <3>2 DEF RowChange
  <2>7. /\ Reserved(orders, b) = ml /\ Reserved(t, b) = ml - nl
        /\ Reserved(t, a) = 0 /\ Reserved(orders', a) = 0
    <3>1. Reserved(orders, b) = ml
      BY <1>2, <1>7, <1>8, <1>12 DEF Reserved
    <3>2. Reserved(t, b) = ml - nl
      BY <1>1, <1>2, <1>8, <1>9, <1>13, <2>4 DEF Reserved
    <3>3. Reserved(t, a) = 0
      BY <1>2, <2>4 DEF Reserved
    <3>4. Reserved(orders', a) = 0
      <4>1. ma + n < 0 \/ ma + n = 0
        BY <1>1, <1>8
      <4>2. 0 * la = 0
        BY <1>8
      <4>. QED
        BY <1>9, <4>1, <4>2 DEF Reserved
    <3>. QED
      BY <3>1, <3>2, <3>3, <3>4
  <2>8. Offered(orders, b, r) = 0 /\ Offered(t, b, r) = 0
    <3>1. mb - n > 0 \/ mb - n = 0
      BY <1>1, <1>8
    <3>2. Offered(orders, b, r) = 0
      BY <1>2 DEF Offered
    <3>3. Offered(t, b, r) = 0
      BY <1>9, <2>4, <3>1 DEF Offered
    <3>. QED
      BY <3>2, <3>3
  <2>9. /\ Offered(t, a, r) = IF r = s THEN -ma ELSE 0
        /\ Offered(orders', a, r) = IF r = s THEN -(ma + n) ELSE 0
    <3>1. ~(ma > 0) /\ ~(ma + n > 0)
      BY <1>1, <1>2, <1>7, <1>8
    <3>2. Offered(t, a, r) = IF r = s THEN -ma ELSE 0
      BY <1>2, <1>7, <2>4, <3>1 DEF Offered
    <3>3. Offered(orders', a, r) = IF r = s THEN -(ma + n) ELSE 0
      BY <1>9, <3>1 DEF Offered
    <3>. QED
      BY <3>2, <3>3
  <2>10. AllReserved(orders') = AllReserved(orders) - nl
    BY <2>5, <2>6, <2>7
  <2>11. AllOffered(orders', r) = AllOffered(orders, r) - (IF r = s THEN n ELSE 0)
    BY <1>1, <1>8, <2>5, <2>6, <2>8, <2>9
  <2>. QED
    BY <2>5, <2>10, <2>11
<1>16. PICK c, d : c = orders[b].AccountID /\ d = orders[a].AccountID
  OBVIOUS
<1>17. c \in Accounts /\ d \in Accounts /\ balance[d] \in Int /\ position[<<c, s>>] \in Int
  BY <1>2, <1>16, RowFields DEF TypeOK
<1>18. PICK m \in Int : m = np + balance[d]
  BY <1>17
<1>19. SumFunction(balance) \in Int /\ SumFunction(balance') = SumFunction(balance) + m - balance[d]
  BY <1>4, <1>10, <1>16, <1>17, <1>18, OneBalance
<1>20. PICK k \in Int : k = position[<<c, s>>] + n
  BY <1>1, <1>17
<1>21. ASSUME NEW r \in Symbols PROVE TotalCash' = TotalCash - Forfeited /\ TotalShares(r)' = TotalShares(r)
  <2>1. /\ AllHeld(position, r) \in Int
        /\ AllHeld(position', r) = AllHeld(position, r) + (IF r = s THEN k - position[<<c, s>>] ELSE 0)
    <3>1. position' = [position EXCEPT ![<<c, s>>] = k]
      BY <1>4, <1>16, <1>20
    <3>2. PositionChange(position', c, s, k, r)
      BY <1>2, <1>17, <3>1, OnePosition
    <3>. QED
      BY <3>2 DEF PositionChange
  <2>2. TotalCash' = TotalCash - Forfeited
    BY <1>14, <1>15, <1>17, <1>18, <1>19, Totals
  <2>3. TotalShares(r)' = TotalShares(r)
    <3>1. AllHeld(position', r) + AllOffered(orders', r) = AllHeld(position, r) + AllOffered(orders, r)
      <4>1. CASE r = s
        <5>1. /\ AllOffered(orders, r) \in Int /\ AllOffered(orders', r) = AllOffered(orders, r) - n
              /\ AllHeld(position, r) \in Int /\ AllHeld(position', r) = AllHeld(position, r) + (k - position[<<c, s>>])
          BY <1>15, <2>1, <4>1
        <5>2. k - position[<<c, s>>] = n /\ n \in Int
          BY <1>1, <1>17, <1>20
        <5>. QED
          BY <5>1, <5>2
      <4>2. CASE r # s
        BY <1>15, <2>1, <4>2
      <4>. QED
        BY <4>1, <4>2
    <3>. QED
      BY <3>1, Totals
  <2>. QED
    BY <2>2, <2>3
<1>. QED
  BY <1>2, <1>21

\* EXECUTED explains the open amounts.
LEMMA AmountsExplained ==
    ASSUME IInv, [Next]_vars
    PROVE  OpenAmountsExplained
<1>1. TypeOK /\ VectorsMirrorBook /\ orders \in Seq(OrderRow) /\ executed \in Seq(ExecRow)
  BY DEF IInv, TypeOK
<1>2. \A i \in DOMAIN orders : orders[i] \in OrderRow /\ orders[i].Amount \in Int
  BY <1>1, RowFields
<1>3. \A i : Filled(executed, i) - Filled(executed, i) = 0
  <2>1. \A i : Filled(executed, i) \in Int
    BY <1>1, FilledTyped
  <2>. QED
    BY <2>1
<1>4. CASE MatchHeads
  <2> DEFINE b == buying[1].TransID
             a == selling[1].TransID
             n == MatchAmount(buying[1], selling[1])
             p == MatchPrice(buying[1], selling[1])
             x == [TransID |-> b, Amount |-> n, Price |-> p]
             y == [TransID |-> a, Amount |-> -n, Price |-> p]
  <2>1. PICK s \in matching :
           /\ CanMatch /\ n \in Int
           /\ b \in Buys(orders, s) /\ a \in Sells(orders, s) /\ b # a
           /\ orders'[b] = [orders[b] EXCEPT !.Amount = buying[1].Amount - n]
           /\ orders'[a] = [orders[a] EXCEPT !.Amount = selling[1].Amount + n]
           /\ \A i \in DOMAIN orders \ {a, b} : orders'[i] = orders[i]
    BY <1>1, <1>4, MatchEffect
  <2>2. /\ buying[1] = ActiveOrderOf(orders, b) /\ selling[1] = ActiveOrderOf(orders, a)
        /\ b \in DOMAIN orders /\ a \in DOMAIN orders
    BY <1>1, <2>1, Heads, ActiveRows
  <2>3. buying[1].Amount = orders[b].Amount /\ selling[1].Amount = orders[a].Amount
    BY <2>2 DEF ActiveOrderOf
  <2>4. x \in ExecRow /\ y \in ExecRow /\ executed' = executed \o <<x, y>>
    BY <1>1, <1>4, <2>1, HeadsType, ActiveFields DEF ExecRow, MatchHeads
  <2>5. x.TransID = b /\ y.TransID = a /\ x.Amount = n /\ y.Amount = -n
    OBVIOUS
  <2> HIDE DEF a, b, n, p, x, y
  <2>6. ASSUME NEW i PROVE Filled(executed', i) = Filled(executed, i) + (IF b = i THEN n ELSE 0) + (IF a = i THEN -n ELSE 0)
    BY <1>1, <2>4, <2>5, TwoExecutions
  <2>7. orders'[b].Amount = orders[b].Amount - n /\ orders'[a].Amount = orders[a].Amount + n
    BY <1>2, <2>1, <2>2, <2>3 DEF OrderRow
  <2>8. ASSUME NEW i \in DOMAIN orders
        PROVE  orders[i].Amount - orders'[i].Amount = Filled(executed', i) - Filled(executed, i)
    <3>1. Filled(executed, i) \in Int /\ orders[i].Amount \in Int
      BY <1>1, <1>2, FilledTyped
    <3>2. CASE i = b
      <4>1. Filled(executed', i) = Filled(executed, i) + n + 0
        BY <2>1, <2>6, <3>2
      <4>2. orders'[i].Amount = orders[i].Amount - n
        BY <2>7, <3>2
      <4>3. PICK m \in Int, f \in Int : m = orders[i].Amount /\ f = Filled(executed, i)
        BY <3>1
      <4>4. n \in Int
        BY <2>1
      <4>5. m - (m - n) = (f + n + 0) - f
        BY <4>3, <4>4
      <4>. QED
        BY <4>1, <4>2, <4>3, <4>5
    <3>3. CASE i = a
      <4>1. Filled(executed', i) = Filled(executed, i) + 0 + -n
        BY <2>1, <2>6, <3>3
      <4>2. orders'[i].Amount = orders[i].Amount + n
        BY <2>7, <3>3
      <4>3. PICK m \in Int, f \in Int : m = orders[i].Amount /\ f = Filled(executed, i)
        BY <3>1
      <4>4. n \in Int
        BY <2>1
      <4>5. m - (m + n) = (f + 0 + -n) - f
        BY <4>3, <4>4
      <4>. QED
        BY <4>1, <4>2, <4>3, <4>5
    <3>4. CASE i # a /\ i # b
      <4>1. Filled(executed', i) = Filled(executed, i) + 0 + 0
        BY <2>6, <3>4
      <4>2. orders'[i] = orders[i]
        BY <2>1, <3>4
      <4>. QED
        BY <3>1, <4>1, <4>2
    <3>. QED
      BY <3>2, <3>3, <3>4
  <2>. QED
    BY <2>8 DEF OpenAmountsExplained
<1>5. CASE ~MatchHeads
  <2>1. executed' = executed
    BY <1>5, OthersExecuteNothing
  <2>2. ASSUME NEW i \in DOMAIN orders PROVE orders'[i].Amount = orders[i].Amount
    <3>1. ASSUME NEW a \in Accounts, NEW s \in Symbols, NEW n \in Int, NEW p \in Prices,
                 CreateTransaction(a, s, n, p)
          PROVE  orders'[i] = orders[i]
      <4>1. PICK o \in OrderRow : orders' = Append(orders, o)
        BY <1>1, <3>1, NewRow
      <4>. QED
        BY <1>1, <4>1
    <3>2. ASSUME NEW a \in Accounts, NEW s \in Symbols, NEW n \in Amounts, NEW p \in Prices,
                 BuyOrder(a, s, n, p) \/ SellOrder(a, s, n, p)
          PROVE  orders'[i] = orders[i]
      <4>1. n \in Int /\ -n \in Int
        BY NumbersAssumption
      <4>. QED
        BY <3>1, <3>2, <4>1 DEF BuyOrder, SellOrder
    <3>3. ASSUME NEW k \in DOMAIN orders, CancelOrder(k) PROVE orders'[i].Amount = orders[i].Amount
      <4>1. orders'[k] = [orders[k] EXCEPT !.CancelTime = clock] /\ \A j \in DOMAIN orders \ {k} : orders'[j] = orders[j]
        <5>1. clock \in Int
          BY <1>1 DEF TypeOK
        <5>. QED
          BY <1>1, <3>3, <5>1, RowUpdates DEF CancelOrder
      <4>. QED
        BY <1>2, <4>1 DEF OrderRow
    <3>. QED
      BY <1>5, <3>2, <3>3 DEF Next, vars, tables, CreateAccount, CreatePosition, Commit, Tick
  <2>. QED
    BY <1>2, <1>3, <2>1, <2>2 DEF OpenAmountsExplained
<1>. QED
  BY <1>4, <1>5

LEMMA StepAccounted ==
    ASSUME IInv, [Next]_vars
    PROVE  SharesConserved /\ CashAccounted
<1>1. TypeOK /\ VectorsMirrorBook
  BY DEF IInv
<1> USE DEF SharesConserved, CashAccounted
<1>2. ASSUME ~MatchHeads PROVE Forfeited = 0
  BY <1>2, OthersExecuteNothing DEF Forfeited
<1>3. SumFunction(balance) \in Int /\ TotalCash \in Int
  <2>1. balance \in [Accounts -> Int]
    BY <1>1 DEF TypeOK
  <2>2. SumFunction(balance) \in Int
    BY <2>1, AccountsAssumption, SumOfSet DEF SumFunction
  <2>3. AllReserved(orders) \in Int
    BY <1>1, ReservedTyped DEF TypeOK
  <2>. QED
    BY <1>1, <2>2, <2>3, Totals
<1>4. ASSUME NEW a \in Accounts, NEW s \in Symbols, NEW n \in Amounts, NEW p \in Prices,
             BuyOrder(a, s, n, p) \/ SellOrder(a, s, n, p)
      PROVE  SharesConserved /\ CashAccounted
  <2>1. ~MatchHeads
    BY <1>4 DEF BuyOrder, SellOrder, MatchHeads
  <2>. QED
    BY <1>1, <1>2, <1>3, <1>4, <2>1, OrderAccounted
<1>5. ASSUME NEW i \in DOMAIN orders, CancelOrder(i) PROVE SharesConserved /\ CashAccounted
  <2>1. ~MatchHeads
    BY <1>5 DEF CancelOrder, MatchHeads
  <2>. QED
    BY <1>1, <1>2, <1>3, <1>5, <2>1, CancelAccounted
<1>6. CASE MatchHeads
  BY <1>1, <1>6, MatchAccounted
<1>7. ASSUME NEW a \in Accounts, NEW money \in Deposits, CreateAccount(a, money)
      PROVE  SharesConserved /\ CashAccounted
  <2>1. opened' # opened /\ position' = position /\ orders' = orders
    BY <1>7 DEF CreateAccount
  <2>. QED
    BY <1>1, <2>1, Totals
<1>8. ASSUME NEW a \in Accounts, NEW s \in Symbols, NEW n \in Grants, CreatePosition(a, s, n)
      PROVE  SharesConserved /\ CashAccounted
  <2>1. matching = {} /\ UNCHANGED <<orders, executed, balance>> /\ ~MatchHeads
    BY <1>8 DEF CreatePosition, MatchHeads
  <2>2. TotalCash' = TotalCash
    BY <1>1, <2>1, Totals
  <2>. QED
    BY <1>2, <1>3, <2>1, <2>2
<1>9. CASE UNCHANGED <<balance, position, orders, executed>> /\ ~MatchHeads
  <2>1. TotalCash' = TotalCash /\ \A s : TotalShares(s)' = TotalShares(s)
    BY <1>1, <1>9, Totals
  <2>. QED
    BY <1>2, <1>3, <1>9, <2>1
<1>10. Commit \/ Tick \/ UNCHANGED vars => UNCHANGED <<balance, position, orders, executed>>
  BY DEF Commit, Tick, vars, tables
<1>. QED
  BY <1>4, <1>5, <1>6, <1>7, <1>8, <1>9, <1>10 DEF Next

\* Orders, matches and cancellations neither make nor destroy shares, cash leaves only
\* where a buyer trades below his limit, and EXECUTED explains every open amount, over
\* any sequence of requests of any size.
THEOREM AllAccounted == Spec => EverythingAccounted
BY AmountsExplained, StepAccounted, InvariantHolds, PTL DEF Spec, EverythingAccounted
=============================================================================
