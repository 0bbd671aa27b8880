----------------------------- MODULE ExchangeSql -----------------------------
(***************************************************************************)
(* The stock exchange server with several clients at once, one SQL         *)
(* statement at a time.  main.cpp gives every client a thread and a         *)
(* database connection; a thread runs its client's requests in order, each  *)
(* <order>, <cancel> and <create> in a transaction of its own.             *)
(*                                                                          *)
(* PostgreSQL is modelled as the code uses it, at READ COMMITTED: the       *)
(* "set transaction isolation level serializable" of main.cpp:95 runs in a  *)
(* transaction of its own (sql_exec) on a connection that is then closed,   *)
(* so it reaches no client.  A statement sees the committed rows and its    *)
(* own writes; an UPDATE or INSERT waits for a row another open transaction *)
(* has written; a duplicate key or a deadlock raises an exception, and no   *)
(* handler catches it: the process ends.                                    *)
(***************************************************************************)
EXTENDS Integers, Sequences, FiniteSets, Functions

CONSTANTS
    Clients,    \* client connections
    Accounts,   \* account numbers
    Symbols,    \* symbol names
    Courses,    \* [requests, opening]: what each client may send, and the rows there are
                \* when they connect, by key
    MaxOrders,  \* bound on the rows of TRANSACTION
    MaxShares   \* bound on what <create> hands to one position

\* Keys of rows: an account's balance (its NOSYMBOL row in ACCOUNT), a position,
\* a row of SYMBOL, a row of TRANSACTION.
Balance(a) == <<"balance", a>>
Position(a, s) == <<"position", a, s>>
Symbol(s) == <<"symbol", s>>
Order(i) == <<"order", i>>

\* What a client may ask for.  A query changes nothing and is left out.
\*   [kind |-> "account", id, amount]         <create><account>
\*   [kind |-> "position", id, sym, amount]   <create><symbol><account>
\*   [kind |-> "order", id, sym, amount, limit]  amount > 0 buys, < 0 sells
\*   [kind |-> "cancel", id]                  any order of the account

\* There are no orders when the clients connect.  An order of no shares is refused before its
\* transaction begins.
ASSUME ExchangeSqlAssumption ==
    \A course \in Courses :
        /\ DOMAIN course.opening \subseteq {Balance(a) : a \in Accounts} \cup {Symbol(s) : s \in Symbols}
                                          \cup {Position(a, s) : a \in Accounts, s \in Symbols}
        /\ \A c \in Clients : \A r \in course.requests[c] :
              /\ r.kind \in {"account", "position", "order", "cancel"} /\ r.id \in Accounts
              /\ r.kind \in {"position", "order"} => r.sym \in Symbols
              /\ r.kind = "order" => r.amount \in Int \ {0} /\ r.limit \in Int

\* The handlers parse these numbers with atof: clients are assumed to send no negative ones,
\* and no account is opened, and no position begins, below zero.
ASSUME NumbersAssumption ==
    \A course \in Courses :
        /\ \A a \in Accounts : Balance(a) \in DOMAIN course.opening => course.opening[Balance(a)] \in Nat
        /\ \A a \in Accounts, s \in Symbols :
              Position(a, s) \in DOMAIN course.opening => course.opening[Position(a, s)] \in Nat
        /\ \A c \in Clients : \A r \in course.requests[c] :
              /\ r.kind \in {"account", "position"} => r.amount \in Nat
              /\ r.kind = "order" => r.limit \in Nat

VARIABLES
    requests,   \* requests[c]: what client c may send
    db,         \* the committed rows of ACCOUNT, SYMBOL and TRANSACTION, by key
    executed,   \* the committed rows of EXECUTED
    serial,     \* the last TransID handed out
    tx,         \* tx[c]: the rows the open transaction of c has written
    pc,         \* pc[c]: the statement c runs next
    local,      \* local[c]: the variables of c's handler
    up          \* the server process is alive

vars == <<requests, db, executed, serial, tx, pc, local, up>>

NOTCANCELLED == -1
CANCELLED == 0      \* any time that is not NOTCANCELLED
NoRows == <<>>

\* The request, myTransID, currentTransAmount, the number read last, the vectors
\* of matchOrders, and the rows inserted into EXECUTED.
Fresh == [req |-> <<>>, id |-> 0, open |-> 0, seen |-> 0, buying |-> <<>>, selling |-> <<>>, fills |-> <<>>]

Init ==
    /\ \E course \in Courses : requests = course.requests /\ db = course.opening
    /\ executed = <<>>
    /\ serial = 0
    /\ tx = [c \in Clients |-> NoRows]
    /\ pc = [c \in Clients |-> "idle"]
    /\ local = [c \in Clients |-> Fresh]
    /\ up = TRUE
-----------------------------------------------------------------------------
(* The database                                                             *)

\* The rows of f over those of g.
Over(f, g) == [k \in DOMAIN f \cup DOMAIN g |-> IF k \in DOMAIN f THEN f[k] ELSE g[k]]

\* What a statement of c sees.
Seen(c) == Over(tx[c], db)
Exists(c, k) == k \in DOMAIN Seen(c)

\* No other open transaction has written the row.
Unlocked(c, k) == \A d \in Clients \ {c} : k \notin DOMAIN tx[d]

Goto(c, step) == pc' = [pc EXCEPT ![c] = step]
Write(c, k, v) == tx' = [tx EXCEPT ![c] = Over([n \in {k} |-> v], @)]

\* Mutant of UpdateRow: the row is not locked.
UpdateRowUnlocked(c, k, v, step) ==
    /\ Write(c, k, v)
    /\ Goto(c, step)
    /\ UNCHANGED <<db, executed, up>>

\* UPDATE of one row; it waits for the row and sees it as committed then.
UpdateRow(c, k, v, step) ==
    /\ Unlocked(c, k)
    /\ Write(c, k, v)
    /\ Goto(c, step)
    /\ UNCHANGED <<db, executed, up>>

\* An exception leaves the handler's thread: std::terminate, and the database
\* rolls back what was open.
Terminate ==
    /\ up' = FALSE
    /\ tx' = [c \in Clients |-> NoRows]
    /\ pc' = [c \in Clients |-> "down"]
    /\ local' = [c \in Clients |-> Fresh]
    /\ UNCHANGED <<db, executed, serial>>

\* INSERT of one row: a key that is there already is a unique violation.
InsertRow(c, k, v, step) ==
    /\ Unlocked(c, k)
    /\ IF k \in DOMAIN db
       THEN Terminate
       ELSE /\ Write(c, k, v)
            /\ Goto(c, step)
            /\ UNCHANGED <<db, executed, serial, local, up>>

\* W.commit(), or the destructor of W without it.
EndTransaction(c, committed) ==
    /\ db' = IF committed THEN Seen(c) ELSE db
    /\ executed' = IF committed THEN executed \o local[c].fills ELSE executed
    /\ tx' = [tx EXCEPT ![c] = NoRows]
    /\ local' = [local EXCEPT ![c] = Fresh]
    /\ Goto(c, "idle")
    /\ UNCHANGED <<serial, up>>

\* A SELECT: the handler keeps what it read.
Keep(c, l, step) ==
    /\ local' = [local EXCEPT ![c] = l]
    /\ Goto(c, step)
    /\ UNCHANGED <<db, executed, serial, tx, up>>
-----------------------------------------------------------------------------
(* A request arrives                                                        *)

\* The first statement of each handler.  An account that is not there is
\* refused at once; a cancel checks in transactions of its own that the order
\* exists and belongs to the account.
FirstStep(r) ==
    CASE r.kind = "account" -> "findaccount"
      [] r.kind = "position" -> "findrow"
      [] r.kind = "order" -> "check"
      [] r.kind = "cancel" -> "readorder"

\* The bounds on the tables: what is under way counts as done.
Bounded(r) ==
    LET filing == {d \in Clients : /\ pc[d] \in {"check", "findsymbol", "newsymbol", "insert"}
                                  /\ local[d].req.kind = "order"}
    IN  /\ r.kind = "order" => serial + Cardinality(filing) < MaxOrders
        /\ r.kind = "position" =>
             (IF Position(r.id, r.sym) \in DOMAIN db THEN db[Position(r.id, r.sym)] ELSE 0) + r.amount =< MaxShares

OrdersOf(a) == {i \in 1..serial : Order(i) \in DOMAIN db /\ db[Order(i)].AccountID = a}

Receive(c) ==
    /\ pc[c] = "idle"
    /\ \E r \in requests[c] :
         /\ Bounded(r)
         /\ r.kind # "account" => Balance(r.id) \in DOMAIN db
         /\ \E i \in IF r.kind = "cancel" THEN OrdersOf(r.id) ELSE {0} :
              Keep(c, [Fresh EXCEPT !.req = r, !.id = i], FirstStep(r))
    /\ UNCHANGED requests
-----------------------------------------------------------------------------
(* create_ACCOUNT and update_ACCOUNT_Position                               *)

FindAccount(c) ==
    /\ pc[c] = "findaccount"
    /\ IF Exists(c, Balance(local[c].req.id))
       THEN EndTransaction(c, FALSE)
       ELSE Keep(c, local[c], "newaccount")

NewAccount(c) ==
    /\ pc[c] = "newaccount"
    /\ InsertRow(c, Balance(local[c].req.id), local[c].req.amount, "commit")

FindRow(c) ==
    LET r == local[c].req IN
    /\ pc[c] = "findrow"
    /\ Keep(c, local[c], IF Exists(c, Position(r.id, r.sym)) THEN "addrow" ELSE "findsymbol")

AddRow(c) ==
    LET r == local[c].req
        k == Position(r.id, r.sym)
    IN  /\ pc[c] = "addrow"
        /\ UpdateRow(c, k, Seen(c)[k] + r.amount, "commit")
        /\ UNCHANGED <<serial, local>>

NewRow(c) ==
    LET r == local[c].req IN
    /\ pc[c] = "newrow"
    /\ InsertRow(c, Position(r.id, r.sym), r.amount, "commit")

CommitCreate(c) ==
    /\ pc[c] = "commit"
    /\ EndTransaction(c, TRUE)

\* update_SYMBOL_W, for a new position and for an order.
AfterSymbol(c) == IF local[c].req.kind = "order" THEN "insert" ELSE "newrow"

FindSymbol(c) ==
    /\ pc[c] = "findsymbol"
    /\ Keep(c, local[c], IF Exists(c, Symbol(local[c].req.sym)) THEN AfterSymbol(c) ELSE "newsymbol")

NewSymbol(c) ==
    /\ pc[c] = "newsymbol"
    /\ InsertRow(c, Symbol(local[c].req.sym), TRUE, AfterSymbol(c))
-----------------------------------------------------------------------------
(* handle_transaction_buyorder, handle_transaction_sellorder                *)

IsBuy(r) == r.amount > 0
\* The row an order reserves from, and how much.
Source(r) == IF IsBuy(r) THEN Balance(r.id) ELSE Position(r.id, r.sym)
Reserve(r) == IF IsBuy(r) THEN r.amount * r.limit ELSE -r.amount
SourceAmount(c) ==
    LET k == Source(local[c].req) IN IF Exists(c, k) THEN Seen(c)[k] ELSE -1

CheckFunds(c) ==
    /\ pc[c] = "check"
    /\ IF SourceAmount(c) < Reserve(local[c].req)
       THEN EndTransaction(c, FALSE)
       ELSE Keep(c, local[c], "findsymbol")

\* nextval of the serial is handed out at once and never taken back.
InsertOrder(c) ==
    LET r == local[c].req IN
    /\ pc[c] = "insert"
    /\ serial' = serial + 1
    /\ UpdateRow(c, Order(serial + 1),
            [OrderTime |-> 0, AccountID |-> r.id, SymbolName |-> r.sym, Amount |-> r.amount,
             PriceLimit |-> r.limit, CancelTime |-> NOTCANCELLED], "selectmax")
    /\ UNCHANGED local

\* SELECT max(TransID) FROM TRANSACTION.
SelectMax(c) ==
    /\ pc[c] = "selectmax"
    /\ \E i \in 1..serial :
         /\ Exists(c, Order(i)) /\ \A j \in (i + 1)..serial : ~Exists(c, Order(j))
         /\ Keep(c, [local[c] EXCEPT !.id = i], "reread")

Reread(c) ==
    /\ pc[c] = "reread"
    /\ Keep(c, [local[c] EXCEPT !.seen = SourceAmount(c)], "charge")

Charge(c) ==
    LET r == local[c].req IN
    /\ pc[c] = "charge"
    /\ UpdateRow(c, Source(r), local[c].seen - Reserve(r), "selectbuys")
    /\ UNCHANGED <<serial, local>>
-----------------------------------------------------------------------------
(* matchOrders                                                              *)

\* Mutant of ActiveIds: the symbol is missing in the WHERE clause.
ActiveIdsOfAnySymbol(c, s, sign) ==
    {i \in 1..serial : /\ Exists(c, Order(i))
                       /\ LET o == Seen(c)[Order(i)]
                          IN o.CancelTime = NOTCANCELLED /\ o.Amount * sign > 0}

ActiveIds(c, s, sign) ==
    {i \in 1..serial : /\ Exists(c, Order(i))
                       /\ LET o == Seen(c)[Order(i)]
                          IN o.CancelTime = NOTCANCELLED /\ o.SymbolName = s /\ o.Amount * sign > 0}

\* The entries of a vector carry what the loop uses of a row.
Vectors(c, s, sign) ==
    LET ids == ActiveIds(c, s, sign)
        n == Cardinality(ids)
        entry(i) == LET o == Seen(c)[Order(i)]
                    IN [TransID |-> i, OrderTime |-> o.OrderTime, AccountID |-> o.AccountID,
                        Amount |-> o.Amount, PriceLimit |-> o.PriceLimit]
    IN  {[k \in 1..n |-> entry(f[k])] :
            f \in {g \in Bijection(1..n, ids) : \A j, k \in 1..n :
                     j < k => entry(g[j]).PriceLimit * sign >= entry(g[k]).PriceLimit * sign}}

SelectBuys(c) ==
    /\ pc[c] = "selectbuys"
    /\ \E v \in Vectors(c, local[c].req.sym, 1) :
         Keep(c, [local[c] EXCEPT !.buying = v], "selectsells")

SelectSells(c) ==
    /\ pc[c] = "selectsells"
    /\ \E v \in Vectors(c, local[c].req.sym, -1) :
         Keep(c, [local[c] EXCEPT !.selling = v], "loop")

CanMatch(c) ==
    LET l == local[c] IN
    /\ l.buying # <<>> /\ l.selling # <<>>
    /\ l.buying[1].PriceLimit >= l.selling[1].PriceLimit

MatchAmount(c) ==
    LET b == local[c].buying[1].Amount
        s == -local[c].selling[1].Amount
    IN  IF b =< s THEN b ELSE s

MatchPrice(c) ==
    LET b == local[c].buying[1]
        s == local[c].selling[1]
    IN  IF b.OrderTime =< s.OrderTime THEN b.PriceLimit ELSE s.PriceLimit

BuyerPosition(c) == Position(local[c].buying[1].AccountID, local[c].req.sym)
SellerBalance(c) == Balance(local[c].selling[1].AccountID)

\* Mutant of UpdateBuyRow: the UPDATE writes all columns as they were fetched.
UpdateBuyRowWhole(c) ==
    LET b == local[c].buying[1]
        s == local[c].selling[1]
        n == MatchAmount(c)
    IN  /\ pc[c] = "loop" /\ CanMatch(c)
        /\ local' = [local EXCEPT ![c].fills = @ \o
                <<[TransID |-> b.TransID, Amount |-> n, Price |-> MatchPrice(c)],
                  [TransID |-> s.TransID, Amount |-> -n, Price |-> MatchPrice(c)]>>]
        /\ UpdateRow(c, Order(b.TransID),
                [Seen(c)[Order(b.TransID)] EXCEPT !.Amount = b.Amount - n, !.CancelTime = NOTCANCELLED],
                "sellrow")
        /\ UNCHANGED serial

\* create_EXECUTED twice and the UPDATE of the buying row.
UpdateBuyRow(c) ==
    LET b == local[c].buying[1]
        s == local[c].selling[1]
        n == MatchAmount(c)
    IN  /\ pc[c] = "loop" /\ CanMatch(c)
        /\ local' = [local EXCEPT ![c].fills = @ \o
                <<[TransID |-> b.TransID, Amount |-> n, Price |-> MatchPrice(c)],
                  [TransID |-> s.TransID, Amount |-> -n, Price |-> MatchPrice(c)]>>]
        /\ UpdateRow(c, Order(b.TransID),
                [Seen(c)[Order(b.TransID)] EXCEPT !.Amount = b.Amount - n], "sellrow")
        /\ UNCHANGED serial

UpdateSellRow(c) ==
    LET s == local[c].selling[1] IN
    /\ pc[c] = "sellrow"
    /\ UpdateRow(c, Order(s.TransID),
            [Seen(c)[Order(s.TransID)] EXCEPT !.Amount = s.Amount + MatchAmount(c)], "findposition")
    /\ UNCHANGED <<serial, local>>

\* update_ACCOUNT_Position_W of the buyer.
FindPosition(c) ==
    /\ pc[c] = "findposition"
    /\ Keep(c, local[c], IF Exists(c, BuyerPosition(c)) THEN "addposition" ELSE "newposition")

AddPosition(c) ==
    /\ pc[c] = "addposition"
    /\ UpdateRow(c, BuyerPosition(c), Seen(c)[BuyerPosition(c)] + MatchAmount(c), "readseller")
    /\ UNCHANGED <<serial, local>>

NewPosition(c) ==
    /\ pc[c] = "newposition"
    /\ InsertRow(c, BuyerPosition(c), MatchAmount(c), "readseller")

\* Mutant of ReadSeller: the balance is read outside W, on another connection.
ReadSellerCommitted(c) ==
    /\ pc[c] = "readseller"
    /\ Keep(c, [local[c] EXCEPT !.seen = db[SellerBalance(c)]], "payseller")

ReadSeller(c) ==
    /\ pc[c] = "readseller"
    /\ Keep(c, [local[c] EXCEPT !.seen = Seen(c)[SellerBalance(c)]], "payseller")

\* The vector after its head traded n: dropped when filled, lowered otherwise.
AfterMatch(vector, n) ==
    IF vector[1].Amount = n THEN Tail(vector)
    ELSE [vector EXCEPT ![1].Amount = @ - n]

PaySeller(c) ==
    LET n == MatchAmount(c) IN
    /\ pc[c] = "payseller"
    /\ UpdateRow(c, SellerBalance(c), n * MatchPrice(c) + local[c].seen, "loop")
    /\ local' = [local EXCEPT ![c].buying = AfterMatch(@, n), ![c].selling = AfterMatch(@, -n)]
    /\ UNCHANGED serial

\* Mutant of CommitOrder: the loop has no break for heads that do not cross.
CommitOrderWithoutBreak(c) ==
    /\ pc[c] = "loop" /\ (local[c].buying = <<>> \/ local[c].selling = <<>>)
    /\ EndTransaction(c, TRUE)

CommitOrder(c) ==
    /\ pc[c] = "loop" /\ ~CanMatch(c)
    /\ EndTransaction(c, TRUE)
-----------------------------------------------------------------------------
(* cancel_order                                                             *)

\* Mutant of ReadOrder: what was ordered is taken for what is still open.
ReadOrderAsAsked(c) ==
    /\ pc[c] = "readorder"
    /\ Keep(c, [local[c] EXCEPT !.open =
                  Seen(c)[Order(local[c].id)].Amount
                  + SumFunction([k \in DOMAIN executed |->
                       IF executed[k].TransID = local[c].id THEN executed[k].Amount ELSE 0])], "readcancel")

\* The row's Amount and SymbolName, then its CancelTime.
ReadOrder(c) ==
    /\ pc[c] = "readorder"
    /\ Keep(c, [local[c] EXCEPT !.open = Seen(c)[Order(local[c].id)].Amount], "readcancel")

ReadCancelTime(c) ==
    /\ pc[c] = "readcancel"
    /\ IF local[c].open = 0 \/ Seen(c)[Order(local[c].id)].CancelTime # NOTCANCELLED
       THEN EndTransaction(c, FALSE)
       ELSE Keep(c, local[c], "setcancel")

SetCancelTime(c) ==
    LET k == Order(local[c].id) IN
    /\ pc[c] = "setcancel"
    /\ UpdateRow(c, k, [Seen(c)[k] EXCEPT !.CancelTime = CANCELLED], "readrefund")
    /\ UNCHANGED <<serial, local>>

\* The row an order's reserve goes back to, and how much.
RefundRow(c) ==
    LET o == Seen(c)[Order(local[c].id)]
    IN  IF local[c].open < 0 THEN Position(o.AccountID, o.SymbolName) ELSE Balance(o.AccountID)
RefundAmount(c) ==
    LET o == Seen(c)[Order(local[c].id)]
    IN  IF local[c].open < 0 THEN -local[c].open ELSE local[c].open * o.PriceLimit

ReadRefund(c) ==
    /\ pc[c] = "readrefund"
    /\ Keep(c, [local[c] EXCEPT !.seen = Seen(c)[RefundRow(c)]], "refund")

Refund(c) ==
    /\ pc[c] = "refund"
    /\ UpdateRow(c, RefundRow(c), local[c].seen + RefundAmount(c), "commit")
    /\ UNCHANGED <<serial, local>>
-----------------------------------------------------------------------------
(* Deadlock                                                                 *)

\* The row the next statement of c writes.
Wanted(c) ==
    LET l == local[c] IN
    CASE pc[c] = "newaccount" -> {Balance(l.req.id)}
      [] pc[c] \in {"addrow", "newrow"} -> {Position(l.req.id, l.req.sym)}
      [] pc[c] = "newsymbol" -> {Symbol(l.req.sym)}
      [] pc[c] = "charge" -> {Source(l.req)}
      [] pc[c] = "loop" -> IF CanMatch(c) THEN {Order(l.buying[1].TransID)} ELSE {}
      [] pc[c] = "sellrow" -> {Order(l.selling[1].TransID)}
      [] pc[c] \in {"addposition", "newposition"} -> {BuyerPosition(c)}
      [] pc[c] = "payseller" -> {SellerBalance(c)}
      [] pc[c] = "setcancel" -> {Order(l.id)}
      [] pc[c] = "refund" -> {RefundRow(c)}
      [] OTHER -> {}

WaitsFor(c, d) == c # d /\ \E k \in Wanted(c) : k \in DOMAIN tx[d]

\* PostgreSQL breaks a cycle of waits by failing one of them.
DeadlockDetected ==
    /\ \E waiting \in SUBSET Clients :
         waiting # {} /\ \A c \in waiting : \E d \in waiting : WaitsFor(c, d)
    /\ Terminate
    /\ UNCHANGED requests
-----------------------------------------------------------------------------
Statement(c) ==
    \/ FindAccount(c) \/ NewAccount(c) \/ FindRow(c) \/ AddRow(c) \/ NewRow(c)
    \/ CommitCreate(c) \/ FindSymbol(c) \/ NewSymbol(c)
    \/ CheckFunds(c) \/ InsertOrder(c) \/ SelectMax(c) \/ Reread(c) \/ Charge(c)
    \/ SelectBuys(c) \/ SelectSells(c) \/ UpdateBuyRow(c) \/ UpdateSellRow(c)
    \/ FindPosition(c) \/ AddPosition(c) \/ NewPosition(c) \/ ReadSeller(c) \/ PaySeller(c)
    \/ CommitOrder(c)
    \/ ReadOrder(c) \/ ReadCancelTime(c) \/ SetCancelTime(c) \/ ReadRefund(c) \/ Refund(c)

Handler(c) == Statement(c) /\ UNCHANGED requests

Next ==
    \/ \E c \in Clients : Receive(c)
    \/ \E c \in Clients : Handler(c)
    \/ DeadlockDetected

\* A thread that can run does run, and PostgreSQL finds its deadlocks.
Fairness == (\A c \in Clients : WF_vars(Handler(c))) /\ WF_vars(DeadlockDetected)

Spec == Init /\ [][Next]_vars
FairSpec == Spec /\ Fairness
=============================================================================
