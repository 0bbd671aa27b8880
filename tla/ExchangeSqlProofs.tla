-------------------------- MODULE ExchangeSqlProofs --------------------------
(***************************************************************************)
(* For any clients, accounts, symbols and requests, however the statements    *)
(* interleave and whatever transaction is rolled back: the tables keep their   *)
(* types, a row is written by one open transaction at a time, and a cancelled  *)
(* order stays so.  Clients that have no account and no symbol in common       *)
(* moreover find their rows at every statement as they read them before, and   *)
(* their orders add up with what was executed of them; and a client alone gets *)
(* what Exchange.tla says, request by request and turn by turn.                *)
(***************************************************************************)
EXTENDS ExchangeSqlProperties, Induction, SequenceTheorems, FiniteSetTheorems, TLAPS

CreatingAccount == {"findaccount", "newaccount"}
Cancelling == {"readorder", "readcancel", "setcancel", "readrefund", "refund"}
InTurns == {"sellrow", "findposition", "addposition", "newposition", "readseller", "payseller"}
Trading == InTurns \cup {"findrow", "addrow", "newrow", "findsymbol", "newsymbol", "check", "insert",
                         "selectmax", "reread", "charge", "selectbuys", "selectsells", "loop"}

Variables == {"req", "id", "open", "seen", "buying", "selling", "fills"}
Entry == [TransID : Nat, OrderTime : {0}, AccountID : Accounts, Amount : Int, PriceLimit : Int]
OrderRow == [OrderTime : {0}, AccountID : Accounts, SymbolName : Symbols, Amount : Int,
             PriceLimit : Int, CancelTime : {NOTCANCELLED, CANCELLED}]

\* A table has rows for keys that were handed out, and whole rows of orders.
Table(rows) ==
    /\ DOMAIN rows \subseteq Keys
    /\ \A i \in 1 .. serial : Order(i) \in DOMAIN rows => rows[Order(i)] \in OrderRow

\* The orders a client may have read of.
Known(c) == {i \in 1 .. serial : Order(i) \in DOMAIN Seen(c)}

Vector(v, known) == v \in Seq(Entry) /\ \A k \in 1 .. Len(v) : v[k].TransID \in known

\* What a handler's variables are like when it is at a step.
LocalOK(l, step, known) ==
    /\ DOMAIN l = Variables
    /\ step \in CreatingAccount \cup Trading => l.req.id \in Accounts
    /\ step \in Trading =>
          /\ l.req.sym \in Symbols
          /\ l.req.kind = "order" => l.req.amount \in Int /\ l.req.limit \in Int
    /\ step = "insert" => l.req.kind = "order"
    /\ step \in Cancelling => l.id \in known
    /\ Vector(l.buying, known) /\ Vector(l.selling, known)
    /\ step \in InTurns => l.buying # <<>> /\ l.selling # <<>>

RequestOK(r) ==
    /\ r.kind \in {"account", "position", "order", "cancel"} /\ r.id \in Accounts
    /\ r.kind \in {"position", "order"} => r.sym \in Symbols
    /\ r.kind = "order" => r.amount \in Int /\ r.limit \in Int

Types ==
    /\ serial \in Nat /\ up \in BOOLEAN
    /\ pc \in [Clients -> Steps]
    /\ DOMAIN tx = Clients /\ DOMAIN local = Clients
    /\ \A c \in Clients : \A r \in requests[c] : RequestOK(r)
    /\ Table(db)

\* One open transaction at a time writes a row, and not to bring an order back.
Locks ==
    /\ \A c, d \in Clients : c # d => DOMAIN tx[c] \cap DOMAIN tx[d] = {}
    /\ \A c \in Clients :
          /\ Table(tx[c])
          /\ pc[c] \in {"idle", "down"} => tx[c] = NoRows
          /\ \A i \in 1 .. serial :
                Order(i) \in DOMAIN tx[c] \cap DOMAIN db /\ db[Order(i)].CancelTime = CANCELLED
                    => tx[c][Order(i)].CancelTime = CANCELLED

Inv == Types /\ Locks /\ \A c \in Clients : LocalOK(local[c], pc[c], Known(c))
-----------------------------------------------------------------------------
(* Keys and rows                                                            *)

LEMMA KeysApart ==
    /\ \A i, j : Order(i) = Order(j) => i = j
    /\ \A i, a : Order(i) # Balance(a)
    /\ \A i, s : Order(i) # Symbol(s)
    /\ \A i, a, s : Order(i) # Position(a, s)
    BY DEF Order, Balance, Symbol, Position

\* A key of an order belongs to an order that was numbered.
LEMMA OrderKeys == \A i : Order(i) \in Keys => i \in 1 .. serial
    BY KeysApart DEF Keys

LEMMA Rows ==
    ASSUME NEW f, NEW g
    PROVE  /\ DOMAIN Over(f, g) = DOMAIN f \cup DOMAIN g
           /\ \A k \in DOMAIN f : Over(f, g)[k] = f[k]
           /\ \A k \in DOMAIN g \ DOMAIN f : Over(f, g)[k] = g[k]
    BY DEF Over

LEMMA NoRow == DOMAIN NoRows = {}
    BY DEF NoRows

\* What a client sees is a table.
LEMMA SeenTable ==
    ASSUME Types, Locks, NEW c \in Clients
    PROVE  Table(Seen(c))
<1>1. Table(db) /\ Table(tx[c])
    BY DEF Types, Locks
<1>2. /\ DOMAIN Seen(c) = DOMAIN tx[c] \cup DOMAIN db
      /\ \A k \in DOMAIN tx[c] : Seen(c)[k] = tx[c][k]
      /\ \A k \in DOMAIN db \ DOMAIN tx[c] : Seen(c)[k] = db[k]
    BY Rows DEF Seen
<1> QED
    BY <1>1, <1>2 DEF Table

\* A client that has no vectors and reads no order may be at any step of no handler.
LEMMA FreshOK ==
    ASSUME NEW step \in {"idle", "down", "commit"}, NEW known
    PROVE  LocalOK(Fresh, step, known)
    BY DEF LocalOK, Fresh, Variables, Vector, CreatingAccount, Trading, Cancelling, InTurns

\* More orders are known, and nothing else changes.
LEMMA KnownGrows ==
    ASSUME NEW l, NEW step, NEW known, NEW more, known \subseteq more, LocalOK(l, step, known)
    PROVE  LocalOK(l, step, more)
    BY DEF LocalOK, Vector
-----------------------------------------------------------------------------
(* The four kinds of steps                                                  *)

\* A client reads.
LEMMA KeepKeeps ==
    ASSUME Inv, NEW c \in Clients, NEW l, NEW step \in Steps \ {"idle", "down"},
           Keep(c, l, step), requests' = requests, LocalOK(l, step, Known(c))
    PROVE  Inv'
<1>1. UNCHANGED <<db, serial, tx, up, requests>>
    BY DEF Keep
<1>2. pc' = [pc EXCEPT ![c] = step] /\ local' = [local EXCEPT ![c] = l]
    BY DEF Keep, Goto
<1>3. Types'
    BY <1>1, <1>2 DEF Inv, Types, Table, Keys
<1>4. Locks'
    BY <1>1, <1>2 DEF Inv, Types, Locks, Table, Keys
<1>5. \A d \in Clients : Known(d)' = Known(d)
    BY <1>1 DEF Known, Seen
<1>6. \A d \in Clients : LocalOK(local'[d], pc'[d], Known(d))
    BY <1>2 DEF Inv, Types
<1>7. \A d \in Clients : LocalOK(local'[d], pc'[d], Known(d)')
    BY <1>5, <1>6
<1> QED
    BY <1>3, <1>4, <1>7 DEF Inv, LocalOK, Vector

\* The process ends.
LEMMA TerminateKeeps ==
    ASSUME Inv, Terminate, requests' = requests
    PROVE  Inv'
<1>1. /\ tx' = [c \in Clients |-> NoRows] /\ pc' = [c \in Clients |-> "down"]
      /\ local' = [c \in Clients |-> Fresh]
      /\ db' = db /\ serial' = serial /\ up' = FALSE
    BY DEF Terminate
<1>2. Types'
    <2>1. pc' \in [Clients -> Steps]
        BY <1>1 DEF Steps
    <2>2. up' \in BOOLEAN
        BY <1>1, Zenon
    <2>3. Table(db)'
        BY <1>1 DEF Inv, Types, Table, Keys
    <2>4. DOMAIN tx' = Clients /\ DOMAIN local' = Clients
        BY <1>1
    <2> QED
        BY <1>1, <2>1, <2>2, <2>3, <2>4 DEF Inv, Types
<1>3. Locks'
    BY <1>1, NoRow DEF Locks, Table
<1>4. \A d \in Clients : LocalOK(local'[d], pc'[d], Known(d)')
    BY <1>1, FreshOK
<1> QED
    BY <1>2, <1>3, <1>4 DEF Inv, LocalOK, Vector

\* The variables of c's handler are l, and the others' are as they were.
Becomes(c, l) ==
    /\ DOMAIN local' = Clients /\ local'[c] = l
    /\ \A d \in Clients \ {c} : local'[d] = local[d]

\* A client writes a row that nobody else has written.
LEMMA WriteKeeps ==
    ASSUME Inv, NEW c \in Clients, NEW k, NEW v, NEW l, NEW step \in Steps \ {"idle", "down"},
           Unlocked(c, k), Write(c, k, v), Goto(c, step), Becomes(c, l),
           UNCHANGED <<db, up, requests>>, serial' \in Nat, serial <= serial',
           k \in Keys',
           \A i \in 1 .. serial' : k = Order(i) =>
               /\ v \in OrderRow
               /\ k \in DOMAIN db /\ db[k].CancelTime = CANCELLED => v.CancelTime = CANCELLED,
           LocalOK(l, step, Known(c) \cup {i \in 1 .. serial' : k = Order(i)})
    PROVE  Inv'
<1>1. 1 .. serial \subseteq 1 .. serial'
    BY DEF Inv, Types
<1>2. Keys \subseteq Keys'
    BY <1>1 DEF Keys
<1>3. /\ DOMAIN tx' = Clients /\ DOMAIN tx'[c] = DOMAIN tx[c] \cup {k} /\ tx'[c][k] = v
      /\ \A n \in DOMAIN tx[c] \ {k} : tx'[c][n] = tx[c][n]
      /\ \A d \in Clients \ {c} : tx'[d] = tx[d]
    <2>1. tx' = [tx EXCEPT ![c] = Over([n \in {k} |-> v], tx[c])]
        BY DEF Write
    <2>2. /\ DOMAIN Over([n \in {k} |-> v], tx[c]) = DOMAIN tx[c] \cup {k}
          /\ Over([n \in {k} |-> v], tx[c])[k] = v
          /\ \A n \in DOMAIN tx[c] \ {k} : Over([m \in {k} |-> v], tx[c])[n] = tx[c][n]
        BY DEF Over
    <2>3. DOMAIN tx = Clients
        BY DEF Inv, Types
    <2> HIDE DEF Over
    <2> QED
        BY <2>1, <2>2, <2>3
<1>4. /\ pc' = [pc EXCEPT ![c] = step] /\ DOMAIN local' = Clients /\ local'[c] = l
      /\ \A d \in Clients \ {c} : local'[d] = local[d]
    BY DEF Goto, Becomes
<1>5. \A rows : Table(rows) => /\ DOMAIN rows \subseteq Keys'
                               /\ \A i \in 1 .. serial' : Order(i) \in DOMAIN rows => rows[Order(i)] \in OrderRow
    BY <1>1, <1>2, OrderKeys DEF Table
<1>6. Types'
    <2>1. Table(db)'
        BY <1>5 DEF Inv, Types, Table
    <2> QED
        BY <1>3, <1>4, <2>1 DEF Inv, Types
<1>7. \A d \in Clients : Table(tx[d])'
    <2> SUFFICES ASSUME NEW d \in Clients PROVE Table(tx[d])'
        OBVIOUS
    <2>1. Table(tx[d])
        BY DEF Inv, Locks
    <2>2. CASE d = c
        BY <1>3, <1>5, <2>1, <2>2 DEF Table
    <2>3. CASE d # c
        BY <1>3, <1>5, <2>1, <2>3 DEF Table
    <2> QED
        BY <2>2, <2>3
<1>8. \A d, e \in Clients : d # e => DOMAIN tx'[d] \cap DOMAIN tx'[e] = {}
    BY <1>3 DEF Inv, Locks, Unlocked
<1>9. \A d \in Clients : pc'[d] \in {"idle", "down"} => tx'[d] = NoRows
    BY <1>3, <1>4 DEF Inv, Types, Locks
<1>10. \A d \in Clients : \A i \in 1 .. serial' :
          Order(i) \in DOMAIN tx'[d] \cap DOMAIN db /\ db[Order(i)].CancelTime = CANCELLED
              => tx'[d][Order(i)].CancelTime = CANCELLED
    <2> SUFFICES ASSUME NEW d \in Clients, NEW i \in 1 .. serial',
                        Order(i) \in DOMAIN tx'[d], Order(i) \in DOMAIN db, db[Order(i)].CancelTime = CANCELLED
                 PROVE  tx'[d][Order(i)].CancelTime = CANCELLED
        OBVIOUS
    <2>1. CASE d = c /\ Order(i) = k
        BY <1>3, <2>1
    <2>2. CASE ~(d = c /\ Order(i) = k)
        <3>1. Order(i) \in DOMAIN tx[d] /\ tx'[d][Order(i)] = tx[d][Order(i)]
            BY <1>3, <2>2
        <3>2. i \in 1 .. serial
            BY <3>1, OrderKeys DEF Inv, Locks, Table
        <3> QED
            BY <3>1, <3>2 DEF Inv, Locks
    <2> QED
        BY <2>1, <2>2
<1>11. Locks'
    BY <1>7, <1>8, <1>9, <1>10 DEF Locks
<1>12. \A d \in Clients : LocalOK(local'[d], pc'[d], Known(d)')
    <2> SUFFICES ASSUME NEW d \in Clients PROVE LocalOK(local'[d], pc'[d], Known(d)')
        OBVIOUS
    <2>1. DOMAIN Seen(d)' = DOMAIN tx'[d] \cup DOMAIN db /\ DOMAIN Seen(d) = DOMAIN tx[d] \cup DOMAIN db
        BY Rows DEF Seen
    <2>2. CASE d = c
        <3>1. Known(c) \cup {i \in 1 .. serial' : k = Order(i)} \subseteq Known(c)'
            BY <1>1, <1>3, <2>1, <2>2 DEF Known
        <3>2. local'[d] = l /\ pc'[d] = step
            BY <1>4, <2>2 DEF Inv, Types
        <3> QED
            BY <2>2, <3>1, <3>2, KnownGrows
    <2>3. CASE d # c
        <3>1. Known(d) \subseteq Known(d)'
            BY <1>1, <1>3, <2>1, <2>3 DEF Known
        <3>2. local'[d] = local[d] /\ pc'[d] = pc[d]
            BY <1>4, <2>3 DEF Inv, Types
        <3> QED
            BY <3>1, <3>2, KnownGrows DEF Inv
    <2> QED
        BY <2>2, <2>3
<1> QED
    BY <1>6, <1>11, <1>12 DEF Inv, LocalOK, Vector

\* A cancelled order stays so in this step.
Stays ==
    \A i \in OrderIds : db[Order(i)].CancelTime # NOTCANCELLED =>
        db'[Order(i)].CancelTime = db[Order(i)].CancelTime

\* A client's transaction ends.
LEMMA EndKeeps ==
    ASSUME Inv, NEW c \in Clients, NEW committed \in BOOLEAN,
           EndTransaction(c, committed), requests' = requests
    PROVE  Inv' /\ Stays
<1>1. /\ serial' = serial /\ up' = up
      /\ tx' = [tx EXCEPT ![c] = NoRows]
      /\ pc' = [pc EXCEPT ![c] = "idle"] /\ local' = [local EXCEPT ![c] = Fresh]
      /\ db' = db \/ db' = Seen(c)
    BY DEF EndTransaction, Goto
<1>2. /\ DOMAIN Seen(c) = DOMAIN tx[c] \cup DOMAIN db
      /\ \A k \in DOMAIN tx[c] : Seen(c)[k] = tx[c][k]
      /\ \A k \in DOMAIN db \ DOMAIN tx[c] : Seen(c)[k] = db[k]
    BY Rows DEF Seen
<1>3. /\ DOMAIN tx' = Clients /\ DOMAIN tx'[c] = {} /\ tx'[c] = NoRows
      /\ \A d \in Clients \ {c} : tx'[d] = tx[d]
    BY <1>1, NoRow DEF Inv, Types
<1>4. Table(db') /\ DOMAIN db \subseteq DOMAIN db'
    BY <1>1, <1>2, SeenTable DEF Inv, Types
<1>5. Types'
    <2>1. pc' \in [Clients -> Steps]
        BY <1>1 DEF Inv, Types, Steps
    <2>2. Table(db)'
        BY <1>1, <1>4 DEF Table, Keys
    <2> QED
        BY <1>1, <1>3, <2>1, <2>2 DEF Inv, Types
<1>6. \A i \in 1 .. serial : Order(i) \in DOMAIN db =>
          /\ db'[Order(i)] = db[Order(i)] \/ (Order(i) \in DOMAIN tx[c] /\ db'[Order(i)] = tx[c][Order(i)])
          /\ db[Order(i)].CancelTime = CANCELLED => db'[Order(i)].CancelTime = CANCELLED
    BY <1>1, <1>2 DEF Inv, Locks
<1>7. Stays
    BY <1>6 DEF Stays, OrderIds, Inv, Types, Table, OrderRow
<1>8. \A d \in Clients : \A i \in 1 .. serial :
          Order(i) \in DOMAIN tx'[d] \cap DOMAIN db' /\ db'[Order(i)].CancelTime = CANCELLED
              => tx'[d][Order(i)].CancelTime = CANCELLED
    <2> SUFFICES ASSUME NEW d \in Clients, NEW i \in 1 .. serial,
                        Order(i) \in DOMAIN tx'[d], Order(i) \in DOMAIN db', db'[Order(i)].CancelTime = CANCELLED
                 PROVE  tx'[d][Order(i)].CancelTime = CANCELLED
        OBVIOUS
    <2>1. d # c /\ tx'[d] = tx[d]
        BY <1>3
    <2>2. Order(i) \notin DOMAIN tx[c]
        BY <2>1 DEF Inv, Locks
    <2>3. Order(i) \in DOMAIN db /\ db'[Order(i)] = db[Order(i)]
        BY <1>1, <1>2, <2>2
    <2> QED
        BY <2>1, <2>3 DEF Inv, Locks
<1>9. Locks'
    <2>1. \A d \in Clients : Table(tx[d])'
        BY <1>1, <1>3 DEF Inv, Locks, Table, Keys
    <2>2. \A d, e \in Clients : d # e => DOMAIN tx'[d] \cap DOMAIN tx'[e] = {}
        BY <1>3 DEF Inv, Locks
    <2>3. \A d \in Clients : pc'[d] \in {"idle", "down"} => tx'[d] = NoRows
        BY <1>1, <1>3 DEF Inv, Types, Locks
    <2> QED
        BY <1>1, <1>8, <2>1, <2>2, <2>3 DEF Locks
<1>10. \A d \in Clients : LocalOK(local'[d], pc'[d], Known(d)')
    <2> SUFFICES ASSUME NEW d \in Clients PROVE LocalOK(local'[d], pc'[d], Known(d)')
        OBVIOUS
    <2>1. CASE d = c
        <3>1. local'[d] = Fresh /\ pc'[d] = "idle"
            BY <1>1, <2>1 DEF Inv, Types
        <3> QED
            BY <3>1, FreshOK
    <2>2. CASE d # c
        <3>1. DOMAIN Seen(d) = DOMAIN tx[d] \cup DOMAIN db /\ DOMAIN Seen(d)' = DOMAIN tx'[d] \cup DOMAIN db'
            BY Rows DEF Seen
        <3>2. Known(d) \subseteq Known(d)'
            BY <1>1, <1>3, <1>4, <2>2, <3>1 DEF Known
        <3>3. local'[d] = local[d] /\ pc'[d] = pc[d]
            BY <1>1, <2>2 DEF Inv, Types
        <3> QED
            BY <3>2, <3>3, KnownGrows DEF Inv
    <2> QED
        BY <2>1, <2>2
<1> QED
    BY <1>5, <1>7, <1>9, <1>10 DEF Inv, LocalOK, Vector

\* A row that is not an order's.
LEMMA OtherKeeps ==
    ASSUME Inv, NEW c \in Clients, NEW k \in Keys, \A i : k # Order(i), NEW v, NEW l,
           NEW step \in Steps \ {"idle", "down"},
           Unlocked(c, k), Write(c, k, v), Goto(c, step), Becomes(c, l),
           UNCHANGED <<db, up, requests, serial>>, LocalOK(l, step, Known(c))
    PROVE  Inv'
<1>1. k \in Keys'
    BY DEF Keys
<1>2. LocalOK(l, step, Known(c) \cup {i \in 1 .. serial' : k = Order(i)})
    BY KnownGrows
<1>3. serial' \in Nat /\ serial <= serial'
    BY DEF Inv, Types
<1> QED
    BY <1>1, <1>2, <1>3, WriteKeeps

\* The row of an order that the client has read of.
LEMMA OrderKeeps ==
    ASSUME Inv, NEW c \in Clients, NEW i \in Known(c), NEW v \in OrderRow, NEW l,
           NEW step \in Steps \ {"idle", "down"},
           v.CancelTime \in {Seen(c)[Order(i)].CancelTime, CANCELLED},
           Unlocked(c, Order(i)), Write(c, Order(i), v), Goto(c, step), Becomes(c, l),
           UNCHANGED <<db, up, requests, serial>>, LocalOK(l, step, Known(c))
    PROVE  Inv'
<1>1. Order(i) \in Keys'
    BY DEF Keys, Known
<1>2. LocalOK(l, step, Known(c) \cup {j \in 1 .. serial' : Order(i) = Order(j)})
    BY KnownGrows
<1>3. serial' \in Nat /\ serial <= serial'
    BY DEF Inv, Types
<1>4. Order(i) \in DOMAIN db /\ db[Order(i)].CancelTime = CANCELLED => v.CancelTime = CANCELLED
    <2>1. /\ \A k \in DOMAIN tx[c] : Seen(c)[k] = tx[c][k]
          /\ \A k \in DOMAIN db \ DOMAIN tx[c] : Seen(c)[k] = db[k]
        BY Rows DEF Seen
    <2> QED
        BY <2>1 DEF Inv, Locks, Known
<1> QED
    BY <1>1, <1>2, <1>3, <1>4, WriteKeeps

LEMMA SameRows == db' = db => Stays
    BY DEF Stays

\* A client inserts a row that is not an order's, or the process ends.
LEMMA InsertKeeps ==
    ASSUME Inv, NEW c \in Clients, NEW k \in Keys, \A i : k # Order(i), NEW v,
           NEW step \in Steps \ {"idle", "down"},
           InsertRow(c, k, v, step), requests' = requests, LocalOK(local[c], step, Known(c))
    PROVE  Inv' /\ Stays
<1>1. CASE Terminate
    BY <1>1, TerminateKeeps, SameRows DEF Terminate
<1>2. CASE ~Terminate
    <2>1. /\ Unlocked(c, k) /\ Write(c, k, v) /\ Goto(c, step)
          /\ UNCHANGED <<db, up, requests, serial>> /\ local' = local
        BY <1>2 DEF InsertRow
    <2>2. Becomes(c, local[c])
        BY <2>1 DEF Becomes, Inv, Types
    <2> QED
        BY <2>1, <2>2, OtherKeeps, SameRows
<1> QED
    BY <1>1, <1>2
-----------------------------------------------------------------------------
(* Requests                                                                 *)

LEMMA ReceiveKeeps ==
    ASSUME Inv, NEW c \in Clients, Receive(c)
    PROVE  Inv' /\ Stays
<1>0. PICK r \in requests[c] : \E i \in IF r.kind = "cancel" THEN OrdersOf(r.id) ELSE {0} :
          Keep(c, [Fresh EXCEPT !.req = r, !.id = i], FirstStep(r)) /\ requests' = requests
    BY DEF Receive
<1>1. PICK i \in IF r.kind = "cancel" THEN OrdersOf(r.id) ELSE {0} :
          Keep(c, [Fresh EXCEPT !.req = r, !.id = i], FirstStep(r)) /\ requests' = requests
    BY <1>0
<1> DEFINE l == [Fresh EXCEPT !.req = r, !.id = i]
<1>2. RequestOK(r)
    BY DEF Inv, Types
<1>3. FirstStep(r) \in Steps \ {"idle", "down"}
    BY <1>2 DEF RequestOK, FirstStep, Steps
<1>4. DOMAIN l = Variables /\ l.req = r /\ l.id = i /\ l.buying = <<>> /\ l.selling = <<>>
    BY DEF Fresh, Variables
<1>5. r.kind = "cancel" => i \in Known(c)
    BY Rows DEF OrdersOf, Known, Seen
<1> HIDE DEF l
<1>6. LocalOK(l, FirstStep(r), Known(c))
    BY <1>2, <1>4, <1>5 DEF LocalOK, RequestOK, FirstStep, Vector, CreatingAccount, Trading, Cancelling, InTurns
<1>7. Inv'
    BY <1>1, <1>3, <1>6, KeepKeeps DEF l
<1> QED
    BY <1>1, <1>7, SameRows DEF Keep

\* The handlers of <create>, and update_SYMBOL_W.
LEMMA CreateKeeps ==
    ASSUME Inv, NEW c \in Clients, requests' = requests,
           \/ FindAccount(c) \/ NewAccount(c) \/ FindRow(c) \/ AddRow(c) \/ NewRow(c)
           \/ CommitCreate(c) \/ FindSymbol(c) \/ NewSymbol(c)
    PROVE  Inv' /\ Stays
<1> DEFINE r == local[c].req
<1>0. LocalOK(local[c], pc[c], Known(c))
    BY DEF Inv
<1>1. CASE FindAccount(c)
    <2>1. CASE EndTransaction(c, FALSE)
        BY <2>1, EndKeeps
    <2>2. CASE Keep(c, local[c], "newaccount")
        <3>1. LocalOK(local[c], "newaccount", Known(c))
            BY <1>0, <1>1 DEF FindAccount, LocalOK, CreatingAccount, Trading, Cancelling, InTurns
        <3> QED
            BY <2>2, <3>1, KeepKeeps, SameRows DEF Steps, Keep
    <2> QED
        BY <1>1, <2>1, <2>2 DEF FindAccount
<1>2. CASE NewAccount(c)
    <2>1. LocalOK(local[c], "commit", Known(c)) /\ r.id \in Accounts
        BY <1>0, <1>2 DEF NewAccount, LocalOK, CreatingAccount, Trading, Cancelling, InTurns
    <2>2. Balance(r.id) \in Keys /\ \A i : Balance(r.id) # Order(i)
        BY <2>1, KeysApart DEF Keys
    <2> QED
        BY <1>2, <2>1, <2>2, InsertKeeps DEF NewAccount, Steps
<1>3. CASE FindRow(c)
    <2>1. LocalOK(local[c], "addrow", Known(c)) /\ LocalOK(local[c], "findsymbol", Known(c))
        BY <1>0, <1>3 DEF FindRow, LocalOK, CreatingAccount, Trading, Cancelling, InTurns
    <2> QED
        BY <1>3, <2>1, KeepKeeps, SameRows DEF FindRow, Steps, Keep
<1>4. CASE AddRow(c)
    <2>1. LocalOK(local[c], "commit", Known(c)) /\ r.id \in Accounts /\ r.sym \in Symbols
        BY <1>0, <1>4 DEF AddRow, LocalOK, CreatingAccount, Trading, Cancelling, InTurns
    <2>2. Position(r.id, r.sym) \in Keys /\ \A i : Position(r.id, r.sym) # Order(i)
        BY <2>1, KeysApart DEF Keys
    <2>3. Becomes(c, local[c])
        BY <1>4 DEF AddRow, Becomes, Inv, Types
    <2> QED
        BY <1>4, <2>1, <2>2, <2>3, OtherKeeps, SameRows DEF AddRow, UpdateRow, Steps
<1>5. CASE NewRow(c)
    <2>1. LocalOK(local[c], "commit", Known(c)) /\ r.id \in Accounts /\ r.sym \in Symbols
        BY <1>0, <1>5 DEF NewRow, LocalOK, CreatingAccount, Trading, Cancelling, InTurns
    <2>2. Position(r.id, r.sym) \in Keys /\ \A i : Position(r.id, r.sym) # Order(i)
        BY <2>1, KeysApart DEF Keys
    <2> QED
        BY <1>5, <2>1, <2>2, InsertKeeps DEF NewRow, Steps
<1>6. CASE CommitCreate(c)
    BY <1>6, EndKeeps DEF CommitCreate
<1>7. CASE FindSymbol(c)
    <2>1. LocalOK(local[c], AfterSymbol(c), Known(c)) /\ LocalOK(local[c], "newsymbol", Known(c))
        BY <1>0, <1>7 DEF FindSymbol, AfterSymbol, LocalOK, CreatingAccount, Trading, Cancelling, InTurns
    <2>2. AfterSymbol(c) \in Steps \ {"idle", "down"} /\ "newsymbol" \in Steps \ {"idle", "down"}
        BY DEF AfterSymbol, Steps
    <2> QED
        BY <1>7, <2>1, <2>2, KeepKeeps, SameRows DEF FindSymbol, Keep
<1>8. CASE NewSymbol(c)
    <2>1. LocalOK(local[c], AfterSymbol(c), Known(c)) /\ r.sym \in Symbols
        BY <1>0, <1>8 DEF NewSymbol, AfterSymbol, LocalOK, CreatingAccount, Trading, Cancelling, InTurns
    <2>2. Symbol(r.sym) \in Keys /\ \A i : Symbol(r.sym) # Order(i)
        BY <2>1, KeysApart DEF Keys
    <2>3. AfterSymbol(c) \in Steps \ {"idle", "down"}
        BY DEF AfterSymbol, Steps
    <2> QED
        BY <1>8, <2>1, <2>2, <2>3, InsertKeeps DEF NewSymbol
<1> QED
    BY <1>1, <1>2, <1>3, <1>4, <1>5, <1>6, <1>7, <1>8
-----------------------------------------------------------------------------
(* Orders                                                                   *)

\* The vectors hold what the client sees of active orders.
LEMMA VectorsKnown ==
    ASSUME Inv, NEW c \in Clients, NEW s, NEW sign, NEW v \in Vectors(c, s, sign)
    PROVE  Vector(v, Known(c))
<1> DEFINE ids == ActiveIds(c, s, sign)
           n == Cardinality(ids)
           entry(i) == [TransID |-> i, OrderTime |-> Seen(c)[Order(i)].OrderTime,
                        AccountID |-> Seen(c)[Order(i)].AccountID,
                        Amount |-> Seen(c)[Order(i)].Amount, PriceLimit |-> Seen(c)[Order(i)].PriceLimit]
<1>1. ids \subseteq Known(c) /\ ids \subseteq 1 .. serial
    BY DEF ActiveIds, Known, Exists
<1>2. n \in Nat
    <2>1. IsFiniteSet(1 .. serial)
        BY FS_Interval DEF Inv, Types
    <2>2. IsFiniteSet(ids)
        <3> HIDE DEF ids
        <3> QED
            BY <1>1, <2>1, FS_Subset
    <2> QED
        BY <2>2, FS_CardinalityType
<1>3. \A i \in Known(c) : entry(i) \in Entry /\ entry(i).TransID = i
    <2>1. \A i \in Known(c) : Seen(c)[Order(i)] \in OrderRow /\ i \in Nat
        BY SeenTable DEF Inv, Types, Table, Known
    <2> QED
        BY <2>1 DEF OrderRow, Entry
<1>4. PICK f \in [1 .. n -> ids] : v = [k \in 1 .. n |-> entry(f[k])]
    BY DEF Vectors, Bijection, Injection
<1> HIDE DEF entry, n, ids
<1>5. v \in [1 .. n -> Entry] /\ \A k \in 1 .. n : v[k].TransID = f[k]
    BY <1>1, <1>3, <1>4
<1>6. v \in Seq(Entry) /\ Len(v) = n
    BY <1>2, <1>5
<1> QED
    BY <1>1, <1>4, <1>5, <1>6 DEF Vector

\* Neither the request nor the vectors change.
LEMMA OtherVariables ==
    ASSUME NEW l, NEW m, NEW step, NEW known, LocalOK(l, step, known),
           DOMAIN m = DOMAIN l, m.req = l.req, m.buying = l.buying, m.selling = l.selling,
           step \in Cancelling => m.id = l.id
    PROVE  LocalOK(m, step, known)
    BY DEF LocalOK

LEMMA PlaceKeeps ==
    ASSUME Inv, NEW c \in Clients, requests' = requests,
           CheckFunds(c) \/ InsertOrder(c) \/ SelectMax(c) \/ Reread(c) \/ Charge(c)
    PROVE  Inv' /\ Stays
<1> DEFINE r == local[c].req
<1>0. LocalOK(local[c], pc[c], Known(c))
    BY DEF Inv
<1>1. CASE CheckFunds(c)
    <2>1. CASE EndTransaction(c, FALSE)
        BY <2>1, EndKeeps
    <2>2. CASE Keep(c, local[c], "findsymbol")
        <3>1. LocalOK(local[c], "findsymbol", Known(c))
            BY <1>0, <1>1 DEF CheckFunds, LocalOK, CreatingAccount, Trading, Cancelling, InTurns
        <3> QED
            BY <2>2, <3>1, KeepKeeps, SameRows DEF Steps, Keep
    <2> QED
        BY <1>1, <2>1, <2>2 DEF CheckFunds
<1>2. CASE InsertOrder(c)
    <2> DEFINE row == [OrderTime |-> 0, AccountID |-> r.id, SymbolName |-> r.sym, Amount |-> r.amount,
                       PriceLimit |-> r.limit, CancelTime |-> NOTCANCELLED]
    <2>1. /\ LocalOK(local[c], "selectmax", Known(c))
          /\ r.id \in Accounts /\ r.sym \in Symbols /\ r.amount \in Int /\ r.limit \in Int
        BY <1>0, <1>2 DEF InsertOrder, LocalOK, CreatingAccount, Trading, Cancelling, InTurns
    <2>2. row \in OrderRow
        BY <2>1 DEF OrderRow
    <2>3. serial \in Nat /\ serial' = serial + 1 /\ UNCHANGED <<db, up>> /\ local' = local
        BY <1>2 DEF InsertOrder, UpdateRow, Inv, Types
    <2>4. Unlocked(c, Order(serial + 1)) /\ Write(c, Order(serial + 1), row) /\ Goto(c, "selectmax")
        BY <1>2 DEF InsertOrder, UpdateRow
    <2>5. Order(serial + 1) \in Keys'
        BY <2>3 DEF Keys
    <2>6. Order(serial + 1) \notin DOMAIN db
        BY <2>3, OrderKeys DEF Inv, Types, Table
    <2>7. LocalOK(local[c], "selectmax", Known(c) \cup {i \in 1 .. serial' : Order(serial + 1) = Order(i)})
        BY <2>1, KnownGrows
    <2>8. Becomes(c, local[c])
        BY <2>3 DEF Becomes, Inv, Types
    <2>9. "selectmax" \in Steps \ {"idle", "down"} /\ serial' \in Nat /\ serial <= serial'
        BY <2>3 DEF Steps
    <2> HIDE DEF row
    <2>10. Inv'
        BY <2>2, <2>3, <2>4, <2>5, <2>6, <2>7, <2>8, <2>9, WriteKeeps
    <2> QED
        BY <2>3, <2>10, SameRows
<1>3. CASE SelectMax(c)
    <2>1. PICK i \in 1 .. serial : Keep(c, [local[c] EXCEPT !.id = i], "reread")
        BY <1>3 DEF SelectMax
    <2> DEFINE l == [local[c] EXCEPT !.id = i]
    <2>2. LocalOK(local[c], "reread", Known(c))
        BY <1>0, <1>3 DEF SelectMax, LocalOK, CreatingAccount, Trading, Cancelling, InTurns
    <2>4. DOMAIN l = DOMAIN local[c] /\ l.req = local[c].req /\ l.buying = local[c].buying /\ l.selling = local[c].selling
        BY <2>2 DEF LocalOK, Variables
    <2> HIDE DEF l
    <2>3. LocalOK(l, "reread", Known(c))
        BY <2>2, <2>4, OtherVariables DEF Cancelling
    <2> QED
        BY <2>1, <2>3, KeepKeeps, SameRows DEF Steps, Keep, l
<1>4. CASE Reread(c)
    <2> DEFINE l == [local[c] EXCEPT !.seen = SourceAmount(c)]
    <2>1. LocalOK(local[c], "charge", Known(c))
        BY <1>0, <1>4 DEF Reread, LocalOK, CreatingAccount, Trading, Cancelling, InTurns
    <2>3. DOMAIN l = DOMAIN local[c] /\ l.req = local[c].req /\ l.buying = local[c].buying /\ l.selling = local[c].selling
        BY <2>1 DEF LocalOK, Variables
    <2> HIDE DEF l
    <2>2. LocalOK(l, "charge", Known(c))
        BY <2>1, <2>3, OtherVariables DEF Cancelling
    <2> QED
        BY <1>4, <2>2, KeepKeeps, SameRows DEF Reread, Steps, Keep, l
<1>5. CASE Charge(c)
    <2>1. LocalOK(local[c], "selectbuys", Known(c)) /\ r.id \in Accounts /\ r.sym \in Symbols
        BY <1>0, <1>5 DEF Charge, LocalOK, CreatingAccount, Trading, Cancelling, InTurns
    <2>2. Source(r) \in Keys /\ \A i : Source(r) # Order(i)
        BY <2>1, KeysApart DEF Keys, Source
    <2>3. Becomes(c, local[c])
        BY <1>5 DEF Charge, Becomes, Inv, Types
    <2> QED
        BY <1>5, <2>1, <2>2, <2>3, OtherKeeps, SameRows DEF Charge, UpdateRow, Steps
<1> QED
    BY <1>1, <1>2, <1>3, <1>4, <1>5
-----------------------------------------------------------------------------
(* Matching                                                                 *)

\* The heads of the vectors, in a turn of the loop.
LEMMA Heads1 ==
    ASSUME Inv, NEW c \in Clients, pc[c] \in InTurns \/ (pc[c] = "loop" /\ CanMatch(c))
    PROVE  /\ local[c].buying[1] \in Entry /\ local[c].selling[1] \in Entry
           /\ local[c].buying[1].TransID \in Known(c) /\ local[c].selling[1].TransID \in Known(c)
           /\ local[c].buying # <<>> /\ local[c].selling # <<>>
           /\ MatchAmount(c) \in Int
<1>1. LocalOK(local[c], pc[c], Known(c))
    BY DEF Inv
<1>2. /\ local[c].buying \in Seq(Entry) /\ local[c].selling \in Seq(Entry)
      /\ local[c].buying # <<>> /\ local[c].selling # <<>>
      /\ \A k \in 1 .. Len(local[c].buying) : local[c].buying[k].TransID \in Known(c)
      /\ \A k \in 1 .. Len(local[c].selling) : local[c].selling[k].TransID \in Known(c)
    BY <1>1 DEF LocalOK, Vector, CanMatch
<1>3. 1 \in 1 .. Len(local[c].buying) /\ 1 \in 1 .. Len(local[c].selling)
    BY <1>2
<1>4. local[c].buying[1] \in Entry /\ local[c].selling[1] \in Entry
    BY <1>2, <1>3
<1>5. local[c].buying[1].Amount \in Int /\ local[c].selling[1].Amount \in Int
    BY <1>4 DEF Entry
<1>6. MatchAmount(c) \in Int
    BY <1>5 DEF MatchAmount
<1> QED
    BY <1>2, <1>3, <1>4, <1>6

LEMMA AfterMatchKnown ==
    ASSUME NEW known, NEW v, Vector(v, known), v # <<>>, NEW n \in Int
    PROVE  Vector(AfterMatch(v, n), known)
<1>1. v \in Seq(Entry) /\ Len(v) >= 1 /\ \A k \in 1 .. Len(v) : v[k].TransID \in known
    BY DEF Vector
<1>2. Tail(v) \in Seq(Entry) /\ Len(Tail(v)) = Len(v) - 1 /\ \A k \in 1 .. Len(v) - 1 : Tail(v)[k] = v[k + 1]
    BY <1>1
<1>3. Vector(Tail(v), known)
    BY <1>1, <1>2 DEF Vector
<1> DEFINE head == [v[1] EXCEPT !.Amount = @ - n]
           w == [v EXCEPT ![1].Amount = @ - n]
<1>4. v[1] \in Entry
    BY <1>1
<1>5. head \in Entry /\ head.TransID = v[1].TransID
    BY <1>4 DEF Entry
<1>6. w = [v EXCEPT ![1] = head]
    OBVIOUS
<1> HIDE DEF head, w
<1>7. w \in Seq(Entry) /\ Len(w) = Len(v) /\ \A k \in 1 .. Len(v) : w[k] = IF k = 1 THEN head ELSE v[k]
    BY <1>1, <1>5, <1>6
<1>8. Vector(w, known)
    BY <1>1, <1>5, <1>7 DEF Vector
<1> QED
    BY <1>3, <1>8 DEF AfterMatch, w

\* The rows of the heads.
LEMMA HeadRow ==
    ASSUME Inv, NEW c \in Clients, NEW i \in Known(c), NEW n \in Int
    PROVE  /\ [Seen(c)[Order(i)] EXCEPT !.Amount = n] \in OrderRow
           /\ [Seen(c)[Order(i)] EXCEPT !.Amount = n].CancelTime = Seen(c)[Order(i)].CancelTime
<1>1. Seen(c)[Order(i)] \in OrderRow
    BY SeenTable DEF Inv, Table, Known
<1> QED
    BY <1>1 DEF OrderRow

LEMMA FetchKeeps ==
    ASSUME Inv, NEW c \in Clients, requests' = requests, SelectBuys(c) \/ SelectSells(c)
    PROVE  Inv' /\ Stays
<1>0. LocalOK(local[c], pc[c], Known(c))
    BY DEF Inv
<1>1. CASE SelectBuys(c)
    <2>1. PICK v \in Vectors(c, local[c].req.sym, 1) : Keep(c, [local[c] EXCEPT !.buying = v], "selectsells")
        BY <1>1 DEF SelectBuys
    <2> DEFINE l == [local[c] EXCEPT !.buying = v]
    <2>2. Vector(v, Known(c))
        BY VectorsKnown
    <2>3. DOMAIN l = Variables /\ l.req = local[c].req /\ l.buying = v /\ l.selling = local[c].selling
        BY <1>0 DEF LocalOK, Variables
    <2> HIDE DEF l
    <2>4. LocalOK(l, "selectsells", Known(c))
        BY <1>0, <1>1, <2>2, <2>3 DEF SelectBuys, LocalOK, CreatingAccount, Trading, Cancelling, InTurns
    <2> QED
        BY <2>1, <2>4, KeepKeeps, SameRows DEF Steps, Keep, l
<1>2. CASE SelectSells(c)
    <2>1. PICK v \in Vectors(c, local[c].req.sym, -1) : Keep(c, [local[c] EXCEPT !.selling = v], "loop")
        BY <1>2 DEF SelectSells
    <2> DEFINE l == [local[c] EXCEPT !.selling = v]
    <2>2. Vector(v, Known(c))
        BY VectorsKnown
    <2>3. DOMAIN l = Variables /\ l.req = local[c].req /\ l.buying = local[c].buying /\ l.selling = v
        BY <1>0 DEF LocalOK, Variables
    <2> HIDE DEF l
    <2>4. LocalOK(l, "loop", Known(c))
        BY <1>0, <1>2, <2>2, <2>3 DEF SelectSells, LocalOK, CreatingAccount, Trading, Cancelling, InTurns
    <2> QED
        BY <2>1, <2>4, KeepKeeps, SameRows DEF Steps, Keep, l
<1> QED
    BY <1>1, <1>2

\* Onward in the turn with the same variables.
LEMMA TurnOnward ==
    ASSUME Inv, NEW c \in Clients, pc[c] \in InTurns \/ (pc[c] = "loop" /\ CanMatch(c)),
           NEW l, DOMAIN l = Variables, l.req = local[c].req,
           l.buying = local[c].buying, l.selling = local[c].selling, NEW step \in InTurns
    PROVE  LocalOK(l, step, Known(c))
<1>1. LocalOK(local[c], pc[c], Known(c)) /\ local[c].buying # <<>> /\ local[c].selling # <<>>
    BY Heads1 DEF Inv
<1> QED
    BY <1>1 DEF LocalOK, CreatingAccount, Trading, Cancelling, InTurns

LEMMA RowsKeep ==
    ASSUME Inv, NEW c \in Clients, requests' = requests, UpdateBuyRow(c) \/ UpdateSellRow(c)
    PROVE  Inv' /\ Stays
<1> DEFINE b == local[c].buying[1]
           s == local[c].selling[1]
           n == MatchAmount(c)
<1>1. pc[c] \in InTurns \/ (pc[c] = "loop" /\ CanMatch(c))
    BY DEF UpdateBuyRow, UpdateSellRow, InTurns
<1>2. b \in Entry /\ s \in Entry /\ b.TransID \in Known(c) /\ s.TransID \in Known(c) /\ n \in Int
    BY <1>1, Heads1
<1>3. b.Amount - n \in Int /\ s.Amount + n \in Int
    BY <1>2 DEF Entry
<1>4. DOMAIN local[c] = Variables
    BY DEF Inv, LocalOK
<1>5. "sellrow" \in Steps \ {"idle", "down"} /\ "findposition" \in Steps \ {"idle", "down"}
    BY DEF Steps
<1>6. CASE UpdateBuyRow(c)
    <2> DEFINE fills == local[c].fills \o
                <<[TransID |-> b.TransID, Amount |-> n, Price |-> MatchPrice(c)],
                  [TransID |-> s.TransID, Amount |-> -n, Price |-> MatchPrice(c)]>>
               l == [local[c] EXCEPT !.fills = fills]
               v == [Seen(c)[Order(b.TransID)] EXCEPT !.Amount = b.Amount - n]
    <2>1. /\ Unlocked(c, Order(b.TransID)) /\ Write(c, Order(b.TransID), v) /\ Goto(c, "sellrow")
          /\ UNCHANGED <<db, up, serial>> /\ local' = [local EXCEPT ![c] = l]
        BY <1>6 DEF UpdateBuyRow, UpdateRow
    <2>2. v \in OrderRow /\ v.CancelTime \in {Seen(c)[Order(b.TransID)].CancelTime, CANCELLED}
        BY <1>2, <1>3, HeadRow
    <2>3. DOMAIN l = Variables /\ l.req = local[c].req /\ l.buying = local[c].buying /\ l.selling = local[c].selling
        BY <1>4 DEF Variables
    <2> HIDE DEF fills, l, v, b, s, n
    <2>4. LocalOK(l, "sellrow", Known(c))
        BY <1>1, <2>3, TurnOnward DEF InTurns
    <2>5. Becomes(c, l)
        BY <2>1 DEF Becomes, Inv, Types
    <2>6. Inv'
        BY <1>2, <1>5, <2>1, <2>2, <2>4, <2>5, OrderKeeps
    <2> QED
        BY <2>1, <2>6, SameRows
<1>7. CASE UpdateSellRow(c)
    <2> DEFINE v == [Seen(c)[Order(s.TransID)] EXCEPT !.Amount = s.Amount + n]
    <2>1. /\ Unlocked(c, Order(s.TransID)) /\ Write(c, Order(s.TransID), v) /\ Goto(c, "findposition")
          /\ UNCHANGED <<db, up, serial>> /\ local' = local
        BY <1>7 DEF UpdateSellRow, UpdateRow
    <2>2. v \in OrderRow /\ v.CancelTime \in {Seen(c)[Order(s.TransID)].CancelTime, CANCELLED}
        BY <1>2, <1>3, HeadRow
    <2> HIDE DEF v, b, s, n
    <2>4. LocalOK(local[c], "findposition", Known(c))
        BY <1>1, <1>4, TurnOnward DEF InTurns
    <2>5. Becomes(c, local[c])
        BY <2>1 DEF Becomes, Inv, Types
    <2>6. Inv'
        BY <1>2, <1>5, <2>1, <2>2, <2>4, <2>5, OrderKeeps
    <2> QED
        BY <2>1, <2>6, SameRows
<1> QED
    BY <1>6, <1>7

LEMMA PayKeeps ==
    ASSUME Inv, NEW c \in Clients, requests' = requests,
           FindPosition(c) \/ AddPosition(c) \/ NewPosition(c) \/ ReadSeller(c) \/ PaySeller(c)
    PROVE  Inv' /\ Stays
<1>1. pc[c] \in InTurns
    BY DEF FindPosition, AddPosition, NewPosition, ReadSeller, PaySeller, InTurns
<1>2. /\ local[c].buying[1] \in Entry /\ local[c].selling[1] \in Entry /\ MatchAmount(c) \in Int
      /\ local[c].buying # <<>> /\ local[c].selling # <<>>
    BY <1>1, Heads1
<1>3. LocalOK(local[c], pc[c], Known(c)) /\ DOMAIN local[c] = Variables
    BY DEF Inv, LocalOK
<1>4. local[c].req.sym \in Symbols
    BY <1>1, <1>3 DEF LocalOK, Trading
<1>5. BuyerPosition(c) \in Keys /\ SellerBalance(c) \in Keys
    BY <1>2, <1>4 DEF BuyerPosition, SellerBalance, Keys, Entry
<1>6. \A i : BuyerPosition(c) # Order(i) /\ SellerBalance(c) # Order(i)
    BY KeysApart DEF BuyerPosition, SellerBalance
<1>7. \A step \in InTurns : LocalOK(local[c], step, Known(c)) /\ step \in Steps \ {"idle", "down"}
    BY <1>1, <1>3, TurnOnward DEF Steps, InTurns
<1>8. local' = local => Becomes(c, local[c])
    BY DEF Becomes, Inv, Types
<1>9. CASE FindPosition(c)
    BY <1>7, <1>9, KeepKeeps, SameRows DEF FindPosition, Keep, InTurns
<1>10. CASE AddPosition(c)
    BY <1>5, <1>6, <1>7, <1>8, <1>10, OtherKeeps, SameRows DEF AddPosition, UpdateRow, InTurns
<1>11. CASE NewPosition(c)
    BY <1>5, <1>6, <1>7, <1>11, InsertKeeps DEF NewPosition, InTurns
<1>12. CASE ReadSeller(c)
    <2> DEFINE l == [local[c] EXCEPT !.seen = Seen(c)[SellerBalance(c)]]
    <2>1. DOMAIN l = Variables /\ l.req = local[c].req /\ l.buying = local[c].buying /\ l.selling = local[c].selling
        BY <1>3 DEF Variables
    <2>2. Keep(c, l, "payseller")
        BY <1>12 DEF ReadSeller
    <2> HIDE DEF l
    <2>3. LocalOK(l, "payseller", Known(c))
        BY <1>1, <2>1, TurnOnward DEF InTurns
    <2> QED
        BY <2>2, <2>3, KeepKeeps, SameRows DEF Steps, Keep
<1>13. CASE PaySeller(c)
    <2> DEFINE n == MatchAmount(c)
               l == [local[c] EXCEPT !.buying = AfterMatch(@, n), !.selling = AfterMatch(@, -n)]
    <2>1. /\ Unlocked(c, SellerBalance(c)) /\ Goto(c, "loop") /\ UNCHANGED <<db, up, serial>>
          /\ Write(c, SellerBalance(c), n * MatchPrice(c) + local[c].seen)
          /\ local' = [local EXCEPT ![c] = l]
        BY <1>13 DEF PaySeller, UpdateRow
    <2>2. /\ DOMAIN l = Variables /\ l.req = local[c].req
          /\ l.buying = AfterMatch(local[c].buying, n) /\ l.selling = AfterMatch(local[c].selling, -n)
        BY <1>3 DEF Variables
    <2>3. Vector(local[c].buying, Known(c)) /\ Vector(local[c].selling, Known(c))
        BY <1>3 DEF LocalOK
    <2>4. n \in Int /\ -n \in Int
        BY <1>2
    <2> HIDE DEF n, l
    <2>5. Vector(l.buying, Known(c)) /\ Vector(l.selling, Known(c))
        BY <1>2, <2>2, <2>3, <2>4, AfterMatchKnown
    <2>6. LocalOK(l, "loop", Known(c))
        BY <1>1, <1>3, <2>2, <2>5 DEF LocalOK, CreatingAccount, Trading, Cancelling, InTurns
    <2>7. Becomes(c, l)
        BY <2>1 DEF Becomes, Inv, Types
    <2>8. Inv'
        BY <1>5, <1>6, <2>1, <2>6, <2>7, OtherKeeps DEF Steps
    <2> QED
        BY <2>1, <2>8, SameRows
<1> QED
    BY <1>9, <1>10, <1>11, <1>12, <1>13
-----------------------------------------------------------------------------
(* Cancelling                                                               *)

LEMMA CancelKeeps ==
    ASSUME Inv, NEW c \in Clients, requests' = requests,
           ReadOrder(c) \/ ReadCancelTime(c) \/ SetCancelTime(c) \/ ReadRefund(c) \/ Refund(c)
    PROVE  Inv' /\ Stays
<1>1. pc[c] \in Cancelling
    BY DEF ReadOrder, ReadCancelTime, SetCancelTime, ReadRefund, Refund, Cancelling
<1>2. LocalOK(local[c], pc[c], Known(c)) /\ DOMAIN local[c] = Variables
    BY DEF Inv, LocalOK
<1>3. local[c].id \in Known(c)
    BY <1>1, <1>2 DEF LocalOK
<1>4. Seen(c)[Order(local[c].id)] \in OrderRow
    BY <1>3, SeenTable DEF Inv, Table, Known
<1>5. \A step \in Cancelling \cup {"commit"} : LocalOK(local[c], step, Known(c)) /\ step \in Steps \ {"idle", "down"}
    BY <1>2, <1>3 DEF LocalOK, CreatingAccount, Trading, Cancelling, InTurns, Steps
<1>6. \A x, y : \A step \in Cancelling :
          /\ LocalOK([local[c] EXCEPT !.open = x], step, Known(c))
          /\ LocalOK([local[c] EXCEPT !.seen = y], step, Known(c))
    <2> SUFFICES ASSUME NEW x, NEW step \in Cancelling
                 PROVE  /\ LocalOK([local[c] EXCEPT !.open = x], step, Known(c))
                        /\ LocalOK([local[c] EXCEPT !.seen = x], step, Known(c))
        OBVIOUS
    <2> DEFINE l == [local[c] EXCEPT !.open = x]
               m == [local[c] EXCEPT !.seen = x]
    <2>1. /\ DOMAIN l = DOMAIN local[c] /\ l.req = local[c].req /\ l.id = local[c].id
          /\ l.buying = local[c].buying /\ l.selling = local[c].selling
        BY <1>2 DEF Variables
    <2>2. /\ DOMAIN m = DOMAIN local[c] /\ m.req = local[c].req /\ m.id = local[c].id
          /\ m.buying = local[c].buying /\ m.selling = local[c].selling
        BY <1>2 DEF Variables
    <2> HIDE DEF l, m
    <2>3. LocalOK(l, step, Known(c)) /\ LocalOK(m, step, Known(c))
        BY <1>5, <2>1, <2>2, OtherVariables
    <2> QED
        BY <2>3 DEF l, m
<1>7. local' = local => Becomes(c, local[c])
    BY DEF Becomes, Inv, Types
<1>8. CASE ReadOrder(c)
    BY <1>5, <1>6, <1>8, KeepKeeps, SameRows DEF ReadOrder, Keep, Cancelling
<1>9. CASE ReadCancelTime(c)
    <2>1. CASE EndTransaction(c, FALSE)
        BY <2>1, EndKeeps
    <2>2. CASE Keep(c, local[c], "setcancel")
        BY <1>5, <2>2, KeepKeeps, SameRows DEF Keep, Cancelling
    <2> QED
        BY <1>9, <2>1, <2>2 DEF ReadCancelTime
<1>10. CASE SetCancelTime(c)
    <2> DEFINE k == Order(local[c].id)
               v == [Seen(c)[k] EXCEPT !.CancelTime = CANCELLED]
    <2>1. v \in OrderRow /\ v.CancelTime \in {Seen(c)[k].CancelTime, CANCELLED}
        BY <1>4 DEF OrderRow
    <2>2. /\ Unlocked(c, k) /\ Write(c, k, v) /\ Goto(c, "readrefund")
          /\ UNCHANGED <<db, up, serial>> /\ local' = local
        BY <1>10 DEF SetCancelTime, UpdateRow
    <2>3. LocalOK(local[c], "readrefund", Known(c)) /\ "readrefund" \in Steps \ {"idle", "down"}
        BY <1>5 DEF Cancelling
    <2> HIDE DEF v
    <2>4. Inv'
        BY <1>3, <1>7, <2>1, <2>2, <2>3, OrderKeeps
    <2> QED
        BY <2>2, <2>4, SameRows
<1>11. CASE ReadRefund(c)
    BY <1>5, <1>6, <1>11, KeepKeeps, SameRows DEF ReadRefund, Keep, Cancelling
<1>12. CASE Refund(c)
    <2>1. RefundRow(c) \in Keys /\ \A i : RefundRow(c) # Order(i)
        BY <1>4, KeysApart DEF RefundRow, Keys, OrderRow
    <2> QED
        BY <1>5, <1>7, <1>12, <2>1, OtherKeeps, SameRows DEF Refund, UpdateRow
<1> QED
    BY <1>8, <1>9, <1>10, <1>11, <1>12
-----------------------------------------------------------------------------
(* All together                                                             *)

LEMMA StepKeeps == Inv /\ [Next]_vars => Inv' /\ (Stays \/ UNCHANGED vars)
<1> SUFFICES ASSUME Inv, [Next]_vars PROVE Inv' /\ (Stays \/ UNCHANGED vars)
    OBVIOUS
<1>1. ASSUME NEW c \in Clients, Receive(c) PROVE Inv' /\ Stays
    BY <1>1, ReceiveKeeps
<1>2. ASSUME NEW c \in Clients, Handler(c) PROVE Inv' /\ Stays
    <2>1. requests' = requests
        BY <1>2 DEF Handler
    <2>2. CASE CommitOrder(c)
        BY <2>1, <2>2, EndKeeps DEF CommitOrder
    <2> QED
        BY <1>2, <2>1, <2>2, CreateKeeps, PlaceKeeps, FetchKeeps, RowsKeep, PayKeeps, CancelKeeps
           DEF Handler, Statement
<1>3. ASSUME DeadlockDetected PROVE Inv' /\ Stays
    BY <1>3, TerminateKeeps, SameRows DEF DeadlockDetected, Terminate
<1>4. CASE UNCHANGED vars
    <2>1. Types' /\ Locks'
        BY <1>4 DEF vars, Inv, Types, Locks, Table, Keys
    <2>2. \A c \in Clients : LocalOK(local'[c], pc'[c], Known(c)')
        BY <1>4 DEF vars, Inv, Known, Seen
    <2> QED
        BY <1>4, <2>1, <2>2 DEF Inv, LocalOK, Vector
<1> QED
    BY <1>1, <1>2, <1>3, <1>4 DEF Next

LEMMA Invariant == Spec => []Inv
<1>1. Init => Inv
    <2> SUFFICES ASSUME Init PROVE Inv
        OBVIOUS
    <2>1. PICK course \in Courses : requests = course.requests /\ db = course.opening
        BY DEF Init
    <2>2. Table(db) /\ \A i : Order(i) \notin DOMAIN db
        BY <2>1, ExchangeSqlAssumption, KeysApart DEF Table, Keys
    <2>3. \A c \in Clients : \A r \in requests[c] : RequestOK(r)
        BY <2>1, ExchangeSqlAssumption DEF RequestOK
    <2>4. pc \in [Clients -> Steps] /\ up \in BOOLEAN
        BY DEF Init, Steps
    <2>5. Types
        BY <2>2, <2>3, <2>4 DEF Init, Types
    <2>6. Locks
        BY NoRow DEF Init, Locks, Table
    <2>7. \A c \in Clients : LocalOK(local[c], pc[c], Known(c))
        BY FreshOK DEF Init
    <2> QED
        BY <2>5, <2>6, <2>7 DEF Inv
<1>2. Inv /\ [Next]_vars => Inv'
    BY StepKeeps
<1> QED
    BY <1>1, <1>2, PTL DEF Spec

\* Tables, transactions and steps keep their types, no row is written by two open
\* transactions, and an idle client holds none: for any clients and requests, however
\* their statements interleave.
THEOREM LocksHold == Spec => []TypeOK
<1>1. Inv => TypeOK
    BY DEF Inv, Types, Locks, Table, TypeOK
<1> QED
    BY <1>1, Invariant, PTL

\* No match, whatever it fetched before, brings a cancelled order back: the statements
\* write one column of a row each, and lock it until they commit.
THEOREM CancelledForGood == Spec => CancelledStaysCancelled
<1>1. Inv /\ [Next]_vars => [Stays]_vars
    BY StepKeeps
<1> QED
    BY <1>1, Invariant, PTL DEF Spec, CancelledStaysCancelled, Stays
-----------------------------------------------------------------------------
(* Clients with nothing in common                                           *)

Placing == {"insert", "selectmax", "reread", "charge"}
Fetching == {"selectbuys", "selectsells"}
Matching == InTurns \cup {"loop"}
Ordering == Placing \cup Fetching \cup Matching

\* f with v at k.
Put(f, k, v) == Over([n \in {k} |-> v], f)

\* The rows that only a client with the accounts A and the symbols S asks about, and the
\* orders of these accounts, in the rows seen.
KeysOf(A, S) == {Balance(a) : a \in A} \cup {Symbol(s) : s \in S} \cup {Position(a, s) : a \in A, s \in Symbols}
Belongs(o, A, S) == o.AccountID \in A /\ o.SymbolName \in S
Part(seen, keys) == [k \in keys \cap DOMAIN seen |-> seen[k]]
Book(seen, A, S) ==
    [i \in {j \in Nat : Order(j) \in DOMAIN seen /\ Belongs(seen[Order(j)], A, S)} |-> seen[Order(i)]]

OwnKeys(c) == KeysOf(AccountsOf(c), SymbolsOf(c))
OwnRows(c) == Part(Seen(c), OwnKeys(c))
OwnOrders(c) == Book(Seen(c), AccountsOf(c), SymbolsOf(c))

Bids(t, s) == {i \in DOMAIN t : t[i].CancelTime = NOTCANCELLED /\ t[i].SymbolName = s /\ t[i].Amount > 0}
Offers(t, s) == {i \in DOMAIN t : t[i].CancelTime = NOTCANCELLED /\ t[i].SymbolName = s /\ t[i].Amount < 0}
EntryOf(t, i) == [TransID |-> i, OrderTime |-> t[i].OrderTime, AccountID |-> t[i].AccountID,
                  Amount |-> t[i].Amount, PriceLimit |-> t[i].PriceLimit]

\* The vector v holds a copy of each of the orders ids of t, once.
Mirrors(v, t, ids) ==
    /\ \A k \in DOMAIN v : v[k].TransID \in ids /\ v[k] = EntryOf(t, v[k].TransID)
    /\ \A i \in ids : \E k \in DOMAIN v : v[k].TransID = i
    /\ \A j, k \in DOMAIN v : v[j].TransID = v[k].TransID => j = k
Falling(v) == \A j, k \in DOMAIN v : j < k => v[j].PriceLimit >= v[k].PriceLimit
Rising(v) == \A j, k \in DOMAIN v : j < k => v[j].PriceLimit =< v[k].PriceLimit

\* CanMatch and MatchAmount of a handler's variables.
Crossing(l) ==
    /\ l.buying # <<>> /\ l.selling # <<>>
    /\ l.buying[1].PriceLimit >= l.selling[1].PriceLimit
Lot(l) == IF l.buying[1].Amount =< -l.selling[1].Amount THEN l.buying[1].Amount ELSE -l.selling[1].Amount

\* The orders t as they were before the turn that is under way.
WithAmount(o, n) == [o EXCEPT !.Amount = n]
Undone(l, i, o) ==
    IF i = l.buying[1].TransID THEN WithAmount(o, l.buying[1].Amount)
    ELSE IF i = l.selling[1].TransID THEN WithAmount(o, l.selling[1].Amount)
    ELSE o
Rewound(l, step, t) == IF step \in InTurns THEN [i \in DOMAIN t |-> Undone(l, i, t[i])] ELSE t

\* No cash and no shares are owed.
Paid(rows) ==
    /\ \A a \in Accounts : Balance(a) \in DOMAIN rows => rows[Balance(a)] \in Nat
    /\ \A a \in Accounts, s \in Symbols : Position(a, s) \in DOMAIN rows => rows[Position(a, s)] \in Nat

\* What a client sees of its rows and orders.
Solvent(rows, t) ==
    /\ Paid(rows)
    /\ \A i \in DOMAIN t :
          /\ i \in Nat /\ t[i] \in OrderRow /\ t[i].PriceLimit \in Nat
          /\ Balance(t[i].AccountID) \in DOMAIN rows
          /\ t[i].Amount < 0 => Position(t[i].AccountID, t[i].SymbolName) \in DOMAIN rows

\* The request a handler works on.
Serves(l, step, asked) ==
    /\ step # "down"
    /\ step # "idle" => l.req \in asked
    /\ step \in CreatingAccount => l.req.kind = "account"
    /\ step \in {"findrow", "addrow", "newrow"} => l.req.kind = "position"
    /\ step \in {"findsymbol", "newsymbol"} => l.req.kind \in {"position", "order"}
    /\ step \in Ordering \cup {"check"} => l.req.kind = "order"
    /\ step \in Cancelling => l.req.kind = "cancel"
    /\ step = "commit" => l.req.kind # "order"

\* A row looked for and not found is still missing, one found is still there.
StillMissing(l, step, rows) ==
    LET r == l.req IN
    /\ step = "newaccount" => Balance(r.id) \notin DOMAIN rows
    /\ step \in {"findsymbol", "newsymbol", "newrow"} /\ r.kind = "position" =>
          Position(r.id, r.sym) \notin DOMAIN rows
    /\ step = "addrow" => Position(r.id, r.sym) \in DOMAIN rows
    /\ step = "newsymbol" => Symbol(r.sym) \notin DOMAIN rows
    /\ step = "newposition" => Position(l.buying[1].AccountID, r.sym) \notin DOMAIN rows
    /\ step = "addposition" => Position(l.buying[1].AccountID, r.sym) \in DOMAIN rows

\* What was checked still suffices, and a number read is still the row's.
StillFunded(l, step, rows) ==
    LET r == l.req IN
    /\ step # "idle" /\ r.kind # "account" => Balance(r.id) \in DOMAIN rows
    /\ step \in {"findsymbol", "newsymbol"} \cup Placing /\ r.kind = "order" =>
          Source(r) \in DOMAIN rows /\ rows[Source(r)] >= Reserve(r)
    /\ step = "charge" => l.seen = rows[Source(r)]
    /\ step = "payseller" => l.seen = rows[Balance(l.selling[1].AccountID)]

RefundTo(o, open) == IF open < 0 THEN Position(o.AccountID, o.SymbolName) ELSE Balance(o.AccountID)

\* The order to be cancelled is as it was read.
StillOpen(l, step, rows, t) ==
    /\ step \in Cancelling => l.id \in DOMAIN t
    /\ step \in Cancelling \ {"readorder"} \/ (step = "commit" /\ l.req.kind = "cancel") =>
          l.id \in DOMAIN t /\ l.open = t[l.id].Amount
    /\ step \in {"setcancel", "readrefund", "refund"} => l.open # 0
    /\ step = "setcancel" => t[l.id].CancelTime = NOTCANCELLED
    /\ step \in {"readrefund", "refund"} => t[l.id].CancelTime = CANCELLED
    /\ step = "refund" => l.seen = rows[RefundTo(t[l.id], l.open)]

\* The vectors hold the active orders as they were before the turn, which is as far as the step says.
StillMirrored(l, step, t) ==
    LET u == Rewound(l, step, t)
        s == l.req.sym
    IN  /\ step \in Matching \cup {"selectsells"} => Mirrors(l.buying, u, Bids(u, s)) /\ Falling(l.buying)
        /\ step \in Matching => Mirrors(l.selling, u, Offers(u, s)) /\ Rising(l.selling)
        /\ step \in InTurns =>
              /\ Crossing(l)
              /\ t[l.buying[1].TransID].Amount = l.buying[1].Amount - Lot(l)
              /\ step = "sellrow" => t[l.selling[1].TransID].Amount = l.selling[1].Amount
              /\ step # "sellrow" => t[l.selling[1].TransID].Amount = l.selling[1].Amount + Lot(l)

Working(l, step, asked, rows, t) ==
    /\ Solvent(rows, t)
    /\ Serves(l, step, asked)
    /\ StillMissing(l, step, rows) /\ StillFunded(l, step, rows)
    /\ StillOpen(l, step, rows, t) /\ StillMirrored(l, step, t)

\* The steps at which a transaction has written nothing.
Looking == {"findaccount", "check", "readorder", "readcancel"}

\* A transaction has written rows of its client's only: of orders, those of the symbol that is
\* matched, or the one cancelled.
Wrote(l, step, mine, rows, A, S) ==
    /\ step \in Looking => mine = NoRows
    /\ \A k \in DOMAIN mine : k \in KeysOf(A, S) \/ \E i \in Nat : k = Order(i)
    /\ \A i \in Nat : Order(i) \in DOMAIN mine =>
          /\ Belongs(mine[Order(i)], A, S)
          /\ Order(i) \in DOMAIN rows => Belongs(rows[Order(i)], A, S)
          /\ \/ step \in Ordering /\ mine[Order(i)].SymbolName = l.req.sym
             \/ step \in {"readrefund", "refund", "commit"} /\ mine[Order(i)].CancelTime = CANCELLED

\* No two active orders of a symbol could trade.
Settled(rows) ==
    \A i, j \in Nat :
        LET b == rows[Order(i)]
            s == rows[Order(j)]
        IN  /\ Order(i) \in DOMAIN rows /\ Order(j) \in DOMAIN rows
            /\ b.CancelTime = NOTCANCELLED /\ s.CancelTime = NOTCANCELLED
            /\ b.Amount > 0 /\ s.Amount < 0 /\ b.SymbolName = s.SymbolName
            => b.PriceLimit < s.PriceLimit

Modest(r) ==
    /\ r.kind \in {"account", "position"} => r.amount \in Nat
    /\ r.kind = "order" => r.limit \in Nat

\* A client keeps to its own rows, and they are as it takes them to be.
Undisturbed(l, step, asked, mine, rows, A, S) ==
    /\ Wrote(l, step, mine, rows, A, S)
    /\ Working(l, step, asked, Part(Over(mine, rows), KeysOf(A, S)), Book(Over(mine, rows), A, S))

\* The invariant of clients that are apart.
AInv ==
    /\ up
    /\ \A c \in Clients : \A r \in requests[c] : Modest(r)
    /\ \A i \in Nat : Order(i) \in DOMAIN db => \E d \in Clients : Belongs(db[Order(i)], AccountsOf(d), SymbolsOf(d))
    /\ Paid(db) /\ Settled(db)
    /\ \A c \in Clients :
          Undisturbed(local[c], pc[c], requests[c], tx[c], db, AccountsOf(c), SymbolsOf(c))
-----------------------------------------------------------------------------
LEMMA KeysDiffer ==
    /\ \A i, j : Order(i) = Order(j) => i = j
    /\ \A a, b : Balance(a) = Balance(b) => a = b
    /\ \A s, u : Symbol(s) = Symbol(u) => s = u
    /\ \A a, b, s, u : Position(a, s) = Position(b, u) => a = b /\ s = u
    /\ \A i, a : Order(i) # Balance(a)
    /\ \A i, s : Order(i) # Symbol(s)
    /\ \A i, a, s : Order(i) # Position(a, s)
    /\ \A a, s : Balance(a) # Symbol(s)
    /\ \A a, b, s : Balance(a) # Position(b, s)
    /\ \A s, a, u : Symbol(s) # Position(a, u)
    BY DEF Order, Balance, Symbol, Position

LEMMA NoOrderKeys == \A A, S, i : Order(i) \notin KeysOf(A, S)
    BY KeysDiffer DEF KeysOf

LEMMA OverRows ==
    \A f, g, n :
        /\ n \in DOMAIN Over(f, g) <=> n \in DOMAIN f \/ n \in DOMAIN g
        /\ n \in DOMAIN f => Over(f, g)[n] = f[n]
        /\ n \in DOMAIN g /\ n \notin DOMAIN f => Over(f, g)[n] = g[n]
    BY DEF Over

LEMMA PutRows ==
    \A f, k, v, n :
        /\ n \in DOMAIN Put(f, k, v) <=> (n \in DOMAIN f \/ n = k)
        /\ Put(f, k, v)[k] = v
        /\ n \in DOMAIN f /\ n # k => Put(f, k, v)[n] = f[n]
    BY DEF Put, Over

LEMMA PutEither ==
    \A f, k, v, n : n \in DOMAIN Put(f, k, v) =>
        (n \in DOMAIN f /\ Put(f, k, v)[n] = f[n]) \/ (n = k /\ Put(f, k, v)[n] = v)
<1> SUFFICES ASSUME NEW f, NEW k, NEW v, NEW n, n \in DOMAIN Put(f, k, v)
             PROVE  (n \in DOMAIN f /\ Put(f, k, v)[n] = f[n]) \/ (n = k /\ Put(f, k, v)[n] = v)
    OBVIOUS
<1>1. CASE n = k
    BY <1>1, PutRows
<1>2. CASE n # k
    BY <1>2, PutRows
<1> QED
    BY <1>1, <1>2

\* Two functions that agree are the same: Put and Part make functions.
LEMMA PutSame ==
    ASSUME NEW f, NEW k, NEW v, NEW g,
           g = [n \in DOMAIN g |-> g[n]],
           \A n : n \in DOMAIN g <=> n \in DOMAIN f \/ n = k,
           g[k] = v, \A n \in DOMAIN f \ {k} : g[n] = f[n]
    PROVE  g = Put(f, k, v)
    BY DEF Put, Over

LEMMA PutOver ==
    ASSUME NEW f, NEW g, NEW k, NEW v
    PROVE  Over(Put(f, k, v), g) = Put(Over(f, g), k, v)
    BY DEF Put, Over

\* Keys of clients that are apart.
LEMMA ApartKeys ==
    ASSUME Apart, NEW c \in Clients, NEW d \in Clients, c # d
    PROVE  /\ OwnKeys(c) \cap OwnKeys(d) = {}
           /\ \A o : ~(Belongs(o, AccountsOf(c), SymbolsOf(c)) /\ Belongs(o, AccountsOf(d), SymbolsOf(d)))
           /\ AccountsOf(c) \cap AccountsOf(d) = {} /\ SymbolsOf(c) \cap SymbolsOf(d) = {}
    BY KeysDiffer DEF Apart, OwnKeys, KeysOf, Belongs

\* What a written row changes of what a client sees of its own.
LEMMA PartPut ==
    ASSUME NEW f, NEW keys, NEW k, NEW v
    PROVE  Part(Put(f, k, v), keys) = IF k \in keys THEN Put(Part(f, keys), k, v) ELSE Part(f, keys)
<1> DEFINE g == Put(f, k, v)
<1>1. \A n : /\ n \in DOMAIN g <=> n \in DOMAIN f \/ n = k
             /\ n \in DOMAIN f /\ n # k => g[n] = f[n]
             /\ g[k] = v
    BY PutRows
<1> HIDE DEF g
<1>2. CASE k \in keys
    <2>1. \A n : n \in DOMAIN Part(g, keys) <=> n \in DOMAIN Part(f, keys) \/ n = k
        BY <1>1, <1>2 DEF Part
    <2>2. Part(g, keys)[k] = v /\ \A n \in DOMAIN Part(f, keys) \ {k} : Part(g, keys)[n] = Part(f, keys)[n]
        BY <1>1, <1>2 DEF Part
    <2>3. Part(g, keys) = [n \in DOMAIN Part(g, keys) |-> Part(g, keys)[n]]
        BY DEF Part
    <2> QED
        BY <1>2, <2>1, <2>2, <2>3, PutSame DEF g
<1>3. CASE k \notin keys
    <2>1. keys \cap DOMAIN g = keys \cap DOMAIN f
        BY <1>1, <1>3
    <2>2. \A n \in keys \cap DOMAIN f : g[n] = f[n]
        BY <1>1, <1>3
    <2>3. Part(g, keys) = Part(f, keys)
        BY <2>1, <2>2 DEF Part
    <2> QED
        BY <1>3, <2>3 DEF g
<1> QED
    BY <1>2, <1>3

LEMMA BookOther ==
    ASSUME NEW f, NEW A, NEW S, NEW k, NEW v, \A i : k # Order(i)
    PROVE  Book(Put(f, k, v), A, S) = Book(f, A, S)
<1>1. \A i : /\ Order(i) \in DOMAIN Put(f, k, v) <=> Order(i) \in DOMAIN f
             /\ Order(i) \in DOMAIN f => Put(f, k, v)[Order(i)] = f[Order(i)]
    BY PutRows
<1> QED
    BY <1>1 DEF Book

LEMMA BookPut ==
    ASSUME NEW f, NEW A, NEW S, NEW i \in Nat, NEW o, Belongs(o, A, S)
    PROVE  Book(Put(f, Order(i), o), A, S) = Put(Book(f, A, S), i, o)
<1> DEFINE g == Put(f, Order(i), o)
<1>1. \A j : /\ Order(j) \in DOMAIN g <=> Order(j) \in DOMAIN f \/ j = i
             /\ Order(j) \in DOMAIN f /\ j # i => g[Order(j)] = f[Order(j)]
             /\ g[Order(i)] = o
    BY PutRows, KeysDiffer
<1> HIDE DEF g
<1>2. \A j : j \in DOMAIN Book(g, A, S) <=> j \in DOMAIN Book(f, A, S) \/ j = i
    BY <1>1 DEF Book
<1>3. Book(g, A, S)[i] = o /\ \A j \in DOMAIN Book(f, A, S) \ {i} : Book(g, A, S)[j] = Book(f, A, S)[j]
    BY <1>1 DEF Book
<1>4. Book(g, A, S) = [j \in DOMAIN Book(g, A, S) |-> Book(g, A, S)[j]]
    BY DEF Book
<1> QED
    BY <1>2, <1>3, <1>4, PutSame DEF g
-----------------------------------------------------------------------------
(* What a step of one client does to the invariant                          *)

\* What of a handler's orders was written is still right at its next step.
Onward(l, step, m, next) ==
    /\ step \in Ordering => next \in Ordering /\ m.req = l.req
    /\ step \in {"readrefund", "refund", "commit"} => next \in {"readrefund", "refund", "commit"}

\* What a client sees, as the invariant says it.
LEMMA OwnSeen ==
    ASSUME NEW c \in Clients
    PROVE  /\ OwnRows(c) = Part(Over(tx[c], db), KeysOf(AccountsOf(c), SymbolsOf(c)))
           /\ OwnOrders(c) = Book(Over(tx[c], db), AccountsOf(c), SymbolsOf(c))
    BY DEF OwnRows, OwnOrders, Seen, OwnKeys

\* It holds of c, and of the others as before.
LEMMA StepApart ==
    ASSUME Inv, AInv, NEW c \in Clients, NEW l, NEW step, Goto(c, step), Becomes(c, l),
           UNCHANGED <<db, up, requests>>, \A d \in Clients \ {c} : tx'[d] = tx[d],
           Undisturbed(l, step, requests[c], tx'[c], db, AccountsOf(c), SymbolsOf(c))
    PROVE  AInv'
<1>1. \A d \in Clients : AccountsOf(d)' = AccountsOf(d) /\ SymbolsOf(d)' = SymbolsOf(d)
    BY DEF AccountsOf, SymbolsOf
<1>2. \A d \in Clients : pc'[d] = (IF d = c THEN step ELSE pc[d]) /\ local'[d] = (IF d = c THEN l ELSE local[d])
    BY DEF Goto, Becomes, Inv, Types
<1>3. \A d \in Clients : Undisturbed(local'[d], pc'[d], requests[d], tx'[d], db, AccountsOf(d), SymbolsOf(d))
    BY <1>2 DEF AInv
<1>4. \A d \in Clients : Undisturbed(local[d], pc[d], requests[d], tx[d], db, AccountsOf(d), SymbolsOf(d))'
    BY <1>1, <1>3
<1>5. up' /\ \A d \in Clients : \A r \in requests'[d] : Modest(r)
    BY DEF AInv
<1>6. \A i \in Nat : Order(i) \in DOMAIN db' =>
          \E d \in Clients : Belongs(db'[Order(i)], AccountsOf(d)', SymbolsOf(d)')
    BY <1>1 DEF AInv
<1>7. Paid(db') /\ Settled(db')
    BY DEF AInv
<1> QED
    BY <1>4, <1>5, <1>6, <1>7 DEF AInv

\* A client reads.
LEMMA ReadApart ==
    ASSUME Inv, AInv, NEW c \in Clients, NEW l, NEW step, Keep(c, l, step), requests' = requests,
           Onward(local[c], pc[c], l, step), step \in Looking => pc[c] \in Looking \cup {"idle"},
           Working(l, step, requests[c], OwnRows(c), OwnOrders(c))
    PROVE  AInv'
<1>1. Wrote(local[c], pc[c], tx[c], db, AccountsOf(c), SymbolsOf(c))
    BY DEF AInv, Undisturbed
<1>2. pc[c] = "idle" => tx[c] = NoRows
    BY DEF Inv, Locks
<1>3. Wrote(l, step, tx[c], db, AccountsOf(c), SymbolsOf(c))
    BY <1>1, <1>2 DEF Wrote, Onward
<1>4. Undisturbed(l, step, requests[c], tx'[c], db, AccountsOf(c), SymbolsOf(c))
    BY <1>3, OwnSeen DEF Keep, Undisturbed
<1>5. Becomes(c, l)
    BY DEF Keep, Becomes, Inv, Types
<1> QED
    BY <1>4, <1>5, StepApart DEF Keep

LEMMA WrittenRows ==
    ASSUME Inv, NEW c \in Clients, NEW k, NEW v, Write(c, k, v)
    PROVE  tx'[c] = Put(tx[c], k, v) /\ \A d \in Clients \ {c} : tx'[d] = tx[d]
<1> DEFINE f == Over([n \in {k} |-> v], tx[c])
<1>1. tx' = [tx EXCEPT ![c] = f] /\ f = Put(tx[c], k, v) /\ DOMAIN tx = Clients
    BY DEF Write, Put, Inv, Types
<1> HIDE DEF f
<1> QED
    BY <1>1

\* A client writes a row that only it asks about.
LEMMA KeyApart ==
    ASSUME Inv, AInv, NEW c \in Clients, NEW k \in OwnKeys(c), NEW v, NEW l, NEW step,
           Write(c, k, v), Goto(c, step), Becomes(c, l), UNCHANGED <<db, up, requests>>,
           Onward(local[c], pc[c], l, step), step \notin Looking,
           Working(l, step, requests[c], Put(OwnRows(c), k, v), OwnOrders(c))
    PROVE  AInv'
<1> DEFINE A == AccountsOf(c)
           S == SymbolsOf(c)
<1>1. tx'[c] = Put(tx[c], k, v) /\ \A d \in Clients \ {c} : tx'[d] = tx[d]
    BY WrittenRows
<1>2. Wrote(local[c], pc[c], tx[c], db, A, S)
    BY DEF AInv, Undisturbed
<1>3. k \in KeysOf(A, S) /\ \A i : k # Order(i)
    BY NoOrderKeys DEF OwnKeys
<1>4. \A n : n \in DOMAIN tx'[c] <=> n \in DOMAIN tx[c] \/ n = k
    BY <1>1, PutRows
<1>5. \A n \in DOMAIN tx[c] : n # k => tx'[c][n] = tx[c][n]
    BY <1>1, PutRows
<1>6. Wrote(l, step, tx'[c], db, A, S)
    BY <1>2, <1>3, <1>4, <1>5 DEF Wrote, Onward
<1>7. Over(tx'[c], db) = Put(Over(tx[c], db), k, v)
    BY <1>1, PutOver
<1>8. /\ Part(Over(tx'[c], db), KeysOf(A, S)) = Put(OwnRows(c), k, v)
      /\ Book(Over(tx'[c], db), A, S) = OwnOrders(c)
    BY <1>3, <1>7, PartPut, BookOther, OwnSeen
<1>9. Undisturbed(l, step, requests[c], tx'[c], db, A, S)
    BY <1>6, <1>8 DEF Undisturbed
<1> QED
    BY <1>1, <1>9, StepApart

\* A client writes an order of its own.
LEMMA OrderApart ==
    ASSUME Inv, AInv, NEW c \in Clients, NEW i \in Nat, NEW o, NEW l, NEW step,
           Write(c, Order(i), o), Goto(c, step), Becomes(c, l), UNCHANGED <<db, up, requests>>,
           Onward(local[c], pc[c], l, step), step \notin Looking,
           Belongs(o, AccountsOf(c), SymbolsOf(c)),
           Order(i) \in DOMAIN db => i \in DOMAIN OwnOrders(c),
           \/ step \in Ordering /\ o.SymbolName = l.req.sym
           \/ step \in {"readrefund", "refund", "commit"} /\ o.CancelTime = CANCELLED,
           Working(l, step, requests[c], OwnRows(c), Put(OwnOrders(c), i, o))
    PROVE  AInv'
<1> DEFINE A == AccountsOf(c)
           S == SymbolsOf(c)
<1>1. tx'[c] = Put(tx[c], Order(i), o) /\ \A d \in Clients \ {c} : tx'[d] = tx[d]
    BY WrittenRows
<1>2. Wrote(local[c], pc[c], tx[c], db, A, S)
    BY DEF AInv, Undisturbed
<1>3. Order(i) \in DOMAIN db => Belongs(db[Order(i)], A, S)
    <2>1. CASE Order(i) \in DOMAIN tx[c]
        BY <1>2, <2>1 DEF Wrote
    <2>2. CASE Order(i) \notin DOMAIN tx[c]
        <3>1. Order(i) \in DOMAIN db => Over(tx[c], db)[Order(i)] = db[Order(i)]
            BY <2>2, OverRows
        <3>2. i \in DOMAIN OwnOrders(c) => Belongs(Over(tx[c], db)[Order(i)], A, S)
            BY OwnSeen DEF Book
        <3> QED
            BY <3>1, <3>2
    <2> QED
        BY <2>1, <2>2
<1>4. \A j : /\ Order(j) \in DOMAIN tx'[c] <=> Order(j) \in DOMAIN tx[c] \/ j = i
             /\ Order(j) \in DOMAIN tx[c] /\ j # i => tx'[c][Order(j)] = tx[c][Order(j)]
             /\ tx'[c][Order(i)] = o
    BY <1>1, PutRows, KeysDiffer
<1>5. \A n : n \in DOMAIN tx'[c] <=> n \in DOMAIN tx[c] \/ n = Order(i)
    BY <1>1, PutRows
<1>6. Wrote(l, step, tx'[c], db, A, S)
    BY <1>2, <1>3, <1>4, <1>5 DEF Wrote, Onward
<1>7. Over(tx'[c], db) = Put(Over(tx[c], db), Order(i), o)
    BY <1>1, PutOver
<1>8. /\ Part(Over(tx'[c], db), KeysOf(A, S)) = OwnRows(c)
      /\ Book(Over(tx'[c], db), A, S) = Put(OwnOrders(c), i, o)
    BY <1>7, NoOrderKeys, PartPut, BookPut, OwnSeen
<1>9. Undisturbed(l, step, requests[c], tx'[c], db, A, S)
    BY <1>6, <1>8 DEF Undisturbed
<1> QED
    BY <1>1, <1>9, StepApart

\* A row that was looked for is not there, so the INSERT raises no exception.
LEMMA InsertApart ==
    ASSUME Inv, AInv, NEW c \in Clients, NEW k \in OwnKeys(c), NEW v, NEW step,
           InsertRow(c, k, v, step), requests' = requests, k \notin DOMAIN OwnRows(c),
           Onward(local[c], pc[c], local[c], step), step \notin Looking,
           Working(local[c], step, requests[c], Put(OwnRows(c), k, v), OwnOrders(c))
    PROVE  AInv'
<1>1. k \notin DOMAIN db
    <2>1. k \in DOMAIN db => k \in DOMAIN Over(tx[c], db)
        BY OverRows
    <2> QED
        BY <2>1, OwnSeen DEF Part, OwnKeys
<1>2. Write(c, k, v) /\ Goto(c, step) /\ UNCHANGED <<db, up, requests>> /\ local' = local
    BY <1>1 DEF InsertRow
<1>3. Becomes(c, local[c])
    BY <1>2 DEF Becomes, Inv, Types
<1> QED
    BY <1>2, <1>3, KeyApart

\* A client between requests takes nothing for granted.
LEMMA IdleWorks ==
    ASSUME NEW asked, NEW rows, NEW t, Solvent(rows, t)
    PROVE  Working(Fresh, "idle", asked, rows, t)
    BY DEF Working, Serves, StillMissing, StillFunded, StillOpen, StillMirrored, CreatingAccount, Ordering,
           Placing, Fetching, Matching, Cancelling, InTurns

\* What c sees is paid for and belongs to somebody.
LEMMA SeenPaid ==
    ASSUME AInv, NEW c \in Clients
    PROVE  /\ Paid(Seen(c))
           /\ \A i \in Nat : Order(i) \in DOMAIN Seen(c) =>
                 \E d \in Clients : Belongs(Seen(c)[Order(i)], AccountsOf(d), SymbolsOf(d))
<1>1. /\ Wrote(local[c], pc[c], tx[c], db, AccountsOf(c), SymbolsOf(c))
      /\ Paid(db) /\ Paid(OwnRows(c))
    BY OwnSeen DEF AInv, Undisturbed, Working, Solvent
<1>2. Paid(Seen(c))
    <2>1. ASSUME NEW k \in DOMAIN Seen(c), \A i : k # Order(i)
          PROVE  \/ k \in DOMAIN OwnRows(c) /\ OwnRows(c)[k] = Seen(c)[k]
                 \/ k \in DOMAIN db /\ db[k] = Seen(c)[k]
        <3>1. CASE k \in DOMAIN tx[c]
            <4>1. k \in OwnKeys(c)
                BY <1>1, <2>1, <3>1 DEF Wrote, OwnKeys
            <4> QED
                BY <2>1, <4>1 DEF OwnRows, Part
        <3>2. CASE k \notin DOMAIN tx[c]
            BY <2>1, <3>2, OverRows DEF Seen
        <3> QED
            BY <3>1, <3>2
    <2> QED
        BY <1>1, <2>1, KeysDiffer DEF Paid
<1>3. ASSUME NEW i \in Nat, Order(i) \in DOMAIN Seen(c)
      PROVE  \E d \in Clients : Belongs(Seen(c)[Order(i)], AccountsOf(d), SymbolsOf(d))
    BY <1>1, <1>3, OverRows DEF Wrote, AInv, Seen
<1> QED
    BY <1>2, <1>3

\* A handler gives up before it has written anything.
LEMMA RollbackApart ==
    ASSUME Inv, AInv, NEW c \in Clients, EndTransaction(c, FALSE), requests' = requests, pc[c] \in Looking
    PROVE  AInv'
<1>1. tx[c] = NoRows
    BY DEF AInv, Undisturbed, Wrote
<1>2. UNCHANGED <<db, up, requests>> /\ Goto(c, "idle") /\ Becomes(c, Fresh) /\ tx' = [tx EXCEPT ![c] = NoRows]
    BY DEF EndTransaction, Becomes, Inv, Types
<1>3. tx'[c] = NoRows /\ \A d \in Clients \ {c} : tx'[d] = tx[d]
    BY <1>2 DEF Inv, Types
<1>4. Working(Fresh, "idle", requests[c], OwnRows(c), OwnOrders(c))
    BY OwnSeen, IdleWorks DEF AInv, Undisturbed, Working
<1>5. Wrote(Fresh, "idle", NoRows, db, AccountsOf(c), SymbolsOf(c))
    BY NoRow DEF Wrote, Looking
<1>6. Undisturbed(Fresh, "idle", requests[c], tx'[c], db, AccountsOf(c), SymbolsOf(c))
    BY <1>1, <1>3, <1>4, <1>5, OwnSeen DEF Undisturbed
<1> QED
    BY <1>2, <1>3, <1>6, StepApart

\* A commit shows the others nothing that is theirs.
LEMMA OthersSee ==
    ASSUME Inv, AInv, Apart, NEW c \in Clients, NEW d \in Clients, d # c, EndTransaction(c, TRUE)
    PROVE  /\ Wrote(local[d], pc[d], tx[d], db', AccountsOf(d), SymbolsOf(d))
           /\ Part(Over(tx[d], db'), KeysOf(AccountsOf(d), SymbolsOf(d))) = OwnRows(d)
           /\ Book(Over(tx[d], db'), AccountsOf(d), SymbolsOf(d)) = OwnOrders(d)
           /\ Book(db', AccountsOf(d), SymbolsOf(d)) = Book(db, AccountsOf(d), SymbolsOf(d))
<1> DEFINE A == AccountsOf(d)
           S == SymbolsOf(d)
<1>1. \A n : /\ n \in DOMAIN db' <=> n \in DOMAIN tx[c] \/ n \in DOMAIN db
             /\ n \in DOMAIN tx[c] => db'[n] = tx[c][n]
             /\ n \in DOMAIN db /\ n \notin DOMAIN tx[c] => db'[n] = db[n]
    BY OverRows DEF Seen, EndTransaction
<1>2. /\ Wrote(local[d], pc[d], tx[d], db, A, S)
      /\ Wrote(local[c], pc[c], tx[c], db, AccountsOf(c), SymbolsOf(c))
    BY DEF AInv, Undisturbed
<1>3. \A n : ~(n \in DOMAIN tx[c] /\ n \in DOMAIN tx[d])
    BY DEF Inv, Locks
<1>4. Wrote(local[d], pc[d], tx[d], db', A, S)
    BY <1>1, <1>2, <1>3 DEF Wrote
<1>5. /\ \A k \in DOMAIN tx[c] : k \notin KeysOf(A, S)
      /\ \A i \in Nat : Order(i) \in DOMAIN tx[c] =>
            /\ ~Belongs(tx[c][Order(i)], A, S)
            /\ Order(i) \in DOMAIN db => ~Belongs(db[Order(i)], A, S)
    <2>1. KeysOf(A, S) \cap KeysOf(AccountsOf(c), SymbolsOf(c)) = {}
        BY ApartKeys DEF OwnKeys
    <2> QED
        BY <1>2, <2>1, ApartKeys, NoOrderKeys DEF Wrote
<1> DEFINE f == Over(tx[d], db)
           g == Over(tx[d], db')
<1>6. \A n : /\ n \in DOMAIN f <=> n \in DOMAIN tx[d] \/ n \in DOMAIN db
             /\ n \in DOMAIN tx[d] => f[n] = tx[d][n]
             /\ n \in DOMAIN db /\ n \notin DOMAIN tx[d] => f[n] = db[n]
    BY OverRows
<1>7. \A n : /\ n \in DOMAIN g <=> n \in DOMAIN tx[d] \/ n \in DOMAIN db'
             /\ n \in DOMAIN tx[d] => g[n] = tx[d][n]
             /\ n \in DOMAIN db' /\ n \notin DOMAIN tx[d] => g[n] = db'[n]
    BY OverRows
<1> HIDE DEF f, g
<1>8. \A k \in KeysOf(A, S) : (k \in DOMAIN g <=> k \in DOMAIN f) /\ (k \in DOMAIN f => g[k] = f[k])
    BY <1>1, <1>5, <1>6, <1>7
<1>9. \A i \in Nat : /\ Order(i) \in DOMAIN g /\ Belongs(g[Order(i)], A, S)
                          <=> Order(i) \in DOMAIN f /\ Belongs(f[Order(i)], A, S)
                     /\ Order(i) \in DOMAIN f /\ Belongs(f[Order(i)], A, S) => g[Order(i)] = f[Order(i)]
    BY <1>1, <1>3, <1>5, <1>6, <1>7
<1>10. Part(g, KeysOf(A, S)) = Part(f, KeysOf(A, S))
    BY <1>8 DEF Part
<1>11. Book(g, A, S) = Book(f, A, S)
    BY <1>9 DEF Book
<1>12. \A i \in Nat : /\ Order(i) \in DOMAIN db' /\ Belongs(db'[Order(i)], A, S)
                           <=> Order(i) \in DOMAIN db /\ Belongs(db[Order(i)], A, S)
                      /\ Order(i) \in DOMAIN db /\ Belongs(db[Order(i)], A, S) => db'[Order(i)] = db[Order(i)]
    BY <1>1, <1>5
<1>13. Book(db', A, S) = Book(db, A, S)
    BY <1>12 DEF Book
<1> QED
    BY <1>4, <1>10, <1>11, <1>13, OwnSeen DEF f, g

\* A client commits.
LEMMA CommitApart ==
    ASSUME Inv, AInv, Apart, NEW c \in Clients, EndTransaction(c, TRUE), requests' = requests,
           Settled(Seen(c))
    PROVE  AInv'
<1>1. /\ db' = Seen(c) /\ up' = up /\ Goto(c, "idle") /\ Becomes(c, Fresh)
      /\ tx' = [tx EXCEPT ![c] = NoRows]
    BY DEF EndTransaction, Becomes, Inv, Types
<1>2. tx'[c] = NoRows /\ \A d \in Clients \ {c} : tx'[d] = tx[d]
    BY <1>1 DEF Inv, Types
<1>3. \A d \in Clients : pc'[d] = (IF d = c THEN "idle" ELSE pc[d]) /\ local'[d] = (IF d = c THEN Fresh ELSE local[d])
    BY <1>1 DEF Goto, Becomes, Inv, Types
<1>4. \A d \in Clients : AccountsOf(d)' = AccountsOf(d) /\ SymbolsOf(d)' = SymbolsOf(d)
    BY DEF AccountsOf, SymbolsOf
<1>5. ASSUME NEW d \in Clients
      PROVE  Undisturbed(local'[d], pc'[d], requests[d], tx'[d], db', AccountsOf(d), SymbolsOf(d))
    <2> DEFINE A == AccountsOf(d)
               S == SymbolsOf(d)
    <2>1. CASE d = c
        <3>1. Over(NoRows, db') = db'
            BY <1>1, NoRow DEF Over, Seen
        <3>2. Wrote(Fresh, "idle", NoRows, db', A, S)
            BY NoRow DEF Wrote, Looking
        <3>3. Part(db', KeysOf(A, S)) = OwnRows(c) /\ Book(db', A, S) = OwnOrders(c)
            BY <1>1, <2>1 DEF OwnRows, OwnOrders, OwnKeys
        <3>4. Working(Fresh, "idle", requests[c], OwnRows(c), OwnOrders(c))
            BY OwnSeen, IdleWorks DEF AInv, Undisturbed, Working
        <3> QED
            BY <1>2, <1>3, <2>1, <3>1, <3>2, <3>3, <3>4 DEF Undisturbed
    <2>2. CASE d # c
        <3>1. Working(local[d], pc[d], requests[d], OwnRows(d), OwnOrders(d))
            BY OwnSeen DEF AInv, Undisturbed
        <3> QED
            BY <1>2, <1>3, <2>2, <3>1, OthersSee DEF Undisturbed
    <2> QED
        BY <2>1, <2>2
<1>6. Paid(db') /\ \A i \in Nat : Order(i) \in DOMAIN db' =>
          \E d \in Clients : Belongs(db'[Order(i)], AccountsOf(d), SymbolsOf(d))
    BY <1>1, SeenPaid
<1>7. \A d \in Clients : Undisturbed(local[d], pc[d], requests[d], tx[d], db, AccountsOf(d), SymbolsOf(d))'
    BY <1>4, <1>5
<1>8. up' /\ \A d \in Clients : \A r \in requests'[d] : Modest(r)
    BY <1>1 DEF AInv
<1>9. \A i \in Nat : Order(i) \in DOMAIN db' =>
          \E d \in Clients : Belongs(db'[Order(i)], AccountsOf(d)', SymbolsOf(d)')
    BY <1>4, <1>6
<1>10. Paid(db') /\ Settled(db')
    BY <1>1, <1>6
<1> QED
    BY <1>7, <1>8, <1>9, <1>10 DEF AInv
-----------------------------------------------------------------------------
(* What a client knows of its own rows                                      *)

\* The request a client works on is about its accounts and symbols.
LEMMA ServedOwn ==
    ASSUME Inv, AInv, NEW c \in Clients, pc[c] # "idle"
    PROVE  /\ local[c].req \in requests[c] /\ RequestOK(local[c].req) /\ Modest(local[c].req)
           /\ local[c].req.id \in AccountsOf(c) /\ Balance(local[c].req.id) \in OwnKeys(c)
           /\ local[c].req.kind \in {"position", "order"} =>
                 /\ local[c].req.sym \in SymbolsOf(c) /\ Symbol(local[c].req.sym) \in OwnKeys(c)
                 /\ Position(local[c].req.id, local[c].req.sym) \in OwnKeys(c)
<1>1. local[c].req \in requests[c]
    BY DEF AInv, Undisturbed, Working, Serves
<1>2. RequestOK(local[c].req) /\ Modest(local[c].req)
    BY <1>1 DEF AInv, Inv, Types
<1>3. /\ local[c].req.id \in AccountsOf(c)
      /\ local[c].req.kind \in {"position", "order"} => local[c].req.sym \in SymbolsOf(c)
    BY <1>1 DEF AccountsOf, SymbolsOf
<1>4. /\ Balance(local[c].req.id) \in OwnKeys(c)
      /\ local[c].req.kind \in {"position", "order"} =>
            Symbol(local[c].req.sym) \in OwnKeys(c) /\ Position(local[c].req.id, local[c].req.sym) \in OwnKeys(c)
    BY <1>2, <1>3 DEF OwnKeys, KeysOf, RequestOK
<1> QED
    BY <1>1, <1>2, <1>3, <1>4

LEMMA OwnLook ==
    ASSUME NEW c \in Clients, NEW k \in OwnKeys(c)
    PROVE  /\ Exists(c, k) <=> k \in DOMAIN OwnRows(c)
           /\ k \in DOMAIN OwnRows(c) => Seen(c)[k] = OwnRows(c)[k]
    BY DEF Exists, OwnRows, Part

LEMMA OwnOrder ==
    ASSUME NEW c \in Clients, NEW i \in DOMAIN OwnOrders(c)
    PROVE  /\ i \in Nat /\ Exists(c, Order(i)) /\ OwnOrders(c)[i] = Seen(c)[Order(i)]
           /\ Belongs(OwnOrders(c)[i], AccountsOf(c), SymbolsOf(c))
    BY DEF Exists, OwnOrders, Book

\* The orders a client sees of one of its accounts or symbols are its own.
LEMMA SeenOwn ==
    ASSUME AInv, Apart, NEW c \in Clients, NEW i \in Nat, Exists(c, Order(i)),
           \/ Seen(c)[Order(i)].SymbolName \in SymbolsOf(c)
           \/ Seen(c)[Order(i)].AccountID \in AccountsOf(c)
    PROVE  i \in DOMAIN OwnOrders(c) /\ OwnOrders(c)[i] = Seen(c)[Order(i)]
<1>1. PICK d \in Clients : Belongs(Seen(c)[Order(i)], AccountsOf(d), SymbolsOf(d))
    BY SeenPaid DEF Exists
<1>2. d = c
    BY <1>1, ApartKeys DEF Belongs
<1> QED
    BY <1>1, <1>2 DEF OwnOrders, Book, Exists

\* How a row written changes who can pay.
LEMMA PutSolvent ==
    ASSUME NEW rows, NEW t, Solvent(rows, t), NEW k, NEW v, v \in Nat \/ \E s : k = Symbol(s)
    PROVE  Solvent(Put(rows, k, v), t)
<1>1. \A n : n \in DOMAIN rows => n \in DOMAIN Put(rows, k, v)
    BY PutRows
<1>2. Paid(Put(rows, k, v))
    <2>1. \A n : n \in DOMAIN Put(rows, k, v) => (n \in DOMAIN rows /\ Put(rows, k, v)[n] = rows[n])
                                                 \/ (n = k /\ Put(rows, k, v)[n] = v)
        BY PutEither
    <2>2. \A a, s, u : k = Symbol(s) => k # Balance(a) /\ k # Position(a, u)
        BY KeysDiffer
    <2> QED
        BY <2>1, <2>2 DEF Solvent, Paid
<1> QED
    BY <1>1, <1>2 DEF Solvent

LEMMA OrderSolvent ==
    ASSUME NEW rows, NEW t, Solvent(rows, t), NEW i \in Nat, NEW o \in OrderRow,
           o.PriceLimit \in Nat, Balance(o.AccountID) \in DOMAIN rows,
           o.Amount < 0 => Position(o.AccountID, o.SymbolName) \in DOMAIN rows
    PROVE  Solvent(rows, Put(t, i, o))
<1>1. \A n : n \in DOMAIN Put(t, i, o) => (n \in DOMAIN t /\ Put(t, i, o)[n] = t[n])
                                             \/ (n = i /\ Put(t, i, o)[n] = o)
    BY PutEither
<1> QED
    BY <1>1 DEF Solvent

\* Where nothing is cancelled or matched.
Plain(l, step) ==
    step \notin Cancelling \cup Matching \cup {"selectsells"} /\ ~(step = "commit" /\ l.req.kind = "cancel")

LEMMA PlainWorks ==
    ASSUME NEW l, NEW step, Plain(l, step), NEW asked, NEW rows, NEW t,
           Solvent(rows, t), Serves(l, step, asked), StillMissing(l, step, rows), StillFunded(l, step, rows)
    PROVE  Working(l, step, asked, rows, t)
    BY DEF Plain, Working, StillOpen, StillMirrored, Cancelling, Matching, InTurns
-----------------------------------------------------------------------------
(* Requests of clients that are apart                                       *)

LEMMA ReceiveApart ==
    ASSUME Inv, AInv, Apart, NEW c \in Clients, Receive(c)
    PROVE  AInv'
<1>1. PICK r \in requests[c] :
          /\ pc[c] = "idle" /\ requests' = requests
          /\ r.kind # "account" => Balance(r.id) \in DOMAIN db
          /\ \E i \in IF r.kind = "cancel" THEN OrdersOf(r.id) ELSE {0} :
                Keep(c, [Fresh EXCEPT !.req = r, !.id = i], FirstStep(r))
    BY DEF Receive
<1>2. PICK i \in IF r.kind = "cancel" THEN OrdersOf(r.id) ELSE {0} :
          Keep(c, [Fresh EXCEPT !.req = r, !.id = i], FirstStep(r))
    BY <1>1
<1> DEFINE l == [Fresh EXCEPT !.req = r, !.id = i]
<1>3. l.req = r /\ l.id = i
    BY DEF Fresh
<1>4. RequestOK(r) /\ r.id \in AccountsOf(c) /\ tx[c] = NoRows
    BY <1>1 DEF Inv, Types, Locks, AccountsOf
<1>5. r.kind # "account" => Balance(r.id) \in DOMAIN OwnRows(c)
    <2>1. Balance(r.id) \in OwnKeys(c)
        BY <1>4 DEF OwnKeys, KeysOf
    <2> QED
        BY <1>1, <2>1, OverRows, OwnLook DEF Exists, Seen
<1>6. r.kind = "cancel" => i \in DOMAIN OwnOrders(c)
    <2> SUFFICES ASSUME r.kind = "cancel" PROVE i \in DOMAIN OwnOrders(c)
        OBVIOUS
    <2>1. i \in 1 .. serial /\ serial \in Nat /\ Order(i) \in DOMAIN db /\ db[Order(i)].AccountID = r.id
        BY DEF OrdersOf, Inv, Types
    <2>2. i \in Nat /\ Exists(c, Order(i)) /\ Seen(c)[Order(i)] = db[Order(i)]
        BY <1>4, <2>1, OverRows, NoRow DEF Exists, Seen
    <2> QED
        BY <1>4, <2>1, <2>2, SeenOwn
<1> HIDE DEF l
<1>7. Solvent(OwnRows(c), OwnOrders(c))
    BY OwnSeen DEF AInv, Undisturbed, Working
<1>8. Working(l, FirstStep(r), requests[c], OwnRows(c), OwnOrders(c))
    <2>1. FirstStep(r) \in {"findaccount", "findrow", "check", "readorder"}
        BY <1>4 DEF RequestOK, FirstStep
    <2>2. Serves(l, FirstStep(r), requests[c])
        BY <1>1, <1>3, <1>4 DEF Serves, FirstStep, RequestOK, CreatingAccount, Ordering, Placing, Fetching, Matching,
           Cancelling, InTurns
    <2>3. StillMissing(l, FirstStep(r), OwnRows(c)) /\ StillFunded(l, FirstStep(r), OwnRows(c))
        BY <1>3, <1>5, <2>1 DEF StillMissing, StillFunded, Placing
    <2>4. StillMirrored(l, FirstStep(r), OwnOrders(c))
        BY <2>1 DEF StillMirrored, Matching, InTurns
    <2>5. StillOpen(l, FirstStep(r), OwnRows(c), OwnOrders(c))
        BY <1>3, <1>4, <1>6 DEF StillOpen, FirstStep, RequestOK, Cancelling
    <2> QED
        BY <1>7, <2>2, <2>3, <2>4, <2>5 DEF Working
<1>9. Onward(local[c], pc[c], l, FirstStep(r))
    BY <1>1 DEF Onward, Ordering, Placing, Fetching, Matching, InTurns
<1> QED
    BY <1>1, <1>2, <1>8, <1>9, ReadApart DEF l

\* The steps of <create> and of update_SYMBOL_W.
LEMMA CreateApart ==
    ASSUME Inv, AInv, NEW c \in Clients, requests' = requests,
           \/ FindAccount(c) \/ NewAccount(c) \/ FindRow(c) \/ AddRow(c) \/ NewRow(c)
           \/ FindSymbol(c) \/ NewSymbol(c)
    PROVE  AInv'
<1> DEFINE l == local[c]
           r == l.req
           rows == OwnRows(c)
           t == OwnOrders(c)
<1> USE DEF CreatingAccount, Cancelling, InTurns, Matching, Fetching, Placing, Ordering, Looking
<1>1. pc[c] \in {"findaccount", "newaccount", "findrow", "addrow", "newrow", "findsymbol", "newsymbol"}
    BY DEF FindAccount, NewAccount, FindRow, AddRow, NewRow, FindSymbol, NewSymbol
<1>2. /\ Solvent(rows, t) /\ Serves(l, pc[c], requests[c])
      /\ StillMissing(l, pc[c], rows) /\ StillFunded(l, pc[c], rows)
    BY OwnSeen DEF AInv, Undisturbed, Working
<1>3. /\ RequestOK(r) /\ Modest(r) /\ r.id \in AccountsOf(c) /\ Balance(r.id) \in OwnKeys(c)
      /\ r.kind \in {"position", "order"} =>
            Symbol(r.sym) \in OwnKeys(c) /\ Position(r.id, r.sym) \in OwnKeys(c)
    BY <1>1, ServedOwn
<1>4. \A k \in OwnKeys(c) : (Exists(c, k) <=> k \in DOMAIN rows) /\ (k \in DOMAIN rows => Seen(c)[k] = rows[k])
    BY OwnLook
<1>5. local' = local => Becomes(c, l)
    BY DEF Becomes, Inv, Types
<1>6. \A next \in {"newaccount", "addrow", "newrow", "commit", "findsymbol", "newsymbol", "insert"} :
          Onward(l, pc[c], l, next) /\ (r.kind # "cancel" => Plain(l, next))
    BY <1>1 DEF Onward, Plain
<1> HIDE DEF l, r, rows, t
<1>7. CASE FindAccount(c)
    <2>1. CASE EndTransaction(c, FALSE)
        BY <1>7, <2>1, RollbackApart DEF FindAccount
    <2>2. CASE Keep(c, l, "newaccount") /\ ~Exists(c, Balance(r.id))
        <3>1. r.kind = "account" /\ Balance(r.id) \notin DOMAIN rows
            BY <1>2, <1>3, <1>4, <1>7, <2>2 DEF FindAccount, Serves, r
        <3>2. Serves(l, "newaccount", requests[c]) /\ StillMissing(l, "newaccount", rows) /\ StillFunded(l, "newaccount", rows)
            BY <1>2, <1>7, <3>1 DEF FindAccount, Serves, StillMissing, StillFunded, r
        <3>3. Working(l, "newaccount", requests[c], rows, t)
            BY <1>2, <1>6, <3>1, <3>2, PlainWorks
        <3> QED
            BY <1>6, <2>2, <3>3, ReadApart DEF rows, t, l
    <2> QED
        BY <1>7, <2>1, <2>2 DEF FindAccount, r, l
<1>8. CASE NewAccount(c)
    <2> DEFINE k == Balance(r.id)
               after == Put(rows, k, r.amount)
    <2>1. r.kind = "account" /\ k \notin DOMAIN rows /\ r.amount \in Nat
        BY <1>2, <1>3, <1>8 DEF NewAccount, Serves, StillMissing, Modest, r
    <2>2. Solvent(after, t)
        BY <1>2, <2>1, PutSolvent
    <2>3. Serves(l, "commit", requests[c]) /\ StillMissing(l, "commit", after) /\ StillFunded(l, "commit", after)
        BY <1>2, <1>8, <2>1 DEF NewAccount, Serves, StillMissing, StillFunded, r
    <2>4. Working(l, "commit", requests[c], after, t)
        BY <1>6, <2>1, <2>2, <2>3, PlainWorks
    <2>5. InsertRow(c, k, r.amount, "commit")
        BY <1>8 DEF NewAccount, r, l
    <2> QED
        BY <1>3, <1>6, <2>1, <2>4, <2>5, InsertApart DEF rows, t, l
<1>9. CASE FindRow(c)
    <2> DEFINE k == Position(r.id, r.sym)
               next == IF Exists(c, k) THEN "addrow" ELSE "findsymbol"
    <2>1. r.kind = "position" /\ (Exists(c, k) <=> k \in DOMAIN rows)
        BY <1>2, <1>3, <1>4, <1>9 DEF FindRow, Serves, r
    <2>2. next \in {"addrow", "findsymbol"} /\ (next = "addrow" <=> k \in DOMAIN rows)
        BY <2>1
    <2>3. Keep(c, l, next)
        BY <1>9 DEF FindRow, r, l
    <2> HIDE DEF next
    <2>4. Serves(l, next, requests[c]) /\ StillMissing(l, next, rows) /\ StillFunded(l, next, rows)
        BY <1>2, <1>9, <2>1, <2>2 DEF FindRow, Serves, StillMissing, StillFunded, r
    <2>5. Working(l, next, requests[c], rows, t)
        BY <1>2, <1>6, <2>1, <2>2, <2>4, PlainWorks
    <2> QED
        BY <1>6, <2>2, <2>3, <2>5, ReadApart DEF rows, t, l
<1>10. CASE AddRow(c)
    <2> DEFINE k == Position(r.id, r.sym)
               v == Seen(c)[k] + r.amount
               after == Put(rows, k, v)
    <2>1. r.kind = "position" /\ k \in DOMAIN rows /\ r.amount \in Nat
        BY <1>2, <1>3, <1>10 DEF AddRow, Serves, StillMissing, Modest, r
    <2>2. rows[k] \in Nat
        BY <1>2, <1>3, <2>1 DEF Solvent, Paid, RequestOK
    <2>3. v \in Nat
        BY <1>3, <1>4, <2>1, <2>2
    <2>4. Write(c, k, v) /\ Goto(c, "commit") /\ UNCHANGED <<db, up, local>>
        BY <1>10 DEF AddRow, UpdateRow, r, l
    <2> HIDE DEF v
    <2>5. Solvent(after, t)
        BY <1>2, <2>3, PutSolvent
    <2>6. Serves(l, "commit", requests[c]) /\ StillMissing(l, "commit", after)
        BY <1>2, <1>10, <2>1 DEF AddRow, Serves, StillMissing, r
    <2>7. StillFunded(l, "commit", after)
        BY <1>2, <1>10, <2>1, PutRows DEF AddRow, StillFunded, r
    <2>8. Working(l, "commit", requests[c], after, t)
        BY <1>6, <2>1, <2>5, <2>6, <2>7, PlainWorks
    <2> QED
        BY <1>3, <1>5, <1>6, <2>1, <2>4, <2>8, KeyApart DEF rows, t, l
<1>11. CASE NewRow(c)
    <2> DEFINE k == Position(r.id, r.sym)
               after == Put(rows, k, r.amount)
    <2>1. r.kind = "position" /\ k \notin DOMAIN rows /\ r.amount \in Nat
        BY <1>2, <1>3, <1>11 DEF NewRow, Serves, StillMissing, Modest, r
    <2>2. Solvent(after, t)
        BY <1>2, <2>1, PutSolvent
    <2>3. Serves(l, "commit", requests[c]) /\ StillMissing(l, "commit", after)
        BY <1>2, <1>11, <2>1 DEF NewRow, Serves, StillMissing, r
    <2>4. StillFunded(l, "commit", after)
        BY <1>2, <1>11, <2>1, PutRows DEF NewRow, StillFunded, r
    <2>5. Working(l, "commit", requests[c], after, t)
        BY <1>6, <2>1, <2>2, <2>3, <2>4, PlainWorks
    <2>6. InsertRow(c, k, r.amount, "commit")
        BY <1>11 DEF NewRow, r, l
    <2> QED
        BY <1>3, <1>6, <2>1, <2>5, <2>6, InsertApart DEF rows, t, l
<1>12. r.kind \in {"position", "order"} =>
           /\ AfterSymbol(c) = IF r.kind = "order" THEN "insert" ELSE "newrow"
           /\ AfterSymbol(c) \in {"insert", "newrow"}
    BY DEF AfterSymbol, r, l
<1>13. CASE FindSymbol(c)
    <2> DEFINE k == Symbol(r.sym)
               next == IF Exists(c, k) THEN AfterSymbol(c) ELSE "newsymbol"
    <2>1. r.kind \in {"position", "order"} /\ (Exists(c, k) <=> k \in DOMAIN rows)
        BY <1>2, <1>3, <1>4, <1>13 DEF FindSymbol, Serves, r
    <2>2. /\ next \in {"insert", "newrow", "newsymbol"} /\ (next = "newsymbol" => k \notin DOMAIN rows)
          /\ (next = "insert" => r.kind = "order") /\ (next = "newrow" => r.kind = "position")
        BY <1>12, <2>1
    <2>3. Keep(c, l, next)
        BY <1>13 DEF FindSymbol, r, l
    <2> HIDE DEF next
    <2>4. Serves(l, next, requests[c]) /\ StillMissing(l, next, rows) /\ StillFunded(l, next, rows)
        BY <1>2, <1>13, <2>1, <2>2 DEF FindSymbol, Serves, StillMissing, StillFunded, r
    <2>5. Working(l, next, requests[c], rows, t)
        BY <1>2, <1>6, <2>1, <2>2, <2>4, PlainWorks
    <2> QED
        BY <1>6, <2>2, <2>3, <2>5, ReadApart DEF rows, t, l
<1>14. CASE NewSymbol(c)
    <2> DEFINE k == Symbol(r.sym)
               after == Put(rows, k, TRUE)
               next == AfterSymbol(c)
    <2>1. r.kind \in {"position", "order"} /\ k \notin DOMAIN rows
        BY <1>2, <1>3, <1>14 DEF NewSymbol, Serves, StillMissing, r
    <2>2. /\ next \in {"insert", "newrow"}
          /\ (next = "insert" => r.kind = "order") /\ (next = "newrow" => r.kind = "position")
        BY <1>12, <2>1
    <2>3. Solvent(after, t)
        BY <1>2, PutSolvent
    <2>4. InsertRow(c, k, TRUE, next)
        BY <1>14 DEF NewSymbol, r, l
    <2>5. \A n : n # k => (n \in DOMAIN after <=> n \in DOMAIN rows) /\ (n \in DOMAIN rows => after[n] = rows[n])
        <3>1. \A f, h, v, n : n # h =>
                  /\ n \in DOMAIN Put(f, h, v) <=> n \in DOMAIN f
                  /\ n \in DOMAIN f => Put(f, h, v)[n] = f[n]
            BY PutRows
        <3> QED
            BY <3>1, Zenon
    <2>6. \A a, s : Balance(a) # k /\ Position(a, s) # k
        BY KeysDiffer
    <2> HIDE DEF next, after, k
    <2>7. Source(r) # k
        BY <2>6 DEF Source
    <2>8. Serves(l, next, requests[c]) /\ StillMissing(l, next, after)
        BY <1>2, <1>14, <2>1, <2>2, <2>5, <2>6 DEF NewSymbol, Serves, StillMissing, r
    <2>9. StillFunded(l, next, after)
        BY <1>2, <1>14, <2>1, <2>2, <2>5, <2>6, <2>7 DEF NewSymbol, StillFunded, r
    <2>10. Working(l, next, requests[c], after, t)
        BY <1>6, <2>1, <2>2, <2>3, <2>8, <2>9, PlainWorks
    <2> QED
        BY <1>3, <1>6, <2>1, <2>2, <2>4, <2>10, InsertApart DEF rows, t, l, k, after
<1> QED
    BY <1>7, <1>8, <1>9, <1>10, <1>11, <1>13, <1>14

\* What an order reserves is not negative, and it is a row of its account.
LEMMA Reserves ==
    ASSUME NEW r, RequestOK(r), Modest(r), r.kind = "order"
    PROVE  /\ Reserve(r) \in Nat
           /\ r.amount < 0 => Source(r) = Position(r.id, r.sym)
           /\ Source(r) \in {Balance(r.id), Position(r.id, r.sym)}
<1>1. r.amount \in Int /\ r.limit \in Nat
    BY DEF RequestOK, Modest
<1>2. \A m, n \in Nat : m * n \in Nat
    OBVIOUS
<1>3. IsBuy(r) => r.amount \in Nat
    BY <1>1 DEF IsBuy
<1>4. ~IsBuy(r) => -r.amount \in Nat
    BY <1>1 DEF IsBuy
<1>5. Reserve(r) \in Nat
    BY <1>1, <1>2, <1>3, <1>4 DEF Reserve
<1> QED
    BY <1>1, <1>5 DEF Source, IsBuy

LEMMA PlaceApart ==
    ASSUME Inv, AInv, NEW c \in Clients, requests' = requests,
           CheckFunds(c) \/ InsertOrder(c) \/ SelectMax(c) \/ Reread(c) \/ Charge(c)
    PROVE  AInv'
<1> DEFINE l == local[c]
           r == l.req
           rows == OwnRows(c)
           t == OwnOrders(c)
           k == Source(r)
<1> USE DEF CreatingAccount, Cancelling, InTurns, Matching, Fetching, Placing, Ordering, Looking
<1>1. pc[c] \in {"check", "insert", "selectmax", "reread", "charge"}
    BY DEF CheckFunds, InsertOrder, SelectMax, Reread, Charge
<1>2. /\ Solvent(rows, t) /\ Serves(l, pc[c], requests[c])
      /\ StillMissing(l, pc[c], rows) /\ StillFunded(l, pc[c], rows)
    BY OwnSeen DEF AInv, Undisturbed, Working
<1>3. r.kind = "order" /\ Balance(r.id) \in DOMAIN rows
    BY <1>1, <1>2 DEF Serves, StillFunded, r
<1>4. /\ RequestOK(r) /\ Modest(r) /\ r.id \in AccountsOf(c) /\ r.sym \in SymbolsOf(c)
      /\ Balance(r.id) \in OwnKeys(c) /\ Position(r.id, r.sym) \in OwnKeys(c)
    BY <1>1, <1>3, ServedOwn
<1>5. /\ k \in OwnKeys(c) /\ (Exists(c, k) <=> k \in DOMAIN rows) /\ (k \in DOMAIN rows => Seen(c)[k] = rows[k])
      /\ Reserve(r) \in Nat
    BY <1>3, <1>4, Reserves, OwnLook
<1>6. k \in DOMAIN rows => rows[k] \in Nat
    BY <1>2, <1>3, <1>4, Reserves DEF Solvent, Paid, RequestOK
<1>7. SourceAmount(c) = IF k \in DOMAIN rows THEN rows[k] ELSE -1
    BY <1>5 DEF SourceAmount, l, r, k
<1>8. local' = local => Becomes(c, l)
    BY DEF Becomes, Inv, Types
<1>9. DOMAIN l = Variables
    BY DEF Inv, LocalOK
<1>10. \A m : m.req = l.req =>
          /\ \A next \in {"findsymbol", "selectmax", "reread", "charge", "selectbuys"} : Plain(m, next)
          /\ pc[c] = "check" => Onward(l, pc[c], m, "findsymbol")
          /\ pc[c] # "check" => \A next \in {"selectmax", "reread", "charge", "selectbuys"} : Onward(l, pc[c], m, next)
    BY <1>1 DEF Plain, Onward
<1> HIDE DEF l, r, rows, t, k
<1>11. CASE CheckFunds(c)
    <2>1. CASE EndTransaction(c, FALSE)
        BY <1>11, <2>1, RollbackApart DEF CheckFunds
    <2>2. CASE Keep(c, l, "findsymbol") /\ ~(SourceAmount(c) < Reserve(r))
        <3>1. k \in DOMAIN rows /\ rows[k] >= Reserve(r)
            BY <1>5, <1>6, <1>7, <2>2
        <3>2. Serves(l, "findsymbol", requests[c]) /\ StillMissing(l, "findsymbol", rows)
            BY <1>1, <1>2, <1>3 DEF Serves, StillMissing, r
        <3>3. StillFunded(l, "findsymbol", rows)
            BY <1>3, <3>1 DEF StillFunded, r, k
        <3>4. Working(l, "findsymbol", requests[c], rows, t)
            BY <1>2, <1>10, <3>2, <3>3, PlainWorks
        <3>5. pc[c] = "check"
            BY <1>11 DEF CheckFunds
        <3> QED
            BY <1>10, <2>2, <3>4, <3>5, ReadApart DEF rows, t, l
    <2> QED
        BY <1>11, <2>1, <2>2 DEF CheckFunds, r, l
<1>12. CASE InsertOrder(c)
    <2> DEFINE i == serial + 1
               o == [OrderTime |-> 0, AccountID |-> r.id, SymbolName |-> r.sym, Amount |-> r.amount,
                     PriceLimit |-> r.limit, CancelTime |-> NOTCANCELLED]
               after == Put(t, i, o)
    <2>1. pc[c] = "insert" /\ k \in DOMAIN rows /\ rows[k] >= Reserve(r)
        BY <1>2, <1>3, <1>12 DEF InsertOrder, StillFunded, r, k
    <2>2. /\ Write(c, Order(i), o) /\ Goto(c, "selectmax") /\ UNCHANGED <<db, up, local>>
          /\ i \in Nat /\ Order(i) \notin DOMAIN db
        <3>1. i \in Nat /\ i \notin 1 .. serial /\ DOMAIN db \subseteq Keys
            BY DEF Inv, Types, Table
        <3> QED
            BY <1>12, <3>1, OrderKeys DEF InsertOrder, UpdateRow, r, l
    <2>3. /\ o \in OrderRow /\ o.PriceLimit \in Nat /\ o.AccountID = r.id /\ o.SymbolName = r.sym
          /\ o.Amount = r.amount
        BY <1>3, <1>4 DEF OrderRow, RequestOK, Modest
    <2> HIDE DEF o
    <2>4. Belongs(o, AccountsOf(c), SymbolsOf(c))
        BY <1>4, <2>3 DEF Belongs
    <2>5. o.Amount < 0 => Position(o.AccountID, o.SymbolName) \in DOMAIN rows
        BY <1>3, <1>4, <2>1, <2>3, Reserves DEF k
    <2>6. Solvent(rows, after)
        BY <1>2, <1>3, <2>2, <2>3, <2>5, OrderSolvent
    <2>7. Serves(l, "selectmax", requests[c]) /\ StillMissing(l, "selectmax", rows)
        BY <1>1, <1>2, <1>3 DEF Serves, StillMissing, r
    <2>8. StillFunded(l, "selectmax", rows)
        BY <1>3, <2>1 DEF StillFunded, r, k
    <2>9. Working(l, "selectmax", requests[c], rows, after)
        BY <1>10, <2>6, <2>7, <2>8, PlainWorks
    <2>10. Onward(l, pc[c], l, "selectmax") /\ o.SymbolName = l.req.sym
        BY <1>10, <2>1, <2>3 DEF r
    <2> HIDE DEF i
    <2> QED
        BY <1>8, <2>2, <2>4, <2>9, <2>10, OrderApart DEF rows, t, l
<1>13. CASE SelectMax(c)
    <2>1. PICK i \in 1 .. serial : Keep(c, [l EXCEPT !.id = i], "reread")
        BY <1>13 DEF SelectMax, l
    <2> DEFINE m == [l EXCEPT !.id = i]
    <2>2. m.req = r /\ pc[c] = "selectmax"
        BY <1>9, <1>13 DEF Variables, r, SelectMax
    <2> HIDE DEF m
    <2>3. Serves(m, "reread", requests[c]) /\ StillMissing(m, "reread", rows)
        BY <1>1, <1>2, <1>3, <2>2 DEF Serves, StillMissing, r
    <2>4. StillFunded(m, "reread", rows)
        BY <1>2, <1>3, <2>2 DEF StillFunded, r
    <2>5. Working(m, "reread", requests[c], rows, t)
        BY <1>2, <1>10, <2>2, <2>3, <2>4, PlainWorks DEF r
    <2> QED
        BY <1>10, <2>1, <2>2, <2>5, ReadApart DEF rows, t, l, m, r
<1>14. CASE Reread(c)
    <2> DEFINE m == [l EXCEPT !.seen = SourceAmount(c)]
    <2>1. Keep(c, m, "charge")
        BY <1>14 DEF Reread, l
    <2>2. m.req = r /\ m.seen = SourceAmount(c) /\ pc[c] = "reread"
        BY <1>9, <1>14 DEF Variables, r, Reread
    <2> HIDE DEF m
    <2>3. Serves(m, "charge", requests[c]) /\ StillMissing(m, "charge", rows)
        BY <1>1, <1>2, <1>3, <2>2 DEF Serves, StillMissing, r
    <2>4. k \in DOMAIN rows /\ rows[k] >= Reserve(r)
        BY <1>2, <1>3, <2>2 DEF StillFunded, r, k
    <2>5. StillFunded(m, "charge", rows)
        BY <1>3, <1>7, <2>2, <2>4 DEF StillFunded, r, k
    <2>6. Working(m, "charge", requests[c], rows, t)
        BY <1>2, <1>10, <2>2, <2>3, <2>5, PlainWorks DEF r
    <2> QED
        BY <1>10, <2>1, <2>2, <2>6, ReadApart DEF rows, t, l, r
<1>15. CASE Charge(c)
    <2> DEFINE v == l.seen - Reserve(r)
               after == Put(rows, k, v)
    <2>1. pc[c] = "charge" /\ k \in DOMAIN rows /\ rows[k] >= Reserve(r) /\ l.seen = rows[k]
        BY <1>2, <1>3, <1>15 DEF Charge, StillFunded, r, k
    <2>2. v \in Nat
        BY <1>5, <1>6, <2>1
    <2>3. Write(c, k, v) /\ Goto(c, "selectbuys") /\ UNCHANGED <<db, up, local>>
        BY <1>15 DEF Charge, UpdateRow, r, l, k
    <2> HIDE DEF v
    <2>4. Solvent(after, t)
        BY <1>2, <2>2, PutSolvent
    <2>5. Serves(l, "selectbuys", requests[c]) /\ StillMissing(l, "selectbuys", after)
        BY <1>1, <1>2, <1>3 DEF Serves, StillMissing, r
    <2>6. StillFunded(l, "selectbuys", after)
        BY <1>3, PutRows DEF StillFunded, r
    <2>7. Working(l, "selectbuys", requests[c], after, t)
        BY <1>10, <2>4, <2>5, <2>6, PlainWorks
    <2> QED
        BY <1>5, <1>8, <1>10, <2>1, <2>3, <2>7, KeyApart DEF rows, t, l
<1> QED
    BY <1>11, <1>12, <1>13, <1>14, <1>15
-----------------------------------------------------------------------------
(* Cancellations of clients that are apart                                  *)

\* A commit of <create> or <cancel>: of orders it shows cancelled ones only.
LEMMA CommitCreateApart ==
    ASSUME Inv, AInv, Apart, NEW c \in Clients, CommitCreate(c), requests' = requests
    PROVE  AInv'
<1>1. pc[c] = "commit" /\ EndTransaction(c, TRUE)
    BY DEF CommitCreate
<1>2. \A i \in Nat : Order(i) \in DOMAIN tx[c] => tx[c][Order(i)].CancelTime = CANCELLED
    BY <1>1 DEF AInv, Undisturbed, Wrote, Ordering, Placing, Fetching, Matching, InTurns
<1>3. \A i \in Nat : Order(i) \in DOMAIN Seen(c) /\ Seen(c)[Order(i)].CancelTime = NOTCANCELLED =>
          Order(i) \in DOMAIN db /\ Seen(c)[Order(i)] = db[Order(i)]
    BY <1>2, OverRows DEF Seen, NOTCANCELLED, CANCELLED
<1>4. Settled(Seen(c))
    BY <1>3 DEF AInv, Settled
<1> QED
    BY <1>1, <1>4, CommitApart

LEMMA CancelWorks ==
    ASSUME NEW l, NEW step \in Cancelling \cup {"commit"}, NEW asked, l.req \in asked, l.req.kind = "cancel",
           NEW rows, NEW t, Solvent(rows, t), Balance(l.req.id) \in DOMAIN rows, StillOpen(l, step, rows, t)
    PROVE  Working(l, step, asked, rows, t)
    BY DEF Working, Serves, StillMissing, StillFunded, StillMirrored, CreatingAccount, Cancelling, InTurns, Matching,
       Fetching, Placing, Ordering

LEMMA CancelApart ==
    ASSUME Inv, AInv, NEW c \in Clients, requests' = requests,
           ReadOrder(c) \/ ReadCancelTime(c) \/ SetCancelTime(c) \/ ReadRefund(c) \/ Refund(c)
    PROVE  AInv'
<1> DEFINE l == local[c]
           r == l.req
           i == l.id
           rows == OwnRows(c)
           t == OwnOrders(c)
<1> USE DEF CreatingAccount, Cancelling, InTurns, Matching, Fetching, Placing, Ordering, Looking
<1>1. pc[c] \in Cancelling
    BY DEF ReadOrder, ReadCancelTime, SetCancelTime, ReadRefund, Refund
<1>2. /\ Solvent(rows, t) /\ Serves(l, pc[c], requests[c])
      /\ StillMissing(l, pc[c], rows) /\ StillFunded(l, pc[c], rows) /\ StillOpen(l, pc[c], rows, t)
    BY OwnSeen DEF AInv, Undisturbed, Working
<1>3. r \in requests[c] /\ r.kind = "cancel" /\ Balance(r.id) \in DOMAIN rows /\ i \in DOMAIN t
    BY <1>1, <1>2 DEF Serves, StillFunded, StillOpen, r, i
<1>4. /\ i \in Nat /\ t[i] = Seen(c)[Order(i)] /\ Belongs(t[i], AccountsOf(c), SymbolsOf(c))
      /\ t[i] \in OrderRow /\ t[i].PriceLimit \in Nat /\ Balance(t[i].AccountID) \in DOMAIN rows
      /\ t[i].Amount < 0 => Position(t[i].AccountID, t[i].SymbolName) \in DOMAIN rows
    BY <1>2, <1>3, OwnOrder DEF Solvent
<1>5. local' = local => Becomes(c, l)
    BY DEF Becomes, Inv, Types
<1>6. DOMAIN l = Variables
    BY DEF Inv, LocalOK
<1> DEFINE k == RefundTo(t[i], l.open)
<1>7. RefundRow(c) = k
    BY <1>4 DEF RefundRow, RefundTo, l, i
<1>8. pc[c] # "readorder" => l.open = t[i].Amount
    BY <1>1, <1>2 DEF StillOpen, i
<1>9. pc[c] # "readorder" => k \in OwnKeys(c) /\ k \in DOMAIN rows /\ Seen(c)[k] = rows[k] /\ rows[k] \in Nat
    <2>1. /\ Balance(t[i].AccountID) \in OwnKeys(c) /\ Position(t[i].AccountID, t[i].SymbolName) \in OwnKeys(c)
          /\ t[i].AccountID \in Accounts /\ t[i].SymbolName \in Symbols
        BY <1>4 DEF OwnKeys, KeysOf, Belongs, OrderRow
    <2>2. /\ Balance(t[i].AccountID) \in DOMAIN rows => rows[Balance(t[i].AccountID)] \in Nat
          /\ Position(t[i].AccountID, t[i].SymbolName) \in DOMAIN rows =>
                rows[Position(t[i].AccountID, t[i].SymbolName)] \in Nat
        BY <1>2, <2>1 DEF Solvent, Paid
    <2> QED
        BY <1>4, <1>8, <2>1, <2>2, OwnLook DEF RefundTo
<1>10. \A m, step, next : m.req = r /\ step \in Cancelling =>
          /\ next \in {"readcancel", "setcancel"} /\ step \in {"readorder", "readcancel"} => Onward(l, step, m, next)
          /\ next \in {"readrefund", "refund", "commit"} => Onward(l, step, m, next)
    BY DEF Onward, r
<1> HIDE DEF l, r, i, rows, t, k
<1>11. CASE ReadOrder(c)
    <2> DEFINE m == [l EXCEPT !.open = t[i].Amount]
    <2>1. Keep(c, m, "readcancel") /\ pc[c] = "readorder"
        BY <1>4, <1>11 DEF ReadOrder, l, i
    <2>2. m.req = r /\ m.id = i /\ m.open = t[i].Amount
        BY <1>6 DEF Variables, r, i
    <2> HIDE DEF m
    <2>3. StillOpen(m, "readcancel", rows, t)
        BY <1>3, <2>2 DEF StillOpen
    <2>4. Working(m, "readcancel", requests[c], rows, t)
        BY <1>2, <1>3, <2>2, <2>3, CancelWorks
    <2>5. Onward(l, pc[c], m, "readcancel")
        BY <1>10, <2>1, <2>2
    <2> QED
        BY <2>1, <2>4, <2>5, ReadApart DEF rows, t, l
<1>12. CASE ReadCancelTime(c)
    <2>1. CASE EndTransaction(c, FALSE)
        BY <1>12, <2>1, RollbackApart DEF ReadCancelTime
    <2>2. CASE Keep(c, l, "setcancel") /\ l.open # 0 /\ t[i].CancelTime = NOTCANCELLED
        <3>1. pc[c] = "readcancel"
            BY <1>12 DEF ReadCancelTime
        <3>2. StillOpen(l, "setcancel", rows, t)
            BY <1>3, <1>8, <2>2, <3>1 DEF StillOpen, i
        <3>3. Working(l, "setcancel", requests[c], rows, t)
            BY <1>2, <1>3, <3>2, CancelWorks DEF r
        <3>4. Onward(l, pc[c], l, "setcancel")
            BY <1>10, <3>1 DEF r
        <3> QED
            BY <2>2, <3>3, <3>4, ReadApart DEF rows, t, l
    <2> QED
        BY <1>4, <1>12, <2>1, <2>2 DEF ReadCancelTime, l, i
<1>13. CASE SetCancelTime(c)
    <2> DEFINE o == [t[i] EXCEPT !.CancelTime = CANCELLED]
               after == Put(t, i, o)
    <2>1. /\ Write(c, Order(i), o) /\ Goto(c, "readrefund") /\ UNCHANGED <<db, up, local>>
          /\ pc[c] = "setcancel"
        BY <1>4, <1>13 DEF SetCancelTime, UpdateRow, l, i
    <2>2. /\ o \in OrderRow /\ o.CancelTime = CANCELLED /\ o.Amount = t[i].Amount /\ o.PriceLimit = t[i].PriceLimit
          /\ o.AccountID = t[i].AccountID /\ o.SymbolName = t[i].SymbolName
        BY <1>4 DEF OrderRow
    <2> HIDE DEF o
    <2>3. Belongs(o, AccountsOf(c), SymbolsOf(c))
        BY <1>4, <2>2 DEF Belongs
    <2>4. Solvent(rows, after)
        BY <1>2, <1>4, <2>2, OrderSolvent
    <2>5. i \in DOMAIN after /\ after[i] = o
        BY PutRows
    <2>6. StillOpen(l, "readrefund", rows, after)
        BY <1>2, <1>8, <2>1, <2>2, <2>5 DEF StillOpen, i
    <2>7. Working(l, "readrefund", requests[c], rows, after)
        BY <1>3, <2>4, <2>6, CancelWorks DEF r
    <2>8. Onward(l, pc[c], l, "readrefund")
        BY <1>1, <1>10 DEF r
    <2>9. i \in DOMAIN OwnOrders(c)
        BY <1>3 DEF t
    <2> QED
        BY <1>4, <1>5, <2>1, <2>2, <2>3, <2>7, <2>8, <2>9, OrderApart DEF rows, t, l
<1>14. CASE ReadRefund(c)
    <2> DEFINE m == [l EXCEPT !.seen = rows[k]]
    <2>1. Keep(c, m, "refund") /\ pc[c] = "readrefund"
        BY <1>7, <1>9, <1>14 DEF ReadRefund, l
    <2>2. m.req = r /\ m.id = i /\ m.open = l.open /\ m.seen = rows[k]
        BY <1>6 DEF Variables, r, i
    <2> HIDE DEF m
    <2>3. StillOpen(m, "refund", rows, t)
        BY <1>2, <1>3, <2>1, <2>2 DEF StillOpen, i, k
    <2>4. Working(m, "refund", requests[c], rows, t)
        BY <1>2, <1>3, <2>2, <2>3, CancelWorks
    <2>5. Onward(l, pc[c], m, "refund")
        BY <1>1, <1>10, <2>2
    <2> QED
        BY <2>1, <2>4, <2>5, ReadApart DEF rows, t, l
<1>15. CASE Refund(c)
    <2> DEFINE v == l.seen + RefundAmount(c)
               after == Put(rows, k, v)
    <2>1. /\ Write(c, k, v) /\ Goto(c, "commit") /\ UNCHANGED <<db, up, local>>
          /\ pc[c] = "refund"
        BY <1>7, <1>15 DEF Refund, UpdateRow, l
    <2>2. l.seen = rows[k] /\ l.open = t[i].Amount /\ rows[k] \in Nat
        BY <1>2, <1>8, <1>9, <2>1 DEF StillOpen, i, k
    <2>3. RefundAmount(c) \in Nat
        <3>1. l.open \in Int
            BY <1>4, <2>2 DEF OrderRow
        <3>2. \A m, n \in Nat : m * n \in Nat
            OBVIOUS
        <3>3. RefundAmount(c) = IF l.open < 0 THEN -l.open ELSE l.open * t[i].PriceLimit
            BY <1>4 DEF RefundAmount, l, i
        <3>4. CASE l.open < 0
            BY <3>1, <3>3, <3>4
        <3>5. CASE ~(l.open < 0)
            <4>1. l.open \in Nat
                BY <3>1, <3>5
            <4> QED
                BY <1>4, <3>2, <3>3, <3>5, <4>1
        <3> QED
            BY <3>4, <3>5
    <2>4. v \in Nat
        BY <2>2, <2>3
    <2> HIDE DEF v
    <2>5. Solvent(after, t)
        BY <1>2, <2>4, PutSolvent
    <2>6. StillOpen(l, "commit", after, t)
        BY <1>3, <2>2 DEF StillOpen, i
    <2>7. Balance(r.id) \in DOMAIN after
        BY <1>3, PutRows
    <2>8. Working(l, "commit", requests[c], after, t)
        BY <1>3, <2>5, <2>6, <2>7, CancelWorks DEF r
    <2>9. Onward(l, pc[c], l, "commit") /\ k \in OwnKeys(c)
        BY <1>1, <1>9, <1>10, <2>1 DEF r
    <2> QED
        BY <1>5, <2>1, <2>8, <2>9, KeyApart DEF rows, t, l
<1> QED
    BY <1>11, <1>12, <1>13, <1>14, <1>15
-----------------------------------------------------------------------------
(* The vectors of matchOrders                                               *)

\* AfterMatch, entry by entry.
LEMMA AfterMatchEntries ==
    ASSUME NEW v \in Seq(Entry), v # <<>>, NEW n \in Int
    PROVE  LET w == AfterMatch(v, n)
           IN  /\ v[1].Amount = n =>
                     /\ DOMAIN w = 1 .. (Len(v) - 1)
                     /\ \A k \in DOMAIN w : k + 1 \in DOMAIN v \ {1} /\ w[k] = v[k + 1]
                     /\ \A k \in DOMAIN v \ {1} : k - 1 \in DOMAIN w /\ w[k - 1] = v[k]
               /\ v[1].Amount # n =>
                     /\ DOMAIN w = DOMAIN v
                     /\ w[1] = [v[1] EXCEPT !.Amount = @ - n]
                     /\ \A k \in DOMAIN v \ {1} : w[k] = v[k]
<1>1. CASE v[1].Amount = n
    <2> DEFINE w == Tail(v)
    <2>1. Len(v) >= 1 /\ DOMAIN v = 1 .. Len(v) /\ Len(v) \in Nat
        OBVIOUS
    <2>2. w \in Seq(Entry) /\ Len(w) = Len(v) - 1 /\ \A k \in 1 .. (Len(v) - 1) : w[k] = v[k + 1]
        BY <2>1
    <2> HIDE DEF w
    <2>3. DOMAIN w = 1 .. (Len(v) - 1)
        BY <2>2
    <2>4. \A k \in DOMAIN w : k + 1 \in DOMAIN v \ {1} /\ w[k] = v[k + 1]
        BY <2>1, <2>2, <2>3
    <2>5. \A k \in DOMAIN v \ {1} : k - 1 \in DOMAIN w /\ w[k - 1] = v[k]
        BY <2>1, <2>2, <2>3
    <2> QED
        BY <1>1, <2>3, <2>4, <2>5 DEF AfterMatch, w
<1>2. CASE v[1].Amount # n
    BY <1>2 DEF AfterMatch
<1> QED
    BY <1>1, <1>2

\* Dropping or lowering the head keeps a vector sorted.
LEMMA AfterMatchSorted ==
    ASSUME NEW v \in Seq(Entry), v # <<>>, NEW n \in Int
    PROVE  /\ Falling(v) => Falling(AfterMatch(v, n))
           /\ Rising(v) => Rising(AfterMatch(v, n))
<1> DEFINE w == AfterMatch(v, n)
<1>1. DOMAIN v = 1 .. Len(v) /\ Len(v) \in Nat /\ 1 \in DOMAIN v /\ v[1] \in Entry
    OBVIOUS
<1>2. CASE v[1].Amount = n
    <2>1. /\ DOMAIN w = 1 .. (Len(v) - 1)
          /\ \A k \in DOMAIN w : k + 1 \in DOMAIN v \ {1} /\ w[k] = v[k + 1]
        BY <1>2, AfterMatchEntries
    <2> HIDE DEF w
    <2>2. \A j, k \in DOMAIN w : j < k => j + 1 < k + 1
        BY <1>1, <2>1
    <2> QED
        BY <2>1, <2>2 DEF Falling, Rising, w
<1>3. CASE v[1].Amount # n
    <2>1. /\ DOMAIN w = DOMAIN v
          /\ w[1] = [v[1] EXCEPT !.Amount = @ - n]
          /\ \A k \in DOMAIN v \ {1} : w[k] = v[k]
        BY <1>3, AfterMatchEntries
    <2>2. w[1].PriceLimit = v[1].PriceLimit
        BY <1>1, <2>1 DEF Entry
    <2> HIDE DEF w
    <2>3. \A k \in DOMAIN w : w[k].PriceLimit = v[k].PriceLimit
        BY <2>1, <2>2
    <2> QED
        BY <2>1, <2>3 DEF Falling, Rising, w
<1> QED
    BY <1>2, <1>3

\* Row o is row q but for its amount.
SameOrder(o, q) ==
    /\ o.OrderTime = q.OrderTime /\ o.AccountID = q.AccountID /\ o.SymbolName = q.SymbolName
    /\ o.PriceLimit = q.PriceLimit /\ o.CancelTime = q.CancelTime

\* If the row of the head is lowered by n too, and leaves the active rows exactly when
\* nothing is left of it, the vector still mirrors them.
LEMMA AfterMatchMirrors ==
    ASSUME NEW v \in Seq(Entry), v # <<>>, NEW n \in Int, NEW u, NEW t, NEW ids, NEW ids2, Mirrors(v, u, ids),
           SameOrder(t[v[1].TransID], u[v[1].TransID]), t[v[1].TransID].Amount = v[1].Amount - n,
           \A i \in ids \ {v[1].TransID} : t[i] = u[i],
           ids2 = IF v[1].Amount = n THEN ids \ {v[1].TransID} ELSE ids
    PROVE  Mirrors(AfterMatch(v, n), t, ids2)
<1> DEFINE w == AfterMatch(v, n)
           h == v[1].TransID
<1>1. /\ DOMAIN v = 1 .. Len(v) /\ Len(v) \in Nat /\ 1 \in DOMAIN v /\ v[1] \in Entry
      /\ h \in ids /\ v[1] = EntryOf(u, h)
    BY DEF Mirrors
<1>2. \A k \in DOMAIN v \ {1} : v[k].TransID \in ids \ {h} /\ v[k] = EntryOf(u, v[k].TransID)
    BY <1>1 DEF Mirrors
<1>3. \A k \in DOMAIN v \ {1} : v[k] = EntryOf(t, v[k].TransID)
    BY <1>2 DEF EntryOf
<1>4. CASE v[1].Amount = n
    <2>1. /\ DOMAIN w = 1 .. (Len(v) - 1)
          /\ \A k \in DOMAIN w : k + 1 \in DOMAIN v \ {1} /\ w[k] = v[k + 1]
          /\ \A k \in DOMAIN v \ {1} : k - 1 \in DOMAIN w /\ w[k - 1] = v[k]
        BY <1>4, AfterMatchEntries
    <2> HIDE DEF w
    <2>2. \A k \in DOMAIN w : w[k].TransID \in ids2 /\ w[k] = EntryOf(t, w[k].TransID)
        BY <1>2, <1>3, <1>4, <2>1
    <2>3. \A i \in ids2 : \E k \in DOMAIN w : w[k].TransID = i
        BY <1>1, <1>4, <2>1 DEF Mirrors
    <2>4. \A j, k \in DOMAIN w : w[j].TransID = w[k].TransID => j = k
        BY <1>1, <2>1 DEF Mirrors
    <2> QED
        BY <2>2, <2>3, <2>4 DEF Mirrors, w
<1>5. CASE v[1].Amount # n
    <2>1. /\ DOMAIN w = DOMAIN v
          /\ w[1] = [v[1] EXCEPT !.Amount = @ - n]
          /\ \A k \in DOMAIN v \ {1} : w[k] = v[k]
        BY <1>5, AfterMatchEntries
    <2>2. w[1].TransID = h
        BY <1>1, <2>1 DEF Entry
    <2>3. w[1] = EntryOf(t, h)
        BY <1>1, <2>1 DEF EntryOf, SameOrder
    <2> HIDE DEF w
    <2>4. \A k \in DOMAIN w : w[k].TransID = v[k].TransID
        BY <2>1, <2>2
    <2>5. \A k \in DOMAIN w : w[k].TransID \in ids2 /\ w[k] = EntryOf(t, w[k].TransID)
        BY <1>1, <1>2, <1>3, <1>5, <2>1, <2>2, <2>3
    <2>6. \A i \in ids2 : \E k \in DOMAIN w : w[k].TransID = i
        BY <1>5, <2>1, <2>4 DEF Mirrors
    <2>7. \A j, k \in DOMAIN w : w[j].TransID = w[k].TransID => j = k
        BY <2>1, <2>4 DEF Mirrors
    <2> QED
        BY <2>5, <2>6, <2>7 DEF Mirrors, w
<1> QED
    BY <1>4, <1>5

\* The vectors fetched are sorted copies of the active orders.
LEMMA FetchedVectors ==
    ASSUME Inv, NEW c \in Clients, NEW s, NEW sign \in {1, -1}, NEW v \in Vectors(c, s, sign)
    PROVE  LET ids == ActiveIds(c, s, sign)
           IN  /\ \A k \in DOMAIN v : /\ v[k].TransID \in ids
                                      /\ v[k] = [TransID |-> v[k].TransID,
                                                 OrderTime |-> Seen(c)[Order(v[k].TransID)].OrderTime,
                                                 AccountID |-> Seen(c)[Order(v[k].TransID)].AccountID,
                                                 Amount |-> Seen(c)[Order(v[k].TransID)].Amount,
                                                 PriceLimit |-> Seen(c)[Order(v[k].TransID)].PriceLimit]
               /\ \A i \in ids : \E k \in DOMAIN v : v[k].TransID = i
               /\ \A j, k \in DOMAIN v : v[j].TransID = v[k].TransID => j = k
               /\ sign = 1 => Falling(v)
               /\ sign = -1 => Rising(v)
<1> DEFINE ids == ActiveIds(c, s, sign)
           n == Cardinality(ids)
           entry(i) == [TransID |-> i, OrderTime |-> Seen(c)[Order(i)].OrderTime,
                        AccountID |-> Seen(c)[Order(i)].AccountID,
                        Amount |-> Seen(c)[Order(i)].Amount, PriceLimit |-> Seen(c)[Order(i)].PriceLimit]
<1>1. PICK f \in Bijection(1 .. n, ids) :
          /\ v = [k \in 1 .. n |-> entry(f[k])]
          /\ \A j, k \in 1 .. n : j < k => entry(f[j]).PriceLimit * sign >= entry(f[k]).PriceLimit * sign
    BY DEF Vectors
<1>2. \A i : entry(i).TransID = i
    OBVIOUS
<1>3. f \in [1 .. n -> ids] /\ \A i \in ids : \E k \in 1 .. n : f[k] = i
    BY DEF Bijection, Surjection, Injection
<1>4. \A j, k \in 1 .. n : f[j] = f[k] => j = k
    BY DEF Bijection, Injection, IsInjective
<1>5. \A i \in ids : entry(i).PriceLimit \in Int
    <2>1. \A i \in ids : Seen(c)[Order(i)] \in OrderRow
        BY SeenTable DEF Inv, Table, ActiveIds, Exists
    <2> QED
        BY <2>1 DEF OrderRow
<1> HIDE DEF entry, ids, n
<1>6. DOMAIN v = 1 .. n /\ \A k \in 1 .. n : v[k] = entry(f[k]) /\ v[k].TransID = f[k] /\ f[k] \in ids
    BY <1>1, <1>2, <1>3
<1>7. \A k \in DOMAIN v : v[k].TransID \in ids /\ v[k] = entry(v[k].TransID)
    BY <1>6
<1>8. \A i \in ids : \E k \in DOMAIN v : v[k].TransID = i
    BY <1>3, <1>6
<1>9. \A j, k \in DOMAIN v : v[j].TransID = v[k].TransID => j = k
    BY <1>4, <1>6
<1>10. \A j, k \in DOMAIN v : j < k => v[j].PriceLimit * sign >= v[k].PriceLimit * sign
    BY <1>1, <1>6
<1>11. \A k \in DOMAIN v : v[k].PriceLimit \in Int
    BY <1>5, <1>6
<1>12. sign = 1 => Falling(v)
    BY <1>10, <1>11 DEF Falling
<1>13. sign = -1 => Rising(v)
    BY <1>10, <1>11 DEF Rising
<1> QED
    BY <1>7, <1>8, <1>9, <1>12, <1>13 DEF ids, entry

\* What the client fetches of the symbol it trades are its own orders.
LEMMA ActiveOwn ==
    ASSUME Inv, AInv, Apart, NEW c \in Clients, NEW s \in SymbolsOf(c)
    PROVE  /\ ActiveIds(c, s, 1) = Bids(OwnOrders(c), s)
           /\ ActiveIds(c, s, -1) = Offers(OwnOrders(c), s)
<1>1. serial \in Nat
    BY DEF Inv, Types
<1>2. \A i \in 1 .. serial : Exists(c, Order(i)) /\ Seen(c)[Order(i)].SymbolName = s =>
          i \in DOMAIN OwnOrders(c) /\ OwnOrders(c)[i] = Seen(c)[Order(i)]
    BY <1>1, SeenOwn
<1>3. \A i \in DOMAIN OwnOrders(c) : /\ i \in 1 .. serial /\ Exists(c, Order(i))
                                     /\ OwnOrders(c)[i] = Seen(c)[Order(i)]
    <2>1. Table(Seen(c))
        BY SeenTable DEF Inv
    <2> QED
        BY <2>1, OrderKeys, OwnOrder DEF Table, Exists
<1>4. \A i \in 1 .. serial : Exists(c, Order(i)) => Seen(c)[Order(i)].Amount \in Int
    BY SeenTable DEF Inv, Table, Exists, OrderRow
<1>5. \A x \in Int : (x * 1 > 0 <=> x > 0) /\ (x * (-1) > 0 <=> x < 0)
    OBVIOUS
<1>6. ActiveIds(c, s, 1) = Bids(OwnOrders(c), s)
    <2>1. \A i \in ActiveIds(c, s, 1) : i \in Bids(OwnOrders(c), s)
        BY <1>2, <1>4, <1>5 DEF ActiveIds, Bids
    <2>2. \A i \in Bids(OwnOrders(c), s) : i \in ActiveIds(c, s, 1)
        BY <1>3, <1>4, <1>5 DEF ActiveIds, Bids
    <2> QED
        BY <2>1, <2>2
<1>7. ActiveIds(c, s, -1) = Offers(OwnOrders(c), s)
    <2>1. \A i \in ActiveIds(c, s, -1) : i \in Offers(OwnOrders(c), s)
        BY <1>2, <1>4, <1>5 DEF ActiveIds, Offers
    <2>2. \A i \in Offers(OwnOrders(c), s) : i \in ActiveIds(c, s, -1)
        BY <1>3, <1>4, <1>5 DEF ActiveIds, Offers
    <2> QED
        BY <2>1, <2>2
<1> QED
    BY <1>6, <1>7

\* Whoever fetches or matches works on an order of his.
LEMMA OrderWorks ==
    ASSUME NEW l, NEW step \in Fetching \cup {"loop", "sellrow", "findposition", "readseller"}, NEW asked,
           l.req \in asked, l.req.kind = "order",
           NEW rows, NEW t, Solvent(rows, t), Balance(l.req.id) \in DOMAIN rows, StillMirrored(l, step, t)
    PROVE  Working(l, step, asked, rows, t)
    BY DEF Working, Serves, StillMissing, StillFunded, StillOpen, CreatingAccount, Cancelling, InTurns, Matching,
       Fetching, Placing, Ordering

LEMMA FetchApart ==
    ASSUME Inv, AInv, Apart, NEW c \in Clients, requests' = requests, SelectBuys(c) \/ SelectSells(c)
    PROVE  AInv'
<1> DEFINE l == local[c]
           r == l.req
           rows == OwnRows(c)
           t == OwnOrders(c)
<1> USE DEF CreatingAccount, Cancelling, InTurns, Matching, Fetching, Placing, Ordering, Looking
<1>1. pc[c] \in Fetching
    BY DEF SelectBuys, SelectSells
<1>2. /\ Solvent(rows, t) /\ Serves(l, pc[c], requests[c])
      /\ StillFunded(l, pc[c], rows) /\ StillMirrored(l, pc[c], t)
    BY OwnSeen DEF AInv, Undisturbed, Working
<1>3. r \in requests[c] /\ r.kind = "order" /\ Balance(r.id) \in DOMAIN rows
    BY <1>1, <1>2 DEF Serves, StillFunded, r
<1>4. r.sym \in SymbolsOf(c)
    BY <1>1, <1>3, ServedOwn
<1>5. DOMAIN l = Variables
    BY DEF Inv, LocalOK
<1>6. \A i \in DOMAIN t : t[i] = Seen(c)[Order(i)]
    BY OwnOrder
<1> HIDE DEF l, r, rows, t
<1>7. CASE SelectBuys(c)
    <2>1. PICK v \in Vectors(c, r.sym, 1) : Keep(c, [l EXCEPT !.buying = v], "selectsells")
        BY <1>7 DEF SelectBuys, l, r
    <2> DEFINE m == [l EXCEPT !.buying = v]
    <2>2. m.req = r /\ m.buying = v
        BY <1>5 DEF Variables, r
    <2> HIDE DEF m
    <2>3. Mirrors(v, t, Bids(t, r.sym)) /\ Falling(v)
        <3>1. Bids(t, r.sym) = ActiveIds(c, r.sym, 1) /\ Bids(t, r.sym) \subseteq DOMAIN t
            BY <1>4, ActiveOwn DEF t, Bids
        <3> QED
            BY <1>6, <3>1, FetchedVectors DEF Mirrors, EntryOf
    <2>4. StillMirrored(m, "selectsells", t)
        BY <2>2, <2>3 DEF StillMirrored, Rewound
    <2>5. Working(m, "selectsells", requests[c], rows, t)
        BY <1>2, <1>3, <2>2, <2>4, OrderWorks
    <2>6. Onward(l, pc[c], m, "selectsells")
        BY <1>1, <2>2 DEF Onward, r
    <2> QED
        BY <2>1, <2>5, <2>6, ReadApart DEF rows, t, l, m
<1>8. CASE SelectSells(c)
    <2>1. PICK v \in Vectors(c, r.sym, -1) : Keep(c, [l EXCEPT !.selling = v], "loop")
        BY <1>8 DEF SelectSells, l, r
    <2> DEFINE m == [l EXCEPT !.selling = v]
    <2>2. m.req = r /\ m.buying = l.buying /\ m.selling = v /\ pc[c] = "selectsells"
        BY <1>5, <1>8 DEF Variables, r, SelectSells
    <2> HIDE DEF m
    <2>3. Mirrors(v, t, Offers(t, r.sym)) /\ Rising(v)
        <3>1. Offers(t, r.sym) = ActiveIds(c, r.sym, -1) /\ Offers(t, r.sym) \subseteq DOMAIN t
            BY <1>4, ActiveOwn DEF t, Offers
        <3> QED
            BY <1>6, <3>1, FetchedVectors DEF Mirrors, EntryOf
    <2>4. StillMirrored(m, "loop", t)
        BY <1>2, <2>2, <2>3 DEF StillMirrored, Rewound, r
    <2>5. Working(m, "loop", requests[c], rows, t)
        BY <1>2, <1>3, <2>2, <2>4, OrderWorks
    <2>6. Onward(l, pc[c], m, "loop")
        BY <1>1, <2>2 DEF Onward, r
    <2> QED
        BY <2>1, <2>5, <2>6, ReadApart DEF rows, t, l, m
<1> QED
    BY <1>7, <1>8
-----------------------------------------------------------------------------
(* The turns of the loop of clients that are apart                          *)

LEMMA Amounts ==
    ASSUME NEW o \in OrderRow, NEW x, NEW y
    PROVE  /\ WithAmount(o, x).Amount = x /\ SameOrder(WithAmount(o, x), o)
           /\ WithAmount(WithAmount(o, x), y) = WithAmount(o, y)
           /\ WithAmount(o, o.Amount) = o
           /\ x \in Int => WithAmount(o, x) \in OrderRow
<1>1. WithAmount(o, x).Amount = x /\ SameOrder(WithAmount(o, x), o)
    BY DEF WithAmount, SameOrder, OrderRow
<1>2. WithAmount(WithAmount(o, x), y) = WithAmount(o, y)
    BY DEF WithAmount, OrderRow
<1>3. WithAmount(o, o.Amount) = o
    BY DEF WithAmount, OrderRow
<1>4. x \in Int => WithAmount(o, x) \in OrderRow
    BY DEF WithAmount, OrderRow
<1> QED
    BY <1>1, <1>2, <1>3, <1>4

\* Before the turn the heads' rows had the amounts their entries have.
LEMMA RewoundRows ==
    ASSUME NEW l, NEW step, NEW t, \A i \in DOMAIN t : t[i] \in OrderRow
    PROVE  LET u == Rewound(l, step, t)
               b == l.buying[1].TransID
               a == l.selling[1].TransID
           IN  /\ DOMAIN u = DOMAIN t
               /\ \A i \in DOMAIN t : SameOrder(u[i], t[i])
               /\ \A i \in DOMAIN t : i # a /\ i # b => u[i] = t[i]
               /\ step \in InTurns /\ b \in DOMAIN t => u[b].Amount = l.buying[1].Amount
               /\ step \in InTurns /\ a \in DOMAIN t /\ a # b => u[a].Amount = l.selling[1].Amount
               /\ step \notin InTurns => u = t
<1>1. ASSUME NEW i \in DOMAIN t
      PROVE  /\ SameOrder(Undone(l, i, t[i]), t[i])
             /\ i = l.buying[1].TransID => Undone(l, i, t[i]).Amount = l.buying[1].Amount
             /\ i = l.selling[1].TransID /\ i # l.buying[1].TransID => Undone(l, i, t[i]).Amount = l.selling[1].Amount
             /\ i # l.buying[1].TransID /\ i # l.selling[1].TransID => Undone(l, i, t[i]) = t[i]
    <2> DEFINE o == t[i]
    <2>1. o \in OrderRow
        OBVIOUS
    <2>2. \A x : WithAmount(o, x).Amount = x /\ SameOrder(WithAmount(o, x), o)
        BY <2>1, Amounts
    <2>3. SameOrder(o, o)
        BY DEF SameOrder
    <2> QED
        BY <2>2, <2>3 DEF Undone
<1>2. CASE step \in InTurns
    BY <1>1, <1>2 DEF Rewound
<1>3. CASE step \notin InTurns
    BY <1>3 DEF Rewound, SameOrder
<1> QED
    BY <1>2, <1>3

\* The heads of the vectors are two active orders of the symbol, and trade something: t are the
\* rows as they are, u as they were before the turn.
HeadsTrade(l, t, u) ==
    LET b == l.buying[1].TransID
        a == l.selling[1].TransID
        s == l.req.sym
        n == Lot(l)
    IN  /\ b \in DOMAIN t /\ a \in DOMAIN t /\ a # b
        /\ b \in Bids(u, s) /\ a \in Offers(u, s)
        /\ u[b].Amount = l.buying[1].Amount /\ u[a].Amount = l.selling[1].Amount
        /\ t[b].SymbolName = s /\ t[a].SymbolName = s
        /\ l.buying[1].AccountID = t[b].AccountID /\ l.selling[1].AccountID = t[a].AccountID
        /\ l.buying[1].PriceLimit = t[b].PriceLimit /\ l.selling[1].PriceLimit = t[a].PriceLimit
        /\ l.buying[1].Amount \in Int /\ l.selling[1].Amount \in Int
        /\ n \in Nat /\ n > 0 /\ n <= l.buying[1].Amount /\ n <= -l.selling[1].Amount

LEMMA TurnHeads ==
    ASSUME NEW l, l.buying \in Seq(Entry), l.selling \in Seq(Entry), NEW step \in Matching,
           NEW rows, NEW t, Solvent(rows, t), StillMirrored(l, step, t), Crossing(l)
    PROVE  HeadsTrade(l, t, Rewound(l, step, t))
<1> DEFINE u == Rewound(l, step, t)
           b == l.buying[1].TransID
           a == l.selling[1].TransID
           s == l.req.sym
<1>1. \A i \in DOMAIN t : t[i] \in OrderRow
    BY DEF Solvent
<1>2. /\ DOMAIN u = DOMAIN t
      /\ \A i \in DOMAIN t : SameOrder(u[i], t[i])
    BY <1>1, RewoundRows
<1>3. Mirrors(l.buying, u, Bids(u, s)) /\ Mirrors(l.selling, u, Offers(u, s))
    BY DEF StillMirrored
<1>4. /\ 1 \in DOMAIN l.buying /\ 1 \in DOMAIN l.selling
      /\ l.buying[1] \in Entry /\ l.selling[1] \in Entry
    BY DEF Crossing
<1> HIDE DEF u
<1>5. /\ b \in Bids(u, s) /\ a \in Offers(u, s)
      /\ l.buying[1] = EntryOf(u, b) /\ l.selling[1] = EntryOf(u, a)
    BY <1>3, <1>4 DEF Mirrors
<1>6. l.buying[1].Amount \in Int /\ l.selling[1].Amount \in Int
    BY <1>4 DEF Entry
<1>7. /\ u[b].Amount = l.buying[1].Amount /\ u[a].Amount = l.selling[1].Amount
      /\ u[b].AccountID = l.buying[1].AccountID /\ u[a].AccountID = l.selling[1].AccountID
      /\ u[b].PriceLimit = l.buying[1].PriceLimit /\ u[a].PriceLimit = l.selling[1].PriceLimit
    BY <1>5 DEF EntryOf
<1>8. /\ b \in DOMAIN t /\ a \in DOMAIN t /\ u[b].Amount > 0 /\ u[a].Amount < 0
      /\ u[b].SymbolName = s /\ u[a].SymbolName = s
    BY <1>2, <1>5 DEF Bids, Offers
<1>9. a # b
    BY <1>6, <1>7, <1>8
<1>10. Lot(l) \in Nat /\ Lot(l) > 0 /\ Lot(l) <= l.buying[1].Amount /\ Lot(l) <= -l.selling[1].Amount
    BY <1>6, <1>7, <1>8 DEF Lot
<1>11. SameOrder(u[b], t[b]) /\ SameOrder(u[a], t[a])
    BY <1>2, <1>8
<1> QED
    BY <1>5, <1>6, <1>7, <1>8, <1>9, <1>10, <1>11 DEF HeadsTrade, SameOrder, u

\* A row of a head with another amount is, before the turn, as it was.
LEMMA RewoundPut ==
    ASSUME NEW l, NEW step \in InTurns, NEW t, NEW i \in DOMAIN t, t[i] \in OrderRow,
           i \in {l.buying[1].TransID, l.selling[1].TransID}, NEW x
    PROVE  Rewound(l, step, Put(t, i, WithAmount(t[i], x))) = Rewound(l, step, t)
<1> DEFINE o == WithAmount(t[i], x)
           w == Put(t, i, o)
<1>1. Undone(l, i, o) = Undone(l, i, t[i])
    BY Amounts DEF Undone
<1> HIDE DEF o
<1>2. DOMAIN w = DOMAIN t /\ w[i] = o /\ \A j \in DOMAIN t : j # i => w[j] = t[j]
    <2>1. \A j : j \in DOMAIN w <=> j \in DOMAIN t
        BY PutRows
    <2>2. DOMAIN w = DOMAIN t
        BY <2>1 DEF Put, Over
    <2> QED
        BY <2>2, PutRows
<1> HIDE DEF w
<1>3. \A j \in DOMAIN t : Undone(l, j, w[j]) = Undone(l, j, t[j])
    BY <1>1, <1>2
<1>4. Rewound(l, step, w) = Rewound(l, step, t)
    BY <1>2, <1>3 DEF Rewound
<1> QED
    BY <1>4 DEF w, o

\* No turn is under way when the rows have the amounts of the heads.
LEMMA RewoundSame ==
    ASSUME NEW l, NEW step, NEW t, t = [i \in DOMAIN t |-> t[i]], \A i \in DOMAIN t : t[i] \in OrderRow,
           l.buying[1].TransID \in DOMAIN t => t[l.buying[1].TransID].Amount = l.buying[1].Amount,
           l.selling[1].TransID \in DOMAIN t => t[l.selling[1].TransID].Amount = l.selling[1].Amount
    PROVE  Rewound(l, step, t) = t
<1>1. \A i \in DOMAIN t : Undone(l, i, t[i]) = t[i]
    BY Amounts DEF Undone
<1> QED
    BY <1>1 DEF Rewound

\* The handler's variables that matching is about are the same.
SameVectors(m, l) == m.buying = l.buying /\ m.selling = l.selling /\ m.req = l.req

LEMMA SameVectorsSame ==
    ASSUME NEW l, NEW m, SameVectors(m, l), NEW step, NEW t
    PROVE  /\ Crossing(m) = Crossing(l) /\ Lot(m) = Lot(l)
           /\ Rewound(m, step, t) = Rewound(l, step, t)
    BY DEF SameVectors, Crossing, Lot, Rewound, Undone

\* UpdateBuyRow begins a turn.
LEMMA TurnBegins ==
    ASSUME NEW l, l.buying \in Seq(Entry), l.selling \in Seq(Entry), NEW m, SameVectors(m, l),
           NEW rows, NEW t, Solvent(rows, t), t = [i \in DOMAIN t |-> t[i]],
           StillMirrored(l, "loop", t), Crossing(l)
    PROVE  LET b == l.buying[1].TransID
           IN  StillMirrored(m, "sellrow", Put(t, b, WithAmount(t[b], l.buying[1].Amount - Lot(l))))
<1> DEFINE b == l.buying[1].TransID
           a == l.selling[1].TransID
           o == WithAmount(t[b], l.buying[1].Amount - Lot(l))
           w == Put(t, b, o)
<1>1. Rewound(l, "loop", t) = t
    BY DEF Rewound, InTurns
<1>2. HeadsTrade(l, t, t)
    BY <1>1, TurnHeads DEF Matching
<1>9. /\ b \in DOMAIN t /\ t[b].Amount = l.buying[1].Amount /\ t[a].Amount = l.selling[1].Amount
      /\ t[b] \in OrderRow /\ \A i \in DOMAIN t : t[i] \in OrderRow
    BY <1>2 DEF HeadsTrade, Solvent
<1>3. Rewound(l, "sellrow", t) = t
    BY <1>9, RewoundSame
<1>4. Rewound(l, "sellrow", w) = t
    BY <1>9, <1>3, RewoundPut DEF InTurns
<1>5. Rewound(m, "sellrow", w) = t /\ Crossing(m) /\ Lot(m) = Lot(l)
    BY <1>4, SameVectorsSame
<1>6. w[b] = o /\ o.Amount = l.buying[1].Amount - Lot(l)
    <2>1. w[b] = o
        BY PutRows
    <2>2. o.Amount = l.buying[1].Amount - Lot(l)
        BY <1>9, Amounts
    <2> QED
        BY <2>1, <2>2
<1>10. w[a] = t[a]
    <2>1. a \in DOMAIN t /\ a # b
        BY <1>2 DEF HeadsTrade
    <2> QED
        BY <2>1, PutRows
<1>7. /\ Mirrors(l.buying, t, Bids(t, l.req.sym)) /\ Falling(l.buying)
      /\ Mirrors(l.selling, t, Offers(t, l.req.sym)) /\ Rising(l.selling)
    BY <1>1 DEF StillMirrored, Matching
<1> HIDE DEF w, o
<1>8. StillMirrored(m, "sellrow", w)
    BY <1>5, <1>6, <1>7, <1>9, <1>10 DEF StillMirrored, SameVectors, Matching, InTurns
<1> QED
    BY <1>8 DEF w, o

\* UpdateSellRow writes the other row.
LEMMA TurnWritesBoth ==
    ASSUME NEW l, l.buying \in Seq(Entry), l.selling \in Seq(Entry),
           NEW rows, NEW t, Solvent(rows, t), StillMirrored(l, "sellrow", t)
    PROVE  LET a == l.selling[1].TransID
           IN  StillMirrored(l, "findposition", Put(t, a, WithAmount(t[a], l.selling[1].Amount + Lot(l))))
<1> DEFINE b == l.buying[1].TransID
           a == l.selling[1].TransID
           o == WithAmount(t[a], l.selling[1].Amount + Lot(l))
           w == Put(t, a, o)
<1>1. Crossing(l) /\ t[b].Amount = l.buying[1].Amount - Lot(l)
    BY DEF StillMirrored, InTurns
<1>7. HeadsTrade(l, t, Rewound(l, "sellrow", t))
    BY <1>1, TurnHeads DEF Matching, InTurns
<1>2. a \in DOMAIN t /\ b \in DOMAIN t /\ a # b /\ t[a] \in OrderRow
    BY <1>7 DEF HeadsTrade, Solvent
<1>3. Rewound(l, "findposition", w) = Rewound(l, "findposition", t)
    BY <1>2, RewoundPut DEF InTurns
<1>4. Rewound(l, "findposition", w) = Rewound(l, "sellrow", t)
    BY <1>3 DEF Rewound, InTurns
<1>5. w[a] = o /\ o.Amount = l.selling[1].Amount + Lot(l) /\ w[b] = t[b]
    <2>1. w[a] = o /\ w[b] = t[b]
        BY <1>2, PutRows
    <2>2. o.Amount = l.selling[1].Amount + Lot(l)
        BY <1>2, Amounts
    <2> QED
        BY <2>1, <2>2
<1> HIDE DEF w, o
<1>6. StillMirrored(l, "findposition", w)
    BY <1>1, <1>4, <1>5 DEF StillMirrored, Matching, InTurns
<1> QED
    BY <1>6 DEF w, o

\* Between the two rows and the seller's balance.
LEMMA TurnGoesOn ==
    ASSUME NEW l, NEW m, SameVectors(m, l), NEW step \in InTurns \ {"sellrow"},
           NEW next \in InTurns \ {"sellrow"}, NEW t,
           StillMirrored(l, step, t)
    PROVE  StillMirrored(m, next, t)
<1>2. Rewound(m, next, t) = Rewound(l, next, t) /\ Crossing(m) = Crossing(l) /\ Lot(m) = Lot(l)
    BY SameVectorsSame
<1>3. Rewound(l, next, t) = Rewound(l, step, t)
    BY DEF Rewound
<1>1. Rewound(m, next, t) = Rewound(l, step, t) /\ Crossing(m) = Crossing(l) /\ Lot(m) = Lot(l)
    BY <1>2, <1>3
<1> QED
    BY <1>1 DEF StillMirrored, SameVectors, Matching

\* PaySeller ends the turn.
LEMMA TurnEnds ==
    ASSUME NEW l, l.buying \in Seq(Entry), l.selling \in Seq(Entry), NEW m, m.req = l.req,
           m.buying = AfterMatch(l.buying, Lot(l)), m.selling = AfterMatch(l.selling, -Lot(l)),
           NEW rows, NEW t, Solvent(rows, t), StillMirrored(l, "payseller", t)
    PROVE  StillMirrored(m, "loop", t)
<1> DEFINE u == Rewound(l, "payseller", t)
           b == l.buying[1].TransID
           a == l.selling[1].TransID
           s == l.req.sym
           n == Lot(l)
<1>1. /\ Crossing(l) /\ t[b].Amount = l.buying[1].Amount - n /\ t[a].Amount = l.selling[1].Amount + n
      /\ Mirrors(l.buying, u, Bids(u, s)) /\ Falling(l.buying)
      /\ Mirrors(l.selling, u, Offers(u, s)) /\ Rising(l.selling)
    BY DEF StillMirrored, InTurns, Matching
<1>2. \A i \in DOMAIN t : t[i] \in OrderRow
    BY DEF Solvent
<1>18. HeadsTrade(l, t, u)
    BY <1>1, TurnHeads DEF Matching, InTurns
<1>3. /\ b \in DOMAIN t /\ a \in DOMAIN t /\ a # b
      /\ b \in Bids(u, s) /\ a \in Offers(u, s)
      /\ u[b].Amount = l.buying[1].Amount /\ u[a].Amount = l.selling[1].Amount
      /\ l.buying[1].Amount \in Int /\ l.selling[1].Amount \in Int
      /\ n \in Nat /\ n > 0 /\ n <= l.buying[1].Amount /\ n <= -l.selling[1].Amount
    BY <1>18 DEF HeadsTrade
<1>4. /\ DOMAIN u = DOMAIN t
      /\ \A i \in DOMAIN t : SameOrder(u[i], t[i])
      /\ \A i \in DOMAIN t : i # a /\ i # b => u[i] = t[i]
    BY <1>2, RewoundRows
<1>5. SameOrder(t[b], u[b]) /\ SameOrder(t[a], u[a])
    BY <1>3, <1>4 DEF SameOrder
<1> HIDE DEF u, n
<1>6. /\ u[b].CancelTime = NOTCANCELLED /\ u[b].SymbolName = s /\ u[a].CancelTime = NOTCANCELLED /\ u[a].SymbolName = s
      /\ Bids(u, s) \subseteq DOMAIN t /\ Offers(u, s) \subseteq DOMAIN t
    BY <1>3, <1>4 DEF Bids, Offers
<1>19. PICK x \in Int, y \in Int : x = l.buying[1].Amount /\ y = l.selling[1].Amount
    BY <1>3
<1>20. n \in Nat /\ n > 0 /\ n <= x /\ n <= -y /\ u[b].Amount = x /\ u[a].Amount = y
       /\ t[b].Amount = x - n /\ t[a].Amount = y + n
    BY <1>1, <1>3, <1>19
<1>21. /\ t[b].Amount > 0 <=> x # n
       /\ t[a].Amount < 0 <=> y # -n
       /\ ~(t[b].Amount < 0) /\ ~(t[a].Amount > 0) /\ ~(u[a].Amount > 0) /\ ~(u[b].Amount < 0)
       /\ u[b].Amount > 0 /\ u[a].Amount < 0
    <2>1. n \in Nat /\ n > 0 /\ n <= x /\ n <= -y
        BY <1>20
    <2>2. x - n > 0 <=> x # n
        BY <2>1
    <2>3. y + n < 0 <=> y # -n
        BY <2>1
    <2>4. ~(x - n < 0) /\ ~(y + n > 0) /\ ~(y > 0) /\ ~(x < 0) /\ x > 0 /\ y < 0
        BY <2>1
    <2> QED
        BY <1>20, <2>2, <2>3, <2>4
<1>7. a \notin Bids(u, s) /\ b \notin Offers(u, s) /\ a \notin Bids(t, s) /\ b \notin Offers(t, s)
    BY <1>21 DEF Bids, Offers
<1>8. \A i \in DOMAIN t : i # a /\ i # b =>
          (i \in Bids(t, s) <=> i \in Bids(u, s)) /\ (i \in Offers(t, s) <=> i \in Offers(u, s))
    BY <1>4 DEF Bids, Offers
<1>9. (b \in Bids(t, s) <=> l.buying[1].Amount # n) /\ (a \in Offers(t, s) <=> l.selling[1].Amount # -n)
    BY <1>3, <1>5, <1>6, <1>19, <1>21 DEF Bids, Offers, SameOrder
<1>10. Bids(t, s) \subseteq DOMAIN t /\ Offers(t, s) \subseteq DOMAIN t
    BY DEF Bids, Offers
<1>11. Bids(t, s) = IF l.buying[1].Amount = n THEN Bids(u, s) \ {b} ELSE Bids(u, s)
    <2> HIDE DEF a, b, s
    <2>1. \A i : i \in Bids(t, s) <=> i \in Bids(u, s) /\ ~(i = b /\ l.buying[1].Amount = n)
        BY <1>3, <1>6, <1>7, <1>8, <1>9, <1>10
    <2> QED
        BY <1>3, <2>1
<1>12. Offers(t, s) = IF l.selling[1].Amount = -n THEN Offers(u, s) \ {a} ELSE Offers(u, s)
    <2> HIDE DEF a, b, s
    <2>1. \A i : i \in Offers(t, s) <=> i \in Offers(u, s) /\ ~(i = a /\ l.selling[1].Amount = -n)
        BY <1>3, <1>6, <1>7, <1>8, <1>9, <1>10
    <2> QED
        BY <1>3, <2>1
<1>13. \A i \in Bids(u, s) \ {b} : t[i] = u[i]
    BY <1>4, <1>6, <1>7
<1>14. \A i \in Offers(u, s) \ {a} : t[i] = u[i]
    BY <1>4, <1>6, <1>7
<1>15. l.buying # <<>> /\ l.selling # <<>> /\ -n \in Int /\ t[a].Amount = l.selling[1].Amount - (-n)
    <2>1. -n \in Int /\ y + n = y - (-n)
        BY <1>20
    <2> QED
        BY <1>1, <1>19, <1>20, <2>1 DEF Crossing
<1>16. Mirrors(m.buying, t, Bids(t, s)) /\ Falling(m.buying)
    BY <1>1, <1>3, <1>5, <1>11, <1>13, <1>15, AfterMatchMirrors, AfterMatchSorted DEF n
<1>17. Mirrors(m.selling, t, Offers(t, s)) /\ Rising(m.selling)
    BY <1>1, <1>5, <1>12, <1>14, <1>15, AfterMatchMirrors, AfterMatchSorted DEF n
<1> QED
    BY <1>16, <1>17 DEF StillMirrored, Rewound, InTurns

\* What a client sees in the loop while the heads cross.
AtTurn(c) ==
    LET l == local[c]
        rows == OwnRows(c)
        t == OwnOrders(c)
        b == l.buying[1].TransID
        a == l.selling[1].TransID
    IN  /\ Solvent(rows, t) /\ t = [i \in DOMAIN t |-> t[i]]
        /\ l.req \in requests[c] /\ l.req.kind = "order" /\ Balance(l.req.id) \in DOMAIN rows
        /\ l.buying \in Seq(Entry) /\ l.selling \in Seq(Entry)
        /\ StillMirrored(l, pc[c], t) /\ HeadsTrade(l, t, Rewound(l, pc[c], t)) /\ MatchAmount(c) = Lot(l)
        /\ \A i \in {a, b} :
              /\ i \in Nat /\ i \in DOMAIN t /\ t[i] \in OrderRow /\ t[i].PriceLimit \in Nat
              /\ t[i] = Seen(c)[Order(i)] /\ Belongs(t[i], AccountsOf(c), SymbolsOf(c))
              /\ Balance(t[i].AccountID) \in DOMAIN rows
        /\ BuyerPosition(c) = Position(t[b].AccountID, t[b].SymbolName) /\ SellerBalance(c) = Balance(t[a].AccountID)
        /\ BuyerPosition(c) \in OwnKeys(c) /\ SellerBalance(c) \in OwnKeys(c)
        /\ MatchPrice(c) \in Nat

LEMMA TurnState ==
    ASSUME Inv, AInv, NEW c \in Clients, pc[c] \in Matching, Crossing(local[c])
    PROVE  AtTurn(c)
<1> DEFINE l == local[c]
           rows == OwnRows(c)
           t == OwnOrders(c)
           b == l.buying[1].TransID
           a == l.selling[1].TransID
<1>1. /\ Solvent(rows, t) /\ Serves(l, pc[c], requests[c])
      /\ StillFunded(l, pc[c], rows) /\ StillMirrored(l, pc[c], t)
    BY OwnSeen DEF AInv, Undisturbed, Working
<1>2. l.req \in requests[c] /\ l.req.kind = "order" /\ Balance(l.req.id) \in DOMAIN rows
    BY <1>1 DEF Serves, StillFunded, Ordering, Matching, InTurns
<1>3. l.buying \in Seq(Entry) /\ l.selling \in Seq(Entry)
    BY DEF Inv, LocalOK, Vector
<1>4. HeadsTrade(l, t, Rewound(l, pc[c], t))
    BY <1>1, <1>3, TurnHeads
<1>5. t = [i \in DOMAIN t |-> t[i]]
    BY DEF OwnOrders, Book
<1>6. MatchAmount(c) = Lot(l)
    BY DEF MatchAmount, Lot
<1> HIDE DEF rows, t
<1>7. ASSUME NEW i \in {a, b}
      PROVE  /\ i \in Nat /\ i \in DOMAIN t /\ t[i] \in OrderRow /\ t[i].PriceLimit \in Nat
             /\ t[i] = Seen(c)[Order(i)] /\ Belongs(t[i], AccountsOf(c), SymbolsOf(c))
             /\ Balance(t[i].AccountID) \in DOMAIN rows
    <2>1. i \in DOMAIN t
        BY <1>4 DEF HeadsTrade
    <2> QED
        BY <1>1, <2>1, OwnOrder DEF Solvent, t
<1>8. /\ t[b].SymbolName = l.req.sym /\ l.buying[1].AccountID = t[b].AccountID
      /\ l.selling[1].AccountID = t[a].AccountID
      /\ l.buying[1].PriceLimit = t[b].PriceLimit /\ l.selling[1].PriceLimit = t[a].PriceLimit
    BY <1>4 DEF HeadsTrade
<1>9. BuyerPosition(c) = Position(t[b].AccountID, t[b].SymbolName) /\ SellerBalance(c) = Balance(t[a].AccountID)
    BY <1>8 DEF BuyerPosition, SellerBalance
<1>10. BuyerPosition(c) \in OwnKeys(c) /\ SellerBalance(c) \in OwnKeys(c)
    <2>1. t[b] \in OrderRow /\ t[b].AccountID \in AccountsOf(c) /\ t[a].AccountID \in AccountsOf(c)
        BY <1>7 DEF Belongs
    <2>2. t[b].SymbolName \in Symbols
        BY <2>1 DEF OrderRow
    <2>3. Position(t[b].AccountID, t[b].SymbolName) \in OwnKeys(c)
        BY <2>1, <2>2 DEF OwnKeys, KeysOf
    <2>4. Balance(t[a].AccountID) \in OwnKeys(c)
        BY <2>1 DEF OwnKeys, KeysOf
    <2> QED
        BY <1>9, <2>3, <2>4
<1>11. MatchPrice(c) \in Nat
    BY <1>7, <1>8 DEF MatchPrice
<1> QED
    BY <1>1, <1>2, <1>3, <1>4, <1>5, <1>6, <1>7, <1>9, <1>10, <1>11 DEF AtTurn, rows, t

\* Whoever matches works on an order of his, and on what he found of it.
TurnFinds(l, step, rows) ==
    /\ step = "newposition" => Position(l.buying[1].AccountID, l.req.sym) \notin DOMAIN rows
    /\ step = "addposition" => Position(l.buying[1].AccountID, l.req.sym) \in DOMAIN rows
    /\ step = "payseller" => l.seen = rows[Balance(l.selling[1].AccountID)]

LEMMA TurnWorks ==
    ASSUME NEW l, NEW step \in Matching, NEW asked, l.req \in asked, l.req.kind = "order",
           NEW rows, NEW t, Solvent(rows, t), Balance(l.req.id) \in DOMAIN rows, StillMirrored(l, step, t),
           TurnFinds(l, step, rows)
    PROVE  Working(l, step, asked, rows, t)
    BY DEF Working, Serves, StillMissing, StillFunded, StillOpen, CreatingAccount, Cancelling, InTurns, Matching,
       Fetching, Placing, Ordering, TurnFinds

\* The amount of a row of a head after the turn.
LEMMA TurnAmounts ==
    ASSUME NEW l, NEW t, NEW u, HeadsTrade(l, t, u)
    PROVE  /\ l.buying[1].Amount - Lot(l) \in Nat
           /\ l.selling[1].Amount + Lot(l) \in Int
           /\ l.selling[1].Amount < 0
<1>1. PICK x \in Int, y \in Int, n \in Nat : /\ x = l.buying[1].Amount /\ y = l.selling[1].Amount /\ n = Lot(l)
                                             /\ n > 0 /\ n <= x /\ n <= -y
    BY DEF HeadsTrade
<1>2. x - n \in Nat /\ y + n \in Int /\ y < 0
    BY <1>1
<1> QED
    BY <1>1, <1>2

\* UpdateBuyRow, UpdateSellRow: a client writes the row of a head.
LEMMA HeadApart ==
    ASSUME Inv, AInv, NEW c \in Clients, pc[c] \in Matching, Crossing(local[c]), requests' = requests,
           NEW i \in {local[c].buying[1].TransID, local[c].selling[1].TransID}, NEW n \in Int,
           n < 0 => OwnOrders(c)[i].Amount < 0,
           NEW l, SameVectors(l, local[c]), Becomes(c, l), NEW step \in {"sellrow", "findposition"},
           UpdateRow(c, Order(i), [Seen(c)[Order(i)] EXCEPT !.Amount = n], step),
           StillMirrored(l, step, Put(OwnOrders(c), i, WithAmount(OwnOrders(c)[i], n)))
    PROVE  AInv'
<1> DEFINE rows == OwnRows(c)
           t == OwnOrders(c)
           o == WithAmount(t[i], n)
<1>1. AtTurn(c)
    BY TurnState
<1>2. /\ Solvent(rows, t) /\ i \in Nat /\ i \in DOMAIN t /\ t[i] \in OrderRow /\ t[i].PriceLimit \in Nat
      /\ t[i] = Seen(c)[Order(i)] /\ Belongs(t[i], AccountsOf(c), SymbolsOf(c))
      /\ Balance(t[i].AccountID) \in DOMAIN rows
    BY <1>1 DEF AtTurn
<1>3. Write(c, Order(i), o) /\ Goto(c, step) /\ UNCHANGED <<db, up, requests>>
    BY <1>2 DEF UpdateRow, WithAmount
<1>4. o \in OrderRow /\ SameOrder(o, t[i]) /\ o.Amount = n
    BY <1>2, Amounts
<1> HIDE DEF o, rows, t
<1>5. Belongs(o, AccountsOf(c), SymbolsOf(c))
    BY <1>2, <1>4 DEF Belongs, SameOrder
<1>6. o.Amount < 0 => Position(o.AccountID, o.SymbolName) \in DOMAIN rows
    BY <1>2, <1>4 DEF Solvent, SameOrder, t
<1>7. Solvent(rows, Put(t, i, o))
    BY <1>2, <1>4, <1>5, <1>6, OrderSolvent DEF SameOrder
<1>8. l.req = local[c].req /\ l.req \in requests[c] /\ l.req.kind = "order" /\ Balance(l.req.id) \in DOMAIN rows
    BY <1>1 DEF AtTurn, SameVectors, rows
<1>9. TurnFinds(l, step, rows) /\ step \in Matching /\ step \in Ordering /\ step \notin Looking
    BY DEF TurnFinds, Matching, Ordering, InTurns, Looking
<1>10. Working(l, step, requests[c], rows, Put(t, i, o))
    BY <1>7, <1>8, <1>9, TurnWorks DEF t, o
<1>11. Onward(local[c], pc[c], l, step)
    BY <1>8, <1>9 DEF Onward, Matching, InTurns
<1>12. o.SymbolName = l.req.sym
    <2>1. t[i].SymbolName = local[c].req.sym
        BY <1>1 DEF AtTurn, HeadsTrade, t
    <2> QED
        BY <1>4, <1>8, <2>1 DEF SameOrder
<1>13. i \in DOMAIN OwnOrders(c)
    BY <1>2 DEF t
<1> QED
    BY <1>2, <1>3, <1>5, <1>9, <1>10, <1>11, <1>12, <1>13, OrderApart DEF rows, t

LEMMA TurnBothApart ==
    ASSUME Inv, AInv, NEW c \in Clients, requests' = requests, UpdateBuyRow(c) \/ UpdateSellRow(c)
    PROVE  AInv'
<1> DEFINE l == local[c]
           t == OwnOrders(c)
           rows == OwnRows(c)
           b == l.buying[1].TransID
           a == l.selling[1].TransID
<1>1. DOMAIN l = Variables /\ (local' = local => Becomes(c, l))
    BY DEF Inv, LocalOK, Becomes, Types
<1>2. CASE UpdateBuyRow(c)
    <2>1. pc[c] = "loop" /\ Crossing(l)
        BY <1>2 DEF UpdateBuyRow, CanMatch, Crossing
    <2>2. AtTurn(c)
        BY <2>1, TurnState DEF Matching
    <2> DEFINE fills == l.fills \o
                  <<[TransID |-> b, Amount |-> MatchAmount(c), Price |-> MatchPrice(c)],
                    [TransID |-> a, Amount |-> -MatchAmount(c), Price |-> MatchPrice(c)]>>
               m == [l EXCEPT !.fills = fills]
               n == l.buying[1].Amount - Lot(l)
    <2>3. local' = [local EXCEPT ![c] = m]
        BY <1>2 DEF UpdateBuyRow
    <2>4. SameVectors(m, l)
        BY <1>1 DEF SameVectors, Variables
    <2> HIDE DEF m
    <2>5. Becomes(c, m)
        BY <2>3 DEF Becomes, Inv, Types
    <2>6. MatchAmount(c) = Lot(l) /\ n \in Nat
        BY <2>2, TurnAmounts DEF AtTurn
    <2>7. UpdateRow(c, Order(b), [Seen(c)[Order(b)] EXCEPT !.Amount = n], "sellrow")
        BY <1>2, <2>6 DEF UpdateBuyRow
    <2>8. StillMirrored(m, "sellrow", Put(t, b, WithAmount(t[b], n)))
        BY <2>1, <2>2, <2>4, TurnBegins DEF AtTurn
    <2> HIDE DEF n, b
    <2>9. n \in Int /\ ~(n < 0)
        BY <2>6
    <2> QED
        BY <2>1, <2>4, <2>5, <2>7, <2>8, <2>9, HeadApart DEF Matching, b
<1>3. CASE UpdateSellRow(c)
    <2>1. pc[c] = "sellrow"
        BY <1>3 DEF UpdateSellRow
    <2>2. Crossing(l)
        BY <2>1, OwnSeen DEF AInv, Undisturbed, Working, StillMirrored, InTurns
    <2>3. AtTurn(c)
        BY <2>1, <2>2, TurnState DEF Matching, InTurns
    <2> DEFINE n == l.selling[1].Amount + Lot(l)
    <2>4. MatchAmount(c) = Lot(l) /\ n \in Int
        BY <2>3, TurnAmounts DEF AtTurn
    <2>5. UpdateRow(c, Order(a), [Seen(c)[Order(a)] EXCEPT !.Amount = n], "findposition") /\ local' = local
        BY <1>3, <2>4 DEF UpdateSellRow
    <2>6. StillMirrored(l, "findposition", Put(t, a, WithAmount(t[a], n)))
        BY <2>1, <2>3, TurnWritesBoth DEF AtTurn
    <2>7. OwnOrders(c)[a].Amount < 0
        <3>1. t[a].Amount = l.selling[1].Amount
            BY <2>1, <2>3 DEF AtTurn, StillMirrored, InTurns
        <3>2. l.selling[1].Amount < 0
            BY <2>3, TurnAmounts DEF AtTurn
        <3> QED
            BY <3>1, <3>2
    <2> QED
        BY <1>1, <2>1, <2>2, <2>4, <2>5, <2>6, <2>7, HeadApart DEF Matching, InTurns, SameVectors
<1> QED
    BY <1>2, <1>3

\* The rows of a turn are there when it needs them, and the numbers are no debts.
LEMMA TurnRows ==
    ASSUME NEW c \in Clients, AtTurn(c)
    PROVE  /\ Lot(local[c]) \in Nat
           /\ SellerBalance(c) \in DOMAIN OwnRows(c) /\ OwnRows(c)[SellerBalance(c)] \in Nat
           /\ BuyerPosition(c) \in DOMAIN OwnRows(c) => OwnRows(c)[BuyerPosition(c)] \in Nat
<1> DEFINE l == local[c]
           rows == OwnRows(c)
           t == OwnOrders(c)
           b == l.buying[1].TransID
           a == l.selling[1].TransID
<1>1. HeadsTrade(l, t, Rewound(l, pc[c], t)) /\ Solvent(rows, t)
    BY DEF AtTurn
<1>2. Lot(l) \in Nat
    BY <1>1 DEF HeadsTrade
<1>3. t[a] \in OrderRow /\ t[b] \in OrderRow /\ Balance(t[a].AccountID) \in DOMAIN rows
    BY DEF AtTurn
<1>4. BuyerPosition(c) = Position(t[b].AccountID, t[b].SymbolName) /\ SellerBalance(c) = Balance(t[a].AccountID)
    BY DEF AtTurn
<1>5. t[a].AccountID \in Accounts /\ t[b].AccountID \in Accounts /\ t[b].SymbolName \in Symbols
    BY <1>3 DEF OrderRow
<1>6. Paid(rows)
    BY <1>1 DEF Solvent
<1> QED
    BY <1>2, <1>3, <1>4, <1>5, <1>6 DEF Paid

\* FindPosition, ReadSeller: a client reads a row of a turn.
LEMMA TurnReadApart ==
    ASSUME Inv, AInv, NEW c \in Clients, requests' = requests, FindPosition(c) \/ ReadSeller(c)
    PROVE  AInv'
<1> DEFINE l == local[c]
           rows == OwnRows(c)
           t == OwnOrders(c)
<1>1. pc[c] \in InTurns \ {"sellrow"} /\ DOMAIN l = Variables
    BY DEF FindPosition, ReadSeller, InTurns, Inv, LocalOK
<1>2. Crossing(l)
    BY <1>1, OwnSeen DEF AInv, Undisturbed, Working, StillMirrored
<1>3. AtTurn(c)
    BY <1>1, <1>2, TurnState DEF Matching
<1>4. /\ Solvent(rows, t) /\ l.req \in requests[c] /\ l.req.kind = "order" /\ Balance(l.req.id) \in DOMAIN rows
      /\ StillMirrored(l, pc[c], t)
      /\ BuyerPosition(c) \in OwnKeys(c) /\ SellerBalance(c) \in OwnKeys(c)
    BY <1>3 DEF AtTurn
<1>5. SellerBalance(c) \in DOMAIN rows
    BY <1>3, TurnRows
<1> HIDE DEF l, rows, t
<1>6. ASSUME NEW m, NEW step \in InTurns \ {"sellrow"}, SameVectors(m, l), Keep(c, m, step), TurnFinds(m, step, rows)
      PROVE  AInv'
    <2>1. StillMirrored(m, step, t)
        BY <1>1, <1>4, <1>6, TurnGoesOn
    <2>2. m.req = l.req /\ step \in Matching /\ step \in Ordering /\ step \notin Looking
        BY <1>6 DEF SameVectors, Matching, Ordering, InTurns, Looking
    <2>3. Working(m, step, requests[c], rows, t)
        BY <1>4, <1>6, <2>1, <2>2, TurnWorks
    <2>4. Onward(local[c], pc[c], m, step)
        BY <1>1, <2>2 DEF Onward, InTurns, l
    <2> QED
        BY <1>6, <2>2, <2>3, <2>4, ReadApart DEF rows, t
<1>7. CASE FindPosition(c)
    <2> DEFINE step == IF BuyerPosition(c) \in DOMAIN rows THEN "addposition" ELSE "newposition"
    <2>1. Keep(c, l, step)
        BY <1>4, <1>7, OwnLook DEF FindPosition, l, rows
    <2>2. TurnFinds(l, step, rows)
        BY DEF TurnFinds, BuyerPosition, l
    <2>3. step \in InTurns \ {"sellrow"} /\ SameVectors(l, l)
        BY DEF InTurns, SameVectors
    <2> HIDE DEF step
    <2> QED
        BY <1>6, <2>1, <2>2, <2>3
<1>8. CASE ReadSeller(c)
    <2> DEFINE m == [l EXCEPT !.seen = rows[SellerBalance(c)]]
    <2>1. Keep(c, m, "payseller")
        BY <1>4, <1>5, <1>8, OwnLook DEF ReadSeller, l, rows
    <2>2. SameVectors(m, l) /\ m.seen = rows[SellerBalance(c)]
        BY <1>1 DEF SameVectors, Variables
    <2> HIDE DEF m
    <2>3. TurnFinds(m, "payseller", rows)
        BY <2>2 DEF TurnFinds, SameVectors, SellerBalance, l
    <2> QED
        BY <1>6, <2>1, <2>2, <2>3 DEF InTurns
<1> QED
    BY <1>7, <1>8

\* AddPosition, NewPosition, PaySeller: a client writes what a trade moved.
LEMMA TurnPaysApart ==
    ASSUME Inv, AInv, NEW c \in Clients, requests' = requests, AddPosition(c) \/ NewPosition(c) \/ PaySeller(c)
    PROVE  AInv'
<1> DEFINE l == local[c]
           rows == OwnRows(c)
           t == OwnOrders(c)
           n == Lot(l)
<1>1. pc[c] \in {"addposition", "newposition", "payseller"} /\ DOMAIN l = Variables
    BY DEF AddPosition, NewPosition, PaySeller, Inv, LocalOK
<1>2. Crossing(l)
    BY <1>1, OwnSeen DEF AInv, Undisturbed, Working, StillMirrored, InTurns
<1>3. AtTurn(c)
    BY <1>1, <1>2, TurnState DEF Matching, InTurns
<1>4. /\ Solvent(rows, t) /\ l.req \in requests[c] /\ l.req.kind = "order" /\ Balance(l.req.id) \in DOMAIN rows
      /\ StillMirrored(l, pc[c], t) /\ MatchAmount(c) = n /\ MatchPrice(c) \in Nat
      /\ l.buying \in Seq(Entry) /\ l.selling \in Seq(Entry)
      /\ BuyerPosition(c) \in OwnKeys(c) /\ SellerBalance(c) \in OwnKeys(c)
    BY <1>3 DEF AtTurn
<1>5. n \in Nat /\ SellerBalance(c) \in DOMAIN rows /\ rows[SellerBalance(c)] \in Nat
      /\ (BuyerPosition(c) \in DOMAIN rows => rows[BuyerPosition(c)] \in Nat)
    BY <1>3, TurnRows
<1>6. /\ pc[c] = "newposition" => BuyerPosition(c) \notin DOMAIN rows
      /\ pc[c] = "addposition" => BuyerPosition(c) \in DOMAIN rows
      /\ pc[c] = "payseller" => l.seen = rows[SellerBalance(c)]
    BY OwnSeen DEF AInv, Undisturbed, Working, StillMissing, StillFunded, BuyerPosition, SellerBalance
<1>7. local' = local => Becomes(c, l)
    BY DEF Becomes, Inv, Types
<1> HIDE DEF l, rows, t, n
<1>8. ASSUME NEW k, NEW v \in Nat, NEW m, m.req = l.req, NEW step \in {"readseller", "loop"}, StillMirrored(m, step, t)
      PROVE  Working(m, step, requests[c], Put(rows, k, v), t) /\ Onward(local[c], pc[c], m, step)
    <2>1. Solvent(Put(rows, k, v), t)
        BY <1>4, PutSolvent
    <2>2. Balance(m.req.id) \in DOMAIN Put(rows, k, v)
        BY <1>4, <1>8, PutRows
    <2>3. TurnFinds(m, step, Put(rows, k, v)) /\ step \in Matching /\ step \in Ordering
        BY DEF TurnFinds, Matching, Ordering, InTurns
    <2>4. Working(m, step, requests[c], Put(rows, k, v), t)
        BY <1>4, <1>8, <2>1, <2>2, <2>3, TurnWorks
    <2>5. Onward(local[c], pc[c], m, step)
        BY <1>1, <1>8, <2>3 DEF Onward, l
    <2> QED
        BY <2>4, <2>5
<1>9. pc[c] # "payseller" => StillMirrored(l, "readseller", t)
    BY <1>1, <1>4, TurnGoesOn DEF InTurns, SameVectors
<1>10. "readseller" \notin Looking /\ "loop" \notin Looking
    BY DEF Looking
<1>11. CASE AddPosition(c)
    <2> DEFINE v == rows[BuyerPosition(c)] + n
    <2>1. pc[c] = "addposition"
        BY <1>11 DEF AddPosition
    <2>2. v \in Nat
        BY <1>5, <1>6, <2>1
    <2>3. Write(c, BuyerPosition(c), v) /\ Goto(c, "readseller") /\ UNCHANGED <<db, up, local>>
        BY <1>4, <1>6, <1>11, <2>1, OwnLook DEF AddPosition, UpdateRow, rows
    <2> HIDE DEF v
    <2>4. /\ Working(l, "readseller", requests[c], Put(rows, BuyerPosition(c), v), t)
          /\ Onward(local[c], pc[c], l, "readseller")
        BY <1>8, <1>9, <2>1, <2>2
    <2> QED
        BY <1>4, <1>7, <1>10, <2>3, <2>4, KeyApart DEF rows, t, l
<1>12. CASE NewPosition(c)
    <2>1. pc[c] = "newposition" /\ InsertRow(c, BuyerPosition(c), n, "readseller")
        BY <1>4, <1>12 DEF NewPosition
    <2>2. /\ Working(l, "readseller", requests[c], Put(rows, BuyerPosition(c), n), t)
          /\ Onward(local[c], pc[c], l, "readseller")
        BY <1>5, <1>8, <1>9, <2>1
    <2> QED
        BY <1>4, <1>6, <1>10, <2>1, <2>2, InsertApart DEF rows, t, l
<1>13. CASE PaySeller(c)
    <2> DEFINE v == n * MatchPrice(c) + l.seen
               m == [l EXCEPT !.buying = AfterMatch(@, n), !.selling = AfterMatch(@, -n)]
    <2>1. pc[c] = "payseller"
        BY <1>13 DEF PaySeller
    <2>2. v \in Nat
        <3>1. \A i, j, k \in Nat : i * j + k \in Nat
            OBVIOUS
        <3> QED
            BY <1>4, <1>5, <1>6, <2>1, <3>1
    <2>3. /\ Write(c, SellerBalance(c), v) /\ Goto(c, "loop") /\ UNCHANGED <<db, up>>
          /\ local' = [local EXCEPT ![c].buying = AfterMatch(@, n), ![c].selling = AfterMatch(@, -n)]
        BY <1>4, <1>13 DEF PaySeller, UpdateRow, l
    <2>4. local' = [local EXCEPT ![c] = m]
        BY <2>3 DEF l
    <2>5. Becomes(c, m)
        <3> HIDE DEF m
        <3> QED
            BY <2>4 DEF Becomes, Inv, Types
    <2>6. m.req = l.req /\ m.buying = AfterMatch(l.buying, n) /\ m.selling = AfterMatch(l.selling, -n)
        BY <1>1 DEF Variables
    <2> HIDE DEF v, m
    <2>7. StillMirrored(l, "payseller", t)
        BY <1>4, <2>1
    <2>8. StillMirrored(m, "loop", t)
        BY <1>4, <2>6, <2>7, TurnEnds DEF n
    <2>9. /\ Working(m, "loop", requests[c], Put(rows, SellerBalance(c), v), t)
          /\ Onward(local[c], pc[c], m, "loop")
        BY <1>8, <2>2, <2>6, <2>8
    <2> QED
        BY <1>4, <1>10, <2>3, <2>5, <2>9, KeyApart DEF rows, t, l
<1> QED
    BY <1>11, <1>12, <1>13

\* The loop ended: the heads do not cross, so nothing of the symbol does.
LEMMA MatchedSettles ==
    ASSUME NEW l, l.buying \in Seq(Entry), l.selling \in Seq(Entry), NEW t, ~Crossing(l), NEW s,
           Mirrors(l.buying, t, Bids(t, s)), Falling(l.buying), Mirrors(l.selling, t, Offers(t, s)), Rising(l.selling),
           NEW i \in Bids(t, s), NEW j \in Offers(t, s)
    PROVE  t[i].PriceLimit < t[j].PriceLimit
<1>1. PICK x \in DOMAIN l.buying : l.buying[x].TransID = i
    BY DEF Mirrors
<1>2. PICK y \in DOMAIN l.selling : l.selling[y].TransID = j
    BY DEF Mirrors
<1>3. l.buying[x].PriceLimit = t[i].PriceLimit /\ l.selling[y].PriceLimit = t[j].PriceLimit
    <2>1. l.buying[x] = EntryOf(t, i) /\ l.selling[y] = EntryOf(t, j)
        BY <1>1, <1>2 DEF Mirrors
    <2>2. EntryOf(t, i).PriceLimit = t[i].PriceLimit /\ EntryOf(t, j).PriceLimit = t[j].PriceLimit
        BY DEF EntryOf
    <2> QED
        BY <2>1, <2>2
<1>4. /\ DOMAIN l.buying = 1 .. Len(l.buying) /\ DOMAIN l.selling = 1 .. Len(l.selling)
      /\ Len(l.buying) \in Nat /\ Len(l.selling) \in Nat
    OBVIOUS
<1>5. 1 \in DOMAIN l.buying /\ 1 \in DOMAIN l.selling /\ (1 = x \/ 1 < x) /\ (1 = y \/ 1 < y)
    BY <1>4
<1>6. l.buying[1] \in Entry /\ l.selling[1] \in Entry /\ l.buying[x] \in Entry /\ l.selling[y] \in Entry
    BY <1>5
<1>7. /\ l.buying[1].PriceLimit \in Int /\ l.selling[1].PriceLimit \in Int
      /\ l.buying[x].PriceLimit \in Int /\ l.selling[y].PriceLimit \in Int
    BY <1>6 DEF Entry
<1>8. l.buying[1].PriceLimit >= l.buying[x].PriceLimit
    BY <1>5, <1>7 DEF Falling
<1>9. l.selling[1].PriceLimit =< l.selling[y].PriceLimit
    BY <1>5, <1>7 DEF Rising
<1>10. l.buying[1].PriceLimit < l.selling[1].PriceLimit
    BY <1>5, <1>7 DEF Crossing
<1> QED
    BY <1>3, <1>7, <1>8, <1>9, <1>10

LEMMA CommitOrderApart ==
    ASSUME Inv, AInv, Apart, NEW c \in Clients, CommitOrder(c), requests' = requests
    PROVE  AInv'
<1> DEFINE l == local[c]
           t == OwnOrders(c)
           s == l.req.sym
<1>1. pc[c] = "loop" /\ ~Crossing(l) /\ EndTransaction(c, TRUE)
    BY DEF CommitOrder, CanMatch, Crossing
<1>2. l.buying \in Seq(Entry) /\ l.selling \in Seq(Entry)
    BY DEF Inv, LocalOK, Vector
<1>3. /\ Mirrors(l.buying, t, Bids(t, s)) /\ Falling(l.buying)
      /\ Mirrors(l.selling, t, Offers(t, s)) /\ Rising(l.selling)
    BY <1>1, OwnSeen DEF AInv, Undisturbed, Working, StillMirrored, Rewound, Matching, InTurns
<1>4. s \in SymbolsOf(c)
    <2>1. Serves(l, "loop", requests[c])
        BY <1>1, OwnSeen DEF AInv, Undisturbed, Working
    <2> QED
        BY <1>1, <2>1, ServedOwn DEF Serves, Ordering, Matching
<1> DEFINE rows == Seen(c)
<1>5. ASSUME NEW i \in Nat, Order(i) \in DOMAIN rows, rows[Order(i)].SymbolName # s
      PROVE  Order(i) \in DOMAIN db /\ rows[Order(i)] = db[Order(i)]
    <2>1. Wrote(l, "loop", tx[c], db, AccountsOf(c), SymbolsOf(c))
        BY <1>1 DEF AInv, Undisturbed
    <2>2. Order(i) \in DOMAIN tx[c] => tx[c][Order(i)].SymbolName = s
        BY <2>1 DEF Wrote
    <2>3. Order(i) \notin DOMAIN tx[c]
        BY <1>5, <2>2, OverRows DEF Seen
    <2> QED
        BY <1>5, <2>3, OverRows DEF Seen
<1>6. ASSUME NEW i \in Nat, Order(i) \in DOMAIN rows, rows[Order(i)].SymbolName = s
      PROVE  i \in DOMAIN t /\ t[i] = rows[Order(i)]
    BY <1>4, <1>6, SeenOwn DEF Exists
<1>7. ASSUME NEW i \in Nat, NEW j \in Nat, Order(i) \in DOMAIN rows, Order(j) \in DOMAIN rows,
             rows[Order(i)].CancelTime = NOTCANCELLED, rows[Order(j)].CancelTime = NOTCANCELLED,
             rows[Order(i)].Amount > 0, rows[Order(j)].Amount < 0,
             rows[Order(i)].SymbolName = rows[Order(j)].SymbolName
      PROVE  rows[Order(i)].PriceLimit < rows[Order(j)].PriceLimit
    <2>1. CASE rows[Order(i)].SymbolName = s
        <3>1. i \in Bids(t, s) /\ j \in Offers(t, s)
            BY <1>6, <1>7, <2>1 DEF Bids, Offers
        <3>2. t[i].PriceLimit < t[j].PriceLimit
            BY <1>1, <1>2, <1>3, <3>1, MatchedSettles
        <3> QED
            BY <1>6, <1>7, <2>1, <3>2
    <2>2. CASE rows[Order(i)].SymbolName # s
        BY <1>5, <1>7, <2>2 DEF AInv, Settled
    <2> QED
        BY <2>1, <2>2
<1>8. Settled(rows)
    BY <1>7 DEF Settled
<1> QED
    BY <1>1, <1>8, CommitApart
-----------------------------------------------------------------------------
(* Clients that are apart get along                                         *)

\* A client waits for rows that only it asks about, and for orders of its own.
LEMMA WantedOwn ==
    ASSUME Inv, AInv, NEW c \in Clients, NEW k \in Wanted(c)
    PROVE  k \in OwnKeys(c) \/ \E i \in DOMAIN OwnOrders(c) : k = Order(i)
<1> DEFINE l == local[c]
           r == l.req
           rows == OwnRows(c)
           t == OwnOrders(c)
<1>1. /\ Solvent(rows, t) /\ Serves(l, pc[c], requests[c])
      /\ StillFunded(l, pc[c], rows) /\ StillOpen(l, pc[c], rows, t) /\ StillMirrored(l, pc[c], t)
    BY OwnSeen DEF AInv, Undisturbed, Working
<1>2. pc[c] # "idle" =>
          /\ RequestOK(r) /\ Modest(r) /\ Balance(r.id) \in OwnKeys(c)
          /\ r.kind \in {"position", "order"} =>
                Symbol(r.sym) \in OwnKeys(c) /\ Position(r.id, r.sym) \in OwnKeys(c)
    BY ServedOwn
<1>3. pc[c] \in Matching /\ Crossing(l) =>
          /\ BuyerPosition(c) \in OwnKeys(c) /\ SellerBalance(c) \in OwnKeys(c)
          /\ l.buying[1].TransID \in DOMAIN t /\ l.selling[1].TransID \in DOMAIN t
    BY TurnState DEF AtTurn
<1>4. pc[c] \in InTurns => Crossing(l)
    BY <1>1 DEF StillMirrored
<1> HIDE DEF rows, t
<1>5. CASE pc[c] = "newaccount"
    BY <1>2, <1>5 DEF Wanted
<1>6. CASE pc[c] \in {"addrow", "newrow"}
    <2>1. r.kind = "position"
        BY <1>1, <1>6 DEF Serves
    <2>2. k = Position(r.id, r.sym)
        BY <1>6 DEF Wanted
    <2> QED
        BY <1>2, <1>6, <2>1, <2>2
<1>7. CASE pc[c] = "newsymbol"
    <2>1. r.kind \in {"position", "order"} /\ k = Symbol(r.sym)
        BY <1>1, <1>7 DEF Serves, Wanted
    <2> QED
        BY <1>2, <1>7, <2>1
<1>8. CASE pc[c] = "charge"
    <2>1. r.kind = "order" /\ k = Source(r)
        BY <1>1, <1>8 DEF Serves, Wanted, Ordering, Placing
    <2> QED
        BY <1>2, <1>8, <2>1, Reserves
<1>9. CASE pc[c] = "loop"
    <2>1. CanMatch(c) /\ k = Order(l.buying[1].TransID)
        BY <1>9 DEF Wanted
    <2> QED
        BY <1>3, <1>9, <2>1 DEF CanMatch, Crossing, Matching, t
<1>10. CASE pc[c] = "sellrow"
    <2>1. k = Order(l.selling[1].TransID)
        BY <1>10 DEF Wanted
    <2> QED
        BY <1>3, <1>4, <1>10, <2>1 DEF Matching, InTurns, t
<1>11. CASE pc[c] \in {"addposition", "newposition", "payseller"}
    <2>1. k \in {BuyerPosition(c), SellerBalance(c)}
        BY <1>11 DEF Wanted
    <2> QED
        BY <1>3, <1>4, <1>11, <2>1 DEF Matching, InTurns
<1>12. CASE pc[c] = "setcancel"
    <2>1. k = Order(l.id) /\ l.id \in DOMAIN t
        BY <1>1, <1>12 DEF Wanted, StillOpen, Cancelling
    <2> QED
        BY <2>1 DEF t
<1>13. CASE pc[c] = "refund"
    <2>1. k = RefundRow(c) /\ l.id \in DOMAIN t
        BY <1>1, <1>13 DEF Wanted, StillOpen, Cancelling
    <2>2. t[l.id] = Seen(c)[Order(l.id)] /\ Belongs(t[l.id], AccountsOf(c), SymbolsOf(c)) /\ t[l.id] \in OrderRow
        BY <1>1, <2>1, OwnOrder DEF Solvent, t
    <2>3. k \in {Position(t[l.id].AccountID, t[l.id].SymbolName), Balance(t[l.id].AccountID)}
        BY <2>1, <2>2 DEF RefundRow
    <2>4. t[l.id].AccountID \in AccountsOf(c) /\ t[l.id].SymbolName \in Symbols
        BY <2>2 DEF Belongs, OrderRow
    <2> QED
        BY <2>3, <2>4 DEF OwnKeys, KeysOf
<1>14. CASE pc[c] \notin {"newaccount", "addrow", "newrow", "newsymbol", "charge", "loop", "sellrow",
                          "addposition", "newposition", "payseller", "setcancel", "refund"}
    BY <1>14 DEF Wanted
<1> QED
    BY <1>5, <1>6, <1>7, <1>8, <1>9, <1>10, <1>11, <1>12, <1>13, <1>14

\* So no client waits for another one, and there is no deadlock to break.
LEMMA NobodyWaits ==
    ASSUME Inv, AInv, Apart, NEW c \in Clients, NEW d \in Clients
    PROVE  ~WaitsFor(c, d)
<1> SUFFICES ASSUME c # d, NEW k \in Wanted(c), k \in DOMAIN tx[d]
             PROVE  FALSE
    BY DEF WaitsFor
<1>1. Wrote(local[d], pc[d], tx[d], db, AccountsOf(d), SymbolsOf(d))
    BY DEF AInv, Undisturbed
<1>2. k \in OwnKeys(d) \/ \E i \in Nat : k = Order(i)
    BY <1>1 DEF Wrote, OwnKeys
<1>3. \A i : Order(i) \notin OwnKeys(c) /\ Order(i) \notin OwnKeys(d)
    BY NoOrderKeys DEF OwnKeys
<1>4. CASE k \in OwnKeys(c)
    BY <1>2, <1>3, <1>4, ApartKeys
<1>5. CASE k \notin OwnKeys(c)
    <2>1. PICK i \in DOMAIN OwnOrders(c) : k = Order(i)
        BY <1>5, WantedOwn
    <2>2. i \in Nat /\ Order(i) \in DOMAIN Seen(c) /\ Belongs(Seen(c)[Order(i)], AccountsOf(c), SymbolsOf(c))
        BY OwnOrder DEF Exists
    <2>3. Order(i) \notin DOMAIN tx[c]
        BY <2>1 DEF Inv, Locks
    <2>4. Order(i) \in DOMAIN db /\ Belongs(db[Order(i)], AccountsOf(c), SymbolsOf(c))
        BY <2>2, <2>3, OverRows DEF Seen
    <2>5. Belongs(db[Order(i)], AccountsOf(d), SymbolsOf(d))
        BY <1>1, <2>1, <2>2, <2>4 DEF Wrote
    <2> QED
        BY <2>4, <2>5, ApartKeys
<1> QED
    BY <1>4, <1>5

LEMMA StartApart == Init => AInv
<1> SUFFICES ASSUME Init
             PROVE  AInv
    OBVIOUS
<1>1. PICK course \in Courses : requests = course.requests /\ db = course.opening
    BY DEF Init
<1>2. \A i : Order(i) \notin DOMAIN db
    BY <1>1, ExchangeSqlAssumption, KeysDiffer
<1>3. Paid(db)
    BY <1>1, NumbersAssumption DEF Paid
<1>4. \A c \in Clients : \A r \in requests[c] : Modest(r)
    BY <1>1, NumbersAssumption DEF Modest
<1>5. ASSUME NEW c \in Clients
      PROVE  Undisturbed(local[c], pc[c], requests[c], tx[c], db, AccountsOf(c), SymbolsOf(c))
    <2> DEFINE rows == Part(Over(NoRows, db), KeysOf(AccountsOf(c), SymbolsOf(c)))
               t == Book(Over(NoRows, db), AccountsOf(c), SymbolsOf(c))
    <2>1. local[c] = Fresh /\ pc[c] = "idle" /\ tx[c] = NoRows
        BY DEF Init
    <2>2. \A n : /\ n \in DOMAIN Over(NoRows, db) <=> n \in DOMAIN db
                 /\ n \in DOMAIN db => Over(NoRows, db)[n] = db[n]
        BY NoRow, OverRows
    <2>3. Paid(rows)
        BY <1>3, <2>2 DEF Paid, Part
    <2>4. DOMAIN t = {}
        BY <1>2, <2>2 DEF Book
    <2>5. Working(Fresh, "idle", requests[c], rows, t)
        BY <2>3, <2>4, IdleWorks DEF Solvent
    <2>6. Wrote(Fresh, "idle", NoRows, db, AccountsOf(c), SymbolsOf(c))
        BY NoRow DEF Wrote, Looking
    <2> QED
        BY <2>1, <2>5, <2>6 DEF Undisturbed
<1>6. up /\ Settled(db)
    BY <1>2 DEF Init, Settled
<1> QED
    BY <1>2, <1>3, <1>4, <1>5, <1>6 DEF AInv

LEMMA ApartKeeps ==
    ASSUME Inv, AInv, Apart, [Next]_vars
    PROVE  AInv'
<1>1. CASE UNCHANGED vars
    <2>1. \A d \in Clients : AccountsOf(d)' = AccountsOf(d) /\ SymbolsOf(d)' = SymbolsOf(d)
        BY <1>1 DEF AccountsOf, SymbolsOf, vars
    <2>2. \A d \in Clients : Undisturbed(local'[d], pc'[d], requests'[d], tx'[d], db', AccountsOf(d), SymbolsOf(d))
        BY <1>1 DEF AInv, vars
    <2>3. \A d \in Clients : Undisturbed(local[d], pc[d], requests[d], tx[d], db, AccountsOf(d), SymbolsOf(d))'
        BY <2>1, <2>2
    <2>4. \A i \in Nat : Order(i) \in DOMAIN db' =>
              \E d \in Clients : Belongs(db'[Order(i)], AccountsOf(d)', SymbolsOf(d)')
        BY <1>1, <2>1 DEF AInv, vars
    <2>5. up' /\ Paid(db') /\ Settled(db') /\ \A d \in Clients : \A r \in requests'[d] : Modest(r)
        BY <1>1 DEF AInv, vars
    <2> QED
        BY <2>3, <2>4, <2>5 DEF AInv
<1>2. CASE DeadlockDetected
    BY <1>2, NobodyWaits DEF DeadlockDetected
<1>3. CASE \E c \in Clients : Receive(c)
    BY <1>3, ReceiveApart
<1>4. ASSUME NEW c \in Clients, Handler(c)
      PROVE  AInv'
    <2>1. requests' = requests /\ Statement(c)
        BY <1>4 DEF Handler
    <2>2. CASE FindAccount(c) \/ NewAccount(c) \/ FindRow(c) \/ AddRow(c) \/ NewRow(c) \/ FindSymbol(c) \/ NewSymbol(c)
        BY <2>1, <2>2, CreateApart
    <2>3. CASE CheckFunds(c) \/ InsertOrder(c) \/ SelectMax(c) \/ Reread(c) \/ Charge(c)
        BY <2>1, <2>3, PlaceApart
    <2>4. CASE SelectBuys(c) \/ SelectSells(c)
        BY <2>1, <2>4, FetchApart
    <2>5. CASE UpdateBuyRow(c) \/ UpdateSellRow(c)
        BY <2>1, <2>5, TurnBothApart
    <2>6. CASE FindPosition(c) \/ ReadSeller(c)
        BY <2>1, <2>6, TurnReadApart
    <2>7. CASE AddPosition(c) \/ NewPosition(c) \/ PaySeller(c)
        BY <2>1, <2>7, TurnPaysApart
    <2>8. CASE CommitCreate(c) \/ CommitOrder(c)
        BY <2>1, <2>8, CommitCreateApart, CommitOrderApart
    <2>9. CASE ReadOrder(c) \/ ReadCancelTime(c) \/ SetCancelTime(c) \/ ReadRefund(c) \/ Refund(c)
        BY <2>1, <2>9, CancelApart
    <2> QED
        BY <2>1, <2>2, <2>3, <2>4, <2>5, <2>6, <2>7, <2>8, <2>9 DEF Statement
<1> QED
    BY <1>1, <1>2, <1>3, <1>4 DEF Next

\* Clients that are apart stay so.
LEMMA StillApart == [Next]_vars => (Apart' <=> Apart)
<1>1. [Next]_vars => requests' = requests
    BY DEF Next, Receive, Handler, DeadlockDetected, vars
<1> QED
    BY <1>1 DEF Apart, AccountsOf, SymbolsOf

LEMMA ApartInvariant == Spec => [](Inv /\ (Apart => AInv))
<1>1. Init => (Apart => AInv)
    BY StartApart
<1>2. Inv /\ (Apart => AInv) /\ [Next]_vars => (Apart => AInv)'
    BY ApartKeeps, StillApart
<1> QED
    BY <1>1, <1>2, Invariant, PTL DEF Spec

\* Whatever clients with no account and no symbol in common do at once, no exception ends the process,
\* nobody comes to owe cash or shares, and no two orders that could trade are left open
\* (database_func.cpp reads first and writes later, and checks nothing in between).
THEOREM ApartUndisturbed == Spec => []UndisturbedApart
<1>1. Inv /\ (Apart => AInv) => UndisturbedApart
    <2> SUFFICES ASSUME Inv, AInv
                 PROVE  /\ up
                        /\ \A k \in DOMAIN db : k[1] \in {"balance", "position"} => db[k] >= 0
                        /\ Uncrossed
        BY DEF UndisturbedApart
    <2>1. up /\ Paid(db) /\ Settled(db) /\ DOMAIN db \subseteq Keys /\ serial \in Nat
        BY DEF AInv, Inv, Types, Table
    <2>2. ASSUME NEW k \in DOMAIN db, k[1] \in {"balance", "position"}
          PROVE  db[k] >= 0
        <3>1. \/ \E a \in Accounts : k = Balance(a)
              \/ \E a \in Accounts, s \in Symbols : k = Position(a, s)
            BY <2>1, <2>2 DEF Keys, Symbol, Order
        <3>2. db[k] \in Nat
            BY <2>1, <2>2, <3>1 DEF Paid
        <3> QED
            BY <3>2
    <2>3. Uncrossed
        BY <2>1 DEF Uncrossed, Settled, OrderIds, Active
    <2> QED
        BY <2>1, <2>2, <2>3
<1> QED
    BY <1>1, ApartInvariant, PTL
-----------------------------------------------------------------------------
(* What was executed of an order                                            *)

Fill == [TransID : Nat, Amount : Int, Price : Int]
\* What the row e of EXECUTED says of order i.
Of(e, i) == IF e.TransID = i THEN e.Amount ELSE 0

LEMMA FilledMore ==
    ASSUME NEW rows \in Seq(Fill), NEW e \in Fill, NEW i
    PROVE  /\ Append(rows, e) \in Seq(Fill) /\ Filled(rows, i) \in Int
           /\ Filled(Append(rows, e), i) = Filled(rows, i) + Of(e, i)
<1> DEFINE F(r) == [k \in DOMAIN r |-> IF r[k].TransID = i THEN r[k].Amount ELSE 0]
<1>1. /\ DOMAIN rows = 1 .. Len(rows) /\ Len(rows) \in Nat
      /\ \A k \in DOMAIN rows : rows[k] \in Fill
    OBVIOUS
<1>2. IsFiniteSet(DOMAIN rows)
    BY <1>1, FS_Interval
<1>3. \A w \in Fill : w.Amount \in Int
    BY DEF Fill
<1>4. PICK u : u = Append(rows, e) /\ u \in Seq(Fill)
    BY AppendProperties
<1>5. /\ DOMAIN u = DOMAIN rows \cup {Len(rows) + 1} /\ Len(rows) + 1 \notin DOMAIN rows
      /\ u[Len(rows) + 1] = e /\ \A k \in DOMAIN rows : u[k] = rows[k]
    BY <1>1, <1>4
<1>6. /\ DOMAIN F(rows) = DOMAIN rows /\ DOMAIN F(u) = DOMAIN rows \cup {Len(rows) + 1}
      /\ \A k \in DOMAIN rows : F(rows)[k] \in Int /\ F(u)[k] = F(rows)[k]
      /\ F(u)[Len(rows) + 1] = IF e.TransID = i THEN e.Amount ELSE 0
      /\ F(u)[Len(rows) + 1] \in Int
    BY <1>1, <1>3, <1>5
<1> HIDE DEF F
<1>7. SumFunction(F(rows)) \in Int /\ SumFunction(F(u)) = SumFunction(F(rows)) + F(u)[Len(rows) + 1] - 0
    <2>1. SumMoves(F(rows), F(u), Len(rows) + 1)
        BY <1>2, <1>6, SumChanged
    <2> QED
        BY <1>5, <1>6, <2>1 DEF SumMoves
<1>8. Filled(rows, i) = SumFunction(F(rows)) /\ Filled(u, i) = SumFunction(F(u))
    BY DEF Filled, F
<1> QED
    BY <1>4, <1>6, <1>7, <1>8 DEF Of

LEMMA FilledNone ==
    ASSUME NEW i
    PROVE  Filled(<<>>, i) = 0
<1> DEFINE r == <<>>
           F == [k \in DOMAIN r |-> IF r[k].TransID = i THEN r[k].Amount ELSE 0]
<1>1. DOMAIN F = {} /\ IsFiniteSet({})
    BY FS_EmptySet
<1> HIDE DEF F
<1>2. SumFunctionOnSet(F, DOMAIN F) = 0
    BY <1>1, SumOfSet
<1> QED
    BY <1>2 DEF Filled, SumFunction, F

LEMMA FilledTwo ==
    ASSUME NEW rows \in Seq(Fill), NEW d \in Fill, NEW e \in Fill, NEW i
    PROVE  /\ rows \o <<d, e>> \in Seq(Fill)
           /\ Filled(rows \o <<d, e>>, i) = Filled(rows, i) + Of(d, i) + Of(e, i)
<1> DEFINE one == Append(rows, d)
           two == Append(one, e)
<1>1. one \in Seq(Fill) /\ Filled(rows, i) \in Int
      /\ Filled(one, i) = Filled(rows, i) + Of(d, i)
    BY FilledMore
<1>2. two \in Seq(Fill) /\ Filled(two, i) = Filled(one, i) + Of(e, i)
    <2> HIDE DEF one
    <2> QED
        BY <1>1, FilledMore
<1>3. two = rows \o <<d, e>>
    OBVIOUS
<1> QED
    BY <1>1, <1>2, <1>3

\* The fills of the first n of the rows, after others.
LEMMA FilledJoin ==
    ASSUME NEW rows \in Seq(Fill), NEW more \in Seq(Fill), NEW i
    PROVE  /\ Filled(rows, i) \in Int /\ Filled(more, i) \in Int
           /\ Filled(rows \o more, i) = Filled(rows, i) + Filled(more, i)
<1> DEFINE N == Len(more)
           Up(n) == SubSeq(more, 1, n)
           T == {n \in 0 .. N : /\ Filled(Up(n), i) \in Int
                                /\ Filled(rows \o Up(n), i) = Filled(rows, i) + Filled(Up(n), i)}
<1>1. N \in Nat /\ DOMAIN more = 1 .. N /\ \A k \in 1 .. N : more[k] \in Fill
    OBVIOUS
<1>2. Filled(rows, i) \in Int
    <2>1. CASE Len(rows) = 0
        <3>1. rows = <<>>
            BY <2>1
        <3> QED
            BY <3>1, FilledNone
    <2>2. CASE Len(rows) # 0
        <3>1. rows[1] \in Fill
            BY <2>2
        <3> QED
            BY <3>1, FilledMore
    <2> QED
        BY <2>1, <2>2
<1>3. 0 \in T
    <2>1. Up(0) = <<>> /\ rows \o <<>> = rows
        BY SubSeqEmpty, ConcatEmptySeq
    <2>2. Filled(Up(0), i) = 0
        BY <2>1, FilledNone
    <2>3. Filled(rows \o Up(0), i) = Filled(rows, i)
        BY <2>1
    <2> HIDE DEF Up
    <2>4. Filled(Up(0), i) \in Int /\ Filled(rows \o Up(0), i) = Filled(rows, i) + Filled(Up(0), i)
        BY <1>2, <2>2, <2>3
    <2> QED
        BY <1>1, <2>4
<1>4. ASSUME NEW n \in 0 .. N - 1, n \in T
      PROVE  n + 1 \in T
    <2>1. /\ Up(n) \in Seq(Fill) /\ Up(n + 1) = Append(Up(n), more[n + 1]) /\ more[n + 1] \in Fill
          /\ rows \o Append(Up(n), more[n + 1]) = Append(rows \o Up(n), more[n + 1])
          /\ rows \o Up(n) \in Seq(Fill)
        <3>1. n + 1 \in 1 .. N /\ n \in Nat
            BY <1>1
        <3>2. Up(n) \in Seq(Fill) /\ Len(Up(n)) = n /\ \A k \in 1 .. n : Up(n)[k] = more[k]
            BY <1>1, <3>1
        <3>3. Up(n + 1) = Append(Up(n), more[n + 1])
            BY <1>1, <3>1, <3>2
        <3> HIDE DEF Up
        <3>4. more[n + 1] \in Fill
            BY <1>1, <3>1
        <3>5. rows \o Append(Up(n), more[n + 1]) = Append(rows \o Up(n), more[n + 1])
            BY <3>2, <3>4
        <3> QED
            BY <3>2, <3>3, <3>4, <3>5
    <2> HIDE DEF Up
    <2>2. /\ Filled(Up(n + 1), i) = Filled(Up(n), i) + Of(more[n + 1], i)
          /\ Filled(rows \o Up(n + 1), i) = Filled(rows \o Up(n), i) + Of(more[n + 1], i)
        <3>1. PICK u, w, z : u = Up(n) /\ w = rows \o Up(n) /\ z = more[n + 1]
            OBVIOUS
        <3>2. u \in Seq(Fill) /\ z \in Fill /\ w \in Seq(Fill)
            BY <2>1, <3>1
        <3>3. Filled(Append(u, z), i) = Filled(u, i) + Of(z, i)
            BY <3>2, FilledMore
        <3>4. Filled(Append(w, z), i) = Filled(w, i) + Of(z, i)
            BY <3>2, FilledMore
        <3> QED
            BY <2>1, <3>1, <3>3, <3>4
    <2>3. Of(more[n + 1], i) \in Int
        BY <2>1 DEF Of, Fill
    <2>4. Filled(Up(n), i) \in Int /\ Filled(rows \o Up(n), i) = Filled(rows, i) + Filled(Up(n), i)
        BY <1>4
    <2>5. Filled(Up(n + 1), i) \in Int /\ Filled(rows \o Up(n + 1), i) = Filled(rows, i) + Filled(Up(n + 1), i)
        BY <1>2, <2>2, <2>3, <2>4
    <2> QED
        BY <1>1, <2>5
<1>5. Up(N) = more
    BY SubSeqFull
<1> HIDE DEF T
<1>6. 0 .. N \subseteq T
    BY <1>1, <1>3, <1>4, BoundedInduction
<1>7. N \in T
    BY <1>1, <1>6
<1> QED
    BY <1>2, <1>5, <1>7 DEF T

\* Rows that do not name an order say nothing of it.
LEMMA FilledNot ==
    ASSUME NEW rows \in Seq(Fill), NEW i, \A k \in DOMAIN rows : rows[k].TransID # i
    PROVE  Filled(rows, i) = 0
<1> DEFINE N == Len(rows)
           Up(n) == SubSeq(rows, 1, n)
           T == {n \in 0 .. N : Filled(Up(n), i) = 0}
<1>1. N \in Nat /\ DOMAIN rows = 1 .. N /\ \A k \in 1 .. N : rows[k] \in Fill
    OBVIOUS
<1>2. 0 \in T
    <2>1. Up(0) = <<>>
        BY SubSeqEmpty
    <2>2. Filled(Up(0), i) = 0
        BY <2>1, FilledNone
    <2> HIDE DEF Up
    <2> QED
        BY <1>1, <2>2
<1>3. ASSUME NEW n \in 0 .. N - 1, n \in T
      PROVE  n + 1 \in T
    <2>1. n + 1 \in 1 .. N /\ n \in Nat
        BY <1>1
    <2>2. Up(n) \in Seq(Fill) /\ Len(Up(n)) = n /\ \A k \in 1 .. n : Up(n)[k] = rows[k]
        BY <1>1, <2>1
    <2>3. Up(n + 1) = Append(Up(n), rows[n + 1])
        BY <1>1, <2>1, <2>2
    <2> HIDE DEF Up
    <2>4. rows[n + 1] \in Fill /\ rows[n + 1].TransID # i
        BY <1>1, <2>1
    <2>7. Of(rows[n + 1], i) = 0
        BY <2>4 DEF Of
    <2>5. Filled(Up(n + 1), i) = Filled(Up(n), i) + 0
        <3>1. PICK u, z : u = Up(n) /\ z = rows[n + 1]
            OBVIOUS
        <3>2. Filled(Append(u, z), i) = Filled(u, i) + Of(z, i)
            BY <2>2, <2>4, <3>1, FilledMore
        <3> QED
            BY <2>3, <2>7, <3>1, <3>2
    <2>6. Filled(Up(n), i) = 0
        BY <1>3
    <2> QED
        BY <1>1, <2>1, <2>5, <2>6
<1>4. Up(N) = rows
    BY SubSeqFull
<1> HIDE DEF T
<1>5. 0 .. N \subseteq T
    BY <1>1, <1>2, <1>3, BoundedInduction
<1>6. N \in T
    BY <1>1, <1>5
<1> QED
    BY <1>4, <1>6 DEF T
-----------------------------------------------------------------------------
(* What is open of an order and what was executed of it                     *)

\* Executed by create_EXECUTED, but the selling row is written one statement later.
Due(l, step, i) == IF step = "sellrow" /\ i = l.selling[1].TransID THEN Lot(l) ELSE 0

\* The fills of a transaction name orders t of its client, and make up for what their amounts
\* lost since they were committed or, if they were not, asked for.
Tally(l, step, t, kept) ==
    /\ l.fills \in Seq(Fill)
    /\ \A k \in DOMAIN l.fills : l.fills[k].TransID \in DOMAIN t
    /\ \A i \in DOMAIN t : t[i].Amount + Filled(l.fills, i) + Due(l, step, i)
                               = IF i \in DOMAIN kept THEN kept[i].Amount ELSE l.req.amount
Tallied(l, step, mine, rows, A, S) == Tally(l, step, Book(Over(mine, rows), A, S), Book(rows, A, S))

Tallies ==
    /\ executed \in Seq(Fill)
    /\ \A k \in DOMAIN executed : Order(executed[k].TransID) \in DOMAIN db
    /\ \A c \in Clients : Tallied(local[c], pc[c], tx[c], db, AccountsOf(c), SymbolsOf(c))

OwnKept(c) == Book(db, AccountsOf(c), SymbolsOf(c))

\* The tally of c after its step, and of the others as before.
LEMMA StepTallies ==
    ASSUME Inv, Tallies, NEW c \in Clients, NEW l, NEW step, Goto(c, step), Becomes(c, l),
           UNCHANGED <<db, executed, requests>>, \A d \in Clients \ {c} : tx'[d] = tx[d],
           Tallied(l, step, tx'[c], db, AccountsOf(c), SymbolsOf(c))
    PROVE  Tallies'
<1>1. \A d \in Clients : AccountsOf(d)' = AccountsOf(d) /\ SymbolsOf(d)' = SymbolsOf(d)
    BY DEF AccountsOf, SymbolsOf
<1>2. \A d \in Clients : pc'[d] = (IF d = c THEN step ELSE pc[d]) /\ local'[d] = (IF d = c THEN l ELSE local[d])
    BY DEF Goto, Becomes, Inv, Types
<1>3. \A d \in Clients : Tallied(local'[d], pc'[d], tx'[d], db, AccountsOf(d), SymbolsOf(d))
    BY <1>2 DEF Tallies
<1>4. \A d \in Clients : Tallied(local[d], pc[d], tx[d], db, AccountsOf(d), SymbolsOf(d))'
    BY <1>1, <1>3
<1> QED
    BY <1>4 DEF Tallies

\* A step that is not about an order's amount or an execution.
Quietly(c, l, step) ==
    /\ Goto(c, step) /\ Becomes(c, l) /\ UNCHANGED <<db, executed>>
    /\ step # "sellrow" /\ pc[c] # "sellrow" /\ l.fills = local[c].fills /\ l.req = local[c].req
    /\ tx' = tx \/ \E k, v : (\A i : k # Order(i)) /\ Write(c, k, v)

LEMMA QuietTallies ==
    ASSUME Inv, Tallies, NEW c \in Clients, NEW l, NEW step, Quietly(c, l, step), requests' = requests
    PROVE  Tallies'
<1> DEFINE A == AccountsOf(c)
           S == SymbolsOf(c)
<1>1. /\ \A d \in Clients \ {c} : tx'[d] = tx[d]
      /\ Book(Over(tx'[c], db), A, S) = Book(Over(tx[c], db), A, S)
    <2>1. CASE tx' = tx
        BY <2>1
    <2>2. CASE tx' # tx
        <3>1. PICK k, v : (\A i : k # Order(i)) /\ Write(c, k, v)
            BY <2>2 DEF Quietly
        <3>2. tx'[c] = Put(tx[c], k, v) /\ \A d \in Clients \ {c} : tx'[d] = tx[d]
            BY <3>1, WrittenRows
        <3>3. Over(tx'[c], db) = Put(Over(tx[c], db), k, v)
            BY <3>2, PutOver
        <3> QED
            BY <3>1, <3>2, <3>3, BookOther
    <2> QED
        BY <2>1, <2>2
<1>2. Tallied(local[c], pc[c], tx[c], db, A, S)
    BY DEF Tallies
<1>3. \A i : Due(l, step, i) = 0 /\ Due(local[c], pc[c], i) = 0
    BY DEF Due, Quietly
<1>4. Tallied(l, step, tx'[c], db, A, S)
    BY <1>1, <1>2, <1>3 DEF Tallied, Tally, Quietly
<1> QED
    BY <1>1, <1>4, StepTallies DEF Quietly

LEMMA KeepQuiet ==
    ASSUME Inv, NEW c \in Clients, NEW l, NEW step, Keep(c, l, step), step # "sellrow", pc[c] # "sellrow",
           l.fills = local[c].fills, l.req = local[c].req
    PROVE  Quietly(c, l, step)
    BY DEF Keep, Quietly, Becomes, Inv, Types

LEMMA UpdateQuiet ==
    ASSUME Inv, NEW c \in Clients, NEW k, NEW v, NEW l, NEW step, UpdateRow(c, k, v, step), \A i : k # Order(i),
           Becomes(c, l), step # "sellrow", pc[c] # "sellrow", l.fills = local[c].fills, l.req = local[c].req
    PROVE  Quietly(c, l, step)
    BY DEF UpdateRow, Quietly

LEMMA InsertQuiet ==
    ASSUME Inv, up', NEW c \in Clients, NEW k, NEW v, NEW step, InsertRow(c, k, v, step), \A i : k # Order(i),
           step # "sellrow", pc[c] # "sellrow"
    PROVE  Quietly(c, local[c], step)
<1>1. k \notin DOMAIN db
    BY DEF InsertRow, Terminate
<1>2. Becomes(c, local[c])
    BY <1>1 DEF InsertRow, Becomes, Inv, Types
<1> QED
    BY <1>1, <1>2 DEF InsertRow, Quietly

\* Nothing is owed when nothing is written.
LEMMA StartTallied ==
    ASSUME NEW rows, \A i : Order(i) \in DOMAIN rows => rows[Order(i)].Amount \in Int,
           NEW l, l.fills = <<>>, NEW step, step # "sellrow", NEW A, NEW S
    PROVE  Tallied(l, step, NoRows, rows, A, S)
<1>1. \A n : /\ n \in DOMAIN Over(NoRows, rows) <=> n \in DOMAIN rows
             /\ n \in DOMAIN rows => Over(NoRows, rows)[n] = rows[n]
    BY NoRow, OverRows
<1>2. Book(Over(NoRows, rows), A, S) = Book(rows, A, S)
    BY <1>1 DEF Book
<1>3. \A i \in DOMAIN Book(rows, A, S) : Book(rows, A, S)[i].Amount \in Int
    BY DEF Book
<1>4. \A i : Filled(l.fills, i) = 0 /\ Due(l, step, i) = 0
    BY FilledNone DEF Due
<1>5. l.fills \in Seq(Fill) /\ DOMAIN l.fills = {}
    OBVIOUS
<1> QED
    BY <1>2, <1>3, <1>4, <1>5 DEF Tallied, Tally

\* Amounts of orders are numbers.
LEMMA AmountsOfRows ==
    ASSUME NEW rows, Table(rows)
    PROVE  \A i : Order(i) \in DOMAIN rows => rows[Order(i)].Amount \in Int
    BY OrderKeys DEF Table, OrderRow

LEMMA ReceiveTallies ==
    ASSUME Inv, Tallies, NEW c \in Clients, Receive(c)
    PROVE  Tallies'
<1>0. PICK r \in requests[c] :
          /\ pc[c] = "idle" /\ requests' = requests
          /\ \E i \in IF r.kind = "cancel" THEN OrdersOf(r.id) ELSE {0} :
                Keep(c, [Fresh EXCEPT !.req = r, !.id = i], FirstStep(r))
    BY DEF Receive
<1>1. PICK i : Keep(c, [Fresh EXCEPT !.req = r, !.id = i], FirstStep(r))
    BY <1>0
<1> DEFINE l == [Fresh EXCEPT !.req = r, !.id = i]
<1>2. l.fills = <<>>
    BY DEF Fresh
<1>3. FirstStep(r) # "sellrow"
    BY <1>0, <1>1 DEF FirstStep, Inv, Types, RequestOK
<1> HIDE DEF l
<1>4. tx[c] = NoRows /\ tx' = tx
    BY <1>0, <1>1 DEF Inv, Locks, Keep
<1>5. Tallied(l, FirstStep(r), tx'[c], db, AccountsOf(c), SymbolsOf(c))
    BY <1>2, <1>3, <1>4, StartTallied, AmountsOfRows DEF Inv, Types
<1>6. Becomes(c, l) /\ Goto(c, FirstStep(r)) /\ UNCHANGED <<db, executed>>
    BY <1>0, <1>1 DEF Keep, Becomes, Inv, Types, l
<1> QED
    BY <1>0, <1>1, <1>4, <1>5, <1>6, StepTallies

LEMMA RollbackTallies ==
    ASSUME Inv, AInv, Tallies, NEW c \in Clients, EndTransaction(c, FALSE), requests' = requests
    PROVE  Tallies'
<1>1. /\ UNCHANGED <<db, executed, requests>> /\ Goto(c, "idle") /\ Becomes(c, Fresh)
      /\ tx' = [tx EXCEPT ![c] = NoRows]
    BY DEF EndTransaction, Becomes, Inv, Types
<1>2. tx'[c] = NoRows /\ \A d \in Clients \ {c} : tx'[d] = tx[d]
    BY <1>1 DEF Inv, Types
<1>3. Fresh.fills = <<>>
    BY DEF Fresh
<1>4. Tallied(Fresh, "idle", tx'[c], db, AccountsOf(c), SymbolsOf(c))
    BY <1>2, <1>3, StartTallied, AmountsOfRows DEF Inv, Types
<1> QED
    BY <1>1, <1>2, <1>4, StepTallies
-----------------------------------------------------------------------------
(* The steps that are about amounts                                         *)

LEMMA OwnTally ==
    ASSUME Inv, Tallies, NEW c \in Clients
    PROVE  Tally(local[c], pc[c], OwnOrders(c), OwnKept(c))
    BY OwnSeen DEF Tallies, Tallied, OwnKept

\* A client writes an order of its own.
LEMMA OrderTallies ==
    ASSUME Inv, Tallies, NEW c \in Clients, NEW i \in Nat, NEW o, NEW l, NEW step,
           Write(c, Order(i), o), Goto(c, step), Becomes(c, l), UNCHANGED <<db, executed, requests>>,
           Belongs(o, AccountsOf(c), SymbolsOf(c)),
           Tally(l, step, Put(OwnOrders(c), i, o), OwnKept(c))
    PROVE  Tallies'
<1>1. tx'[c] = Put(tx[c], Order(i), o) /\ \A d \in Clients \ {c} : tx'[d] = tx[d]
    BY WrittenRows
<1>2. Over(tx'[c], db) = Put(Over(tx[c], db), Order(i), o)
    BY <1>1, PutOver
<1>3. Book(Over(tx'[c], db), AccountsOf(c), SymbolsOf(c)) = Put(OwnOrders(c), i, o)
    BY <1>2, BookPut, OwnSeen
<1>4. Tallied(l, step, tx'[c], db, AccountsOf(c), SymbolsOf(c))
    BY <1>3 DEF Tallied, OwnKept
<1> QED
    BY <1>1, <1>4, StepTallies

\* The orders a client sees are numbered, and their amounts are numbers.
LEMMA OwnNumbered ==
    ASSUME Inv, NEW c \in Clients
    PROVE  /\ \A i \in DOMAIN OwnOrders(c) : i \in 1 .. serial /\ OwnOrders(c)[i] \in OrderRow
           /\ \A i \in DOMAIN OwnKept(c) : i \in 1 .. serial /\ OwnKept(c)[i] \in OrderRow
<1>1. Table(Seen(c)) /\ Table(db)
    BY SeenTable DEF Inv, Types
<1>2. \A i : Order(i) \in DOMAIN Seen(c) => i \in 1 .. serial /\ Seen(c)[Order(i)] \in OrderRow
    BY <1>1, OrderKeys DEF Table
<1>3. \A i : Order(i) \in DOMAIN db => i \in 1 .. serial /\ db[Order(i)] \in OrderRow
    BY <1>1, OrderKeys DEF Table
<1> QED
    BY <1>2, <1>3 DEF OwnOrders, OwnKept, Book

\* A new order has what was asked for.
LEMMA InsertTallies ==
    ASSUME Inv, AInv, Tallies, NEW c \in Clients, InsertOrder(c), requests' = requests
    PROVE  Tallies'
<1> DEFINE l == local[c]
           r == l.req
           t == OwnOrders(c)
           i == serial + 1
           o == [OrderTime |-> 0, AccountID |-> r.id, SymbolName |-> r.sym, Amount |-> r.amount,
                 PriceLimit |-> r.limit, CancelTime |-> NOTCANCELLED]
<1>1. /\ pc[c] = "insert" /\ Write(c, Order(i), o) /\ Goto(c, "selectmax")
      /\ UNCHANGED <<db, executed, requests, local>>
    BY DEF InsertOrder, UpdateRow
<1>2. r.kind = "order"
    BY <1>1 DEF AInv, Undisturbed, Working, Serves, Ordering, Placing
<1>3. Belongs(o, AccountsOf(c), SymbolsOf(c)) /\ o.Amount = r.amount /\ r.amount \in Int
    <2>1. r.id \in AccountsOf(c) /\ r.sym \in SymbolsOf(c) /\ RequestOK(r)
        BY <1>1, <1>2, ServedOwn
    <2> QED
        BY <1>2, <2>1 DEF Belongs, RequestOK
<1>4. i \in Nat /\ i \notin 1 .. serial
    BY DEF Inv, Types
<1>5. i \notin DOMAIN t /\ i \notin DOMAIN OwnKept(c)
    BY <1>4, OwnNumbered
<1>6. Tally(l, "insert", t, OwnKept(c))
    BY <1>1, OwnTally
<1> HIDE DEF o, i, r, t
<1>7. Filled(l.fills, i) = 0
    BY <1>5, <1>6, FilledNot DEF Tally
<1>8. \A j : Due(l, "insert", j) = 0 /\ Due(l, "selectmax", j) = 0
    BY DEF Due
<1>9. \A j \in DOMAIN Put(t, i, o) : \/ j \in DOMAIN t /\ Put(t, i, o)[j] = t[j]
                                     \/ j = i /\ Put(t, i, o)[j] = o
    BY PutEither
<1>10. \A j \in DOMAIN t : j \in DOMAIN Put(t, i, o)
    BY PutRows
<1>11. o.Amount + 0 + 0 = r.amount
    BY <1>3
<1>12. Tally(l, "selectmax", Put(t, i, o), OwnKept(c))
    <2>1. ASSUME NEW j \in DOMAIN Put(t, i, o)
          PROVE  Put(t, i, o)[j].Amount + Filled(l.fills, j) + Due(l, "selectmax", j)
                     = IF j \in DOMAIN OwnKept(c) THEN OwnKept(c)[j].Amount ELSE l.req.amount
        <3>1. CASE j \in DOMAIN t /\ Put(t, i, o)[j] = t[j]
            BY <1>6, <1>8, <3>1 DEF Tally
        <3>2. CASE j = i /\ Put(t, i, o)[j] = o
            BY <1>5, <1>7, <1>8, <1>11, <3>2 DEF r
        <3> QED
            BY <1>9, <3>1, <3>2
    <2> QED
        BY <1>6, <1>10, <2>1 DEF Tally
<1>13. Becomes(c, l)
    BY <1>1 DEF Becomes, Inv, Types
<1> QED
    BY <1>1, <1>3, <1>4, <1>12, <1>13, OrderTallies DEF t, i

\* A cancellation leaves the amount alone.
LEMMA CancelTallies ==
    ASSUME Inv, AInv, Tallies, NEW c \in Clients, SetCancelTime(c), requests' = requests
    PROVE  Tallies'
<1> DEFINE l == local[c]
           t == OwnOrders(c)
           i == l.id
           o == [t[i] EXCEPT !.CancelTime = CANCELLED]
<1>1. pc[c] = "setcancel" /\ i \in DOMAIN t
    BY OwnSeen DEF SetCancelTime, AInv, Undisturbed, Working, StillOpen, Cancelling
<1>2. i \in Nat /\ t[i] = Seen(c)[Order(i)] /\ Belongs(t[i], AccountsOf(c), SymbolsOf(c)) /\ t[i] \in OrderRow
    BY <1>1, OwnOrder, OwnNumbered
<1>3. Write(c, Order(i), o) /\ Goto(c, "readrefund") /\ UNCHANGED <<db, executed, requests, local>>
    BY <1>2 DEF SetCancelTime, UpdateRow
<1>4. o.Amount = t[i].Amount /\ Belongs(o, AccountsOf(c), SymbolsOf(c))
    BY <1>2 DEF OrderRow, Belongs
<1>5. Tally(l, "setcancel", t, OwnKept(c))
    BY <1>1, OwnTally
<1> HIDE DEF o, t
<1>6. \A j \in DOMAIN Put(t, i, o) : j \in DOMAIN t /\ Put(t, i, o)[j].Amount = t[j].Amount
    BY <1>1, <1>4, PutEither
<1>7. \A j \in DOMAIN t : j \in DOMAIN Put(t, i, o)
    BY PutRows
<1>8. \A j : Due(l, "setcancel", j) = 0 /\ Due(l, "readrefund", j) = 0
    BY DEF Due
<1>9. Tally(l, "readrefund", Put(t, i, o), OwnKept(c))
    BY <1>5, <1>6, <1>7, <1>8 DEF Tally
<1>10. Becomes(c, l)
    BY <1>3 DEF Becomes, Inv, Types
<1> QED
    BY <1>2, <1>3, <1>4, <1>9, <1>10, OrderTallies DEF t
-----------------------------------------------------------------------------
(* A turn                                                                   *)

\* Two executions and the buying row: what the seller's row has to lose yet is due.
LEMMA TallyBegins ==
    ASSUME NEW l, NEW t, \A i \in DOMAIN t : t[i] \in OrderRow, NEW kept, Tally(l, "loop", t, kept),
           HeadsTrade(l, t, t), NEW d \in Fill, NEW e \in Fill,
           d.TransID = l.buying[1].TransID, e.TransID = l.selling[1].TransID,
           d.Amount = Lot(l), e.Amount = -Lot(l),
           NEW m, SameVectors(m, l), m.fills = l.fills \o <<d, e>>
    PROVE  Tally(m, "sellrow", Put(t, d.TransID, WithAmount(t[d.TransID], l.buying[1].Amount - Lot(l))), kept)
<1> DEFINE b == d.TransID
           a == e.TransID
           o == WithAmount(t[b], l.buying[1].Amount - Lot(l))
           w == Put(t, b, o)
<1>1. /\ b \in DOMAIN t /\ a \in DOMAIN t /\ a # b /\ t[b].Amount = l.buying[1].Amount
      /\ Lot(l) \in Nat /\ l.buying[1].Amount \in Int
    BY DEF HeadsTrade
<1>2. /\ l.fills \in Seq(Fill) /\ \A k \in DOMAIN l.fills : l.fills[k].TransID \in DOMAIN t
      /\ \A i \in DOMAIN t : t[i].Amount + Filled(l.fills, i) + 0
                                 = IF i \in DOMAIN kept THEN kept[i].Amount ELSE l.req.amount
    BY DEF Tally, Due
<1>3. m.fills \in Seq(Fill) /\ \A i : Filled(m.fills, i) = Filled(l.fills, i) + Of(d, i) + Of(e, i)
    BY <1>2, FilledTwo
<1>4. \A i : Filled(l.fills, i) \in Int
    <2>1. <<>> \in Seq(Fill)
        OBVIOUS
    <2> QED
        BY <1>2, <2>1, FilledJoin
<1>5. \A i \in DOMAIN t : t[i].Amount \in Int
    BY DEF OrderRow
<1>6. o.Amount = t[b].Amount - Lot(l)
    <2>1. t[b] \in OrderRow
        BY <1>1
    <2>2. o.Amount = l.buying[1].Amount - Lot(l)
        BY <2>1, Amounts
    <2> QED
        BY <1>1, <2>2
<1> HIDE DEF o
<1>7. \A i : /\ i \in DOMAIN w <=> i \in DOMAIN t
             /\ i \in DOMAIN t /\ i # b => w[i] = t[i]
             /\ w[b] = o
    BY <1>1, PutRows
<1> HIDE DEF w
<1>8. \A k \in DOMAIN m.fills : m.fills[k].TransID \in DOMAIN w
    <2> DEFINE s == l.fills
    <2>1. \A k \in DOMAIN m.fills : \/ k \in DOMAIN s /\ m.fills[k] = s[k]
                                    \/ m.fills[k] = d \/ m.fills[k] = e
        <3>1. s \in Seq(Fill) /\ <<d, e>> \in Seq(Fill) /\ Len(<<d, e>>) = 2 /\ <<d, e>>[1] = d /\ <<d, e>>[2] = e
            BY <1>2
        <3>2. /\ Len(s) \in Nat /\ Len(m.fills) = Len(s) + 2 /\ DOMAIN m.fills = 1 .. Len(s) + 2
              /\ DOMAIN s = 1 .. Len(s)
            BY <3>1
        <3>3. \A k \in 1 .. Len(s) : m.fills[k] = s[k]
            BY <3>1
        <3>4. m.fills[Len(s) + 1] = d /\ m.fills[Len(s) + 2] = e
            BY <3>1, <3>2
        <3>5. \A n \in Nat : \A k \in 1 .. n + 2 : k \in 1 .. n \/ k = n + 1 \/ k = n + 2
            OBVIOUS
        <3> QED
            BY <3>2, <3>3, <3>4, <3>5
    <2> QED
        BY <1>1, <1>2, <1>7, <2>1
<1>9. m.req = l.req /\ \A i : Due(m, "sellrow", i) = IF i = a THEN Lot(l) ELSE 0
    <2>1. Lot(m) = Lot(l)
        BY SameVectorsSame
    <2> QED
        BY <2>1 DEF Due, SameVectors
<1>10. ASSUME NEW i \in DOMAIN w
       PROVE  w[i].Amount + Filled(m.fills, i) + Due(m, "sellrow", i) = t[i].Amount + Filled(l.fills, i) + 0
    <2>1. PICK x \in Int, f \in Int, n \in Nat : x = t[i].Amount /\ f = Filled(l.fills, i) /\ n = Lot(l)
        BY <1>1, <1>4, <1>5, <1>7
    <2>2. CASE i = b
        <3>1. Of(d, i) = n /\ Of(e, i) = 0 /\ Due(m, "sellrow", i) = 0 /\ w[i].Amount = x - n
            BY <1>1, <1>6, <1>7, <1>9, <2>1, <2>2 DEF Of
        <3>2. Filled(m.fills, i) = f + n + 0
            BY <1>3, <2>1, <3>1
        <3>3. (x - n) + (f + n + 0) + 0 = x + f + 0
            OBVIOUS
        <3> QED
            BY <2>1, <3>1, <3>2, <3>3, Zenon
    <2>3. CASE i = a
        <3>1. Of(d, i) = 0 /\ Of(e, i) = -n /\ Due(m, "sellrow", i) = n /\ w[i].Amount = x
            BY <1>1, <1>7, <1>9, <2>1, <2>3 DEF Of
        <3>2. Filled(m.fills, i) = f + 0 + (-n)
            BY <1>3, <2>1, <3>1
        <3>3. x + (f + 0 + (-n)) + n = x + f + 0
            OBVIOUS
        <3> QED
            BY <2>1, <3>1, <3>2, <3>3, Zenon
    <2>4. CASE i # a /\ i # b
        <3>1. Of(d, i) = 0 /\ Of(e, i) = 0 /\ Due(m, "sellrow", i) = 0 /\ w[i].Amount = x
            BY <1>7, <1>9, <2>1, <2>4 DEF Of
        <3>2. Filled(m.fills, i) = f + 0 + 0
            BY <1>3, <2>1, <3>1
        <3>3. x + (f + 0 + 0) + 0 = x + f + 0
            OBVIOUS
        <3> QED
            BY <2>1, <3>1, <3>2, <3>3, Zenon
    <2> QED
        BY <2>2, <2>3, <2>4
<1>11. Tally(m, "sellrow", w, kept)
    BY <1>2, <1>3, <1>7, <1>8, <1>9, <1>10 DEF Tally
<1> QED
    BY <1>11 DEF w, o

\* The selling row: nothing is due any more.
LEMMA TallyEnds ==
    ASSUME NEW l, NEW t, \A i \in DOMAIN t : t[i] \in OrderRow, NEW kept, Tally(l, "sellrow", t, kept),
           NEW a, a = l.selling[1].TransID, a \in DOMAIN t, t[a].Amount = l.selling[1].Amount, Lot(l) \in Nat
    PROVE  Tally(l, "findposition", Put(t, a, WithAmount(t[a], l.selling[1].Amount + Lot(l))), kept)
<1> DEFINE o == WithAmount(t[a], l.selling[1].Amount + Lot(l))
           w == Put(t, a, o)
<1>1. o.Amount = t[a].Amount + Lot(l)
    <2>1. t[a] \in OrderRow
        OBVIOUS
    <2>2. o.Amount = l.selling[1].Amount + Lot(l)
        BY <2>1, Amounts
    <2> QED
        BY <2>2
<1> HIDE DEF o
<1>2. \A i : /\ i \in DOMAIN w <=> i \in DOMAIN t
             /\ i \in DOMAIN t /\ i # a => w[i] = t[i]
             /\ w[a] = o
    BY PutRows
<1> HIDE DEF w
<1>3. \A i : Due(l, "sellrow", i) = (IF i = a THEN Lot(l) ELSE 0) /\ Due(l, "findposition", i) = 0
    BY DEF Due
<1>4. l.fills \in Seq(Fill) /\ \A i : Filled(l.fills, i) \in Int
    <2>1. <<>> \in Seq(Fill) /\ l.fills \in Seq(Fill)
        BY DEF Tally
    <2> QED
        BY <2>1, FilledJoin
<1>5. ASSUME NEW i \in DOMAIN w
      PROVE  w[i].Amount + Filled(l.fills, i) + Due(l, "findposition", i)
                 = t[i].Amount + Filled(l.fills, i) + Due(l, "sellrow", i)
    <2>1. PICK x \in Int, f \in Int, n \in Nat : x = t[i].Amount /\ f = Filled(l.fills, i) /\ n = Lot(l)
        BY <1>2, <1>4 DEF OrderRow
    <2>2. CASE i = a
        <3>1. w[i].Amount = x + n /\ Due(l, "findposition", i) = 0 /\ Due(l, "sellrow", i) = n
            BY <1>1, <1>2, <1>3, <2>1, <2>2
        <3>2. x + n + f + 0 = x + f + n
            OBVIOUS
        <3> QED
            BY <2>1, <3>1, <3>2
    <2>3. CASE i # a
        BY <1>2, <1>3, <2>3
    <2> QED
        BY <2>2, <2>3
<1>6. Tally(l, "findposition", w, kept)
    BY <1>2, <1>5 DEF Tally
<1> QED
    BY <1>6 DEF w, o

LEMMA TurnTallies ==
    ASSUME Inv, AInv, Tallies, NEW c \in Clients, UpdateBuyRow(c) \/ UpdateSellRow(c), requests' = requests
    PROVE  Tallies'
<1> DEFINE l == local[c]
           t == OwnOrders(c)
           b == l.buying[1].TransID
           a == l.selling[1].TransID
<1>1. DOMAIN l = Variables
    BY DEF Inv, LocalOK
<1>2. pc[c] \in {"loop", "sellrow"} /\ Crossing(l)
    <2>1. CASE UpdateBuyRow(c)
        BY <2>1 DEF UpdateBuyRow, CanMatch, Crossing
    <2>2. CASE UpdateSellRow(c)
        BY <2>2, OwnSeen DEF UpdateSellRow, AInv, Undisturbed, Working, StillMirrored, InTurns
    <2> QED
        BY <2>1, <2>2
<1>3. AtTurn(c)
    BY <1>2, TurnState DEF Matching, InTurns
<1>3a. /\ HeadsTrade(l, t, Rewound(l, pc[c], t)) /\ StillMirrored(l, pc[c], t)
      /\ MatchAmount(c) = Lot(l) /\ MatchPrice(c) \in Nat
    BY <1>3 DEF AtTurn
<1>4. ASSUME NEW i \in {a, b}
      PROVE  /\ i \in Nat /\ i \in DOMAIN t /\ t[i] \in OrderRow
             /\ t[i] = Seen(c)[Order(i)] /\ Belongs(t[i], AccountsOf(c), SymbolsOf(c))
    BY <1>3 DEF AtTurn
<1>5. Lot(l) \in Nat /\ a # b
    BY <1>3a DEF HeadsTrade
<1>6. \A i \in DOMAIN t : t[i] \in OrderRow
    BY OwnNumbered
<1>7. Tally(l, pc[c], t, OwnKept(c))
    BY OwnTally
<1>8. ASSUME NEW i \in {a, b}, NEW n
      PROVE  Belongs(WithAmount(t[i], n), AccountsOf(c), SymbolsOf(c))
    <2>1. PICK o : o = t[i]
        OBVIOUS
    <2>2. o \in OrderRow /\ Belongs(o, AccountsOf(c), SymbolsOf(c))
        BY <1>4, <2>1
    <2>3. SameOrder(WithAmount(o, n), o)
        BY <2>2, Amounts
    <2>4. Belongs(WithAmount(o, n), AccountsOf(c), SymbolsOf(c))
        BY <2>2, <2>3 DEF SameOrder, Belongs
    <2> QED
        BY <2>1, <2>4
<1> HIDE DEF t
<1>9. CASE UpdateBuyRow(c)
    <2> DEFINE d == [TransID |-> b, Amount |-> Lot(l), Price |-> MatchPrice(c)]
               e == [TransID |-> a, Amount |-> -Lot(l), Price |-> MatchPrice(c)]
               m == [l EXCEPT !.fills = l.fills \o <<d, e>>]
               o == WithAmount(t[b], l.buying[1].Amount - Lot(l))
    <2>1. pc[c] = "loop" /\ local' = [local EXCEPT ![c] = m] /\ requests' = requests
        <3>1. local' = [local EXCEPT ![c].fills = @ \o
                <<[TransID |-> b, Amount |-> MatchAmount(c), Price |-> MatchPrice(c)],
                  [TransID |-> a, Amount |-> -MatchAmount(c), Price |-> MatchPrice(c)]>>]
            BY <1>9 DEF UpdateBuyRow
        <3>2. local' = [local EXCEPT ![c].fills = @ \o <<d, e>>]
            BY <1>3a, <3>1, Zenon
        <3>3. local' = [local EXCEPT ![c] = m]
            BY <3>2
        <3>4. pc[c] = "loop"
            BY <1>9 DEF UpdateBuyRow
        <3> QED
            BY <3>3, <3>4
    <2>2. Write(c, Order(b), o) /\ Goto(c, "sellrow") /\ UNCHANGED <<db, executed>>
        <3>1. /\ Write(c, Order(b), [Seen(c)[Order(b)] EXCEPT !.Amount = l.buying[1].Amount - MatchAmount(c)])
              /\ Goto(c, "sellrow") /\ UNCHANGED <<db, executed>>
            BY <1>9 DEF UpdateBuyRow, UpdateRow
        <3>2. t[b] = Seen(c)[Order(b)]
            BY <1>4
        <3> QED
            BY <1>3a, <3>1, <3>2, Zenon DEF WithAmount
    <2>3. SameVectors(m, l) /\ m.fills = l.fills \o <<d, e>>
        BY <1>1 DEF SameVectors, Variables
    <2>4. d \in Fill /\ e \in Fill
        <3>1. -Lot(l) \in Int /\ Lot(l) \in Int /\ MatchPrice(c) \in Int
            BY <1>3a, <1>5
        <3>2. a \in Nat /\ b \in Nat
            BY <1>4
        <3> HIDE DEF a, b
        <3> QED
            BY <3>1, <3>2 DEF Fill
    <2>5. d.TransID = b /\ e.TransID = a /\ d.Amount = Lot(l) /\ e.Amount = -Lot(l)
        OBVIOUS
    <2> HIDE DEF m, d, e
    <2>6. Becomes(c, m)
        BY <2>1 DEF Becomes, Inv, Types
    <2>7. HeadsTrade(l, t, t)
        BY <1>3a, <2>1 DEF Rewound, InTurns
    <2>8. Tally(m, "sellrow", Put(t, b, o), OwnKept(c))
        BY <1>6, <1>7, <2>1, <2>3, <2>4, <2>5, <2>7, TallyBegins
    <2>9. Belongs(o, AccountsOf(c), SymbolsOf(c)) /\ b \in Nat
        BY <1>4, <1>8
    <2> HIDE DEF o, b
    <2> QED
        BY <2>1, <2>2, <2>6, <2>8, <2>9, OrderTallies DEF t
<1>10. CASE UpdateSellRow(c)
    <2> DEFINE o == WithAmount(t[a], l.selling[1].Amount + Lot(l))
    <2>1. pc[c] = "sellrow" /\ requests' = requests
        BY <1>10 DEF UpdateSellRow
    <2>2. Write(c, Order(a), o) /\ Goto(c, "findposition") /\ UNCHANGED <<db, executed, local>>
        <3>1. /\ Write(c, Order(a), [Seen(c)[Order(a)] EXCEPT !.Amount = l.selling[1].Amount + MatchAmount(c)])
              /\ Goto(c, "findposition") /\ UNCHANGED <<db, executed, local>>
            BY <1>10 DEF UpdateSellRow, UpdateRow
        <3>2. t[a] = Seen(c)[Order(a)]
            BY <1>4
        <3> QED
            BY <1>3a, <3>1, <3>2, Zenon DEF WithAmount
    <2>3. t[a].Amount = l.selling[1].Amount
        BY <1>3a, <2>1 DEF StillMirrored, InTurns
    <2>4. Tally(l, "findposition", Put(t, a, o), OwnKept(c))
        BY <1>4, <1>5, <1>6, <1>7, <2>1, <2>3, TallyEnds
    <2>5. Belongs(o, AccountsOf(c), SymbolsOf(c)) /\ a \in Nat
        BY <1>4, <1>8
    <2>6. Becomes(c, l)
        BY <2>2 DEF Becomes, Inv, Types
    <2> HIDE DEF o, a
    <2> QED
        BY <2>1, <2>2, <2>4, <2>5, <2>6, OrderTallies DEF t
<1> QED
    BY <1>9, <1>10
-----------------------------------------------------------------------------
(* A transaction ends                                                       *)

LEMMA CommitTallies ==
    ASSUME Inv, AInv, Apart, Tallies, NEW c \in Clients, pc[c] # "sellrow",
           EndTransaction(c, TRUE), requests' = requests
    PROVE  Tallies'
<1>1. /\ db' = Seen(c) /\ executed' = executed \o local[c].fills /\ Goto(c, "idle") /\ Becomes(c, Fresh)
      /\ tx' = [tx EXCEPT ![c] = NoRows]
    BY DEF EndTransaction, Becomes, Inv, Types
<1>2. tx'[c] = NoRows /\ \A d \in Clients \ {c} : tx'[d] = tx[d]
    BY <1>1 DEF Inv, Types
<1>3. \A d \in Clients : pc'[d] = (IF d = c THEN "idle" ELSE pc[d]) /\ local'[d] = (IF d = c THEN Fresh ELSE local[d])
    BY <1>1 DEF Goto, Becomes, Inv, Types
<1>4. \A d \in Clients : AccountsOf(d)' = AccountsOf(d) /\ SymbolsOf(d)' = SymbolsOf(d)
    BY DEF AccountsOf, SymbolsOf
<1>5. executed \in Seq(Fill) /\ local[c].fills \in Seq(Fill)
    BY OwnTally DEF Tallies, Tally
<1>6. executed' \in Seq(Fill)
    BY <1>1, <1>5
<1>7. \A k \in DOMAIN executed' : Order(executed'[k].TransID) \in DOMAIN db'
    <2> DEFINE fills == local[c].fills
    <2>1. \A k \in DOMAIN executed : Order(executed[k].TransID) \in DOMAIN db'
        BY <1>1, OverRows DEF Tallies, Seen
    <2>2. \A k \in DOMAIN fills : Order(fills[k].TransID) \in DOMAIN db'
        <3>1. \A k \in DOMAIN fills : fills[k].TransID \in DOMAIN OwnOrders(c)
            BY OwnTally DEF Tally
        <3> QED
            BY <1>1, <3>1, OwnOrder DEF Exists
    <2>3. /\ DOMAIN executed = 1 .. Len(executed) /\ DOMAIN fills = 1 .. Len(fills)
          /\ Len(executed) \in Nat /\ Len(fills) \in Nat
          /\ Len(executed') = Len(executed) + Len(fills) /\ DOMAIN executed' = 1 .. Len(executed')
          /\ \A k \in 1 .. Len(executed) : executed'[k] = executed[k]
          /\ \A k \in 1 .. Len(executed) + Len(fills) : k > Len(executed) => executed'[k] = fills[k - Len(executed)]
        BY <1>1, <1>5, <1>6
    <2> HIDE DEF fills
    <2> SUFFICES ASSUME NEW k \in DOMAIN executed'
                 PROVE  Order(executed'[k].TransID) \in DOMAIN db'
        OBVIOUS
    <2>4. CASE k \in 1 .. Len(executed)
        BY <2>1, <2>3, <2>4
    <2>5. CASE k \notin 1 .. Len(executed)
        <3>1. k - Len(executed) \in 1 .. Len(fills) /\ k > Len(executed)
            BY <2>3, <2>5
        <3> QED
            BY <2>2, <2>3, <3>1
    <2> QED
        BY <2>4, <2>5
<1>8. ASSUME NEW d \in Clients
      PROVE  Tallied(local'[d], pc'[d], tx'[d], db', AccountsOf(d), SymbolsOf(d))
    <2>1. CASE d = c
        <3>1. Table(db')
            BY <1>1, SeenTable DEF Inv
        <3>2. Fresh.fills = <<>>
            BY DEF Fresh
        <3> QED
            BY <1>2, <1>3, <2>1, <3>1, <3>2, StartTallied, AmountsOfRows
    <2>2. CASE d # c
        <3>1. Tally(local[d], pc[d], OwnOrders(d), OwnKept(d))
            BY OwnTally
        <3>2. Tallied(local[d], pc[d], tx[d], db', AccountsOf(d), SymbolsOf(d))
            BY <2>2, <3>1, OthersSee DEF Tallied, OwnKept
        <3> QED
            BY <1>2, <1>3, <2>2, <3>2
    <2> QED
        BY <2>1, <2>2
<1>9. \A d \in Clients : Tallied(local[d], pc[d], tx[d], db, AccountsOf(d), SymbolsOf(d))'
    BY <1>4, <1>8
<1> QED
    BY <1>6, <1>7, <1>9 DEF Tallies
-----------------------------------------------------------------------------
(* The other statements                                                     *)

LEMMA ReadTallies ==
    ASSUME Inv, AInv, Tallies, NEW c \in Clients, requests' = requests,
           \/ FindAccount(c) \/ FindRow(c) \/ FindSymbol(c) \/ CheckFunds(c) \/ SelectMax(c) \/ Reread(c)
           \/ SelectBuys(c) \/ SelectSells(c) \/ FindPosition(c) \/ ReadSeller(c)
           \/ ReadOrder(c) \/ ReadCancelTime(c) \/ ReadRefund(c)
    PROVE  Tallies'
<1> DEFINE l == local[c]
<1>1. pc[c] # "sellrow"
    BY DEF FindAccount, FindRow, FindSymbol, CheckFunds, SelectMax, Reread, SelectBuys, SelectSells, FindPosition,
           ReadSeller, ReadOrder, ReadCancelTime, ReadRefund
<1>2. \A x : /\ [l EXCEPT !.id = x].fills = l.fills /\ [l EXCEPT !.id = x].req = l.req
             /\ [l EXCEPT !.seen = x].fills = l.fills /\ [l EXCEPT !.seen = x].req = l.req
             /\ [l EXCEPT !.open = x].fills = l.fills /\ [l EXCEPT !.open = x].req = l.req
             /\ [l EXCEPT !.buying = x].fills = l.fills /\ [l EXCEPT !.buying = x].req = l.req
             /\ [l EXCEPT !.selling = x].fills = l.fills /\ [l EXCEPT !.selling = x].req = l.req
    <2>1. DOMAIN l = Variables
        BY DEF Inv, LocalOK
    <2> QED
        BY <2>1 DEF Variables
<1>3. ASSUME NEW m, NEW step, Keep(c, m, step), step # "sellrow", m.fills = l.fills, m.req = l.req
      PROVE  Tallies'
    BY <1>1, <1>3, KeepQuiet, QuietTallies
<1>4. CASE FindAccount(c)
    BY <1>3, <1>4, RollbackTallies DEF FindAccount
<1>5. CASE FindRow(c)
    BY <1>3, <1>5 DEF FindRow
<1>6. CASE FindSymbol(c)
    BY <1>3, <1>6 DEF FindSymbol, AfterSymbol
<1>7. CASE CheckFunds(c)
    BY <1>3, <1>7, RollbackTallies DEF CheckFunds
<1>8. CASE SelectMax(c)
    BY <1>2, <1>3, <1>8 DEF SelectMax
<1>9. CASE Reread(c)
    BY <1>2, <1>3, <1>9 DEF Reread
<1>10. CASE SelectBuys(c)
    BY <1>2, <1>3, <1>10 DEF SelectBuys
<1>11. CASE SelectSells(c)
    BY <1>2, <1>3, <1>11 DEF SelectSells
<1>12. CASE FindPosition(c)
    BY <1>3, <1>12 DEF FindPosition
<1>13. CASE ReadSeller(c)
    BY <1>2, <1>3, <1>13 DEF ReadSeller
<1>14. CASE ReadOrder(c)
    BY <1>2, <1>3, <1>14 DEF ReadOrder
<1>15. CASE ReadCancelTime(c)
    BY <1>3, <1>15, RollbackTallies DEF ReadCancelTime
<1>16. CASE ReadRefund(c)
    BY <1>2, <1>3, <1>16 DEF ReadRefund
<1> QED
    BY <1>4, <1>5, <1>6, <1>7, <1>8, <1>9, <1>10, <1>11, <1>12, <1>13, <1>14, <1>15, <1>16

LEMMA WriteTallies ==
    ASSUME Inv, AInv, Tallies, up', NEW c \in Clients, requests' = requests,
           \/ NewAccount(c) \/ AddRow(c) \/ NewRow(c) \/ NewSymbol(c) \/ Charge(c)
           \/ AddPosition(c) \/ NewPosition(c) \/ PaySeller(c) \/ Refund(c)
    PROVE  Tallies'
<1> DEFINE l == local[c]
<1>1. pc[c] # "sellrow"
    BY DEF NewAccount, AddRow, NewRow, NewSymbol, Charge, AddPosition, NewPosition, PaySeller, Refund
<1>2. ASSUME NEW k, NEW v, NEW step, InsertRow(c, k, v, step), \A i : k # Order(i), step # "sellrow"
      PROVE  Tallies'
    BY <1>1, <1>2, InsertQuiet, QuietTallies
<1>3. ASSUME NEW k, NEW v, NEW m, NEW step, UpdateRow(c, k, v, step), \A i : k # Order(i), Becomes(c, m),
             step # "sellrow", m.fills = l.fills, m.req = l.req
      PROVE  Tallies'
    BY <1>1, <1>3, UpdateQuiet, QuietTallies
<1>4. local' = local => Becomes(c, l)
    BY DEF Becomes, Inv, Types
<1>5. \A i, a, s : Balance(a) # Order(i) /\ Symbol(s) # Order(i) /\ Position(a, s) # Order(i)
    BY KeysApart
<1>6. CASE NewAccount(c)
    BY <1>2, <1>5, <1>6 DEF NewAccount
<1>7. CASE AddRow(c)
    BY <1>3, <1>4, <1>5, <1>7 DEF AddRow
<1>8. CASE NewRow(c)
    BY <1>2, <1>5, <1>8 DEF NewRow
<1>9. CASE NewSymbol(c)
    <2>1. AfterSymbol(c) # "sellrow"
        BY DEF AfterSymbol
    <2> QED
        BY <1>2, <1>5, <1>9, <2>1 DEF NewSymbol
<1>10. CASE Charge(c)
    BY <1>3, <1>4, <1>5, <1>10 DEF Charge, Source
<1>11. CASE AddPosition(c)
    BY <1>3, <1>4, <1>5, <1>11 DEF AddPosition, BuyerPosition
<1>12. CASE NewPosition(c)
    BY <1>2, <1>5, <1>12 DEF NewPosition, BuyerPosition
<1>13. CASE PaySeller(c)
    <2> DEFINE m == [l EXCEPT !.buying = AfterMatch(@, MatchAmount(c)), !.selling = AfterMatch(@, -MatchAmount(c))]
    <2>1. DOMAIN l = Variables
        BY DEF Inv, LocalOK
    <2>2. m.fills = l.fills /\ m.req = l.req
        BY <2>1 DEF Variables
    <2>3. local' = [local EXCEPT ![c] = m]
        BY <1>13 DEF PaySeller
    <2> HIDE DEF m
    <2>4. Becomes(c, m)
        BY <2>3 DEF Becomes, Inv, Types
    <2> QED
        BY <1>3, <1>5, <1>13, <2>2, <2>4 DEF PaySeller, SellerBalance
<1>14. CASE Refund(c)
    <2>1. \A i : RefundRow(c) # Order(i)
        BY <1>5 DEF RefundRow
    <2> QED
        BY <1>3, <1>4, <1>14, <2>1 DEF Refund
<1> QED
    BY <1>6, <1>7, <1>8, <1>9, <1>10, <1>11, <1>12, <1>13, <1>14
-----------------------------------------------------------------------------
(* The tallies of clients that are apart                                    *)

LEMMA StartTallies == Init => Tallies
<1> SUFFICES ASSUME Init
             PROVE  Tallies
    OBVIOUS
<1>1. \A i : Order(i) \notin DOMAIN db
    BY ExchangeSqlAssumption, KeysDiffer DEF Init
<1>2. ASSUME NEW c \in Clients
      PROVE  Tallied(local[c], pc[c], tx[c], db, AccountsOf(c), SymbolsOf(c))
    <2>1. local[c] = Fresh /\ pc[c] = "idle" /\ tx[c] = NoRows /\ Fresh.fills = <<>>
        BY DEF Init, Fresh
    <2> QED
        BY <1>1, <2>1, StartTallied
<1>3. executed = <<>>
    BY DEF Init
<1> QED
    BY <1>2, <1>3 DEF Tallies

LEMMA TalliesKeep ==
    ASSUME Inv, AInv, Apart, Tallies, [Next]_vars
    PROVE  Tallies'
<1>1. CASE UNCHANGED vars
    <2>1. \A d \in Clients : AccountsOf(d)' = AccountsOf(d) /\ SymbolsOf(d)' = SymbolsOf(d)
        BY <1>1 DEF AccountsOf, SymbolsOf, vars
    <2>2. \A d \in Clients : Tallied(local'[d], pc'[d], tx'[d], db', AccountsOf(d), SymbolsOf(d))
        BY <1>1 DEF Tallies, vars
    <2>3. \A d \in Clients : Tallied(local[d], pc[d], tx[d], db, AccountsOf(d), SymbolsOf(d))'
        BY <2>1, <2>2
    <2> QED
        BY <1>1, <2>3 DEF Tallies, vars
<1>2. CASE DeadlockDetected
    BY <1>2, NobodyWaits DEF DeadlockDetected
<1>3. CASE \E c \in Clients : Receive(c)
    BY <1>3, ReceiveTallies
<1>4. ASSUME NEW c \in Clients, Handler(c)
      PROVE  Tallies'
    <2>1. requests' = requests /\ Statement(c)
        BY <1>4 DEF Handler
    <2>2. up'
        BY ApartKeeps DEF AInv
    <2>3. CASE \/ FindAccount(c) \/ FindRow(c) \/ FindSymbol(c) \/ CheckFunds(c) \/ SelectMax(c) \/ Reread(c)
               \/ SelectBuys(c) \/ SelectSells(c) \/ FindPosition(c) \/ ReadSeller(c)
               \/ ReadOrder(c) \/ ReadCancelTime(c) \/ ReadRefund(c)
        BY <2>1, <2>3, ReadTallies
    <2>4. CASE \/ NewAccount(c) \/ AddRow(c) \/ NewRow(c) \/ NewSymbol(c) \/ Charge(c)
               \/ AddPosition(c) \/ NewPosition(c) \/ PaySeller(c) \/ Refund(c)
        BY <2>1, <2>2, <2>4, WriteTallies
    <2>5. CASE InsertOrder(c)
        BY <2>1, <2>5, InsertTallies
    <2>6. CASE SetCancelTime(c)
        BY <2>1, <2>6, CancelTallies
    <2>7. CASE UpdateBuyRow(c) \/ UpdateSellRow(c)
        BY <2>1, <2>7, TurnTallies
    <2>8. CASE CommitCreate(c) \/ CommitOrder(c)
        <3>1. pc[c] # "sellrow" /\ EndTransaction(c, TRUE)
            BY <2>8 DEF CommitCreate, CommitOrder
        <3> QED
            BY <2>1, <3>1, CommitTallies
    <2> QED
        BY <2>1, <2>3, <2>4, <2>5, <2>6, <2>7, <2>8 DEF Statement
<1> QED
    BY <1>1, <1>2, <1>3, <1>4 DEF Next

LEMMA TalliesInvariant == Spec => [](Inv /\ (Apart => AInv /\ Tallies))
<1>1. Init => (Apart => Tallies)
    BY StartTallies
<1>2. Inv /\ (Apart => AInv /\ Tallies) /\ [Next]_vars => (Apart => Tallies)'
    BY TalliesKeep, StillApart
<1>3. Spec => [](Apart => Tallies)
    <2>1. Inv /\ (Apart => AInv) /\ (Apart => Tallies) /\ [Next]_vars => (Apart => Tallies)'
        BY <1>2
    <2> QED
        BY <1>1, <2>1, ApartInvariant, PTL DEF Spec
<1> QED
    BY <1>3, ApartInvariant, PTL
-----------------------------------------------------------------------------
(* What a commit shows                                                      *)

\* A statement that commits nothing.
NoCommit(c) == (Terminate \/ \E step : Goto(c, step)) /\ UNCHANGED <<db, executed>>

LEMMA NoCommitSteps ==
    ASSUME NEW c \in Clients
    PROVE  /\ \A l, step : Keep(c, l, step) => NoCommit(c)
           /\ \A k, v, step : UpdateRow(c, k, v, step) => NoCommit(c)
           /\ \A k, v, step : InsertRow(c, k, v, step) => NoCommit(c)
           /\ EndTransaction(c, FALSE) => NoCommit(c)
<1>1. \A l, step : Keep(c, l, step) => NoCommit(c)
    BY DEF Keep, NoCommit
<1>2. \A k, v, step : UpdateRow(c, k, v, step) => NoCommit(c)
    BY DEF UpdateRow, NoCommit
<1>3. \A k, v, step : InsertRow(c, k, v, step) => NoCommit(c)
    BY DEF InsertRow, Terminate, NoCommit
<1>4. EndTransaction(c, FALSE) => NoCommit(c)
    BY DEF EndTransaction, NoCommit
<1> QED
    BY <1>1, <1>2, <1>3, <1>4

LEMMA StatementCommits ==
    ASSUME NEW c \in Clients, Statement(c)
    PROVE  CommitCreate(c) \/ CommitOrder(c) \/ (pc[c] # "commit" /\ NoCommit(c))
<1>1. CASE FindAccount(c) \/ NewAccount(c) \/ FindRow(c) \/ AddRow(c) \/ NewRow(c) \/ FindSymbol(c) \/ NewSymbol(c)
    <2>1. pc[c] # "commit"
        BY <1>1 DEF FindAccount, NewAccount, FindRow, AddRow, NewRow, FindSymbol, NewSymbol
    <2> QED
        BY <1>1, <2>1, NoCommitSteps, Zenon DEF FindAccount, NewAccount, FindRow, AddRow, NewRow, FindSymbol, NewSymbol
<1>2. CASE CheckFunds(c) \/ InsertOrder(c) \/ SelectMax(c) \/ Reread(c) \/ Charge(c) \/ SelectBuys(c) \/ SelectSells(c)
    <2>1. pc[c] # "commit"
        BY <1>2 DEF CheckFunds, InsertOrder, SelectMax, Reread, Charge, SelectBuys, SelectSells
    <2> QED
        BY <1>2, <2>1, NoCommitSteps, Zenon DEF CheckFunds, InsertOrder, SelectMax, Reread, Charge, SelectBuys, SelectSells
<1>3. CASE UpdateBuyRow(c) \/ UpdateSellRow(c) \/ FindPosition(c) \/ AddPosition(c) \/ NewPosition(c) \/ ReadSeller(c)
           \/ PaySeller(c)
    <2>1. pc[c] # "commit"
        BY <1>3 DEF UpdateBuyRow, UpdateSellRow, FindPosition, AddPosition, NewPosition, ReadSeller, PaySeller
    <2> QED
        BY <1>3, <2>1, NoCommitSteps, Zenon
           DEF UpdateBuyRow, UpdateSellRow, FindPosition, AddPosition, NewPosition, ReadSeller, PaySeller
<1>4. CASE ReadOrder(c) \/ ReadCancelTime(c) \/ SetCancelTime(c) \/ ReadRefund(c) \/ Refund(c)
    <2>1. pc[c] # "commit"
        BY <1>4 DEF ReadOrder, ReadCancelTime, SetCancelTime, ReadRefund, Refund
    <2> QED
        BY <1>4, <2>1, NoCommitSteps, Zenon DEF ReadOrder, ReadCancelTime, SetCancelTime, ReadRefund, Refund
<1> QED
    BY <1>1, <1>2, <1>3, <1>4 DEF Statement

\* An order that is not touched is counted as before.
LEMMA NoCommitKeepsSums ==
    ASSUME Inv, UNCHANGED <<db, executed>>, NEW i \in OrderIds'
    PROVE  OrderKeepsSum(i)
<1>1. Order(i) \in DOMAIN db
    BY DEF OrderIds
<1>2. i \in OrderIds
    BY <1>1, OrderKeys DEF OrderIds, Inv, Types, Table
<1> QED
    BY <1>2 DEF OrderKeepsSum, Asked

\* A commit adds to the table of EXECUTED what its orders lost.
LEMMA CommitKeepsSums ==
    ASSUME Inv, AInv, Apart, Tallies, NEW c \in Clients, pc[c] # "sellrow", EndTransaction(c, TRUE),
           NEW i \in OrderIds'
    PROVE  OrderKeepsSum(i)
<1> DEFINE t == OwnOrders(c)
           kept == OwnKept(c)
           fills == local[c].fills
           x == Filled(executed, i)
           y == Filled(fills, i)
<1>1. db' = Seen(c) /\ executed' = executed \o fills /\ serial' = serial
    BY DEF EndTransaction
<1>2. i \in 1 .. serial /\ i \in Nat /\ Order(i) \in DOMAIN Seen(c)
    BY <1>1 DEF OrderIds
<1>3. executed \in Seq(Fill) /\ fills \in Seq(Fill)
    BY OwnTally DEF Tallies, Tally
<1>4. x \in Int /\ y \in Int /\ Filled(executed', i) = x + y
    BY <1>1, <1>3, FilledJoin
<1>5. Asked(i)' = Seen(c)[Order(i)].Amount + (x + y)
    BY <1>1, <1>4 DEF Asked
<1>6. /\ \A k \in DOMAIN fills : fills[k].TransID \in DOMAIN t
      /\ i \in DOMAIN t => t[i].Amount + y + 0 = IF i \in DOMAIN kept THEN kept[i].Amount ELSE local[c].req.amount
    BY OwnTally DEF Tally, Due
<1>7. Wrote(local[c], pc[c], tx[c], db, AccountsOf(c), SymbolsOf(c))
    BY DEF AInv, Undisturbed
<1>8. \A j : Order(j) \in DOMAIN db => db[Order(j)].Amount \in Int
    BY AmountsOfRows DEF Inv, Types
<1>9. \A j : Order(j) \in DOMAIN Seen(c) => Seen(c)[Order(j)].Amount \in Int
    BY AmountsOfRows, SeenTable DEF Inv
<1> HIDE DEF t, kept, fills, x, y
<1>10. CASE i \in DOMAIN t
    <2>1. t[i] = Seen(c)[Order(i)] /\ Belongs(t[i], AccountsOf(c), SymbolsOf(c))
        BY <1>10, OwnOrder DEF t
    <2>2. CASE Order(i) \in DOMAIN db
        <3>1. Belongs(db[Order(i)], AccountsOf(c), SymbolsOf(c))
            BY <1>2, <1>7, <2>1, <2>2, OverRows DEF Wrote, Seen
        <3>2. i \in DOMAIN kept /\ kept[i] = db[Order(i)]
            BY <1>2, <2>2, <3>1 DEF kept, OwnKept, Book
        <3>3. Asked(i) = db[Order(i)].Amount + x /\ i \in OrderIds
            BY <1>2, <2>2 DEF Asked, OrderIds, x
        <3>4. Seen(c)[Order(i)].Amount + y = db[Order(i)].Amount
            BY <1>2, <1>4, <1>6, <1>9, <1>10, <2>1, <3>2
        <3>5. Asked(i)' = Asked(i)
            BY <1>2, <1>4, <1>5, <1>8, <1>9, <2>2, <3>3, <3>4
        <3> QED
            BY <3>3, <3>5 DEF OrderKeepsSum
    <2>3. CASE Order(i) \notin DOMAIN db
        <3>1. i \notin DOMAIN kept /\ i \notin OrderIds
            BY <2>3 DEF kept, OwnKept, Book, OrderIds
        <3>2. x = 0
            <4>1. \A k \in DOMAIN executed : executed[k].TransID # i
                BY <2>3 DEF Tallies
            <4> QED
                BY <1>3, <4>1, FilledNot DEF x
        <3>3. Request(i) = local[c].req.amount
            <4>1. Order(i) \in DOMAIN tx[c]
                BY <1>2, <2>3, OverRows DEF Seen
            <4>2. \A d \in Clients : Order(i) \in DOMAIN tx[d] => d = c
                BY <4>1 DEF Inv, Locks
            <4>3. (CHOOSE d \in Clients : Order(i) \in DOMAIN tx[d]) = c
                BY <4>1, <4>2
            <4> QED
                BY <4>3 DEF Request
        <3>4. Seen(c)[Order(i)].Amount + y = local[c].req.amount
            BY <1>2, <1>4, <1>6, <1>9, <1>10, <2>1, <3>1
        <3>5. Asked(i)' = Request(i)
            BY <1>2, <1>4, <1>5, <1>9, <3>2, <3>3, <3>4
        <3> QED
            BY <3>1, <3>5 DEF OrderKeepsSum
    <2> QED
        BY <2>2, <2>3
<1>11. CASE i \notin DOMAIN t
    <2>1. y = 0
        BY <1>3, <1>6, <1>11, FilledNot DEF y
    <2>2. Order(i) \notin DOMAIN tx[c]
        <3>1. Order(i) \in DOMAIN tx[c] => Belongs(Seen(c)[Order(i)], AccountsOf(c), SymbolsOf(c))
            BY <1>2, <1>7, OverRows DEF Wrote, Seen
        <3> QED
            BY <1>2, <1>11, <3>1 DEF t, OwnOrders, Book
    <2>3. Order(i) \in DOMAIN db /\ Seen(c)[Order(i)] = db[Order(i)]
        BY <1>2, <2>2, OverRows DEF Seen
    <2>4. Asked(i) = db[Order(i)].Amount + x /\ i \in OrderIds
        BY <1>2, <2>3 DEF Asked, OrderIds, x
    <2>5. Asked(i)' = Asked(i)
        BY <1>4, <1>5, <2>1, <2>3, <2>4
    <2> QED
        BY <2>4, <2>5 DEF OrderKeepsSum
<1> QED
    BY <1>10, <1>11

\* What a cancellation gave back is what the order has open when it commits.
LEMMA CommitCancels ==
    ASSUME AInv, NEW c \in Clients, CommitCreate(c), local[c].req.kind = "cancel"
    PROVE  db'[Order(local[c].id)].Amount = local[c].open
<1>1. pc[c] = "commit" /\ db' = Seen(c)
    BY DEF CommitCreate, EndTransaction
<1>2. local[c].id \in DOMAIN OwnOrders(c) /\ local[c].open = OwnOrders(c)[local[c].id].Amount
    BY <1>1, OwnSeen DEF AInv, Undisturbed, Working, StillOpen
<1> QED
    BY <1>1, <1>2, OwnOrder

\* Every order of clients that have no account and no symbol in common has open what it asked for less what
\* was executed of it, and a cancellation gives back what was open (cancel_order and matchOrders read an
\* order's Amount and write later).
THEOREM ApartKept == Spec => OrdersKeptApart
<1> DEFINE Kept ==
              Apart =>
                /\ \A i \in OrderIds' : OrderKeepsSum(i)
                /\ \A c \in Clients :
                       (pc[c] = "commit" /\ pc'[c] = "idle" /\ local[c].req.kind = "cancel") =>
                           db'[Order(local[c].id)].Amount = local[c].open
<1>1. Inv /\ (Apart => AInv /\ Tallies) /\ [Next]_vars => [Kept]_vars
    <2> SUFFICES ASSUME Inv, AInv, Tallies, Apart, Next
                 PROVE  /\ \A i \in OrderIds' : OrderKeepsSum(i)
                        /\ \A c \in Clients :
                               (pc[c] = "commit" /\ pc'[c] = "idle" /\ local[c].req.kind = "cancel") =>
                                   db'[Order(local[c].id)].Amount = local[c].open
        OBVIOUS
    <2>1. PICK c \in Clients : Receive(c) \/ Statement(c)
        BY NobodyWaits DEF Next, Handler, DeadlockDetected
    <2>2. \/ CommitCreate(c) \/ CommitOrder(c)
          \/ NoCommit(c) /\ pc[c] # "commit"
        BY <2>1, StatementCommits, NoCommitSteps, Zenon DEF Receive
    <2>3. ASSUME NEW i \in OrderIds'
          PROVE  OrderKeepsSum(i)
        <3>1. CASE NoCommit(c)
            BY <3>1, NoCommitKeepsSums DEF NoCommit
        <3>2. CASE CommitCreate(c) \/ CommitOrder(c)
            BY <3>2, CommitKeepsSums DEF CommitCreate, CommitOrder
        <3> QED
            BY <2>2, <3>1, <3>2
    <2>4. ASSUME NEW d \in Clients, pc[d] = "commit", pc'[d] = "idle", local[d].req.kind = "cancel"
          PROVE  db'[Order(local[d].id)].Amount = local[d].open
        <3>1. Terminate \/ \E step : Goto(c, step)
            BY <2>2 DEF NoCommit, CommitCreate, CommitOrder, EndTransaction
        <3>2. d = c
            BY <2>4, <3>1 DEF Terminate, Goto, Inv, Types
        <3>3. CommitCreate(c)
            BY <2>2, <2>4, <3>2 DEF CommitOrder
        <3> QED
            BY <2>4, <3>2, <3>3, CommitCancels
    <2> QED
        BY <2>3, <2>4
<1> QED
    BY <1>1, TalliesInvariant, PTL DEF Spec, OrdersKeptApart, Kept
-----------------------------------------------------------------------------
(* A client alone gets Exchange: what his handler has made of the ledger     *)

\* There is one client, and he finds no rows.
Lone == (\E c : Clients = {c}) /\ \A course \in Courses : course.opening = NoRows

\* The rows without those of SYMBOL, of which Exchange does not speak.
SymbolKeys == {Symbol(s) : s \in Symbols}
Ledger(rows) == [k \in DOMAIN rows \ SymbolKeys |-> rows[k]]
Num(rows, k) == IF k \in DOMAIN rows THEN rows[k] ELSE 0

\* What create_TRANSACTION inserts, and what cancel_order writes and gives back.
Placed(r) == [OrderTime |-> 0, AccountID |-> r.id, SymbolName |-> r.sym, Amount |-> r.amount,
              PriceLimit |-> r.limit, CancelTime |-> NOTCANCELLED]

Cancelled(o) == [o EXCEPT !.CancelTime = CANCELLED]
RefundOf(o, open) == IF open < 0 THEN -open ELSE open * o.PriceLimit
RowOf(r) == Position(r.id, r.sym)

Untouched == Looking \cup {"idle", "newaccount", "findrow", "addrow", "newrow", "findsymbol", "newsymbol",
                           "insert", "setcancel"}

Booking == {"selectmax", "reread", "charge"}
Granting == {"findrow", "addrow", "findsymbol", "newsymbol", "newrow", "commit"}
Refunding == {"readrefund", "refund", "commit"}

\* What the handler has made of the ledger that was kept before, n being the last TransID, up to the loop.
Draft(l, step, seen, kept, n) ==
    LET r == l.req
        i == Order(l.id)
    IN  /\ step \in Untouched => seen = kept
        /\ step \in Booking => seen = Put(kept, Order(n), Placed(r))
        /\ step \in Fetching => seen = Put(Put(kept, Order(n), Placed(r)), Source(r), kept[Source(r)] - Reserve(r))
        /\ step = "commit" /\ r.kind = "account" =>
              seen = Put(kept, Balance(r.id), r.amount) /\ Balance(r.id) \notin DOMAIN kept
        /\ step = "commit" /\ r.kind = "position" => seen = Put(kept, RowOf(r), Num(kept, RowOf(r)) + r.amount)
        /\ step \in {"readrefund", "refund"} => seen = Put(kept, i, Cancelled(kept[i]))
        /\ step = "commit" /\ r.kind = "cancel" =>
              seen = Put(Put(kept, i, Cancelled(kept[i])), RefundTo(kept[i], l.open),
                         kept[RefundTo(kept[i], l.open)] + RefundOf(kept[i], l.open))

\* What was checked of the ledger before it was changed; orders are numbered without a gap.
Checked(l, step, seen, kept, n) ==
    LET r == l.req
        i == Order(l.id)
    IN  /\ \A j \in 1 .. n : Order(j) \in DOMAIN seen
        /\ step \in Granting /\ r.kind = "position" => Num(kept, RowOf(r)) + r.amount =< MaxShares
        /\ step \in {"check", "findsymbol", "newsymbol", "insert"} /\ r.kind = "order" => n < MaxOrders
        /\ step \in Booking \cup Fetching =>
              /\ n > 0 /\ n - 1 < MaxOrders /\ Order(n) \notin DOMAIN kept
              /\ Balance(r.id) \in DOMAIN kept
              /\ Source(r) \in DOMAIN kept /\ kept[Source(r)] >= Reserve(r)
        /\ step \in Refunding /\ r.kind = "cancel" =>
              /\ l.id \in 1 .. n /\ i \in DOMAIN kept /\ kept[i].CancelTime = NOTCANCELLED
              /\ kept[i].Amount = l.open /\ l.open # 0
              /\ RefundTo(kept[i], l.open) \in DOMAIN kept

Drafted(l, step, seen, kept, n) == Draft(l, step, seen, kept, n) /\ Checked(l, step, seen, kept, n)

TurnPrice(l) ==
    IF l.buying[1].OrderTime =< l.selling[1].OrderTime THEN l.buying[1].PriceLimit ELSE l.selling[1].PriceLimit

TurnFills(l) == <<[TransID |-> l.buying[1].TransID, Amount |-> Lot(l), Price |-> TurnPrice(l)],
                  [TransID |-> l.selling[1].TransID, Amount |-> -Lot(l), Price |-> TurnPrice(l)]>>

\* The buyer's position, which a turn has written when it comes to the seller.
Bought(l) == Position(l.buying[1].AccountID, l.req.sym)
Selling == {"readseller", "payseller"}

\* What the handler of the only client has made of the ledger and of its vectors, statement by statement.
LInv(c) ==
    /\ \A r \in requests[c] : r \in Asks(r.kind)
    /\ Drafted(local[c], pc[c], Ledger(Seen(c)), Ledger(db), serial)
    /\ pc[c] = "selectsells" => local[c].buying \in Vectors(c, local[c].req.sym, 1)
    /\ pc[c] \in InTurns => \E old \in Seq(Fill) : local[c].fills = old \o TurnFills(local[c])
    /\ pc[c] \notin Matching => local[c].fills = <<>>
    /\ pc[c] \in Selling => Bought(local[c]) \in DOMAIN Seen(c)

\* The ledger has the rows that are not of SYMBOL.
LEMMA LedgerRows ==
    \A f, k : /\ k \in DOMAIN Ledger(f) <=> k \in DOMAIN f /\ k \notin SymbolKeys
              /\ k \in DOMAIN Ledger(f) => Ledger(f)[k] = f[k]
BY DEF Ledger

LEMMA LedgerIs ==
    ASSUME NEW f, NEW g, g = [k \in DOMAIN g |-> g[k]],
           \A k : k \in DOMAIN g <=> k \in DOMAIN f /\ k \notin SymbolKeys,
           \A k \in DOMAIN g : g[k] = f[k]
    PROVE  Ledger(f) = g
<1>1. DOMAIN g = DOMAIN f \ SymbolKeys
    OBVIOUS
<1> QED
    BY <1>1 DEF Ledger

\* A row of SYMBOL leaves the ledger, another row is written to it.
LEMMA LedgerPut ==
    ASSUME NEW f, NEW k, NEW v
    PROVE  /\ k \in SymbolKeys => Ledger(Put(f, k, v)) = Ledger(f)
           /\ k \notin SymbolKeys => Ledger(Put(f, k, v)) = Put(Ledger(f), k, v)
<1> DEFINE h == Put(f, k, v)
<1>1. \A n : /\ n \in DOMAIN h <=> (n \in DOMAIN f \/ n = k)
             /\ h[k] = v
             /\ n \in DOMAIN f /\ n # k => h[n] = f[n]
    BY PutRows
<1> HIDE DEF h
<1>2. CASE k \in SymbolKeys
    <2>1. Ledger(f) = [n \in DOMAIN Ledger(f) |-> Ledger(f)[n]]
        BY DEF Ledger
    <2>2. \A n : n \in DOMAIN Ledger(f) <=> n \in DOMAIN h /\ n \notin SymbolKeys
        BY <1>1, <1>2, LedgerRows
    <2>3. \A n \in DOMAIN Ledger(f) : Ledger(f)[n] = h[n]
        BY <1>1, <1>2, LedgerRows
    <2> QED
        BY <1>2, <2>1, <2>2, <2>3, LedgerIs DEF h
<1>3. CASE k \notin SymbolKeys
    <2> DEFINE g == Ledger(h)
    <2>1. g = [n \in DOMAIN g |-> g[n]]
        BY DEF Ledger
    <2>2. \A n : n \in DOMAIN g <=> n \in DOMAIN Ledger(f) \/ n = k
        BY <1>1, <1>3, LedgerRows
    <2>3. g[k] = v /\ \A n \in DOMAIN Ledger(f) \ {k} : g[n] = Ledger(f)[n]
        BY <1>1, <1>3, <2>2, LedgerRows
    <2> HIDE DEF g
    <2>4. g = Put(Ledger(f), k, v)
        BY <2>1, <2>2, <2>3, PutSame
    <2> QED
        BY <1>3, <2>4 DEF g, h
<1> QED
    BY <1>2, <1>3

LEMMA NoSymbolKeys ==
    /\ \A a : Balance(a) \notin SymbolKeys
    /\ \A a, s : Position(a, s) \notin SymbolKeys
    /\ \A i : Order(i) \notin SymbolKeys
    /\ \A s \in Symbols : Symbol(s) \in SymbolKeys
BY KeysDiffer DEF SymbolKeys

\* After a commit a client sees what it saw before.
LEMMA LedgerOver ==
    ASSUME NEW f
    PROVE  Ledger(Over(NoRows, f)) = Ledger(f)
<1>1. DOMAIN Over(NoRows, f) = DOMAIN f
    BY NoRow DEF Over
<1>3. \A k \in DOMAIN f : Over(NoRows, f)[k] = f[k]
    BY NoRow, OverRows
<1>2. Ledger(f) = [k \in DOMAIN Ledger(f) |-> Ledger(f)[k]]
    BY DEF Ledger
<1> QED
    BY <1>1, <1>2, <1>3, LedgerIs, LedgerRows
-----------------------------------------------------------------------------
(* His statements keep to it                                                *)

\* Statements that only read, and the steps after which a draft is as it was.
ReadStep(l, step, m, next) ==
    \/ step = "findaccount" /\ next = "newaccount"
    \/ step = "findrow" /\ next \in {"addrow", "findsymbol"} /\ l.req.kind = "position"
    \/ step = "findsymbol" /\ next \in {"newsymbol", "newrow", "insert"}
    \/ step = "newsymbol" /\ next \in {"newrow", "insert"}
    \/ step = "check" /\ next = "findsymbol" /\ l.req.kind = "order"
    \/ step \in Booking /\ next \in Booking
    \/ step = "selectbuys" /\ next = "selectsells"
    \/ step \in Matching \cup {"selectsells"} /\ next \in Matching
    \/ step = "readorder" /\ next = "readcancel"
    \/ step = "readcancel" /\ next = "setcancel"
    \/ step = "readrefund" /\ next = "refund" /\ m.id = l.id /\ m.open = l.open

\* A statement that only reads leaves the draft, and what was checked of it.
LEMMA DraftRead ==
    ASSUME NEW l, NEW step, NEW seen, NEW kept, NEW n, Drafted(l, step, seen, kept, n),
           NEW m, m.req = l.req, NEW next, ReadStep(l, step, m, next)
    PROVE  Drafted(m, next, seen, kept, n)
<1> USE DEF Drafted
<1>1. Draft(m, next, seen, kept, n)
    BY DEF Draft, ReadStep, Untouched, Looking, Booking, Fetching, Matching, InTurns
<1>2. Checked(m, next, seen, kept, n)
    <2> DEFINE r == l.req
    <2>1. \A j \in 1 .. n : Order(j) \in DOMAIN seen
        BY DEF Checked
    <2>2. next \in Granting /\ r.kind = "position" => Num(kept, RowOf(r)) + r.amount =< MaxShares
        BY DEF Checked, ReadStep, Granting, Booking, Matching, InTurns
    <2>3. next \in {"check", "findsymbol", "newsymbol", "insert"} /\ r.kind = "order" => n < MaxOrders
        <3>1. next \in {"check", "findsymbol", "newsymbol", "insert"} /\ r.kind = "order" =>
                  step \in {"check", "findsymbol", "newsymbol"}
            BY DEF ReadStep, Booking, Matching, InTurns
        <3> QED
            BY <3>1 DEF Checked
    <2>4. next \in Booking \cup Fetching =>
              /\ n > 0 /\ n - 1 < MaxOrders /\ Order(n) \notin DOMAIN kept
              /\ Balance(r.id) \in DOMAIN kept
              /\ Source(r) \in DOMAIN kept /\ kept[Source(r)] >= Reserve(r)
        <3>1. next \in Booking \cup Fetching => step \in Booking \cup Fetching
            BY DEF ReadStep, Booking, Fetching, Matching, InTurns
        <3> QED
            BY <3>1 DEF Checked
    <2>5. next \in Refunding => step = "readrefund" /\ m.id = l.id /\ m.open = l.open
        BY DEF ReadStep, Booking, Matching, InTurns, Refunding
    <2> QED
        BY <2>1, <2>2, <2>3, <2>4, <2>5 DEF Checked, Refunding
<1> QED
    BY <1>1, <1>2

\* In the loop only the numbers of the orders matter.
LEMMA DraftGrows ==
    ASSUME NEW l, NEW step, NEW seen, NEW kept, NEW n, Drafted(l, step, seen, kept, n),
           NEW m, NEW next \in Matching, NEW more, DOMAIN seen \subseteq DOMAIN more
    PROVE  Drafted(m, next, more, kept, n)
BY DEF Drafted, Draft, Checked, Untouched, Looking, Booking, Fetching, Granting, Matching, InTurns, Refunding

\* A transaction that has ended has made nothing of the ledger.
LEMMA DraftIdle ==
    ASSUME NEW l, NEW step, NEW seen, NEW kept, NEW n, Drafted(l, step, seen, kept, n)
    PROVE  Drafted(Fresh, "idle", seen, seen, n)
BY DEF Drafted, Draft, Checked, Untouched, Looking, Booking, Fetching, Granting, Refunding

\* A turn's executions depend on the vectors alone.
LEMMA TurnFillsSame ==
    ASSUME NEW l, NEW m, SameVectors(m, l)
    PROVE  TurnFills(m) = TurnFills(l)
BY DEF SameVectors, TurnFills, TurnPrice, Lot

\* A SELECT.
LEMMA KeepAlone ==
    ASSUME Inv, NEW c \in Clients, LInv(c), NEW m, NEW next, Keep(c, m, next), requests' = requests,
           m.req = local[c].req, ReadStep(local[c], pc[c], m, next),
           next = "selectsells" => m.buying \in Vectors(c, m.req.sym, 1),
           next \in InTurns => pc[c] \in InTurns /\ SameVectors(m, local[c]),
           next \notin Matching \/ next \in InTurns => m.fills = local[c].fills, next \in Selling => pc[c] \in Selling
    PROVE  LInv(c)'
<1>1. pc'[c] = next /\ local'[c] = m /\ UNCHANGED <<db, serial, tx>>
    BY DEF Keep, Goto, Inv, Types
<1>2. Seen(c)' = Seen(c)
    BY <1>1 DEF Seen
<1>3. Drafted(m, next, Ledger(Seen(c)), Ledger(db), serial)
    BY DraftRead DEF LInv
<1>4. Drafted(local[c], pc[c], Ledger(Seen(c)), Ledger(db), serial)'
    BY <1>1, <1>2, <1>3
<1>5. (\A r \in requests[c] : r \in Asks(r.kind))'
    BY DEF LInv
<1>6. next = "selectsells" => (local[c].buying \in Vectors(c, local[c].req.sym, 1))'
    <2>1. \A t : Vectors(c, t, 1)' = Vectors(c, t, 1)
        BY <1>1, <1>2 DEF Vectors, ActiveIds, Exists
    <2> QED
        BY <1>1, <2>1
<1>7. next \in InTurns => \E old \in Seq(Fill) : m.fills = old \o TurnFills(m)
    BY TurnFillsSame DEF LInv
<1>8. next \notin Matching => m.fills = <<>>
    <2>1. next \notin Matching => pc[c] \notin Matching
        BY DEF ReadStep, Matching, InTurns, Booking
    <2> QED
        BY <2>1 DEF LInv
<1>9. next \in Selling => Bought(m) \in DOMAIN Seen(c)
    BY DEF LInv, Selling, InTurns, SameVectors, Bought
<1> QED
    BY <1>1, <1>2, <1>4, <1>5, <1>6, <1>7, <1>8, <1>9 DEF LInv

\* What holds of clients apart, for one of them.
LEMMA LoneFacts ==
    ASSUME Inv, AInv, NEW c \in Clients
    PROVE  /\ Serves(local[c], pc[c], requests[c])
           /\ Solvent(OwnRows(c), OwnOrders(c))
           /\ StillMissing(local[c], pc[c], OwnRows(c)) /\ StillFunded(local[c], pc[c], OwnRows(c))
           /\ StillOpen(local[c], pc[c], OwnRows(c), OwnOrders(c))
           /\ pc[c] \in Steps
BY OwnSeen DEF AInv, Undisturbed, Working, Inv, Types

\* A request arrives.
LEMMA ReceiveAlone ==
    ASSUME Inv, NEW c \in Clients, Clients = {c}, LInv(c), Receive(c)
    PROVE  LInv(c)'
<1>1. PICK r \in requests[c] :
          /\ Bounded(r) /\ requests' = requests
          /\ \E i : Keep(c, [Fresh EXCEPT !.req = r, !.id = i], FirstStep(r))
    BY DEF Receive
<1>14. PICK i : Keep(c, [Fresh EXCEPT !.req = r, !.id = i], FirstStep(r))
    BY <1>1
<1> DEFINE m == [Fresh EXCEPT !.req = r, !.id = i]
           kept == Ledger(db)
<1>2. pc'[c] = FirstStep(r) /\ local'[c] = m /\ UNCHANGED <<db, serial, tx>> /\ pc[c] = "idle" /\ m.req = r
    BY <1>1, <1>14 DEF Keep, Goto, Inv, Types, Receive, Fresh
<1>3. Seen(c)' = Seen(c) /\ Ledger(Seen(c)) = kept /\ \A j \in 1 .. serial : Order(j) \in DOMAIN kept
    BY <1>2 DEF Seen, LInv, Drafted, Draft, Checked, Untouched
<1>4. RequestOK(r) /\ serial \in Nat
    BY DEF Inv, Types
<1>5. r.kind = "order" => serial < MaxOrders
    <2> DEFINE filing == {d \in Clients : pc[d] \in {"check", "findsymbol", "newsymbol", "insert"}
                                            /\ local[d].req.kind = "order"}
    <2>1. filing = {}
        BY <1>2
    <2>2. Cardinality(filing) = 0
        BY <2>1, FS_EmptySet
    <2>3. r.kind = "order" => serial + Cardinality(filing) < MaxOrders
        BY <1>1 DEF Bounded
    <2> QED
        BY <1>4, <2>2, <2>3
<1>6. r.kind = "position" => Num(kept, RowOf(r)) + r.amount =< MaxShares
    <2>1. RowOf(r) \notin SymbolKeys
        BY NoSymbolKeys DEF RowOf
    <2>2. Num(kept, RowOf(r)) = IF RowOf(r) \in DOMAIN db THEN db[RowOf(r)] ELSE 0
        BY <2>1, LedgerRows DEF Num
    <2> QED
        BY <1>1, <2>2 DEF Bounded, RowOf
<1>8. \/ r.kind = "account" /\ FirstStep(r) = "findaccount"
      \/ r.kind = "position" /\ FirstStep(r) = "findrow"
      \/ r.kind = "order" /\ FirstStep(r) = "check"
      \/ r.kind = "cancel" /\ FirstStep(r) = "readorder"
    BY <1>4 DEF RequestOK, FirstStep
<1> HIDE DEF m, kept
<1>9. Draft(m, FirstStep(r), kept, kept, serial)
    BY <1>8 DEF Draft, Untouched, Looking, Booking, Fetching
<1>10. Checked(m, FirstStep(r), kept, kept, serial)
    BY <1>2, <1>3, <1>5, <1>6, <1>8 DEF Checked, Granting, Booking, Fetching, Refunding
<1>11. Drafted(local[c], pc[c], Ledger(Seen(c)), Ledger(db), serial)'
    BY <1>2, <1>3, <1>9, <1>10 DEF Drafted, kept
<1>12. (\A q \in requests[c] : q \in Asks(q.kind))'
    BY <1>1 DEF LInv
<1>13. m.fills = <<>>
    BY DEF m, Fresh
<1> QED
    BY <1>2, <1>8, <1>11, <1>12, <1>13 DEF LInv, InTurns, Selling

\* A transaction ends.
LEMMA EndAlone ==
    ASSUME Inv, NEW c \in Clients, LInv(c), NEW committed \in BOOLEAN, EndTransaction(c, committed),
           requests' = requests, committed \/ pc[c] \in Looking
    PROVE  LInv(c)'
<1> DEFINE seen == Ledger(Seen(c))
           kept == Ledger(db)
<1>1. /\ pc'[c] = "idle" /\ local'[c] = Fresh /\ tx'[c] = NoRows /\ serial' = serial
      /\ db' = IF committed THEN Seen(c) ELSE db
    BY DEF EndTransaction, Goto, Inv, Types
<1>2. Seen(c)' = Over(NoRows, db')
    BY <1>1 DEF Seen
<1>3. Ledger(Seen(c)') = Ledger(db')
    BY <1>2, LedgerOver
<1>4. Drafted(local[c], pc[c], seen, kept, serial)
    BY DEF LInv
<1>5. ~committed => seen = kept
    BY <1>4 DEF Drafted, Draft, Untouched
<1>6. Ledger(db') = seen
    BY <1>1, <1>5
<1>7. Drafted(Fresh, "idle", seen, seen, serial)
    BY <1>4, DraftIdle
<1>8. Drafted(local[c], pc[c], Ledger(Seen(c)), Ledger(db), serial)'
    <2>1. Ledger(Seen(c))' = seen /\ Ledger(db)' = seen
        BY <1>3, <1>6
    <2> HIDE DEF seen
    <2> QED
        BY <1>1, <1>7, <2>1
<1> QED
    BY <1>1, <1>8 DEF LInv, InTurns, Selling, Fresh

LEMMA ReadsAlone ==
    ASSUME Inv, AInv, NEW c \in Clients, LInv(c), requests' = requests,
           \/ FindAccount(c) \/ FindRow(c) \/ FindSymbol(c) \/ CheckFunds(c) \/ SelectMax(c) \/ Reread(c)
           \/ SelectBuys(c) \/ SelectSells(c) \/ FindPosition(c) \/ ReadSeller(c)
           \/ ReadOrder(c) \/ ReadCancelTime(c) \/ ReadRefund(c)
    PROVE  LInv(c)'
<1> DEFINE l == local[c]
<1>1. Serves(l, pc[c], requests[c])
    BY LoneFacts
<1>2. LocalOK(l, pc[c], Known(c))
    BY DEF Inv
<1>3. DOMAIN l = Variables
    BY <1>2 DEF LocalOK
<1>4. CASE FindAccount(c)
    <2>1. \/ EndTransaction(c, FALSE) /\ pc[c] \in Looking
          \/ Keep(c, l, "newaccount") /\ ReadStep(l, pc[c], l, "newaccount")
        BY <1>4 DEF FindAccount, ReadStep, Looking
    <2> QED
        BY <2>1, EndAlone, KeepAlone DEF InTurns, Selling
<1>5. CASE FindRow(c)
    <2>1. PICK next \in {"addrow", "findsymbol"} : Keep(c, l, next)
        BY <1>5 DEF FindRow
    <2>2. ReadStep(l, pc[c], l, next)
        BY <1>1, <1>5 DEF FindRow, ReadStep, Serves
    <2> QED
        BY <2>1, <2>2, KeepAlone DEF InTurns, Selling
<1>6. CASE FindSymbol(c)
    <2>1. PICK next \in {"newsymbol", "newrow", "insert"} : Keep(c, l, next)
        BY <1>6 DEF FindSymbol, AfterSymbol
    <2>2. ReadStep(l, pc[c], l, next)
        BY <1>6 DEF FindSymbol, ReadStep
    <2> QED
        BY <2>1, <2>2, KeepAlone DEF InTurns, Selling
<1>7. CASE CheckFunds(c)
    <2>1. \/ EndTransaction(c, FALSE) /\ pc[c] \in Looking
          \/ Keep(c, l, "findsymbol") /\ ReadStep(l, pc[c], l, "findsymbol")
        BY <1>1, <1>7 DEF CheckFunds, ReadStep, Looking, Serves
    <2> QED
        BY <2>1, EndAlone, KeepAlone DEF InTurns, Selling
<1>8. CASE SelectMax(c)
    <2>1. PICK i \in 1 .. serial : Keep(c, [l EXCEPT !.id = i], "reread")
        BY <1>8 DEF SelectMax
    <2> DEFINE m == [l EXCEPT !.id = i]
    <2>2. m.req = l.req /\ m.fills = l.fills
        BY <1>3 DEF Variables
    <2>3. ReadStep(l, pc[c], m, "reread")
        BY <1>8 DEF SelectMax, ReadStep, Booking
    <2> HIDE DEF m
    <2>4. Keep(c, m, "reread")
        BY <2>1 DEF m
    <2> QED
        BY <2>2, <2>3, <2>4, KeepAlone DEF InTurns, Selling
<1>9. CASE Reread(c)
    <2> DEFINE m == [l EXCEPT !.seen = SourceAmount(c)]
    <2>2. m.req = l.req /\ m.fills = l.fills
        BY <1>3 DEF Variables
    <2>3. ReadStep(l, pc[c], m, "charge")
        BY <1>9 DEF Reread, ReadStep, Booking
    <2>4. Keep(c, m, "charge")
        BY <1>9 DEF Reread
    <2> HIDE DEF m
    <2> QED
        BY <2>2, <2>3, <2>4, KeepAlone DEF InTurns, Selling
<1>10. CASE SelectBuys(c)
    <2>1. PICK v \in Vectors(c, l.req.sym, 1) : Keep(c, [l EXCEPT !.buying = v], "selectsells")
        BY <1>10 DEF SelectBuys
    <2> DEFINE m == [l EXCEPT !.buying = v]
    <2>2. m.req = l.req /\ m.buying = v /\ m.fills = l.fills
        BY <1>3 DEF Variables
    <2>3. ReadStep(l, pc[c], m, "selectsells")
        BY <1>10 DEF SelectBuys, ReadStep
    <2>4. Keep(c, m, "selectsells")
        BY <2>1
    <2> HIDE DEF m
    <2> QED
        BY <2>2, <2>3, <2>4, KeepAlone DEF InTurns, Selling
<1>11. CASE SelectSells(c)
    <2>1. PICK v \in Vectors(c, l.req.sym, -1) : Keep(c, [l EXCEPT !.selling = v], "loop")
        BY <1>11 DEF SelectSells
    <2> DEFINE m == [l EXCEPT !.selling = v]
    <2>2. m.req = l.req /\ m.fills = l.fills
        BY <1>3 DEF Variables
    <2>3. ReadStep(l, pc[c], m, "loop")
        BY <1>11 DEF SelectSells, ReadStep, Matching
    <2>4. Keep(c, m, "loop")
        BY <2>1
    <2> HIDE DEF m
    <2> QED
        BY <2>2, <2>3, <2>4, KeepAlone DEF InTurns, Selling
<1>12. CASE FindPosition(c)
    <2>1. PICK next \in {"addposition", "newposition"} : Keep(c, l, next)
        BY <1>12 DEF FindPosition
    <2>2. ReadStep(l, pc[c], l, next) /\ pc[c] \in InTurns /\ SameVectors(l, l)
        BY <1>12 DEF FindPosition, ReadStep, Matching, InTurns, SameVectors
    <2> QED
        BY <2>1, <2>2, KeepAlone DEF Selling
<1>13. CASE ReadSeller(c)
    <2> DEFINE m == [l EXCEPT !.seen = Seen(c)[SellerBalance(c)]]
    <2>2. m.req = l.req /\ SameVectors(m, l) /\ m.fills = l.fills
        BY <1>3 DEF Variables, SameVectors
    <2>3. ReadStep(l, pc[c], m, "payseller") /\ pc[c] \in InTurns /\ pc[c] \in Selling
        BY <1>13 DEF ReadSeller, ReadStep, Matching, InTurns, Selling
    <2>4. Keep(c, m, "payseller")
        BY <1>13 DEF ReadSeller
    <2> HIDE DEF m
    <2> QED
        BY <2>2, <2>3, <2>4, KeepAlone DEF Selling
<1>14. CASE ReadOrder(c)
    <2> DEFINE m == [l EXCEPT !.open = Seen(c)[Order(l.id)].Amount]
    <2>2. m.req = l.req /\ m.fills = l.fills
        BY <1>3 DEF Variables
    <2>3. ReadStep(l, pc[c], m, "readcancel")
        BY <1>14 DEF ReadOrder, ReadStep
    <2>4. Keep(c, m, "readcancel")
        BY <1>14 DEF ReadOrder
    <2> HIDE DEF m
    <2> QED
        BY <2>2, <2>3, <2>4, KeepAlone DEF InTurns, Selling
<1>15. CASE ReadCancelTime(c)
    <2>1. \/ EndTransaction(c, FALSE) /\ pc[c] \in Looking
          \/ Keep(c, l, "setcancel") /\ ReadStep(l, pc[c], l, "setcancel")
        BY <1>15 DEF ReadCancelTime, ReadStep, Looking
    <2> QED
        BY <2>1, EndAlone, KeepAlone DEF InTurns, Selling
<1>16. CASE ReadRefund(c)
    <2> DEFINE m == [l EXCEPT !.seen = Seen(c)[RefundRow(c)]]
    <2>2. m.req = l.req /\ m.id = l.id /\ m.open = l.open /\ m.fills = l.fills
        BY <1>3 DEF Variables
    <2>3. ReadStep(l, pc[c], m, "refund")
        BY <1>16, <2>2 DEF ReadRefund, ReadStep
    <2>4. Keep(c, m, "refund")
        BY <1>16 DEF ReadRefund
    <2> HIDE DEF m
    <2> QED
        BY <2>2, <2>3, <2>4, KeepAlone DEF InTurns, Selling
<1> QED
    BY <1>4, <1>5, <1>6, <1>7, <1>8, <1>9, <1>10, <1>11, <1>12, <1>13, <1>14, <1>15, <1>16

LEMMA WriteAlone ==
    ASSUME Inv, NEW c \in Clients, LInv(c), NEW k, NEW v, NEW m, NEW next, next \notin Matching \cup {"selectsells"},
           m.fills = <<>>,
           Write(c, k, v), Goto(c, next), Becomes(c, m), db' = db, requests' = requests,
           Drafted(m, next, Ledger(Put(Seen(c), k, v)), Ledger(db), serial')
    PROVE  LInv(c)'
<1>1. pc'[c] = next /\ local'[c] = m
    BY DEF Goto, Becomes, Inv, Types
<1>2. Seen(c)' = Put(Seen(c), k, v)
    <2>1. tx'[c] = Put(tx[c], k, v)
        BY WrittenRows
    <2>2. Seen(c)' = Over(Put(tx[c], k, v), db)
        BY <2>1 DEF Seen
    <2> QED
        BY <2>2, PutOver DEF Seen
<1>3. Drafted(local[c], pc[c], Ledger(Seen(c)), Ledger(db), serial)'
    BY <1>1, <1>2
<1> QED
    BY <1>1, <1>3 DEF LInv, Matching, InTurns, Selling

LEMMA InsertsAlone ==
    ASSUME Inv, up', NEW c \in Clients, NEW k, NEW v, NEW next, InsertRow(c, k, v, next)
    PROVE  /\ k \notin DOMAIN db /\ Write(c, k, v) /\ Goto(c, next) /\ Becomes(c, local[c])
           /\ UNCHANGED <<db, serial>>
<1>1. ~Terminate
    BY DEF Terminate
<1> QED
    BY <1>1 DEF InsertRow, Becomes, Inv, Types

LEMMA StaysLocal == ASSUME Inv, NEW c \in Clients, local' = local PROVE Becomes(c, local[c])
BY DEF Becomes, Inv, Types

LEMMA CreatesAlone ==
    ASSUME Inv, AInv, up', NEW c \in Clients, LInv(c), requests' = requests,
           NewAccount(c) \/ AddRow(c) \/ NewRow(c) \/ NewSymbol(c)
    PROVE  LInv(c)'
<1> DEFINE l == local[c]
           r == l.req
           seen == Ledger(Seen(c))
           kept == Ledger(db)
<1>1. Serves(l, pc[c], requests[c]) /\ StillMissing(l, pc[c], OwnRows(c))
    BY LoneFacts
<1>2. Drafted(l, pc[c], seen, kept, serial)
    BY DEF LInv
<1>3. pc[c] # "idle" => RequestOK(r) /\ Modest(r)
    BY ServedOwn
<1>4. \A k, v : /\ k \in SymbolKeys => Ledger(Put(Seen(c), k, v)) = seen
                /\ k \notin SymbolKeys => Ledger(Put(Seen(c), k, v)) = Put(seen, k, v)
    BY LedgerPut
<1>5. \A k, v : \A j : j \in DOMAIN seen => j \in DOMAIN Put(seen, k, v)
    BY PutRows
<1>20. l.fills = <<>>
    BY DEF LInv, Matching, InTurns, NewAccount, AddRow, NewRow, NewSymbol
<1> HIDE DEF seen, kept
<1>6. CASE NewAccount(c)
    <2> DEFINE k == Balance(r.id)
    <2>1. k \notin DOMAIN db /\ Write(c, k, r.amount) /\ Goto(c, "commit") /\ Becomes(c, l) /\ UNCHANGED <<db, serial>>
        BY <1>6, InsertsAlone DEF NewAccount
    <2>2. k \notin SymbolKeys
        BY NoSymbolKeys
    <2>3. pc[c] = "newaccount" /\ r.kind = "account"
        BY <1>1, <1>6 DEF NewAccount, Serves, CreatingAccount
    <2>4. seen = kept /\ \A j \in 1 .. serial : Order(j) \in DOMAIN seen
        BY <1>2, <2>3 DEF Drafted, Draft, Checked, Untouched
    <2>5. k \notin DOMAIN kept
        BY <2>1, LedgerRows DEF kept
    <2>6. Draft(l, "commit", Put(kept, k, r.amount), kept, serial)
        BY <2>3, <2>5 DEF Draft, Untouched, Looking, Booking, Fetching
    <2>7. Checked(l, "commit", Put(kept, k, r.amount), kept, serial)
        BY <1>5, <2>3, <2>4 DEF Checked, Granting, Booking, Fetching, Refunding
    <2>8. Drafted(l, "commit", Ledger(Put(Seen(c), k, r.amount)), kept, serial')
        BY <1>4, <2>1, <2>2, <2>4, <2>6, <2>7 DEF Drafted
    <2> QED
        BY <2>1, <2>8, <1>20, WriteAlone DEF Matching, InTurns, kept
<1>7. ASSUME pc[c] \in {"addrow", "newrow"}, NEW n, n = Num(kept, RowOf(r)) + r.amount,
             Write(c, RowOf(r), n), Goto(c, "commit"), UNCHANGED <<db, serial, local>>
      PROVE  LInv(c)'
    <2> DEFINE k == RowOf(r)
    <2>1. Becomes(c, l)
        BY <1>7, StaysLocal
    <2>2. k \notin SymbolKeys
        BY NoSymbolKeys DEF RowOf
    <2>3. r.kind = "position"
        BY <1>1, <1>7 DEF Serves
    <2>4. seen = kept /\ \A j \in 1 .. serial : Order(j) \in DOMAIN seen
        BY <1>2, <1>7 DEF Drafted, Draft, Checked, Untouched
    <2>5. Num(kept, RowOf(r)) + r.amount =< MaxShares
        BY <1>2, <1>7, <2>3 DEF Drafted, Checked, Granting
    <2>6. Draft(l, "commit", Put(kept, k, n), kept, serial)
        BY <1>7, <2>3 DEF Draft, Untouched, Looking, Booking, Fetching
    <2>7. Checked(l, "commit", Put(kept, k, n), kept, serial)
        BY <1>5, <2>3, <2>4, <2>5 DEF Checked, Granting, Booking, Fetching, Refunding
    <2>8. Drafted(l, "commit", Ledger(Put(Seen(c), k, n)), kept, serial')
        BY <1>4, <1>7, <2>2, <2>4, <2>6, <2>7 DEF Drafted
    <2> QED
        BY <1>7, <2>1, <2>8, <1>20, WriteAlone DEF Matching, InTurns, kept
<1>8. CASE AddRow(c)
    <2> DEFINE k == RowOf(r)
    <2>1. /\ pc[c] = "addrow" /\ Write(c, k, Seen(c)[k] + r.amount) /\ Goto(c, "commit")
          /\ UNCHANGED <<db, serial, local>>
        BY <1>8 DEF AddRow, UpdateRow, RowOf
    <2>2. k \in DOMAIN OwnRows(c) /\ k \in OwnKeys(c)
        BY <1>1, <2>1, ServedOwn DEF StillMissing, Serves, RowOf
    <2>3. Exists(c, k) /\ k \notin SymbolKeys
        BY <2>2, OwnLook, NoSymbolKeys DEF RowOf
    <2>4. seen = kept
        BY <1>2, <2>1 DEF Drafted, Draft, Untouched
    <2>5. k \in DOMAIN kept /\ Seen(c)[k] = kept[k]
        BY <2>3, <2>4, LedgerRows DEF seen, Exists
    <2>6. Seen(c)[k] + r.amount = Num(kept, k) + r.amount
        BY <2>5 DEF Num
    <2> QED
        BY <1>7, <2>1, <2>6
<1>9. CASE NewRow(c)
    <2> DEFINE k == RowOf(r)
    <2>1. pc[c] = "newrow" /\ InsertRow(c, k, r.amount, "commit")
        BY <1>9 DEF NewRow, RowOf
    <2>2. k \notin DOMAIN db /\ Write(c, k, r.amount) /\ Goto(c, "commit") /\ UNCHANGED <<db, serial, local>>
        BY <2>1, InsertsAlone DEF InsertRow, Terminate
    <2>3. r.amount \in Nat
        BY <1>1, <1>3, <2>1 DEF Serves, Modest
    <2>4. k \notin DOMAIN kept
        BY <2>2, LedgerRows DEF kept
    <2>5. r.amount = Num(kept, k) + r.amount
        BY <2>3, <2>4 DEF Num
    <2> QED
        BY <1>7, <2>1, <2>2, <2>5
<1>10. CASE NewSymbol(c)
    <2>1. PICK next \in {"newrow", "insert"} : pc[c] = "newsymbol" /\ InsertRow(c, Symbol(r.sym), TRUE, next)
        BY <1>10 DEF NewSymbol, AfterSymbol
    <2>2. /\ Write(c, Symbol(r.sym), TRUE) /\ Goto(c, next) /\ Becomes(c, l) /\ UNCHANGED <<db, serial>>
        BY <2>1, InsertsAlone
    <2>3. Symbol(r.sym) \in SymbolKeys
        BY <1>1, <1>3, <2>1, NoSymbolKeys DEF Serves, RequestOK
    <2>4. ReadStep(l, pc[c], l, next)
        BY <2>1 DEF ReadStep
    <2>5. Drafted(l, next, seen, kept, serial)
        BY <1>2, <2>4, DraftRead
    <2>6. Drafted(l, next, Ledger(Put(Seen(c), Symbol(r.sym), TRUE)), kept, serial')
        BY <1>4, <2>2, <2>3, <2>5
    <2> QED
        BY <2>2, <2>6, <1>20, WriteAlone DEF Matching, InTurns, kept
<1> QED
    BY <1>6, <1>8, <1>9, <1>10

LEMMA PlacesAlone ==
    ASSUME Inv, AInv, NEW c \in Clients, LInv(c), requests' = requests, InsertOrder(c) \/ Charge(c)
    PROVE  LInv(c)'
<1> DEFINE l == local[c]
           r == l.req
           seen == Ledger(Seen(c))
           kept == Ledger(db)
<1>1. Serves(l, pc[c], requests[c]) /\ StillFunded(l, pc[c], OwnRows(c))
    BY LoneFacts
<1>2. Drafted(l, pc[c], seen, kept, serial)
    BY DEF LInv
<1>3. pc[c] \in Placing /\ r.kind = "order" /\ RequestOK(r) /\ Modest(r)
    BY <1>1, ServedOwn DEF Serves, Ordering, Placing, InsertOrder, Charge
<1>4. \A k, v : k \notin SymbolKeys => Ledger(Put(Seen(c), k, v)) = Put(seen, k, v)
    BY LedgerPut
<1>5. Source(r) \in {Balance(r.id), RowOf(r)}
    BY <1>3, Reserves DEF RowOf
<1>6. Source(r) \in OwnKeys(c) /\ Balance(r.id) \in OwnKeys(c)
    BY <1>3, <1>5, ServedOwn DEF RowOf, Placing
<1>7. \A k \in {Source(r), Balance(r.id)} : k \notin SymbolKeys /\ (\A i : k # Order(i))
    BY <1>5, NoSymbolKeys, KeysDiffer DEF RowOf
<1>8. Balance(r.id) \in DOMAIN OwnRows(c) /\ Source(r) \in DOMAIN OwnRows(c) /\ OwnRows(c)[Source(r)] >= Reserve(r)
    BY <1>1, <1>3 DEF StillFunded, Placing
<1>9. Exists(c, Balance(r.id)) /\ Exists(c, Source(r)) /\ Seen(c)[Source(r)] = OwnRows(c)[Source(r)]
    BY <1>6, <1>8, OwnLook
<1>10. Balance(r.id) \in DOMAIN seen /\ Source(r) \in DOMAIN seen /\ seen[Source(r)] = OwnRows(c)[Source(r)]
    BY <1>7, <1>9, LedgerRows DEF Exists
<1>11. serial \in Nat /\ DOMAIN db \subseteq Keys
    BY DEF Inv, Types, Table
<1>20. l.fills = <<>>
    BY DEF LInv, Matching, InTurns, InsertOrder, Charge
<1> HIDE DEF seen, kept
<1>12. CASE InsertOrder(c)
    <2> DEFINE k == Order(serial + 1)
               more == Put(seen, k, Placed(r))
    <2>1. /\ pc[c] = "insert" /\ Write(c, k, Placed(r)) /\ Goto(c, "selectmax") /\ Becomes(c, l)
          /\ db' = db /\ serial' = serial + 1
        BY <1>12, StaysLocal DEF InsertOrder, UpdateRow, Placed
    <2>2. seen = kept /\ serial < MaxOrders /\ \A j \in 1 .. serial : Order(j) \in DOMAIN seen
        BY <1>2, <1>3, <2>1 DEF Drafted, Draft, Checked, Untouched
    <2>3. k \notin DOMAIN kept
        BY <1>11, OrderKeys, LedgerRows DEF kept
    <2>4. Draft(l, "selectmax", more, kept, serial + 1)
        BY <2>2 DEF Draft, Untouched, Looking, Booking, Fetching
    <2>5. \A j \in 1 .. serial + 1 : Order(j) \in DOMAIN more
        <3>1. \A j : Order(j) \in DOMAIN seen \/ Order(j) = k => Order(j) \in DOMAIN more
            BY PutRows
        <3> QED
            BY <1>11, <2>2, <3>1
    <2>6. serial + 1 > 0 /\ (serial + 1) - 1 = serial
        BY <1>11
    <2>7. Checked(l, "selectmax", more, kept, serial + 1)
        <3> DEFINE n == serial + 1
        <3>1. /\ n > 0 /\ n - 1 < MaxOrders /\ Order(n) \notin DOMAIN kept
              /\ Balance(r.id) \in DOMAIN kept
              /\ Source(r) \in DOMAIN kept /\ kept[Source(r)] >= Reserve(r)
            BY <1>8, <1>10, <2>2, <2>3, <2>6
        <3>2. \A j \in 1 .. n : Order(j) \in DOMAIN more
            BY <2>5
        <3> HIDE DEF n, more
        <3>3. Checked(l, "selectmax", more, kept, n)
            BY <3>1, <3>2 DEF Checked, Granting, Refunding
        <3> QED
            BY <3>3 DEF n
    <2> HIDE DEF more
    <2>8. Drafted(l, "selectmax", more, kept, serial')
        BY <2>1, <2>4, <2>7 DEF Drafted
    <2>9. Ledger(Put(Seen(c), k, Placed(r))) = more
        BY <1>4, NoSymbolKeys DEF more
    <2> QED
        BY <2>1, <2>8, <2>9, <1>20, WriteAlone DEF Matching, InTurns, kept
<1>13. CASE Charge(c)
    <2> DEFINE k == Source(r)
               v == kept[k] - Reserve(r)
    <2>1. pc[c] = "charge" /\ Goto(c, "selectbuys") /\ Becomes(c, l) /\ UNCHANGED <<db, serial>>
        BY <1>13, StaysLocal DEF Charge, UpdateRow
    <2>2. seen = Put(kept, Order(serial), Placed(r)) /\ Checked(l, "charge", seen, kept, serial)
        BY <1>2, <2>1 DEF Drafted, Draft, Booking
    <2>3. k \in DOMAIN kept
        BY <2>2 DEF Checked, Booking
    <2>4. seen[k] = kept[k]
        BY <1>7, <2>2, <2>3, PutRows
    <2>5. l.seen = kept[k]
        BY <1>1, <1>10, <2>1, <2>4 DEF StillFunded
    <2>6. Write(c, k, v)
        BY <1>13, <2>5 DEF Charge, UpdateRow
    <2>7. Draft(l, "selectbuys", Put(seen, k, v), kept, serial)
        BY <2>2 DEF Draft, Untouched, Looking, Booking, Fetching
    <2>8. Checked(l, "selectbuys", Put(seen, k, v), kept, serial)
        <3>1. \A j : j \in DOMAIN seen => j \in DOMAIN Put(seen, k, v)
            BY PutRows
        <3>2. \A j \in 1 .. serial : Order(j) \in DOMAIN Put(seen, k, v)
            BY <2>2, <3>1 DEF Checked
        <3> QED
            BY <2>2, <3>2 DEF Checked, Granting, Refunding, Booking, Fetching
    <2>9. Ledger(Put(Seen(c), k, v)) = Put(seen, k, v)
        BY <1>4, <1>7
    <2>10. Drafted(l, "selectbuys", Ledger(Put(Seen(c), k, v)), kept, serial')
        BY <2>1, <2>7, <2>8, <2>9 DEF Drafted
    <2> HIDE DEF v
    <2> QED
        BY <2>1, <2>6, <2>10, <1>20, WriteAlone DEF Matching, InTurns, kept
<1> QED
    BY <1>12, <1>13

LEMMA CancelsAlone ==
    ASSUME Inv, AInv, NEW c \in Clients, LInv(c), requests' = requests, SetCancelTime(c) \/ Refund(c)
    PROVE  LInv(c)'
<1> DEFINE l == local[c]
           i == Order(l.id)
           seen == Ledger(Seen(c))
           kept == Ledger(db)
           o == OwnOrders(c)[l.id]
<1>1. /\ Serves(l, pc[c], requests[c]) /\ StillOpen(l, pc[c], OwnRows(c), OwnOrders(c))
      /\ Solvent(OwnRows(c), OwnOrders(c))
    BY LoneFacts
<1>2. Drafted(l, pc[c], seen, kept, serial)
    BY DEF LInv
<1>3. pc[c] \in Cancelling \ {"readorder"} /\ l.req.kind = "cancel"
    BY <1>1 DEF Serves, Cancelling, SetCancelTime, Refund
<1>4. l.id \in DOMAIN OwnOrders(c) /\ l.open = o.Amount /\ l.open # 0
    BY <1>1, <1>3 DEF StillOpen, Cancelling, SetCancelTime, Refund
<1>5. l.id \in Nat /\ Exists(c, i) /\ o = Seen(c)[i] /\ Belongs(o, AccountsOf(c), SymbolsOf(c))
    BY <1>4, OwnOrder
<1>6. i \in DOMAIN seen /\ seen[i] = o
    BY <1>5, LedgerRows, NoSymbolKeys DEF Exists
<1>7. o \in OrderRow
    BY <1>1, <1>4 DEF Solvent
<1>8. \A k, v : k \notin SymbolKeys => Ledger(Put(Seen(c), k, v)) = Put(seen, k, v)
    BY LedgerPut
<1>9. RefundTo(o, l.open) \in DOMAIN OwnRows(c) /\ RefundTo(o, l.open) \in OwnKeys(c)
    <2>1. RefundTo(o, l.open) \in DOMAIN OwnRows(c)
        BY <1>1, <1>4 DEF Solvent, RefundTo
    <2> QED
        BY <2>1 DEF OwnRows, Part
<1>10. RefundTo(o, l.open) \notin SymbolKeys /\ \A j : RefundTo(o, l.open) # Order(j)
    BY NoSymbolKeys, KeysDiffer DEF RefundTo
<1>11. RefundTo(o, l.open) \in DOMAIN seen /\ seen[RefundTo(o, l.open)] = OwnRows(c)[RefundTo(o, l.open)]
    BY <1>9, <1>10, OwnLook, LedgerRows DEF Exists
<1>12. \A j \in 1 .. serial : Order(j) \in DOMAIN seen
    BY <1>2 DEF Drafted, Checked
<1>13. \A k, v, j : j \in DOMAIN seen => j \in DOMAIN Put(seen, k, v)
    BY PutRows
<1>14. l.id \in 1 .. serial
    BY <1>4, OwnNumbered
<1>20. l.fills = <<>>
    BY DEF LInv, Matching, InTurns, SetCancelTime, Refund
<1> HIDE DEF seen, kept, o
<1>15. CASE SetCancelTime(c)
    <2>1. /\ pc[c] = "setcancel" /\ Write(c, i, Cancelled(o)) /\ Goto(c, "readrefund") /\ Becomes(c, l)
          /\ UNCHANGED <<db, serial>>
        BY <1>5, <1>15, StaysLocal DEF SetCancelTime, UpdateRow, Cancelled
    <2>2. seen = kept
        BY <1>2, <2>1 DEF Drafted, Draft, Untouched
    <2>3. o.CancelTime = NOTCANCELLED
        BY <1>1, <2>1 DEF StillOpen, o
    <2>4. Draft(l, "readrefund", Put(seen, i, Cancelled(o)), kept, serial)
        BY <1>6, <2>2 DEF Draft, Untouched, Looking, Booking, Fetching
    <2>5. /\ l.id \in 1 .. serial /\ i \in DOMAIN kept /\ kept[i].CancelTime = NOTCANCELLED
          /\ kept[i].Amount = l.open /\ l.open # 0
          /\ RefundTo(kept[i], l.open) \in DOMAIN kept
        BY <1>4, <1>6, <1>11, <1>14, <2>2, <2>3
    <2>6. Checked(l, "readrefund", Put(seen, i, Cancelled(o)), kept, serial)
        BY <1>12, <1>13, <2>5 DEF Checked, Granting, Booking, Fetching
    <2>7. Ledger(Put(Seen(c), i, Cancelled(o))) = Put(seen, i, Cancelled(o))
        BY <1>8, NoSymbolKeys
    <2>8. Drafted(l, "readrefund", Ledger(Put(Seen(c), i, Cancelled(o))), kept, serial')
        BY <2>1, <2>4, <2>6, <2>7 DEF Drafted
    <2> QED
        BY <2>1, <2>8, <1>20, WriteAlone DEF Matching, InTurns, kept
<1>16. CASE Refund(c)
    <2> DEFINE k == RefundTo(o, l.open)
               v == l.seen + RefundOf(o, l.open)
    <2>1. /\ pc[c] = "refund" /\ Write(c, k, v) /\ Goto(c, "commit") /\ Becomes(c, l)
          /\ UNCHANGED <<db, serial>>
        BY <1>5, <1>16, StaysLocal DEF Refund, UpdateRow, RefundRow, RefundAmount, RefundTo, RefundOf
    <2>2. seen = Put(kept, i, Cancelled(kept[i])) /\ Checked(l, "refund", seen, kept, serial)
        BY <1>2, <2>1 DEF Drafted, Draft
    <2>3. /\ i \in DOMAIN kept /\ kept[i].CancelTime = NOTCANCELLED
          /\ kept[i].Amount = l.open /\ RefundTo(kept[i], l.open) \in DOMAIN kept
        BY <1>3, <2>1, <2>2 DEF Checked, Refunding
    <2>4. o = Cancelled(kept[i])
        BY <1>6, <2>2, PutRows
    <2>5. RefundTo(o, l.open) = RefundTo(kept[i], l.open) /\ RefundOf(o, l.open) = RefundOf(kept[i], l.open)
        <3>1. kept[i] \in OrderRow
            <4>1. i \in DOMAIN db /\ kept[i] = db[i]
                BY <2>3, LedgerRows DEF kept
            <4> QED
                BY <1>14, <4>1 DEF Inv, Types, Table
        <3>2. o.AccountID = kept[i].AccountID /\ o.SymbolName = kept[i].SymbolName /\ o.PriceLimit = kept[i].PriceLimit
            BY <2>4, <3>1 DEF Cancelled, OrderRow
        <3> QED
            BY <3>2 DEF RefundTo, RefundOf
    <2>6. l.seen = OwnRows(c)[k]
        BY <1>1, <2>1 DEF StillOpen, o
    <2>7. seen[k] = kept[k]
        BY <1>10, <2>2, <2>3, <2>5, PutRows
    <2>8. v = kept[k] + RefundOf(kept[i], l.open)
        BY <1>11, <2>5, <2>6, <2>7
    <2>9. Put(seen, k, v) = Put(Put(kept, i, Cancelled(kept[i])), RefundTo(kept[i], l.open),
                                kept[RefundTo(kept[i], l.open)] + RefundOf(kept[i], l.open))
        BY <2>2, <2>5, <2>8
    <2> HIDE DEF k, v
    <2>10. Draft(l, "commit", Put(seen, k, v), kept, serial)
        BY <1>3, <2>9 DEF Draft, Untouched, Looking, Booking, Fetching
    <2>11. Checked(l, "commit", Put(seen, k, v), kept, serial)
        <3>1. /\ l.id \in 1 .. serial /\ i \in DOMAIN kept /\ kept[i].CancelTime = NOTCANCELLED
              /\ kept[i].Amount = l.open /\ l.open # 0
              /\ RefundTo(kept[i], l.open) \in DOMAIN kept
            BY <1>4, <1>14, <2>3
        <3> QED
            BY <1>3, <1>12, <1>13, <3>1 DEF Checked, Granting, Booking, Fetching
    <2>12. Ledger(Put(Seen(c), k, v)) = Put(seen, k, v)
        BY <1>8, <1>10 DEF k
    <2>13. Drafted(l, "commit", Ledger(Put(Seen(c), k, v)), kept, serial')
        BY <2>1, <2>10, <2>11, <2>12 DEF Drafted
    <2> QED
        BY <2>1, <2>13, <1>20, WriteAlone DEF Matching, InTurns, kept
<1> QED
    BY <1>15, <1>16

LEMMA TurnWriteAlone ==
    ASSUME Inv, NEW c \in Clients, LInv(c), pc[c] \in Matching, NEW k, NEW v, NEW m, NEW next \in Matching,
           Write(c, k, v), Goto(c, next), Becomes(c, m), UNCHANGED <<db, requests, serial>>,
           next \in InTurns => \E old \in Seq(Fill) : m.fills = old \o TurnFills(m),
           next \in Selling => Bought(m) \in DOMAIN Put(Seen(c), k, v)
    PROVE  LInv(c)'
<1>1. pc'[c] = next /\ local'[c] = m
    BY DEF Goto, Becomes, Inv, Types
<1>2. Seen(c)' = Put(Seen(c), k, v)
    <2>1. tx'[c] = Put(tx[c], k, v)
        BY WrittenRows
    <2>2. Seen(c)' = Over(Put(tx[c], k, v), db)
        BY <2>1 DEF Seen
    <2> QED
        BY <2>2, PutOver DEF Seen
<1>3. DOMAIN Ledger(Seen(c)) \subseteq DOMAIN Ledger(Put(Seen(c), k, v))
    BY LedgerRows, PutRows
<1>4. Drafted(m, next, Ledger(Put(Seen(c), k, v)), Ledger(db), serial)
    BY <1>3, DraftGrows DEF LInv
<1>5. Drafted(local[c], pc[c], Ledger(Seen(c)), Ledger(db), serial)'
    BY <1>1, <1>2, <1>4
<1> QED
    BY <1>1, <1>2, <1>5 DEF LInv, Matching, InTurns

LEMMA TurnsAlone ==
    ASSUME Inv, Tallies, up', NEW c \in Clients, LInv(c), requests' = requests,
           \/ UpdateBuyRow(c) \/ UpdateSellRow(c) \/ AddPosition(c) \/ NewPosition(c) \/ PaySeller(c)
    PROVE  LInv(c)'
<1> DEFINE l == local[c]
<1>1. l.fills \in Seq(Fill) /\ DOMAIN l = Variables
    BY OwnTally DEF Tally, Inv, LocalOK
<1>2. CASE UpdateBuyRow(c)
    <2> DEFINE m == [l EXCEPT !.fills = @ \o
                        <<[TransID |-> l.buying[1].TransID, Amount |-> MatchAmount(c), Price |-> MatchPrice(c)],
                          [TransID |-> l.selling[1].TransID, Amount |-> -MatchAmount(c), Price |-> MatchPrice(c)]>>]
    <2>1. PICK k, v : Write(c, k, v) /\ Goto(c, "sellrow") /\ local' = [local EXCEPT ![c] = m]
                      /\ UNCHANGED <<db, serial>> /\ pc[c] = "loop"
        BY <1>2 DEF UpdateBuyRow, UpdateRow
    <2>2. Becomes(c, m)
        BY <2>1 DEF Becomes, Inv, Types
    <2>3. SameVectors(m, l) /\ m.fills = l.fills \o TurnFills(l)
        BY <1>1 DEF SameVectors, Variables, TurnFills, TurnPrice, Lot, MatchAmount, MatchPrice
    <2>4. m.fills = l.fills \o TurnFills(m)
        BY <2>3, TurnFillsSame
    <2> HIDE DEF m
    <2> QED
        BY <1>1, <2>1, <2>2, <2>4, TurnWriteAlone DEF Matching, InTurns, Selling
<1>3. ASSUME pc[c] \in InTurns PROVE \E old \in Seq(Fill) : l.fills = old \o TurnFills(l)
    BY <1>3 DEF LInv
<1>4. CASE UpdateSellRow(c)
    <2>1. PICK k, v : Write(c, k, v) /\ Goto(c, "findposition") /\ Becomes(c, l)
                      /\ UNCHANGED <<db, serial>> /\ pc[c] = "sellrow"
        BY <1>4, StaysLocal DEF UpdateSellRow, UpdateRow
    <2> QED
        BY <1>3, <2>1, TurnWriteAlone DEF Matching, InTurns, Selling
<1>5. CASE AddPosition(c)
    <2>1. PICK v : Write(c, Bought(l), v) /\ Goto(c, "readseller") /\ Becomes(c, l)
                   /\ UNCHANGED <<db, serial>> /\ pc[c] = "addposition"
        BY <1>5, StaysLocal DEF AddPosition, UpdateRow, BuyerPosition, Bought
    <2>2. Bought(l) \in DOMAIN Put(Seen(c), Bought(l), v)
        BY PutRows
    <2> QED
        BY <1>3, <2>1, <2>2, TurnWriteAlone DEF Matching, InTurns, Selling
<1>6. CASE NewPosition(c)
    <2>1. InsertRow(c, BuyerPosition(c), MatchAmount(c), "readseller") /\ pc[c] = "newposition"
        BY <1>6 DEF NewPosition
    <2>2. /\ Write(c, BuyerPosition(c), MatchAmount(c)) /\ Goto(c, "readseller") /\ Becomes(c, l)
          /\ UNCHANGED <<db, serial>>
        BY <2>1, InsertsAlone
    <2>3. Bought(l) \in DOMAIN Put(Seen(c), BuyerPosition(c), MatchAmount(c))
        BY PutRows DEF BuyerPosition, Bought
    <2> QED
        BY <1>3, <2>1, <2>2, <2>3, TurnWriteAlone DEF Matching, InTurns, Selling
<1>7. CASE PaySeller(c)
    <2>1. PICK k, v : Write(c, k, v) /\ Goto(c, "loop") /\ UNCHANGED <<db, serial>> /\ pc[c] = "payseller"
        BY <1>7 DEF PaySeller, UpdateRow
    <2>2. PICK m : Becomes(c, m)
        BY <1>7 DEF PaySeller, Becomes, Inv, Types
    <2> QED
        BY <2>1, <2>2, TurnWriteAlone DEF Matching, InTurns, Selling
<1> QED
    BY <1>2, <1>4, <1>5, <1>6, <1>7

\* One client's requests, its draft of the tables and its vectors are what its handler's step says.
LEMMA AloneKeeps ==
    ASSUME Inv, AInv, Tallies, AInv', NEW c, Clients = {c}, LInv(c), [Next]_vars
    PROVE  LInv(c)'
<1>1. up' /\ c \in Clients
    BY DEF AInv
<1>2. CASE \E d \in Clients : Receive(d)
    BY <1>2, ReceiveAlone
<1>3. CASE \E d \in Clients : Handler(d)
    <2>1. Statement(c) /\ requests' = requests
        BY <1>3 DEF Handler
    <2>2. CASE CommitCreate(c) \/ CommitOrder(c)
        BY <1>1, <2>1, <2>2, EndAlone DEF CommitCreate, CommitOrder
    <2> QED
        BY <1>1, <2>1, <2>2, ReadsAlone, CreatesAlone, PlacesAlone, CancelsAlone, TurnsAlone DEF Statement
<1>4. CASE DeadlockDetected
    BY <1>1, <1>4 DEF DeadlockDetected, Terminate
<1>5. CASE UNCHANGED vars
    <2>1. UNCHANGED <<requests, db, serial, tx, pc, local>>
        BY <1>5 DEF vars
    <2>2. Seen(c)' = Seen(c)
        BY <2>1 DEF Seen
    <2>3. Drafted(local[c], pc[c], Ledger(Seen(c)), Ledger(db), serial)'
        BY <2>1, <2>2 DEF LInv
    <2>4. \A t : Vectors(c, t, 1)' = Vectors(c, t, 1)
        BY <2>1, <2>2 DEF Vectors, ActiveIds, Exists
    <2>5. (pc[c] = "selectsells" => local[c].buying \in Vectors(c, local[c].req.sym, 1))'
        BY <2>1, <2>4 DEF LInv
    <2>6. (pc[c] \in InTurns => \E old \in Seq(Fill) : local[c].fills = old \o TurnFills(local[c]))'
        BY <2>1 DEF LInv
    <2>7. (\A r \in requests[c] : r \in Asks(r.kind))'
        BY <2>1 DEF LInv
    <2>8. /\ (pc[c] \notin Matching => local[c].fills = <<>>)'
          /\ (pc[c] \in Selling => Bought(local[c]) \in DOMAIN Seen(c))'
        BY <2>1, <2>2 DEF LInv
    <2> QED
        BY <2>3, <2>5, <2>6, <2>7, <2>8 DEF LInv
<1> QED
    BY <1>2, <1>3, <1>4, <1>5 DEF Next

\* The server starts with nothing under way.
LEMMA StartsAlone ==
    ASSUME Init, NEW c \in Clients
    PROVE  LInv(c)
<1>1. PICK course \in Courses : requests = course.requests /\ db = course.opening
    BY DEF Init
<1>2. pc[c] = "idle" /\ local[c] = Fresh /\ serial = 0 /\ tx[c] = NoRows
    BY DEF Init
<1>3. Ledger(Seen(c)) = Ledger(db)
    BY <1>2, LedgerOver DEF Seen
<1>4. Draft(Fresh, "idle", Ledger(db), Ledger(db), 0)
    BY DEF Draft, Untouched, Booking, Fetching
<1>5. Checked(Fresh, "idle", Ledger(db), Ledger(db), 0)
    BY DEF Checked, Granting, Booking, Fetching, Refunding
<1>6. ASSUME NEW r \in requests[c] PROVE r \in Asks(r.kind)
    <2> DEFINE S(course1, d) == {q \in course1.requests[d] : q.kind = r.kind}
    <2>1. r \in S(course, c)
        BY <1>1
    <2>2. S(course, c) \in {S(course1, d) : course1 \in Courses, d \in Clients}
        BY <1>1
    <2>3. Asks(r.kind) = UNION {S(course1, d) : course1 \in Courses, d \in Clients}
        BY DEF Asks
    <2> HIDE DEF S
    <2> QED
        BY <2>1, <2>2, <2>3
<1> QED
    BY <1>2, <1>3, <1>4, <1>5, <1>6 DEF LInv, Drafted, InTurns, Selling, Fresh
-----------------------------------------------------------------------------
(* What Exchange sees                                                       *)

OpenedIn(f) == {a \in Accounts : Balance(a) \in DOMAIN f}
BalanceIn(f) == [a \in Accounts |-> Num(f, Balance(a))]
PositionIn(f) == [h \in Accounts \X Symbols |-> Num(f, Position(h[1], h[2]))]
OrdersIn(f, n) == [i \in {j \in 1 .. n : Order(j) \in DOMAIN f} |-> f[Order(i)]]

\* Exchange sees the ledger f with n orders, and the executions e.
Shows(f, n, e) ==
    /\ ViewOpened = OpenedIn(f) /\ ViewBalance = BalanceIn(f) /\ ViewPosition = PositionIn(f)
    /\ ViewOrders = OrdersIn(f, n) /\ ViewExecuted = e

RestShown(c) ==
    pc[c] \notin Matching /\ executed \in Seq(Fill) =>
        Shows(Ledger(db), serial, executed) /\ ViewMatching = {} /\ ViewBuying = <<>> /\ ViewSelling = <<>>

LoopShown(c) ==
    pc[c] \in Matching =>
        /\ pc[c] = "loop" => Shows(Ledger(Seen(c)), serial, executed \o local[c].fills)
        /\ ViewMatching = {local[c].req.sym} /\ ViewBuying = local[c].buying /\ ViewSelling = local[c].selling

\* The row o at k, and the ledger f, without what a turn has written so far.
Was(l, step, k, o) ==
    IF k = Order(l.buying[1].TransID) THEN WithAmount(o, l.buying[1].Amount)
    ELSE IF k = Order(l.selling[1].TransID) THEN WithAmount(o, l.selling[1].Amount)
    ELSE IF step \in Selling /\ k = Bought(l) THEN o - Lot(l)
    ELSE o

Rewind(l, step, f) == [k \in DOMAIN f |-> Was(l, step, k, f[k])]
TurnShown(c) ==
    pc[c] \in InTurns /\ local[c].buying[1].TransID # local[c].selling[1].TransID =>
        \A old \in Seq(Fill) : local[c].fills = old \o TurnFills(local[c]) =>
            Shows(Rewind(local[c], pc[c], Ledger(Seen(c))), serial, executed \o old)

LEMMA OnlyClient == ASSUME NEW c, Clients = {c} PROVE TheClient = c
BY DEF TheClient

LEMMA Loops ==
    ASSUME NEW c, Clients = {c}
    PROVE  /\ InLoop <=> pc[c] \in Matching
           /\ InTurn <=> pc[c] \in InTurns
BY OnlyClient DEF InLoop, InTurn, Matching, InTurns

\* A ledger that agrees with the view row by row is what Exchange sees.
LEMMA LedgerShows ==
    ASSUME NEW f, \A a \in Accounts : Balance(a) \in DOMAIN View <=> Balance(a) \in DOMAIN f,
           \A i : Order(i) \in DOMAIN View <=> Order(i) \in DOMAIN f,
           \A a \in Accounts : NumberOf(Balance(a)) = Num(f, Balance(a)),
           \A a \in Accounts, s \in Symbols : NumberOf(Position(a, s)) = Num(f, Position(a, s)),
           \A i : Order(i) \in DOMAIN f => BeforeTurn(Order(i)) = f[Order(i)]
    PROVE  Shows(f, serial, ViewExecuted)
<1>1. ViewOpened = OpenedIn(f)
    BY DEF ViewOpened, OpenedIn
<1>2. ViewBalance = BalanceIn(f)
    BY DEF ViewBalance, BalanceIn
<1>3. ViewPosition = PositionIn(f)
    <2>1. \A h \in Accounts \X Symbols : NumberOf(Position(h[1], h[2])) = Num(f, Position(h[1], h[2]))
        OBVIOUS
    <2> QED
        BY <2>1 DEF ViewPosition, PositionIn
<1>4. ViewOrders = OrdersIn(f, serial)
    <2>1. {j \in 1 .. serial : Order(j) \in DOMAIN View} = {j \in 1 .. serial : Order(j) \in DOMAIN f}
        OBVIOUS
    <2> QED
        BY <2>1 DEF ViewOrders, OrdersIn
<1> QED
    BY <1>1, <1>2, <1>3, <1>4 DEF Shows

\* Between the loops Exchange sees the committed rows.
LEMMA RestShows == ASSUME NEW c, Clients = {c} PROVE RestShown(c)
<1> SUFFICES ASSUME pc[c] \notin Matching, executed \in Seq(Fill)
             PROVE  Shows(Ledger(db), serial, executed) /\ ViewMatching = {} /\ ViewBuying = <<>> /\ ViewSelling = <<>>
    BY DEF RestShown
<1>1. ~InLoop /\ ~InTurn
    BY Loops DEF Matching
<1>2. View = db /\ \A k : BeforeTurn(k) = db[k]
    BY <1>1 DEF View, BeforeTurn
<1>3. ViewExecuted = executed
    BY <1>1 DEF ViewExecuted
<1>4. \A k : k \notin SymbolKeys => /\ k \in DOMAIN View <=> k \in DOMAIN Ledger(db)
                                    /\ k \in DOMAIN Ledger(db) => BeforeTurn(k) = Ledger(db)[k]
    BY <1>2, LedgerRows
<1>5. Shows(Ledger(db), serial, ViewExecuted)
    BY <1>4, NoSymbolKeys, LedgerShows DEF NumberOf, Num
<1> QED
    BY <1>1, <1>3, <1>5 DEF ViewMatching, ViewBuying, ViewSelling

\* At the head of the loop it sees what the transaction has written.
LEMMA LoopShows == ASSUME NEW c, Clients = {c} PROVE LoopShown(c)
<1> SUFFICES ASSUME pc[c] \in Matching
             PROVE  /\ pc[c] = "loop" => Shows(Ledger(Seen(c)), serial, executed \o local[c].fills)
                    /\ ViewMatching = {local[c].req.sym} /\ ViewBuying = local[c].buying
                    /\ ViewSelling = local[c].selling
    BY DEF LoopShown
<1>1. InLoop /\ TheClient = c
    BY Loops, OnlyClient
<1>2. ASSUME pc[c] = "loop"
      PROVE  Shows(Ledger(Seen(c)), serial, executed \o local[c].fills)
    <2>1. ~InTurn
        BY <1>2, Loops DEF InTurns
    <2>2. View = Seen(c) /\ \A k : BeforeTurn(k) = Seen(c)[k]
        BY <1>1, <2>1 DEF View, BeforeTurn
    <2>3. ViewExecuted = executed \o local[c].fills
        BY <1>1, <2>1 DEF ViewExecuted, FillsBeforeTurn
    <2>4. \A k : k \notin SymbolKeys => /\ k \in DOMAIN View <=> k \in DOMAIN Ledger(Seen(c))
                                        /\ k \in DOMAIN Ledger(Seen(c)) => BeforeTurn(k) = Ledger(Seen(c))[k]
        BY <2>2, LedgerRows
    <2>5. Shows(Ledger(Seen(c)), serial, ViewExecuted)
        BY <2>4, NoSymbolKeys, LedgerShows DEF NumberOf, Num
    <2> QED
        BY <2>3, <2>5
<1> QED
    BY <1>1, <1>2 DEF ViewMatching, ViewBuying, ViewSelling

\* The executions of a turn are the last two.
LEMMA WithoutTurnFills ==
    ASSUME NEW old \in Seq(Fill), NEW l
    PROVE  SubSeq(old \o TurnFills(l), 1, Len(old \o TurnFills(l)) - 2) = old
<1> DEFINE two == TurnFills(l)
           all == old \o two
<1>1. Len(two) = 2 /\ DOMAIN two = 1 .. 2
    BY DEF TurnFills
<1>2. two \in Seq({two[1], two[2]})
    BY DEF TurnFills
<1> HIDE DEF two
<1> DEFINE S == Fill \cup {two[1], two[2]}
<1>3. old \in Seq(S) /\ two \in Seq(S)
    BY <1>1, <1>2
<1> HIDE DEF S
<1>4. all \in Seq(S) /\ Len(all) = Len(old) + 2 /\ \A k \in 1 .. Len(old) : all[k] = old[k]
    <2>1. Len(old) \in Nat /\ Len(old) + 2 = Len(all)
        <3>1. Len(old \o two) = Len(old) + Len(two)
            BY <1>3, ConcatProperties
        <3>2. Len(old) \in Nat
            BY <1>3
        <3> QED
            BY <1>1, <3>1, <3>2
    <2>2. all \in Seq(S)
        BY <1>3, ConcatProperties
    <2>3. \A k \in 1 .. Len(old) : all[k] = old[k]
        BY <1>3, <2>1, ConcatProperties
    <2> QED
        BY <2>1, <2>2, <2>3
<1>5. SubSeq(all, 1, Len(old)) = [k \in 1 .. Len(old) |-> all[k]]
    BY <1>3, <1>4
<1> HIDE DEF all
<1>6. Len(all) - 2 = Len(old) /\ old = [k \in 1 .. Len(old) |-> old[k]]
    BY <1>3, <1>4
<1> QED
    BY <1>4, <1>5, <1>6 DEF all, two

\* The two orders that trade have the amounts of the vectors.
LEMMA TurnRow ==
    ASSUME InTurn, NEW k, \E e \in Heads : k = Order(e.TransID)
    PROVE  BeforeTurn(k) = [View[k] EXCEPT !.Amount = (CHOOSE e \in Heads : k = Order(e.TransID)).Amount]
<1>1. \A p : BuyerPosition(p) # k
    BY KeysDiffer DEF BuyerPosition
<1> QED
    BY <1>1 DEF BeforeTurn

\* In a turn it sees that without what the turn has written.
LEMMA TurnShows == ASSUME NEW c, Clients = {c} PROVE TurnShown(c)
<1> DEFINE l == local[c]
           b == l.buying[1]
           a == l.selling[1]
           g == Rewind(l, pc[c], Ledger(Seen(c)))
<1> SUFFICES ASSUME pc[c] \in InTurns, b.TransID # a.TransID, NEW old \in Seq(Fill), l.fills = old \o TurnFills(l)
             PROVE  Shows(g, serial, executed \o old)
    BY DEF TurnShown
<1>1. InLoop /\ InTurn /\ TheClient = c
    BY Loops, OnlyClient DEF Matching
<1>2. View = Seen(c)
    BY <1>1 DEF View
<1>3. ViewExecuted = executed \o old
    BY <1>1, WithoutTurnFills DEF ViewExecuted, FillsBeforeTurn
<1>4. DOMAIN g = DOMAIN Ledger(Seen(c))
    BY DEF Rewind, Was
<1>5. \A k : k \notin SymbolKeys => (k \in DOMAIN View <=> k \in DOMAIN g)
    BY <1>2, <1>4, LedgerRows
<1>6. MatchAmount(c) = Lot(l) /\ BuyerPosition(c) = Position(b.AccountID, l.req.sym)
    BY DEF MatchAmount, Lot, BuyerPosition
<1>7. ASSUME NEW k \in DOMAIN g
      PROVE  BeforeTurn(k) = g[k]
    <2>1. k \notin SymbolKeys /\ View[k] = Ledger(Seen(c))[k]
        BY <1>2, <1>4, LedgerRows
    <2>2. Heads = {b, a}
        BY <1>1 DEF Heads
    <2>3. CASE k = Order(b.TransID)
        <3>1. \A e \in Heads : k = Order(e.TransID) <=> e = b
            BY <2>2, <2>3, KeysDiffer
        <3>2. (CHOOSE e \in Heads : k = Order(e.TransID)) = b
            BY <2>2, <3>1
        <3>4. \E e \in Heads : k = Order(e.TransID)
            BY <2>2, <3>1
        <3>5. BeforeTurn(k) = [View[k] EXCEPT !.Amount = b.Amount]
            BY <1>1, <3>2, <3>4, TurnRow
        <3>6. g[k] = WithAmount(Ledger(Seen(c))[k], b.Amount)
            BY <1>4, <2>3 DEF Rewind, Was
        <3> QED
            BY <2>1, <3>5, <3>6 DEF WithAmount
    <2>4. CASE k = Order(a.TransID)
        <3>1. \A e \in Heads : k = Order(e.TransID) <=> e = a
            BY <2>2, <2>4, KeysDiffer
        <3>2. (CHOOSE e \in Heads : k = Order(e.TransID)) = a
            BY <2>2, <3>1
        <3>3. k # Order(b.TransID)
            BY <2>4, KeysDiffer
        <3>4. \E e \in Heads : k = Order(e.TransID)
            BY <2>2, <3>1
        <3>5. BeforeTurn(k) = [View[k] EXCEPT !.Amount = a.Amount]
            BY <1>1, <3>2, <3>4, TurnRow
        <3>6. g[k] = WithAmount(Ledger(Seen(c))[k], a.Amount)
            BY <1>4, <2>4, <3>3 DEF Rewind, Was
        <3> QED
            BY <2>1, <3>5, <3>6 DEF WithAmount
    <2>5. CASE k # Order(b.TransID) /\ k # Order(a.TransID)
        <3>1. ~ \E e \in Heads : k = Order(e.TransID)
            BY <2>2, <2>5
        <3> QED
            BY <1>1, <1>6, <2>1, <2>5, <3>1 DEF BeforeTurn, Rewind, Was, Bought, Selling
    <2> QED
        BY <2>3, <2>4, <2>5
<1> HIDE DEF g
<1>8. Shows(g, serial, ViewExecuted)
    BY <1>5, <1>7, NoSymbolKeys, LedgerShows DEF NumberOf, Num
<1> QED
    BY <1>3, <1>8
-----------------------------------------------------------------------------
(* What a row written changes of the tables of Exchange                     *)

LEMMA PutNum ==
    \A f, k, v, j : Num(Put(f, k, v), j) = IF j = k THEN v ELSE Num(f, j)
<1> SUFFICES ASSUME NEW f, NEW k, NEW v, NEW j PROVE Num(Put(f, k, v), j) = IF j = k THEN v ELSE Num(f, j)
    OBVIOUS
<1>1. /\ j \in DOMAIN Put(f, k, v) <=> (j \in DOMAIN f \/ j = k)
      /\ j = k => Put(f, k, v)[j] = v
      /\ j \in DOMAIN f /\ j # k => Put(f, k, v)[j] = f[j]
    BY PutRows
<1> QED
    BY <1>1 DEF Num

\* Numbers of a row other than an order's.
LEMMA PutTables ==
    ASSUME NEW f, NEW k, NEW v, NEW n, \A i : k # Order(i)
    PROVE  OrdersIn(Put(f, k, v), n) = OrdersIn(f, n)
<1> DEFINE g == Put(f, k, v)
<1>1. \A i : /\ Order(i) \in DOMAIN g <=> Order(i) \in DOMAIN f
             /\ Order(i) \in DOMAIN f => g[Order(i)] = f[Order(i)]
    BY PutRows
<1> HIDE DEF g
<1>2. {j \in 1 .. n : Order(j) \in DOMAIN g} = {j \in 1 .. n : Order(j) \in DOMAIN f}
    BY <1>1
<1>3. OrdersIn(g, n) = OrdersIn(f, n)
    BY <1>1, <1>2 DEF OrdersIn
<1> QED
    BY <1>3 DEF g

\* A balance.
LEMMA PutBalance ==
    ASSUME NEW f, NEW a \in Accounts, NEW v
    PROVE  LET g == Put(f, Balance(a), v)
           IN  /\ OpenedIn(g) = OpenedIn(f) \cup {a}
               /\ BalanceIn(g) = [BalanceIn(f) EXCEPT ![a] = v]
               /\ PositionIn(g) = PositionIn(f)
<1> DEFINE g == Put(f, Balance(a), v)
<1>1. \A b : Balance(b) \in DOMAIN g <=> Balance(b) \in DOMAIN f \/ b = a
    BY PutRows, KeysDiffer
<1>2. \A b : Num(g, Balance(b)) = IF b = a THEN v ELSE Num(f, Balance(b))
    BY PutNum, KeysDiffer
<1>3. \A b, s : Num(g, Position(b, s)) = Num(f, Position(b, s))
    BY PutNum, KeysDiffer
<1> HIDE DEF g
<1>4. OpenedIn(g) = OpenedIn(f) \cup {a}
    BY <1>1 DEF OpenedIn
<1>5. BalanceIn(g) = [BalanceIn(f) EXCEPT ![a] = v]
    BY <1>2 DEF BalanceIn
<1>6. PositionIn(g) = PositionIn(f)
    BY <1>3 DEF PositionIn
<1> QED
    BY <1>4, <1>5, <1>6 DEF g

\* A position.
LEMMA PutPosition ==
    ASSUME NEW f, NEW a \in Accounts, NEW s \in Symbols, NEW v
    PROVE  LET g == Put(f, Position(a, s), v)
           IN  /\ OpenedIn(g) = OpenedIn(f)
               /\ BalanceIn(g) = BalanceIn(f)
               /\ PositionIn(g) = [PositionIn(f) EXCEPT ![<<a, s>>] = v]
<1> DEFINE g == Put(f, Position(a, s), v)
<1>1. \A b : Balance(b) \in DOMAIN g <=> Balance(b) \in DOMAIN f
    BY PutRows, KeysDiffer
<1>2. \A b : Num(g, Balance(b)) = Num(f, Balance(b))
    BY PutNum, KeysDiffer
<1>3. \A b, u : Num(g, Position(b, u)) = IF b = a /\ u = s THEN v ELSE Num(f, Position(b, u))
    BY PutNum, KeysDiffer
<1> HIDE DEF g
<1>4. OpenedIn(g) = OpenedIn(f)
    BY <1>1 DEF OpenedIn
<1>5. BalanceIn(g) = BalanceIn(f)
    BY <1>2 DEF BalanceIn
<1>6. PositionIn(g) = [PositionIn(f) EXCEPT ![<<a, s>>] = v]
    <2>1. \A h \in Accounts \X Symbols : h = <<a, s>> <=> h[1] = a /\ h[2] = s
        OBVIOUS
    <2>2. \A h \in Accounts \X Symbols :
              Num(g, Position(h[1], h[2])) = IF h = <<a, s>> THEN v ELSE Num(f, Position(h[1], h[2]))
        BY <1>3, <2>1
    <2> QED
        BY <2>2 DEF PositionIn
<1> QED
    BY <1>4, <1>5, <1>6 DEF g

\* A row of TRANSACTION.
LEMMA PutOrder ==
    ASSUME NEW f, NEW i, NEW o, NEW n
    PROVE  LET g == Put(f, Order(i), o)
           IN  /\ OpenedIn(g) = OpenedIn(f) /\ BalanceIn(g) = BalanceIn(f) /\ PositionIn(g) = PositionIn(f)
               /\ Order(i) \in DOMAIN f => OrdersIn(g, n) = [OrdersIn(f, n) EXCEPT ![i] = o]
<1> DEFINE g == Put(f, Order(i), o)
<1>1. \A b : Balance(b) \in DOMAIN g <=> Balance(b) \in DOMAIN f
    BY PutRows, KeysDiffer
<1>2. \A b : Num(g, Balance(b)) = Num(f, Balance(b))
    BY PutNum, KeysDiffer
<1>3. \A b, u : Num(g, Position(b, u)) = Num(f, Position(b, u))
    BY PutNum, KeysDiffer
<1>4. \A j : /\ Order(j) \in DOMAIN g <=> Order(j) \in DOMAIN f \/ j = i
             /\ Order(j) \in DOMAIN g => g[Order(j)] = IF j = i THEN o ELSE f[Order(j)]
    BY PutRows, KeysDiffer
<1> HIDE DEF g
<1>5. OpenedIn(g) = OpenedIn(f) /\ BalanceIn(g) = BalanceIn(f)
    BY <1>1, <1>2 DEF OpenedIn, BalanceIn
<1>6. PositionIn(g) = PositionIn(f)
    BY <1>3 DEF PositionIn
<1>7. ASSUME Order(i) \in DOMAIN f PROVE OrdersIn(g, n) = [OrdersIn(f, n) EXCEPT ![i] = o]
    <2>1. {j \in 1 .. n : Order(j) \in DOMAIN g} = {j \in 1 .. n : Order(j) \in DOMAIN f}
        BY <1>4, <1>7
    <2> QED
        BY <1>4, <2>1 DEF OrdersIn
<1> QED
    BY <1>5, <1>6, <1>7 DEF g

\* An order numbered n + 1 is appended.
LEMMA PlaceOrder ==
    ASSUME NEW f, NEW n \in Nat, \A j \in 1 .. n : Order(j) \in DOMAIN f, NEW o
    PROVE  /\ OrdersIn(f, n) = [j \in 1 .. n |-> f[Order(j)]] /\ Len(OrdersIn(f, n)) = n
           /\ DOMAIN OrdersIn(f, n) = 1 .. n
           /\ OrdersIn(Put(f, Order(n + 1), o), n + 1) = Append(OrdersIn(f, n), o)
<1> DEFINE g == Put(f, Order(n + 1), o)
           t == OrdersIn(f, n)
<1>1. \A j : /\ Order(j) \in DOMAIN g <=> Order(j) \in DOMAIN f \/ j = n + 1
             /\ Order(j) \in DOMAIN g => g[Order(j)] = IF j = n + 1 THEN o ELSE f[Order(j)]
    BY PutRows, KeysDiffer
<1> HIDE DEF g
<1>2. {j \in 1 .. n : Order(j) \in DOMAIN f} = 1 .. n
    OBVIOUS
<1>3. t = [j \in 1 .. n |-> f[Order(j)]]
    BY <1>2 DEF OrdersIn
<1>4. Len(t) = n /\ DOMAIN t = 1 .. n
    BY <1>3
<1>5. {j \in 1 .. (n + 1) : Order(j) \in DOMAIN g} = 1 .. (n + 1)
    BY <1>1
<1>6. OrdersIn(g, n + 1) = [j \in 1 .. (n + 1) |-> g[Order(j)]]
    BY <1>5 DEF OrdersIn
<1>7. \A j \in 1 .. (n + 1) : g[Order(j)] = IF j = n + 1 THEN o ELSE t[j]
    BY <1>1, <1>3
<1>8. OrdersIn(g, n + 1) = Append(t, o)
    <2> DEFINE S == {t[j] : j \in 1 .. n} \cup {o}
    <2>1. t \in Seq(S) /\ o \in S
        BY <1>3
    <2> HIDE DEF S, t
    <2>2. PICK u : u = Append(t, o)
        OBVIOUS
    <2>3. u \in Seq(S) /\ Len(u) = n + 1 /\ u[n + 1] = o /\ \A j \in 1 .. n : u[j] = t[j]
        BY <1>4, <2>1, <2>2, AppendProperties
    <2>4. u = [j \in 1 .. (n + 1) |-> u[j]]
        BY <2>3
    <2>5. \A j \in 1 .. (n + 1) : u[j] = g[Order(j)]
        BY <1>7, <2>3
    <2> QED
        BY <1>6, <2>2, <2>4, <2>5
<1> QED
    BY <1>3, <1>4, <1>8 DEF g
-----------------------------------------------------------------------------
(* Steps that Exchange does not see                                         *)

Shown(c) == RestShown(c) /\ LoopShown(c) /\ TurnShown(c)

LEMMA ViewStays ==
    ASSUME UNCHANGED <<ViewOpened, ViewBalance, ViewPosition, ViewOrders, ViewExecuted, ViewMatching,
                       ViewBuying, ViewSelling>>
    PROVE  UNCHANGED Serial!vars
BY DEF Serial!vars, Serial!tables

\* A transaction that is not at its loop, and stays there.
LEMMA RestStays ==
    ASSUME Inv, Tallies, NEW c \in Clients, Shown(c), Shown(c)', pc[c] \notin Matching, pc'[c] \notin Matching,
           UNCHANGED <<db, executed>>, serial' \in {serial, serial + 1}
    PROVE  UNCHANGED Serial!vars
<1>1. executed \in Seq(Fill) /\ executed' \in Seq(Fill)
    BY DEF Tallies
<1>2. /\ Shows(Ledger(db), serial, executed) /\ ViewMatching = {} /\ ViewBuying = <<>> /\ ViewSelling = <<>>
    BY <1>1 DEF Shown, RestShown
<1>3. /\ Shows(Ledger(db), serial, executed)' /\ ViewMatching' = {} /\ ViewBuying' = <<>> /\ ViewSelling' = <<>>
    BY <1>1 DEF Shown, RestShown
<1>4. OrdersIn(Ledger(db), serial') = OrdersIn(Ledger(db), serial)
    <2>1. serial \in Nat /\ \A j : Order(j) \in DOMAIN Ledger(db) => j \in 1 .. serial
        BY OrderKeys, LedgerRows DEF Inv, Types, Table
    <2>2. \A j : j \in 1 .. serial' /\ Order(j) \in DOMAIN Ledger(db) <=>
                 j \in 1 .. serial /\ Order(j) \in DOMAIN Ledger(db)
        BY <2>1
    <2>3. {j \in 1 .. serial' : Order(j) \in DOMAIN Ledger(db)} = {j \in 1 .. serial : Order(j) \in DOMAIN Ledger(db)}
        BY <2>2
    <2> QED
        BY <2>3 DEF OrdersIn
<1>5. UNCHANGED <<ViewOpened, ViewBalance, ViewPosition, ViewOrders, ViewExecuted>>
    BY <1>2, <1>3, <1>4 DEF Shows
<1> QED
    BY <1>2, <1>3, <1>5, ViewStays

Unseen(c) ==
    \/ FindAccount(c) \/ NewAccount(c) \/ FindRow(c) \/ AddRow(c) \/ NewRow(c) \/ FindSymbol(c) \/ NewSymbol(c)
    \/ CheckFunds(c) \/ InsertOrder(c) \/ SelectMax(c) \/ Reread(c) \/ Charge(c) \/ SelectBuys(c)
    \/ ReadOrder(c) \/ ReadCancelTime(c) \/ SetCancelTime(c) \/ ReadRefund(c) \/ Refund(c)

\* A statement before the loop goes on to another one, ends its transaction with nothing written, or
\* fails, and commits nothing.
GoesOn(c) ==
    /\ pc[c] \notin Matching /\ UNCHANGED <<db, executed>> /\ serial' \in {serial, serial + 1}
    /\ \/ Terminate
       \/ \E step : Goto(c, step) /\ step \notin Matching

LEMMA EndGoesOn ==
    ASSUME NEW c \in Clients, EndTransaction(c, FALSE), pc[c] \notin Matching
    PROVE  GoesOn(c)
BY DEF EndTransaction, GoesOn, Matching, InTurns

LEMMA KeepGoesOn ==
    ASSUME NEW c \in Clients, NEW l, NEW step, Keep(c, l, step), pc[c] \notin Matching, step \notin Matching
    PROVE  GoesOn(c)
BY DEF Keep, GoesOn

LEMMA UpdateGoesOn ==
    ASSUME NEW c \in Clients, NEW k, NEW v, NEW step, UpdateRow(c, k, v, step), pc[c] \notin Matching,
           step \notin Matching, serial' \in {serial, serial + 1}
    PROVE  GoesOn(c)
BY DEF UpdateRow, GoesOn

LEMMA InsertGoesOn ==
    ASSUME NEW c \in Clients, NEW k, NEW v, NEW step, InsertRow(c, k, v, step), pc[c] \notin Matching,
           step \notin Matching
    PROVE  GoesOn(c)
BY DEF InsertRow, GoesOn, Terminate

LEMMA UnseenGoesOn ==
    ASSUME NEW c \in Clients, Unseen(c)
    PROVE  GoesOn(c)
<1> USE DEF Matching, InTurns
<1>1. CASE FindAccount(c)
    BY <1>1, EndGoesOn, KeepGoesOn DEF FindAccount
<1>2. CASE NewAccount(c)
    BY <1>2, InsertGoesOn DEF NewAccount
<1>3. CASE FindRow(c)
    BY <1>3, KeepGoesOn DEF FindRow
<1>4. CASE AddRow(c)
    BY <1>4, UpdateGoesOn DEF AddRow
<1>5. CASE NewRow(c)
    BY <1>5, InsertGoesOn DEF NewRow
<1>6. CASE FindSymbol(c)
    BY <1>6, KeepGoesOn DEF FindSymbol, AfterSymbol
<1>7. CASE NewSymbol(c)
    BY <1>7, InsertGoesOn DEF NewSymbol, AfterSymbol
<1>8. CASE CheckFunds(c)
    BY <1>8, EndGoesOn, KeepGoesOn DEF CheckFunds
<1>9. CASE InsertOrder(c)
    BY <1>9, UpdateGoesOn DEF InsertOrder
<1>10. CASE SelectMax(c)
    BY <1>10, KeepGoesOn DEF SelectMax
<1>11. CASE Reread(c)
    BY <1>11, KeepGoesOn DEF Reread
<1>12. CASE Charge(c)
    BY <1>12, UpdateGoesOn DEF Charge
<1>13. CASE SelectBuys(c)
    BY <1>13, KeepGoesOn DEF SelectBuys
<1>14. CASE ReadOrder(c)
    BY <1>14, KeepGoesOn DEF ReadOrder
<1>15. CASE ReadCancelTime(c)
    BY <1>15, EndGoesOn, KeepGoesOn DEF ReadCancelTime
<1>16. CASE SetCancelTime(c)
    BY <1>16, UpdateGoesOn DEF SetCancelTime
<1>17. CASE ReadRefund(c)
    BY <1>17, KeepGoesOn DEF ReadRefund
<1>18. CASE Refund(c)
    BY <1>18, UpdateGoesOn DEF Refund
<1> QED
    BY <1>1, <1>2, <1>3, <1>4, <1>5, <1>6, <1>7, <1>8, <1>9, <1>10, <1>11, <1>12, <1>13, <1>14, <1>15, <1>16, <1>17,
       <1>18 DEF Unseen

\* A request that arrives, and every statement before the loop.
LEMMA UnseenStays ==
    ASSUME Inv, Tallies, NEW c \in Clients, Shown(c), Shown(c)', Unseen(c) \/ Receive(c)
    PROVE  UNCHANGED Serial!vars
<1>1. GoesOn(c)
    <2>1. CASE Receive(c)
        <3>1. PICK r \in requests[c] : RequestOK(r) /\ \E l : Keep(c, l, FirstStep(r))
            BY <2>1 DEF Receive, Inv, Types
        <3>2. FirstStep(r) \notin Matching /\ pc[c] \notin Matching
            BY <2>1, <3>1 DEF FirstStep, RequestOK, Matching, InTurns, Receive
        <3> QED
            BY <3>1, <3>2, KeepGoesOn
    <2> QED
        BY <2>1, UnseenGoesOn
<1>2. pc'[c] \notin Matching
    <2>1. CASE Terminate
        BY <2>1 DEF Terminate, Matching, InTurns
    <2>2. CASE \E step : Goto(c, step) /\ step \notin Matching
        BY <2>2 DEF Goto, Inv, Types
    <2> QED
        BY <1>1, <2>1, <2>2 DEF GoesOn
<1> QED
    BY <1>1, <1>2, RestStays DEF GoesOn
-----------------------------------------------------------------------------
(* The commit of <create> and <cancel>                                      *)

\* What a client reads of its ledger.
LEMMA LedgerRow ==
    ASSUME Inv, AInv, NEW c \in Clients
    PROVE  /\ \A k : k \in DOMAIN OwnRows(c) /\ k \notin SymbolKeys =>
                  k \in DOMAIN Ledger(Seen(c)) /\ Ledger(Seen(c))[k] = OwnRows(c)[k]
           /\ \A a \in Accounts : Balance(a) \in DOMAIN Ledger(db) => Ledger(db)[Balance(a)] \in Nat
           /\ \A a \in Accounts, s \in Symbols :
                  Position(a, s) \in DOMAIN Ledger(db) => Ledger(db)[Position(a, s)] \in Nat
           /\ \A i : Order(i) \in DOMAIN Ledger(db) => i \in 1 .. serial /\ Ledger(db)[Order(i)] \in OrderRow
           /\ \A i : Order(i) \in DOMAIN Ledger(Seen(c)) => i \in 1 .. serial /\ Ledger(Seen(c))[Order(i)] \in OrderRow
<1>1. \A k : k \in DOMAIN OwnRows(c) => k \in DOMAIN Seen(c) /\ Seen(c)[k] = OwnRows(c)[k]
    BY DEF OwnRows, Part
<1>2. Paid(db)
    BY DEF AInv
<1>3. Table(db) /\ Table(Seen(c))
    BY SeenTable DEF Inv, Types
<1> QED
    BY <1>1, <1>2, <1>3, LedgerRows, OrderKeys DEF Paid, Table

CommitView(c) ==
    /\ Shows(Ledger(db), serial, executed) /\ ViewMatching = {} /\ ViewBuying = <<>> /\ ViewSelling = <<>>
    /\ ViewOpened' = OpenedIn(Ledger(Seen(c))) /\ ViewBalance' = BalanceIn(Ledger(Seen(c)))
    /\ ViewPosition' = PositionIn(Ledger(Seen(c))) /\ ViewOrders' = OrdersIn(Ledger(Seen(c)), serial)
    /\ ViewExecuted' = executed
    /\ ViewMatching' = {} /\ ViewBuying' = <<>> /\ ViewSelling' = <<>>

LEMMA CommitViews ==
    ASSUME Inv, Tallies, NEW c \in Clients, LInv(c), Shown(c), Shown(c)', CommitCreate(c)
    PROVE  CommitView(c)
<1>1. /\ pc[c] = "commit" /\ db' = Seen(c) /\ executed' = executed \o local[c].fills /\ serial' = serial
      /\ pc'[c] = "idle"
    BY DEF CommitCreate, EndTransaction, Goto, Inv, Types
<1>2. pc[c] \notin Matching /\ pc'[c] \notin Matching
    BY <1>1 DEF Matching, InTurns
<1>3. executed \in Seq(Fill) /\ executed' = executed
    BY <1>1, <1>2 DEF LInv, Tallies
<1>4. /\ Shows(Ledger(db), serial, executed) /\ ViewMatching = {} /\ ViewBuying = <<>> /\ ViewSelling = <<>>
    BY <1>2, <1>3 DEF Shown, RestShown
<1>5. /\ Shows(Ledger(db), serial, executed)' /\ ViewMatching' = {} /\ ViewBuying' = <<>> /\ ViewSelling' = <<>>
    BY <1>2, <1>3 DEF Shown, RestShown
<1> QED
    BY <1>1, <1>3, <1>4, <1>5 DEF Shows, CommitView

\* An account is opened.
LEMMA AccountCommits ==
    ASSUME Inv, AInv, NEW c \in Clients, LInv(c), CommitView(c), pc[c] = "commit", local[c].req.kind = "account"
    PROVE  Serial!Next
<1> DEFINE r == local[c].req
           kept == Ledger(db)
           seen == Ledger(Seen(c))
<1>1. r \in requests[c] /\ RequestOK(r)
    BY ServedOwn DEF Inv, Types
<1>2. r.id \in Accounts /\ r.amount \in Openings
    BY <1>1 DEF LInv, Openings, RequestOK
<1>3. seen = Put(kept, Balance(r.id), r.amount) /\ Balance(r.id) \notin DOMAIN kept
    BY DEF LInv, Drafted, Draft
<1> HIDE DEF kept, seen, r
<1>4. /\ OpenedIn(seen) = OpenedIn(kept) \cup {r.id}
      /\ BalanceIn(seen) = [BalanceIn(kept) EXCEPT ![r.id] = r.amount]
      /\ PositionIn(seen) = PositionIn(kept)
    BY <1>2, <1>3, PutBalance
<1>5. OrdersIn(seen, serial) = OrdersIn(kept, serial)
    BY <1>3, PutTables, KeysDiffer
<1>6. r.id \notin OpenedIn(kept)
    BY <1>3 DEF OpenedIn
<1>7. Serial!CreateAccount(r.id, r.amount)
    BY <1>4, <1>5, <1>6 DEF CommitView, Shows, Serial!CreateAccount, kept, seen
<1> QED
    BY <1>2, <1>7 DEF Serial!Next

\* Shares are handed out.
LEMMA PositionCommits ==
    ASSUME Inv, AInv, NEW c \in Clients, LInv(c), CommitView(c), pc[c] = "commit", local[c].req.kind = "position"
    PROVE  Serial!Next
<1> DEFINE r == local[c].req
           kept == Ledger(db)
           seen == Ledger(Seen(c))
           k == Position(r.id, r.sym)
<1>1. r \in requests[c] /\ RequestOK(r)
    BY ServedOwn DEF Inv, Types
<1>2. r.id \in Accounts /\ r.sym \in Symbols /\ r.amount \in Given
    BY <1>1 DEF LInv, Given, RequestOK
<1>3. seen = Put(kept, k, Num(kept, k) + r.amount) /\ Num(kept, k) + r.amount =< MaxShares
    BY DEF LInv, Drafted, Draft, Checked, Granting, RowOf
<1>4. Balance(r.id) \in DOMAIN seen
    <2>1. Balance(r.id) \in DOMAIN OwnRows(c)
        BY LoneFacts DEF StillFunded
    <2> QED
        BY <2>1, LedgerRow, NoSymbolKeys
<1> HIDE DEF kept, seen, r
<1>5. Balance(r.id) \in DOMAIN kept
    BY <1>3, <1>4, PutRows, KeysDiffer
<1>6. /\ OpenedIn(seen) = OpenedIn(kept) /\ BalanceIn(seen) = BalanceIn(kept)
      /\ PositionIn(seen) = [PositionIn(kept) EXCEPT ![<<r.id, r.sym>>] = Num(kept, k) + r.amount]
    BY <1>2, <1>3, PutPosition
<1>7. OrdersIn(seen, serial) = OrdersIn(kept, serial)
    BY <1>3, PutTables, KeysDiffer
<1>8. r.id \in OpenedIn(kept)
    BY <1>2, <1>5 DEF OpenedIn
<1>9. PositionIn(kept)[<<r.id, r.sym>>] = Num(kept, k)
    BY <1>2 DEF PositionIn
<1> HIDE DEF k
<1>10. PositionIn(seen) = [PositionIn(kept) EXCEPT ![<<r.id, r.sym>>] = @ + r.amount]
    BY <1>6, <1>9
<1>11. Serial!CreatePosition(r.id, r.sym, r.amount)
    BY <1>3, <1>6, <1>7, <1>8, <1>9, <1>10 DEF CommitView, Shows, Serial!CreatePosition, kept, seen
<1> QED
    BY <1>2, <1>11 DEF Serial!Next

\* An order is cancelled.
LEMMA CancelCommits ==
    ASSUME Inv, AInv, NEW c \in Clients, LInv(c), CommitView(c), pc[c] = "commit", local[c].req.kind = "cancel"
    PROVE  Serial!Next
<1> DEFINE l == local[c]
           i == l.id
           kept == Ledger(db)
           seen == Ledger(Seen(c))
           o == kept[Order(i)]
           k == RefundTo(o, l.open)
           mid == Put(kept, Order(i), Cancelled(o))
           t == OrdersIn(kept, serial)
<1>1. seen = Put(mid, k, kept[k] + RefundOf(o, l.open))
    BY DEF LInv, Drafted, Draft
<1>2. /\ i \in 1 .. serial /\ Order(i) \in DOMAIN kept /\ o.CancelTime = NOTCANCELLED
      /\ o.Amount = l.open /\ l.open # 0 /\ k \in DOMAIN kept
    BY DEF LInv, Drafted, Checked, Refunding
<1>3. o \in OrderRow
    BY <1>2, LedgerRow
<1>4. o.AccountID \in Accounts /\ o.SymbolName \in Symbols /\ o.Amount \in Int
    BY <1>3 DEF OrderRow
<1>5. i \in DOMAIN t /\ t[i] = o
    BY <1>2 DEF OrdersIn
<1>6. kept[k] \in Nat
    BY <1>2, <1>4, LedgerRow DEF RefundTo
<1>7. \A j : k # Order(j)
    BY KeysDiffer DEF RefundTo
<1> HIDE DEF kept, seen, o, k, t, mid
<1>8. OrdersIn(seen, serial) = [t EXCEPT ![i] = Cancelled(o)]
    BY <1>1, <1>2, <1>7, PutTables, PutOrder DEF mid, t
<1>9. OrdersIn(seen, serial) = [t EXCEPT ![i].CancelTime = 0]
    BY <1>5, <1>8 DEF Cancelled, CANCELLED
<1>10. OpenedIn(mid) = OpenedIn(kept) /\ BalanceIn(mid) = BalanceIn(kept) /\ PositionIn(mid) = PositionIn(kept)
    BY PutOrder DEF mid
<1>11. CASE o.Amount < 0
    <2> DEFINE h == <<o.AccountID, o.SymbolName>>
    <2>1. k = Position(o.AccountID, o.SymbolName)
        BY <1>2, <1>11 DEF k, RefundTo
    <2>2. kept[k] + RefundOf(o, l.open) = kept[k] - o.Amount
        BY <1>2, <1>4, <1>6, <1>11 DEF RefundOf
    <2>3. PositionIn(kept)[h] = kept[k]
        BY <1>2, <1>4, <2>1 DEF PositionIn, Num
    <2>4. /\ OpenedIn(seen) = OpenedIn(kept) /\ BalanceIn(seen) = BalanceIn(kept)
          /\ PositionIn(seen) = [PositionIn(kept) EXCEPT ![h] = kept[k] - o.Amount]
        BY <1>1, <1>4, <1>10, <2>1, <2>2, PutPosition
    <2>5. PositionIn(seen) = [PositionIn(kept) EXCEPT ![h] = @ - o.Amount]
        BY <2>3, <2>4
    <2>6. Serial!CancelOrder(i)
        BY <1>2, <1>5, <1>9, <1>11, <2>4, <2>5
           DEF CommitView, Shows, Serial!CancelOrder, Serial!NOTCANCELLED, NOTCANCELLED, kept, seen, t
    <2>7. i \in DOMAIN ViewOrders
        BY <1>5 DEF CommitView, Shows, t, kept
    <2> QED
        BY <2>6, <2>7 DEF Serial!Next
<1>12. CASE ~(o.Amount < 0)
    <2>1. k = Balance(o.AccountID)
        BY <1>2, <1>12 DEF k, RefundTo
    <2>2. RefundOf(o, l.open) = o.Amount * o.PriceLimit
        BY <1>2, <1>12 DEF RefundOf
    <2>3. BalanceIn(kept)[o.AccountID] = kept[k]
        BY <1>2, <1>4, <2>1 DEF BalanceIn, Num
    <2>4. /\ OpenedIn(seen) = OpenedIn(kept) /\ PositionIn(seen) = PositionIn(kept)
          /\ BalanceIn(seen) = [BalanceIn(kept) EXCEPT ![o.AccountID] = kept[k] + o.Amount * o.PriceLimit]
        <3>1. o.AccountID \in OpenedIn(mid)
            <4>1. k \in DOMAIN kept
                BY <1>2
            <4>2. o.AccountID \in OpenedIn(kept)
                BY <1>4, <2>1, <4>1 DEF OpenedIn
            <4> QED
                BY <1>10, <4>2
        <3>2. seen = Put(mid, Balance(o.AccountID), kept[k] + o.Amount * o.PriceLimit)
            BY <1>1, <2>1, <2>2
        <3>3. PICK v : v = kept[k] + o.Amount * o.PriceLimit
            OBVIOUS
        <3>4. /\ OpenedIn(seen) = OpenedIn(mid) \cup {o.AccountID} /\ PositionIn(seen) = PositionIn(mid)
              /\ BalanceIn(seen) = [BalanceIn(mid) EXCEPT ![o.AccountID] = v]
            BY <1>4, <3>2, <3>3, PutBalance
        <3> QED
            BY <1>10, <3>1, <3>3, <3>4
    <2>5. BalanceIn(seen) = [BalanceIn(kept) EXCEPT ![o.AccountID] = @ + o.Amount * o.PriceLimit]
        BY <2>3, <2>4
    <2>6. Serial!CancelOrder(i)
        BY <1>2, <1>5, <1>9, <1>12, <2>4, <2>5
           DEF CommitView, Shows, Serial!CancelOrder, Serial!NOTCANCELLED, NOTCANCELLED, kept, seen, t
    <2>7. i \in DOMAIN ViewOrders
        BY <1>5 DEF CommitView, Shows, t, kept
    <2> QED
        BY <2>6, <2>7 DEF Serial!Next
<1> QED
    BY <1>11, <1>12

\* The commit of one of them.
LEMMA CommitsCreate ==
    ASSUME Inv, AInv, Tallies, NEW c \in Clients, LInv(c), Shown(c), Shown(c)', CommitCreate(c)
    PROVE  Serial!Next
<1>1. pc[c] = "commit"
    BY DEF CommitCreate
<1>2. RequestOK(local[c].req) /\ local[c].req.kind # "order"
    <2>1. pc[c] # "idle"
        BY <1>1
    <2> QED
        BY <1>1, <2>1, ServedOwn, LoneFacts DEF Serves, Inv, Types
<1> QED
    BY <1>1, <1>2, CommitViews, AccountCommits, PositionCommits, CancelCommits DEF RequestOK
-----------------------------------------------------------------------------
(* The vectors are fetched: an order is taken                               *)

\* Exchange counts and orders as the modules it takes from do here.
LEMMA SameCounts == \A S : Serial!Cardinality(S) = Cardinality(S)
    BY DEF Serial!Cardinality, Cardinality

LEMMA SameBijections == \A S, T : Serial!Bijection(S, T) = Bijection(S, T)
<1>1. \A f : Serial!IsInjective(f) <=> IsInjective(f)
    BY DEF Serial!IsInjective, IsInjective
<1>2. \A S, T : Serial!Injection(S, T) = Injection(S, T)
    BY <1>1 DEF Serial!Injection, Injection
<1>3. \A S, T : Serial!Surjection(S, T) = Surjection(S, T)
    BY DEF Serial!Surjection, Surjection
<1> QED
    BY <1>2, <1>3 DEF Serial!Bijection, Bijection

\* The answers of the database are those Exchange expects of the orders seen.
LEMMA FetchAgrees ==
    ASSUME Inv, NEW c \in Clients, NEW s, NEW t, t = OrdersIn(Ledger(Seen(c)), serial)
    PROVE  /\ \A v \in Vectors(c, s, 1) : v \in Serial!DescendingOrders(t, Serial!Buys(t, s))
           /\ \A v \in Vectors(c, s, -1) : v \in Serial!AscendingOrders(t, Serial!Sells(t, s))
<1>1. Table(Seen(c))
    BY SeenTable DEF Inv
<1>2. \A i : /\ i \in DOMAIN t <=> i \in 1 .. serial /\ Exists(c, Order(i))
             /\ i \in DOMAIN t => t[i] = Seen(c)[Order(i)] /\ t[i] \in OrderRow
    BY <1>1, LedgerRows, NoSymbolKeys DEF OrdersIn, Table, Exists
<1>3. \A i \in DOMAIN t : t[i].Amount \in Int /\ t[i].PriceLimit \in Int
    BY <1>2 DEF OrderRow
<1>4. \A x \in Int : (x * 1 > 0 <=> x > 0) /\ (x * (-1) > 0 <=> x < 0) /\ x * 1 = x /\ x * (-1) = -x
    OBVIOUS
<1>5. ActiveIds(c, s, 1) = Serial!Buys(t, s)
    <2>1. \A i : i \in ActiveIds(c, s, 1) <=> i \in Serial!Buys(t, s)
        BY <1>2, <1>3, <1>4 DEF ActiveIds, Serial!Buys, Serial!NOTCANCELLED, NOTCANCELLED
    <2> QED
        BY <2>1
<1>6. ActiveIds(c, s, -1) = Serial!Sells(t, s)
    <2>1. \A i : i \in ActiveIds(c, s, -1) <=> i \in Serial!Sells(t, s)
        BY <1>2, <1>3, <1>4 DEF ActiveIds, Serial!Sells, Serial!NOTCANCELLED, NOTCANCELLED
    <2> QED
        BY <2>1
<1>7. ASSUME NEW sign \in {1, -1}, NEW v \in Vectors(c, s, sign), NEW ids, ids = ActiveIds(c, s, sign)
      PROVE  \E f \in Bijection(1 .. Cardinality(ids), ids) :
                 /\ v = [k \in 1 .. Cardinality(ids) |-> Serial!ActiveOrderOf(t, f[k])]
                 /\ \A j, k \in 1 .. Cardinality(ids) :
                        j < k => t[f[j]].PriceLimit * sign >= t[f[k]].PriceLimit * sign
    <2> DEFINE n == Cardinality(ids)
               entry(i) == [TransID |-> i, OrderTime |-> Seen(c)[Order(i)].OrderTime,
                            AccountID |-> Seen(c)[Order(i)].AccountID,
                            Amount |-> Seen(c)[Order(i)].Amount, PriceLimit |-> Seen(c)[Order(i)].PriceLimit]
    <2>1. PICK f \in Bijection(1 .. n, ids) :
              /\ v = [k \in 1 .. n |-> entry(f[k])]
              /\ \A j, k \in 1 .. n : j < k => entry(f[j]).PriceLimit * sign >= entry(f[k]).PriceLimit * sign
        BY <1>7 DEF Vectors
    <2>2. \A i \in ids : i \in DOMAIN t
        BY <1>2, <1>7 DEF ActiveIds
    <2>3. \A i \in ids : entry(i) = Serial!ActiveOrderOf(t, i) /\ entry(i).PriceLimit = t[i].PriceLimit
        BY <1>2, <2>2 DEF Serial!ActiveOrderOf
    <2>4. \A k \in 1 .. n : f[k] \in ids
        BY DEF Bijection, Injection
    <2> HIDE DEF entry, n
    <2>5. v = [k \in 1 .. n |-> Serial!ActiveOrderOf(t, f[k])]
        BY <2>1, <2>3, <2>4
    <2>6. \A j, k \in 1 .. n : j < k => t[f[j]].PriceLimit * sign >= t[f[k]].PriceLimit * sign
        BY <2>1, <2>3, <2>4
    <2> QED
        BY <2>5, <2>6 DEF n
<1>8. ASSUME NEW sign, NEW ids, ids = ActiveIds(c, s, sign), NEW f \in Bijection(1 .. Cardinality(ids), ids)
      PROVE  \A k \in 1 .. Cardinality(ids) : t[f[k]].PriceLimit \in Int
    <2>1. \A k \in 1 .. Cardinality(ids) : f[k] \in ids
        BY DEF Bijection, Injection
    <2>2. \A i \in ids : i \in DOMAIN t
        BY <1>2, <1>8 DEF ActiveIds
    <2> QED
        BY <1>3, <2>1, <2>2
<1>9. ASSUME NEW v \in Vectors(c, s, 1)
      PROVE  v \in Serial!DescendingOrders(t, Serial!Buys(t, s))
    <2> DEFINE ids == Serial!Buys(t, s)
               n == Cardinality(ids)
    <2>1. ids = ActiveIds(c, s, 1)
        BY <1>5
    <2> HIDE DEF ids
    <2>2. PICK f \in Bijection(1 .. n, ids) :
              /\ v = [k \in 1 .. n |-> Serial!ActiveOrderOf(t, f[k])]
              /\ \A j, k \in 1 .. n : j < k => t[f[j]].PriceLimit * 1 >= t[f[k]].PriceLimit * 1
        BY <1>7, <2>1
    <2>3. \A k \in 1 .. n : t[f[k]].PriceLimit \in Int
        BY <1>8, <2>1
    <2>4. \A j, k \in 1 .. n : j < k => t[f[j]].PriceLimit >= t[f[k]].PriceLimit
        BY <1>4, <2>2, <2>3
    <2> DEFINE F(g) == [k \in 1 .. n |-> Serial!ActiveOrderOf(t, g[k])]
               W == {g \in Bijection(1 .. n, ids) :
                        \A j, k \in 1 .. n : j < k => t[g[j]].PriceLimit >= t[g[k]].PriceLimit}
    <2>7. f \in W /\ v = F(f)
        BY <2>2, <2>4
    <2>8. Serial!DescendingOrders(t, ids) = {F(g) : g \in W}
        BY SameCounts, SameBijections DEF Serial!DescendingOrders
    <2> HIDE DEF F, W
    <2>5. v \in Serial!DescendingOrders(t, ids)
        BY <2>7, <2>8
    <2> QED
        BY <2>5 DEF ids
<1>10. ASSUME NEW v \in Vectors(c, s, -1)
       PROVE  v \in Serial!AscendingOrders(t, Serial!Sells(t, s))
    <2> DEFINE ids == Serial!Sells(t, s)
               n == Cardinality(ids)
    <2>1. ids = ActiveIds(c, s, -1)
        BY <1>6
    <2> HIDE DEF ids
    <2>2. PICK f \in Bijection(1 .. n, ids) :
              /\ v = [k \in 1 .. n |-> Serial!ActiveOrderOf(t, f[k])]
              /\ \A j, k \in 1 .. n : j < k => t[f[j]].PriceLimit * (-1) >= t[f[k]].PriceLimit * (-1)
        BY <1>7, <2>1
    <2>3. \A k \in 1 .. n : t[f[k]].PriceLimit \in Int
        BY <1>8, <2>1
    <2>6. \A x, y \in Int : x * (-1) >= y * (-1) => x =< y
        OBVIOUS
    <2>4. \A j, k \in 1 .. n : j < k => t[f[j]].PriceLimit =< t[f[k]].PriceLimit
        BY <2>2, <2>3, <2>6
    <2> DEFINE F(g) == [k \in 1 .. n |-> Serial!ActiveOrderOf(t, g[k])]
               W == {g \in Bijection(1 .. n, ids) :
                        \A j, k \in 1 .. n : j < k => t[g[j]].PriceLimit =< t[g[k]].PriceLimit}
    <2>7. f \in W /\ v = F(f)
        BY <2>2, <2>4
    <2>8. Serial!AscendingOrders(t, ids) = {F(g) : g \in W}
        BY SameCounts, SameBijections DEF Serial!AscendingOrders
    <2> HIDE DEF F, W
    <2>5. v \in Serial!AscendingOrders(t, ids)
        BY <2>7, <2>8
    <2> QED
        BY <2>5 DEF ids
<1> QED
    BY <1>9, <1>10

\* What Exchange sees before and after the second vector is fetched.
FetchView(c) ==
    /\ Shows(Ledger(db), serial, executed) /\ ViewMatching = {} /\ ViewBuying = <<>> /\ ViewSelling = <<>>
    /\ ViewOpened' = OpenedIn(Ledger(Seen(c))) /\ ViewBalance' = BalanceIn(Ledger(Seen(c)))
    /\ ViewPosition' = PositionIn(Ledger(Seen(c))) /\ ViewOrders' = OrdersIn(Ledger(Seen(c)), serial)
    /\ ViewExecuted' = executed
    /\ ViewMatching' = {local[c].req.sym}
    /\ ViewBuying' \in Vectors(c, local[c].req.sym, 1) /\ ViewSelling' \in Vectors(c, local[c].req.sym, -1)

LEMMA FetchViews ==
    ASSUME Inv, Tallies, NEW c \in Clients, LInv(c), Shown(c), Shown(c)', SelectSells(c)
    PROVE  FetchView(c)
<1> DEFINE l == local[c]
<1>1. PICK v \in Vectors(c, l.req.sym, -1) : Keep(c, [l EXCEPT !.selling = v], "loop")
    BY DEF SelectSells
<1>2. /\ pc[c] = "selectsells" /\ pc'[c] = "loop" /\ local'[c] = [l EXCEPT !.selling = v]
      /\ UNCHANGED <<db, executed, serial, tx>>
    BY <1>1 DEF Keep, Goto, SelectSells, Inv, Types
<1>3. DOMAIN l = Variables
    BY DEF Inv, LocalOK
<1>4. /\ local'[c].selling = v /\ local'[c].buying = l.buying /\ local'[c].req = l.req /\ local'[c].fills = l.fills
    BY <1>2, <1>3 DEF Variables
<1>5. pc[c] \notin Matching /\ pc'[c] \in Matching
    BY <1>2 DEF Matching, InTurns
<1>6. executed \in Seq(Fill) /\ l.fills = <<>> /\ l.buying \in Vectors(c, l.req.sym, 1)
    BY <1>2, <1>5 DEF LInv, Tallies
<1>7. /\ Shows(Ledger(db), serial, executed) /\ ViewMatching = {} /\ ViewBuying = <<>> /\ ViewSelling = <<>>
    BY <1>5, <1>6 DEF Shown, RestShown
<1>8. /\ Shows(Ledger(Seen(c)), serial, executed \o local[c].fills)'
      /\ ViewMatching' = {local'[c].req.sym} /\ ViewBuying' = local'[c].buying /\ ViewSelling' = local'[c].selling
    BY <1>2, <1>5 DEF Shown, LoopShown
<1>9. Seen(c)' = Seen(c)
    BY <1>2 DEF Seen
<1>10. (executed \o local[c].fills)' = executed
    BY <1>2, <1>4, <1>6
<1>11. /\ ViewOpened' = OpenedIn(Ledger(Seen(c))) /\ ViewBalance' = BalanceIn(Ledger(Seen(c)))
       /\ ViewPosition' = PositionIn(Ledger(Seen(c))) /\ ViewOrders' = OrdersIn(Ledger(Seen(c)), serial)
       /\ ViewExecuted' = executed
    BY <1>2, <1>8, <1>9, <1>10 DEF Shows
<1> QED
    BY <1>1, <1>4, <1>6, <1>7, <1>8, <1>11 DEF FetchView

\* The second SELECT of matchOrders is the order of Exchange: reserved, filed and fetched.
LEMMA FetchesAlone ==
    ASSUME Inv, AInv, Tallies, NEW c \in Clients, LInv(c), Shown(c), Shown(c)', SelectSells(c)
    PROVE  Serial!Next
<1> DEFINE r == local[c].req
           kept == Ledger(db)
           seen == Ledger(Seen(c))
           n == serial - 1
           mid == Put(kept, Order(serial), Placed(r))
           k == Source(r)
           rest == kept[k] - Reserve(r)
<1>1. FetchView(c) /\ pc[c] = "selectsells"
    BY FetchViews DEF SelectSells
<1>2. seen = Put(mid, k, rest)
    BY <1>1 DEF LInv, Drafted, Draft, Fetching
<1>3. /\ serial > 0 /\ n < MaxOrders /\ Order(serial) \notin DOMAIN kept /\ Balance(r.id) \in DOMAIN kept
      /\ k \in DOMAIN kept /\ kept[k] >= Reserve(r) /\ \A j \in 1 .. serial : Order(j) \in DOMAIN seen
    BY <1>1 DEF LInv, Drafted, Checked, Fetching
<1>4. r \in requests[c] /\ RequestOK(r) /\ Modest(r) /\ r.kind = "order"
    BY <1>1, ServedOwn, LoneFacts DEF Serves, Ordering, Fetching
<1>5. r.id \in Accounts /\ r.sym \in Symbols /\ r.amount \in Int /\ r.limit \in Nat /\ Reserve(r) \in Nat
      /\ k \in {Balance(r.id), Position(r.id, r.sym)}
    BY <1>4, Reserves DEF RequestOK, Modest
<1>6. r.limit \in Limits /\ Abs(r.amount) \in Sizes
    BY <1>4 DEF LInv, Limits, Sizes
<1>7. \A j : k # Order(j)
    BY <1>5, KeysDiffer
<1>8. n \in Nat /\ serial \in Nat /\ n + 1 = serial
    BY <1>3 DEF Inv, Types
<1>9. kept[k] \in Nat
    BY <1>3, <1>5, LedgerRow
<1> DEFINE t == OrdersIn(kept, serial)
           u == OrdersIn(seen, serial)
<1>10. u \in {OrdersIn(Ledger(Seen(c)), serial)}
    OBVIOUS
<1>11. /\ ViewBuying' \in Serial!DescendingOrders(u, Serial!Buys(u, r.sym))
       /\ ViewSelling' \in Serial!AscendingOrders(u, Serial!Sells(u, r.sym))
    BY <1>1, <1>10, FetchAgrees DEF FetchView
<1>12. /\ ViewOpened = OpenedIn(kept) /\ ViewBalance = BalanceIn(kept) /\ ViewPosition = PositionIn(kept)
       /\ ViewOrders = t /\ ViewExecuted = executed /\ ViewMatching = {}
       /\ ViewOpened' = OpenedIn(seen) /\ ViewBalance' = BalanceIn(seen) /\ ViewPosition' = PositionIn(seen)
       /\ ViewOrders' = u /\ ViewExecuted' = executed /\ ViewMatching' = {r.sym}
    BY <1>1 DEF FetchView, Shows
<1> HIDE DEF kept, seen, t, u, k, mid, r
<1>13. \A j \in 1 .. n : Order(j) \in DOMAIN kept
    <2>1. \A j \in 1 .. n : Order(j) \in DOMAIN seen /\ Order(j) # Order(serial) /\ Order(j) # k
        BY <1>3, <1>7, <1>8, KeysDiffer
    <2> QED
        BY <1>2, <2>1, PutRows DEF mid
<1>14. t = OrdersIn(kept, n)
    <2>1. {j \in 1 .. serial : Order(j) \in DOMAIN kept} = {j \in 1 .. n : Order(j) \in DOMAIN kept}
        BY <1>3, <1>8
    <2> QED
        BY <2>1 DEF OrdersIn, t
<1>15. OrdersIn(mid, serial) = Append(t, Placed(r)) /\ Len(t) = n
    BY <1>8, <1>13, <1>14, PlaceOrder DEF mid
<1>16. u = Append(t, Placed(r))
    BY <1>2, <1>7, <1>15, PutTables DEF u
<1>17. OpenedIn(mid) = OpenedIn(kept) /\ BalanceIn(mid) = BalanceIn(kept) /\ PositionIn(mid) = PositionIn(kept)
    BY PutOrder DEF mid
<1>18. r.id \in OpenedIn(kept)
    BY <1>3, <1>5 DEF OpenedIn
<1>19. Serial!FetchVectors(r.sym)
    BY <1>11, <1>12 DEF Serial!FetchVectors
<1>20. Serial!CreateTransaction(r.id, r.sym, r.amount, r.limit)
    BY <1>3, <1>12, <1>15, <1>16 DEF Serial!CreateTransaction, Placed, Serial!NOTCANCELLED, NOTCANCELLED
<1>21. CASE IsBuy(r)
    <2> DEFINE a == r.id
    <2>1. k = Balance(a) /\ Reserve(r) = r.amount * r.limit /\ Abs(r.amount) = r.amount
        BY <1>5, <1>21 DEF k, Source, Reserve, IsBuy, Abs
    <2>2. BalanceIn(kept)[a] = kept[k]
        BY <1>3, <1>5, <2>1 DEF BalanceIn, Num
    <2>3. PICK v : v = rest
        OBVIOUS
    <2>4. seen = Put(mid, Balance(a), v)
        BY <1>2, <2>1, <2>3
    <2>5. /\ OpenedIn(seen) = OpenedIn(mid) \cup {a} /\ PositionIn(seen) = PositionIn(mid)
          /\ BalanceIn(seen) = [BalanceIn(mid) EXCEPT ![a] = v]
        BY <1>5, <2>4, PutBalance
    <2>6. OpenedIn(seen) = OpenedIn(kept) /\ PositionIn(seen) = PositionIn(kept)
        BY <1>17, <1>18, <2>5
    <2>7. BalanceIn(seen) = [BalanceIn(kept) EXCEPT ![a] = @ - Reserve(r)]
        BY <1>17, <2>2, <2>3, <2>5
    <2>8. ~Serial!InsufficientFunds(a, r.amount, r.limit)
        BY <1>3, <1>5, <1>9, <1>12, <2>1, <2>2 DEF Serial!InsufficientFunds
    <2>9. Serial!BuyOrder(a, r.sym, r.amount, r.limit)
        BY <1>12, <1>18, <1>19, <1>20, <2>1, <2>6, <2>7, <2>8 DEF Serial!BuyOrder
    <2>10. r.amount \in Sizes
        BY <1>6, <2>1
    <2> QED
        BY <1>5, <1>6, <2>9, <2>10 DEF Serial!Next
<1>22. CASE ~IsBuy(r)
    <2> DEFINE h == <<r.id, r.sym>>
               q == -r.amount
    <2>1. k = Position(r.id, r.sym) /\ Reserve(r) = q /\ Abs(r.amount) = q /\ q \in Nat /\ -q = r.amount
        BY <1>5, <1>22 DEF k, Source, Reserve, IsBuy, Abs
    <2>2. PositionIn(kept)[h] = kept[k]
        BY <1>3, <1>5, <2>1 DEF PositionIn, Num
    <2>3. PICK v : v = rest
        OBVIOUS
    <2>4. seen = Put(mid, Position(r.id, r.sym), v)
        BY <1>2, <2>1, <2>3
    <2>5. /\ OpenedIn(seen) = OpenedIn(mid) /\ BalanceIn(seen) = BalanceIn(mid)
          /\ PositionIn(seen) = [PositionIn(mid) EXCEPT ![h] = v]
        BY <1>5, <2>4, PutPosition
    <2>6. OpenedIn(seen) = OpenedIn(kept) /\ BalanceIn(seen) = BalanceIn(kept)
        BY <1>17, <2>5
    <2> HIDE DEF q
    <2>7. PositionIn(seen) = [PositionIn(kept) EXCEPT ![h] = @ - q]
        BY <1>17, <2>1, <2>2, <2>3, <2>5
    <2>8. ~Serial!InsufficientShares(r.id, r.sym, q)
        BY <1>3, <1>9, <1>12, <2>1, <2>2 DEF Serial!InsufficientShares
    <2>9. Serial!CreateTransaction(r.id, r.sym, -q, r.limit)
        BY <1>20, <2>1
    <2>10. Serial!SellOrder(r.id, r.sym, q, r.limit)
        BY <1>12, <1>18, <1>19, <2>6, <2>7, <2>8, <2>9 DEF Serial!SellOrder
    <2>11. q \in Sizes
        BY <1>6, <2>1
    <2> QED
        BY <1>5, <1>6, <2>10, <2>11 DEF Serial!Next
<1> QED
    BY <1>21, <1>22
-----------------------------------------------------------------------------
(* The turns of the loop                                                    *)

\* What a turn knows of the ledger f.
TurnRowsOf(l, step, f, n) ==
    LET b == l.buying[1]
        a == l.selling[1]
        buy == f[Order(b.TransID)]
        sell == f[Order(a.TransID)]
    IN  /\ b.TransID # a.TransID /\ b.TransID \in 1 .. n /\ a.TransID \in 1 .. n
        /\ Order(b.TransID) \in DOMAIN f /\ Order(a.TransID) \in DOMAIN f
        /\ buy \in OrderRow /\ sell \in OrderRow
        /\ step = "loop" => buy.Amount = b.Amount /\ sell.Amount = a.Amount
        /\ step \in InTurns => buy.Amount = b.Amount - Lot(l)
        /\ step = "sellrow" => sell.Amount = a.Amount
        /\ step \in InTurns \ {"sellrow"} => sell.Amount = a.Amount + Lot(l)

TurnAccounts(l, step, f) ==
    /\ Lot(l) \in Nat
    /\ l.buying[1].AccountID \in Accounts /\ l.selling[1].AccountID \in Accounts /\ l.req.sym \in Symbols
    /\ Bought(l) \in DOMAIN f => f[Bought(l)] \in Nat
    /\ Balance(l.selling[1].AccountID) \in DOMAIN f
    /\ step \in {"addposition"} \cup Selling => Bought(l) \in DOMAIN f
    /\ step = "newposition" => Bought(l) \notin DOMAIN f
    /\ step = "payseller" => l.seen = f[Balance(l.selling[1].AccountID)] /\ l.seen \in Nat

\* In a turn the two rows, the position and the balance are what the loop takes them to be.
LEMMA TurnFacts ==
    ASSUME Inv, AInv, NEW c \in Clients, LInv(c), pc[c] \in Matching, Crossing(local[c])
    PROVE  /\ TurnRowsOf(local[c], pc[c], Ledger(Seen(c)), serial)
           /\ TurnAccounts(local[c], pc[c], Ledger(Seen(c)))
           /\ MatchAmount(c) = Lot(local[c]) /\ MatchPrice(c) = TurnPrice(local[c]) /\ MatchPrice(c) \in Nat
           /\ BuyerPosition(c) = Bought(local[c]) /\ SellerBalance(c) = Balance(local[c].selling[1].AccountID)
<1> DEFINE l == local[c]
           b == l.buying[1].TransID
           a == l.selling[1].TransID
           t == OwnOrders(c)
           u == Rewound(l, pc[c], t)
           f == Ledger(Seen(c))
           rows == OwnRows(c)
<1>1. AtTurn(c)
    BY TurnState
<1>2. /\ HeadsTrade(l, t, u) /\ StillMirrored(l, pc[c], t) /\ MatchPrice(c) \in Nat
      /\ \A i \in {a, b} : i \in DOMAIN t /\ t[i] \in OrderRow
    BY <1>1 DEF AtTurn
<1>3. ASSUME NEW i \in {a, b}
      PROVE  i \in 1 .. serial /\ Order(i) \in DOMAIN f /\ f[Order(i)] = t[i] /\ t[i] \in OrderRow
    <2>1. i \in DOMAIN t /\ t[i] \in OrderRow
        BY <1>2
    <2>2. Exists(c, Order(i)) /\ t[i] = Seen(c)[Order(i)]
        BY <2>1, OwnOrder
    <2>3. i \in 1 .. serial
        BY <2>1, OwnNumbered
    <2> QED
        BY <2>1, <2>2, <2>3, LedgerRows, NoSymbolKeys DEF Exists
<1>4. MatchAmount(c) = Lot(l) /\ BuyerPosition(c) = Bought(l) /\ MatchPrice(c) = TurnPrice(l)
      /\ SellerBalance(c) = Balance(l.selling[1].AccountID)
    BY DEF MatchAmount, Lot, BuyerPosition, Bought, MatchPrice, TurnPrice, SellerBalance
<1>5. TurnRowsOf(l, pc[c], f, serial)
    <2>1. b # a
        BY <1>2 DEF HeadsTrade
    <2>2. pc[c] = "loop" => u = t
        BY DEF Rewound, InTurns
    <2>3. pc[c] = "loop" => t[b].Amount = l.buying[1].Amount /\ t[a].Amount = l.selling[1].Amount
        BY <1>2, <2>2 DEF HeadsTrade
    <2>4. pc[c] \in InTurns =>
              /\ t[b].Amount = l.buying[1].Amount - Lot(l)
              /\ pc[c] = "sellrow" => t[a].Amount = l.selling[1].Amount
              /\ pc[c] # "sellrow" => t[a].Amount = l.selling[1].Amount + Lot(l)
        BY <1>2 DEF StillMirrored
    <2> HIDE DEF f, t
    <2> QED
        BY <1>3, <2>1, <2>3, <2>4 DEF TurnRowsOf, InTurns
<1>6. TurnAccounts(l, pc[c], f)
    <2>1. l.buying[1].AccountID \in Accounts /\ l.selling[1].AccountID \in Accounts /\ l.req.sym \in Symbols
        <3>1. l.buying[1].AccountID = t[b].AccountID /\ l.selling[1].AccountID = t[a].AccountID
              /\ t[b].SymbolName = l.req.sym
            BY <1>2 DEF HeadsTrade
        <3> QED
            BY <1>2, <3>1 DEF OrderRow
    <2>2. Lot(l) \in Nat /\ SellerBalance(c) \in DOMAIN rows /\ rows[SellerBalance(c)] \in Nat
        BY <1>1, TurnRows
    <2>3. Bought(l) \in DOMAIN f => f[Bought(l)] \in Nat
        <3>1. BuyerPosition(c) \in OwnKeys(c) /\ (BuyerPosition(c) \in DOMAIN rows => rows[BuyerPosition(c)] \in Nat)
            BY <1>1, TurnRows DEF AtTurn
        <3> QED
            BY <1>4, <3>1, LedgerRows, OwnLook DEF Exists
    <2>4. Balance(l.selling[1].AccountID) \in DOMAIN f
          /\ f[Balance(l.selling[1].AccountID)] = rows[Balance(l.selling[1].AccountID)]
        BY <1>4, <2>2, LedgerRow, NoSymbolKeys
    <2>5. Bought(l) \notin SymbolKeys /\ (Bought(l) \in OwnKeys(c))
        <3>1. BuyerPosition(c) \in OwnKeys(c)
            BY <1>1 DEF AtTurn
        <3> QED
            BY <1>4, <3>1, NoSymbolKeys DEF Bought
    <2>6. pc[c] = "newposition" => Bought(l) \notin DOMAIN f
        <3>1. pc[c] = "newposition" => Bought(l) \notin DOMAIN rows
            BY LoneFacts DEF StillMissing, Bought
        <3> QED
            BY <2>5, <3>1, LedgerRows, OwnLook DEF Exists
    <2>7. pc[c] = "addposition" => Bought(l) \in DOMAIN f
        <3>1. pc[c] = "addposition" => Bought(l) \in DOMAIN rows
            BY LoneFacts DEF StillMissing, Bought
        <3> QED
            BY <2>5, <3>1, LedgerRow
    <2>8. pc[c] \in Selling => Bought(l) \in DOMAIN f
        BY <2>5, LedgerRows DEF LInv
    <2>9. pc[c] = "payseller" => l.seen = rows[Balance(l.selling[1].AccountID)]
        BY LoneFacts DEF StillFunded
    <2> HIDE DEF f, rows
    <2> QED
        BY <1>4, <2>1, <2>2, <2>3, <2>4, <2>6, <2>7, <2>8, <2>9 DEF TurnAccounts
<1> QED
    BY <1>2, <1>4, <1>5, <1>6

\* A row written in a turn is taken back.
LEMMA RewindPut ==
    ASSUME NEW l, NEW next, NEW f, NEW k \in DOMAIN f, NEW v, NEW g, g = [j \in DOMAIN f |-> g[j]],
           Was(l, next, k, v) = g[k], \A j \in DOMAIN f \ {k} : Was(l, next, j, f[j]) = g[j]
    PROVE  Rewind(l, next, Put(f, k, v)) = g
<1> DEFINE w == Put(f, k, v)
<1>1. \A j : j \in DOMAIN w <=> j \in DOMAIN f
    BY PutRows
<1>2. w[k] = v /\ \A j \in DOMAIN f \ {k} : w[j] = f[j]
    BY PutRows
<1>3. DOMAIN w = DOMAIN f
    BY <1>1 DEF Put, Over
<1> HIDE DEF w
<1>4. \A j \in DOMAIN f : Was(l, next, j, w[j]) = g[j]
    BY <1>2
<1>5. Rewind(l, next, w) = g
    BY <1>3, <1>4 DEF Rewind
<1> QED
    BY <1>5 DEF w

\* The statements of a turn that Exchange does not see.
LEMMA BuyRowRewound ==
    ASSUME NEW l, NEW f, NEW n, TurnRowsOf(l, "loop", f, n), f = [k \in DOMAIN f |-> f[k]]
    PROVE  LET k == Order(l.buying[1].TransID)
           IN  Rewind(l, "sellrow", Put(f, k, WithAmount(f[k], l.buying[1].Amount - Lot(l)))) = f
<1> DEFINE k == Order(l.buying[1].TransID)
           i == Order(l.selling[1].TransID)
           v == WithAmount(f[k], l.buying[1].Amount - Lot(l))
<1>1. /\ k \in DOMAIN f /\ f[k] \in OrderRow /\ f[k].Amount = l.buying[1].Amount
      /\ f[i] \in OrderRow /\ f[i].Amount = l.selling[1].Amount
    BY DEF TurnRowsOf
<1>2. Was(l, "sellrow", k, v) = f[k]
    <2>1. Was(l, "sellrow", k, v) = WithAmount(v, l.buying[1].Amount)
        BY DEF Was
    <2>2. WithAmount(v, l.buying[1].Amount) = WithAmount(f[k], f[k].Amount)
        BY <1>1, Amounts
    <2> QED
        BY <1>1, <2>1, <2>2, Amounts
<1>3. \A j \in DOMAIN f \ {k} : Was(l, "sellrow", j, f[j]) = f[j]
    <2>1. WithAmount(f[i], l.selling[1].Amount) = f[i]
        BY <1>1, Amounts
    <2> QED
        BY <2>1 DEF Was, Selling
<1> HIDE DEF v
<1>4. Rewind(l, "sellrow", Put(f, k, v)) = f
    BY <1>1, <1>2, <1>3, RewindPut
<1> QED
    BY <1>4 DEF v

LEMMA SellRowRewound ==
    ASSUME NEW l, NEW f, NEW n, TurnRowsOf(l, "sellrow", f, n)
    PROVE  LET k == Order(l.selling[1].TransID)
           IN  Rewind(l, "findposition", Put(f, k, WithAmount(f[k], l.selling[1].Amount + Lot(l))))
                   = Rewind(l, "sellrow", f)
<1> DEFINE k == Order(l.selling[1].TransID)
           v == WithAmount(f[k], l.selling[1].Amount + Lot(l))
           g == Rewind(l, "sellrow", f)
<1>1. k \in DOMAIN f /\ f[k] \in OrderRow /\ k # Order(l.buying[1].TransID)
    BY KeysDiffer DEF TurnRowsOf
<1>2. g = [j \in DOMAIN f |-> g[j]] /\ \A j \in DOMAIN f : g[j] = Was(l, "sellrow", j, f[j])
    BY DEF Rewind
<1>3. Was(l, "findposition", k, v) = Was(l, "sellrow", k, f[k])
    <2>1. Was(l, "findposition", k, v) = WithAmount(v, l.selling[1].Amount)
        BY <1>1 DEF Was
    <2>2. Was(l, "sellrow", k, f[k]) = WithAmount(f[k], l.selling[1].Amount)
        BY <1>1 DEF Was
    <2> QED
        BY <1>1, <2>1, <2>2, Amounts
<1>4. \A j \in DOMAIN f : Was(l, "findposition", j, f[j]) = Was(l, "sellrow", j, f[j])
    BY DEF Was, Selling
<1> HIDE DEF v, g
<1>5. Rewind(l, "findposition", Put(f, k, v)) = g
    BY <1>1, <1>2, <1>3, <1>4, RewindPut
<1> QED
    BY <1>5 DEF v, g

LEMMA ReadRewound ==
    ASSUME NEW l, NEW m, SameVectors(m, l), NEW step, NEW next, step \in Selling <=> next \in Selling, NEW f
    PROVE  Rewind(m, next, f) = Rewind(l, step, f)
<1>1. \A k, o : Was(m, next, k, o) = Was(l, step, k, o)
    <2>1. Lot(m) = Lot(l) /\ Bought(m) = Bought(l)
        BY DEF SameVectors, Lot, Bought
    <2> QED
        BY <2>1 DEF Was, SameVectors
<1> QED
    BY <1>1 DEF Rewind

LEMMA BoughtRewound ==
    ASSUME NEW l, NEW f, TurnAccounts(l, "addposition", f)
    PROVE  Rewind(l, "readseller", Put(f, Bought(l), f[Bought(l)] + Lot(l))) = Rewind(l, "addposition", f)
<1> DEFINE k == Bought(l)
           g == Rewind(l, "addposition", f)
<1>1. k \in DOMAIN f /\ f[k] \in Nat /\ Lot(l) \in Nat
    BY DEF TurnAccounts
<1>2. g = [j \in DOMAIN f |-> g[j]] /\ \A j \in DOMAIN f : g[j] = Was(l, "addposition", j, f[j])
    BY DEF Rewind
<1>3. \A i : k # Order(i)
    BY KeysDiffer DEF Bought
<1>4. \A j \in DOMAIN f \ {k} : Was(l, "readseller", j, f[j]) = Was(l, "addposition", j, f[j])
    BY DEF Was, Selling
<1>5. PICK v : v = f[k] + Lot(l)
    OBVIOUS
<1>6. Was(l, "readseller", k, v) = v - Lot(l) /\ Was(l, "addposition", k, f[k]) = f[k]
    BY <1>3 DEF Was, Selling
<1>7. v - Lot(l) = f[k]
    BY <1>1, <1>5
<1> HIDE DEF g, k
<1>8. Rewind(l, "readseller", Put(f, k, v)) = g
    BY <1>1, <1>2, <1>4, <1>6, <1>7, RewindPut
<1> QED
    BY <1>5, <1>8 DEF g, k

LEMMA FirstRewound ==
    ASSUME NEW l, NEW f, TurnAccounts(l, "newposition", f), NEW n
    PROVE  LET g == Rewind(l, "newposition", f)
               h == Rewind(l, "readseller", Put(f, Bought(l), Lot(l)))
           IN  /\ OpenedIn(h) = OpenedIn(g) /\ BalanceIn(h) = BalanceIn(g)
               /\ PositionIn(h) = PositionIn(g) /\ OrdersIn(h, n) = OrdersIn(g, n)
<1> DEFINE k == Bought(l)
           w == Put(f, k, Lot(l))
           g == Rewind(l, "newposition", f)
           h == Rewind(l, "readseller", w)
<1>1. k \notin DOMAIN f /\ Lot(l) \in Nat
    BY DEF TurnAccounts
<1>2. \A i : k # Order(i)
    BY KeysDiffer DEF Bought
<1>3. \A j : j \in DOMAIN w <=> (j \in DOMAIN f \/ j = k)
    BY PutRows
<1>4. w[k] = Lot(l) /\ \A j \in DOMAIN f : w[j] = f[j]
    BY <1>1, PutRows
<1>5. \A j \in DOMAIN f : Was(l, "readseller", j, f[j]) = Was(l, "newposition", j, f[j])
    BY <1>1 DEF Was, Selling
<1>6. Was(l, "readseller", k, Lot(l)) = 0
    BY <1>1, <1>2 DEF Was, Selling
<1>7. DOMAIN g = DOMAIN f /\ \A j \in DOMAIN f : g[j] = Was(l, "newposition", j, f[j])
    BY DEF Rewind
<1> HIDE DEF w
<1>8. DOMAIN h = DOMAIN w /\ \A j \in DOMAIN w : h[j] = Was(l, "readseller", j, w[j])
    BY DEF Rewind
<1>9. h = [j \in DOMAIN h |-> h[j]]
    BY DEF Rewind
<1> HIDE DEF g, h
<1>10. h = Put(g, k, 0)
    <2>1. \A j : j \in DOMAIN h <=> (j \in DOMAIN g \/ j = k)
        BY <1>3, <1>7, <1>8
    <2>2. h[k] = 0 /\ \A j \in DOMAIN g \ {k} : h[j] = g[j]
        BY <1>3, <1>4, <1>5, <1>6, <1>7, <1>8
    <2> QED
        BY <1>9, <2>1, <2>2, PutSame
<1>11. Num(g, k) = 0
    BY <1>1, <1>7 DEF Num
<1>12. OrdersIn(h, n) = OrdersIn(g, n)
    BY <1>2, <1>10, PutTables
<1>13. /\ OpenedIn(h) = OpenedIn(g) /\ BalanceIn(h) = BalanceIn(g)
       /\ PositionIn(h) = [PositionIn(g) EXCEPT ![<<l.buying[1].AccountID, l.req.sym>>] = 0]
    <2>1. l.buying[1].AccountID \in Accounts /\ l.req.sym \in Symbols
        BY DEF TurnAccounts
    <2> QED
        BY <1>10, <2>1, PutPosition DEF Bought
<1>14. PositionIn(h) = PositionIn(g)
    <2>1. l.buying[1].AccountID \in Accounts /\ l.req.sym \in Symbols
        BY DEF TurnAccounts
    <2>2. PositionIn(g)[<<l.buying[1].AccountID, l.req.sym>>] = 0
        BY <1>11, <2>1 DEF PositionIn, Bought
    <2> QED
        BY <1>13, <2>2 DEF PositionIn
<1> QED
    BY <1>12, <1>13, <1>14 DEF g, h, w
-----------------------------------------------------------------------------
\* Both tables look alike to Exchange.
SameTables(f, g, n) ==
    /\ OpenedIn(f) = OpenedIn(g) /\ BalanceIn(f) = BalanceIn(g) /\ PositionIn(f) = PositionIn(g)
    /\ OrdersIn(f, n) = OrdersIn(g, n)

\* The ledger f and the fills old are what Exchange sees of c in its loop.
SeenInLoop(c, f, old) ==
    \/ pc[c] = "loop" /\ f = Ledger(Seen(c)) /\ old = local[c].fills
    \/ /\ pc[c] \in InTurns /\ f = Rewind(local[c], pc[c], Ledger(Seen(c)))
       /\ local[c].fills = old \o TurnFills(local[c])

\* What Exchange sees in the loop, at its head or in a turn.
LEMMA LoopViews ==
    ASSUME NEW c, Shown(c), NEW f, NEW old \in Seq(Fill), SeenInLoop(c, f, old),
           pc[c] \in InTurns => local[c].buying[1].TransID # local[c].selling[1].TransID
    PROVE  /\ Shows(f, serial, executed \o old)
           /\ ViewMatching = {local[c].req.sym} /\ ViewBuying = local[c].buying /\ ViewSelling = local[c].selling
BY DEF Shown, LoopShown, TurnShown, SeenInLoop, Matching

\* A step in the turn that leaves what Exchange sees.
LEMMA TurnStays ==
    ASSUME NEW c \in Clients, Shown(c), Shown(c)', NEW old \in Seq(Fill), NEW f, SeenInLoop(c, f, old),
           local[c].buying[1].TransID # local[c].selling[1].TransID,
           NEW m, NEW next \in InTurns, NEW w, pc'[c] = next, local'[c] = m, Ledger(Seen(c)') = w,
           UNCHANGED <<executed, serial>>, SameVectors(m, local[c]), m.fills = old \o TurnFills(m),
           SameTables(Rewind(m, next, w), f, serial)
    PROVE  UNCHANGED Serial!vars
<1> DEFINE g == Rewind(m, next, w)
<1>1. /\ Shows(f, serial, executed \o old)
      /\ ViewMatching = {local[c].req.sym} /\ ViewBuying = local[c].buying /\ ViewSelling = local[c].selling
    BY LoopViews
<1>2. m.buying[1].TransID # m.selling[1].TransID
    BY DEF SameVectors
<1>3. /\ ViewOpened' = OpenedIn(g) /\ ViewBalance' = BalanceIn(g) /\ ViewPosition' = PositionIn(g)
      /\ ViewOrders' = OrdersIn(g, serial) /\ ViewExecuted' = executed \o old
    BY <1>2 DEF Shown, TurnShown, Shows
<1>4. ViewMatching' = {m.req.sym} /\ ViewBuying' = m.buying /\ ViewSelling' = m.selling
    BY DEF Shown, LoopShown, Matching
<1> HIDE DEF g
<1>5. SameTables(g, f, serial)
    BY DEF g
<1> QED
    BY <1>1, <1>3, <1>4, <1>5, ViewStays DEF Shows, SameTables, SameVectors

\* What a turn has written so far.
LEMMA WritesSeen ==
    ASSUME Inv, NEW c \in Clients, NEW k, NEW v, Write(c, k, v), db' = db, k \notin SymbolKeys
    PROVE  Ledger(Seen(c)') = Put(Ledger(Seen(c)), k, v)
<1>1. tx'[c] = Put(tx[c], k, v)
    BY WrittenRows
<1>2. Seen(c)' = Over(Put(tx[c], k, v), db)
    BY <1>1 DEF Seen
<1>3. Seen(c)' = Put(Seen(c), k, v)
    BY <1>2, PutOver DEF Seen
<1> QED
    BY <1>3, LedgerPut

\* The executions and the buying row.
LEMMA TurnOpens ==
    ASSUME Inv, AInv, Tallies, NEW c \in Clients, LInv(c), Shown(c), Shown(c)', UpdateBuyRow(c)
    PROVE  UNCHANGED Serial!vars
<1> DEFINE l == local[c]
           f == Ledger(Seen(c))
           k == Order(l.buying[1].TransID)
           v == WithAmount(f[k], l.buying[1].Amount - Lot(l))
           m == [l EXCEPT !.fills = @ \o
                        <<[TransID |-> l.buying[1].TransID, Amount |-> MatchAmount(c), Price |-> MatchPrice(c)],
                          [TransID |-> l.selling[1].TransID, Amount |-> -MatchAmount(c), Price |-> MatchPrice(c)]>>]
<1>1. pc[c] = "loop" /\ Crossing(l)
    BY DEF UpdateBuyRow, CanMatch, Crossing
<1>2. /\ TurnRowsOf(l, "loop", f, serial) /\ MatchAmount(c) = Lot(l) /\ MatchPrice(c) = TurnPrice(l)
    BY <1>1, TurnFacts DEF Matching
<1>3. l.fills \in Seq(Fill) /\ DOMAIN l = Variables
    BY OwnTally DEF Tally, Inv, LocalOK
<1>4. f[k] = Seen(c)[k]
    BY <1>2, LedgerRows DEF TurnRowsOf
<1>5. /\ Write(c, k, v) /\ Goto(c, "sellrow") /\ local' = [local EXCEPT ![c] = m]
      /\ UNCHANGED <<db, executed, serial>>
    BY <1>2, <1>4 DEF UpdateBuyRow, UpdateRow, WithAmount
<1>6. pc'[c] = "sellrow" /\ local'[c] = m
    BY <1>5 DEF Goto, Inv, Types
<1>7. SameVectors(m, l) /\ m.fills = l.fills \o TurnFills(l)
    BY <1>2, <1>3 DEF SameVectors, Variables, TurnFills
<1>8. m.fills = l.fills \o TurnFills(m)
    BY <1>7, TurnFillsSame
<1>9. f = [j \in DOMAIN f |-> f[j]]
    BY DEF Ledger
<1>10. Ledger(Seen(c)') = Put(f, k, v)
    BY <1>5, WritesSeen, NoSymbolKeys
<1>11. SeenInLoop(c, f, l.fills)
    BY <1>1 DEF SeenInLoop
<1> HIDE DEF m, f
<1>12. Rewind(m, "sellrow", Put(f, k, v)) = f
    <2>1. Rewind(l, "sellrow", Put(f, k, v)) = f
        BY <1>2, <1>9, BuyRowRewound
    <2>2. Rewind(m, "sellrow", Put(f, k, v)) = Rewind(l, "sellrow", Put(f, k, v))
        BY <1>7, ReadRewound
    <2> QED
        BY <2>1, <2>2
<1>13. l.buying[1].TransID # l.selling[1].TransID
    BY <1>2 DEF TurnRowsOf
<1>14. SameTables(Rewind(m, "sellrow", Put(f, k, v)), f, serial)
    BY <1>12 DEF SameTables
<1> HIDE DEF v, k
<1> QED
    BY <1>3, <1>5, <1>6, <1>7, <1>8, <1>10, <1>11, <1>13, <1>14, TurnStays DEF InTurns

\* The other statements of a turn, up to the seller's balance.
LEMMA TurnPasses ==
    ASSUME Inv, AInv, Tallies, NEW c \in Clients, LInv(c), Shown(c), Shown(c)', pc[c] \in InTurns,
           NEW m, NEW next \in InTurns, pc'[c] = next, local'[c] = m, UNCHANGED <<executed, serial>>,
           SameVectors(m, local[c]), m.fills = local[c].fills, NEW w, Ledger(Seen(c)') = w,
           TurnRowsOf(local[c], pc[c], Ledger(Seen(c)), serial),
           SameTables(Rewind(local[c], next, w), Rewind(local[c], pc[c], Ledger(Seen(c))), serial)
    PROVE  UNCHANGED Serial!vars
<1> DEFINE l == local[c]
           f == Rewind(l, pc[c], Ledger(Seen(c)))
<1>1. PICK old \in Seq(Fill) : l.fills = old \o TurnFills(l)
    BY DEF LInv
<1>2. m.fills = old \o TurnFills(m)
    BY <1>1, TurnFillsSame
<1>3. SeenInLoop(c, f, old)
    BY <1>1 DEF SeenInLoop
<1>4. l.buying[1].TransID # l.selling[1].TransID
    BY DEF TurnRowsOf
<1>5. Rewind(m, next, w) = Rewind(l, next, w)
    BY ReadRewound
<1>6. SameTables(Rewind(m, next, w), f, serial)
    BY <1>5
<1> HIDE DEF f
<1> QED
    BY <1>2, <1>3, <1>4, <1>6, TurnStays

LEMMA TurnUnseen ==
    ASSUME Inv, AInv, Tallies, up', NEW c \in Clients, LInv(c), Shown(c), Shown(c)',
           UpdateSellRow(c) \/ FindPosition(c) \/ AddPosition(c) \/ NewPosition(c) \/ ReadSeller(c)
    PROVE  UNCHANGED Serial!vars
<1> DEFINE l == local[c]
           f == Ledger(Seen(c))
<1>1. pc[c] \in InTurns
    BY DEF UpdateSellRow, FindPosition, AddPosition, NewPosition, ReadSeller, InTurns
<1>2. Crossing(l)
    BY <1>1, LoneFacts DEF AInv, Undisturbed, Working, StillMirrored
<1>3. /\ TurnRowsOf(l, pc[c], f, serial) /\ TurnAccounts(l, pc[c], f) /\ MatchAmount(c) = Lot(l)
      /\ BuyerPosition(c) = Bought(l)
    BY <1>1, <1>2, TurnFacts DEF Matching
<1>4. DOMAIN l = Variables /\ SameVectors(l, l)
    BY DEF Inv, LocalOK, SameVectors
<1>5. Bought(l) \notin SymbolKeys
    BY NoSymbolKeys DEF Bought
<1>6. CASE UpdateSellRow(c)
    <2> DEFINE k == Order(l.selling[1].TransID)
               v == WithAmount(f[k], l.selling[1].Amount + Lot(l))
    <2>1. f[k] = Seen(c)[k]
        BY <1>3, LedgerRows DEF TurnRowsOf
    <2>2. /\ pc[c] = "sellrow" /\ Write(c, k, v) /\ Goto(c, "findposition")
          /\ UNCHANGED <<db, executed, serial, local>>
        BY <1>3, <1>6, <2>1 DEF UpdateSellRow, UpdateRow, WithAmount
    <2>3. pc'[c] = "findposition" /\ Ledger(Seen(c)') = Put(f, k, v)
        BY <2>2, WritesSeen, NoSymbolKeys DEF Goto, Inv, Types
    <2>4. Rewind(l, "findposition", Put(f, k, v)) = Rewind(l, "sellrow", f)
        BY <1>3, <2>2, SellRowRewound
    <2>5. SameTables(Rewind(l, "findposition", Put(f, k, v)), Rewind(l, pc[c], f), serial)
        BY <2>2, <2>4 DEF SameTables
    <2> HIDE DEF v, k
    <2> QED
        BY <1>1, <1>3, <1>4, <2>2, <2>3, <2>5, TurnPasses DEF InTurns
<1>7. ASSUME NEW m, NEW next \in InTurns, Keep(c, m, next), SameVectors(m, l), m.fills = l.fills,
             pc[c] \in Selling <=> next \in Selling
      PROVE  UNCHANGED Serial!vars
    <2>1. pc'[c] = next /\ local'[c] = m /\ UNCHANGED <<db, executed, serial, tx>>
        BY <1>7 DEF Keep, Goto, Inv, Types
    <2>2. Seen(c)' = Seen(c)
        BY <2>1 DEF Seen
    <2>3. Rewind(l, next, f) = Rewind(l, pc[c], f)
        BY <1>4, <1>7, ReadRewound
    <2>4. SameTables(Rewind(l, next, f), Rewind(l, pc[c], f), serial)
        BY <2>3 DEF SameTables
    <2>5. Ledger(Seen(c)') = f
        BY <2>2
    <2> HIDE DEF f
    <2> QED
        BY <1>1, <1>3, <1>7, <2>1, <2>4, <2>5, TurnPasses DEF f
<1>8. CASE FindPosition(c)
    <2>1. PICK next \in {"addposition", "newposition"} : Keep(c, l, next) /\ pc[c] = "findposition"
        BY <1>8 DEF FindPosition
    <2> QED
        BY <1>4, <1>7, <2>1 DEF InTurns, Selling
<1>9. CASE ReadSeller(c)
    <2> DEFINE m == [l EXCEPT !.seen = Seen(c)[SellerBalance(c)]]
    <2>1. Keep(c, m, "payseller") /\ pc[c] = "readseller"
        BY <1>9 DEF ReadSeller
    <2>2. SameVectors(m, l) /\ m.fills = l.fills
        BY <1>4 DEF Variables, SameVectors
    <2> HIDE DEF m
    <2> QED
        BY <1>7, <2>1, <2>2 DEF InTurns, Selling
<1>10. CASE AddPosition(c)
    <2> DEFINE k == Bought(l)
               v == f[k] + Lot(l)
    <2>1. pc[c] = "addposition"
        BY <1>10 DEF AddPosition
    <2>2. f[k] = Seen(c)[k]
        BY <1>3, <2>1, LedgerRows DEF TurnAccounts
    <2>3. Write(c, k, v) /\ Goto(c, "readseller") /\ UNCHANGED <<db, executed, serial, local>>
        BY <1>3, <1>10, <2>2 DEF AddPosition, UpdateRow
    <2>4. pc'[c] = "readseller" /\ Ledger(Seen(c)') = Put(f, k, v)
        BY <1>5, <2>3, WritesSeen DEF Goto, Inv, Types
    <2>5. Rewind(l, "readseller", Put(f, k, v)) = Rewind(l, "addposition", f)
        BY <1>3, <2>1, BoughtRewound
    <2>6. SameTables(Rewind(l, "readseller", Put(f, k, v)), Rewind(l, pc[c], f), serial)
        BY <2>1, <2>5 DEF SameTables
    <2> HIDE DEF v, k
    <2> QED
        BY <1>1, <1>3, <1>4, <2>3, <2>4, <2>6, TurnPasses DEF InTurns
<1>11. CASE NewPosition(c)
    <2> DEFINE k == Bought(l)
               v == Lot(l)
    <2>1. pc[c] = "newposition" /\ InsertRow(c, k, v, "readseller")
        BY <1>3, <1>11 DEF NewPosition
    <2>2. Write(c, k, v) /\ Goto(c, "readseller") /\ UNCHANGED <<db, executed, serial, local>>
        BY <2>1 DEF InsertRow, Terminate
    <2>4. pc'[c] = "readseller" /\ Ledger(Seen(c)') = Put(f, k, v)
        BY <1>5, <2>2, WritesSeen DEF Goto, Inv, Types
    <2>6. SameTables(Rewind(l, "readseller", Put(f, k, v)), Rewind(l, pc[c], f), serial)
        BY <1>3, <2>1, FirstRewound DEF SameTables
    <2> HIDE DEF v, k
    <2> QED
        BY <1>1, <1>3, <1>4, <2>2, <2>4, <2>6, TurnPasses DEF InTurns
<1> QED
    BY <1>6, <1>8, <1>9, <1>10, <1>11
-----------------------------------------------------------------------------
\* The last statement of a turn: the ledger without the turn, and with it.
LEMMA TurnOrders ==
    ASSUME NEW l, NEW f, NEW n, TurnRowsOf(l, "payseller", f, n)
    PROVE  OrdersIn(f, n) =
               [OrdersIn(Rewind(l, "payseller", f), n) EXCEPT
                    ![l.buying[1].TransID].Amount = l.buying[1].Amount - Lot(l),
                    ![l.selling[1].TransID].Amount = l.selling[1].Amount + Lot(l)]
<1> DEFINE b == l.buying[1].TransID
           a == l.selling[1].TransID
           x == l.buying[1].Amount - Lot(l)
           y == l.selling[1].Amount + Lot(l)
           g == Rewind(l, "payseller", f)
           t == OrdersIn(f, n)
           u == OrdersIn(g, n)
<1>1. /\ b # a /\ b \in 1 .. n /\ a \in 1 .. n /\ Order(b) \in DOMAIN f /\ Order(a) \in DOMAIN f
      /\ f[Order(b)] \in OrderRow /\ f[Order(a)] \in OrderRow
      /\ f[Order(b)].Amount = x /\ f[Order(a)].Amount = y
    BY DEF TurnRowsOf, InTurns
<1>2. DOMAIN g = DOMAIN f /\ \A k \in DOMAIN f : g[k] = Was(l, "payseller", k, f[k])
    BY DEF Rewind
<1>3. \A i : i # b /\ i # a => \A o : Was(l, "payseller", Order(i), o) = o
    BY KeysDiffer DEF Was, Bought
<1>4. /\ \A o : Was(l, "payseller", Order(b), o) = WithAmount(o, l.buying[1].Amount)
      /\ \A o : Was(l, "payseller", Order(a), o) = WithAmount(o, l.selling[1].Amount)
    BY <1>1, KeysDiffer DEF Was
<1> HIDE DEF g, x, y
<1>5. DOMAIN t = {j \in 1 .. n : Order(j) \in DOMAIN f} /\ DOMAIN u = DOMAIN t /\ b \in DOMAIN t /\ a \in DOMAIN t
    BY <1>1, <1>2 DEF OrdersIn
<1>6. t = [i \in DOMAIN t |-> t[i]] /\ u = [i \in DOMAIN u |-> u[i]]
    BY DEF OrdersIn
<1>7. \A i \in DOMAIN t : t[i] = f[Order(i)] /\ u[i] = g[Order(i)] /\ Order(i) \in DOMAIN f
    BY <1>2 DEF OrdersIn
<1> HIDE DEF t, u
<1>8. t[b] = WithAmount(u[b], x)
    <2>1. u[b] = WithAmount(t[b], l.buying[1].Amount) /\ t[b] \in OrderRow /\ t[b].Amount = x
        BY <1>1, <1>2, <1>4, <1>5, <1>7
    <2> QED
        BY <2>1, Amounts
<1>9. t[a] = WithAmount(u[a], y)
    <2>1. u[a] = WithAmount(t[a], l.selling[1].Amount) /\ t[a] \in OrderRow /\ t[a].Amount = y
        BY <1>1, <1>2, <1>4, <1>5, <1>7
    <2> QED
        BY <2>1, Amounts
<1>10. \A i \in DOMAIN t : i # b /\ i # a => t[i] = u[i]
    BY <1>2, <1>3, <1>7
<1>11. t = [u EXCEPT ![b].Amount = x, ![a].Amount = y]
    <2> DEFINE w == [u EXCEPT ![b].Amount = x, ![a].Amount = y]
    <2>1. w = [[u EXCEPT ![b] = WithAmount(@, x)] EXCEPT ![a] = WithAmount(@, y)]
        BY DEF WithAmount
    <2>2. DOMAIN w = DOMAIN u /\ w = [i \in DOMAIN w |-> w[i]]
        BY <1>6
    <2>3. w[b] = WithAmount(u[b], x) /\ w[a] = WithAmount(u[a], y)
        BY <1>1, <1>5, <2>1
    <2>4. \A i \in DOMAIN u : i # b /\ i # a => w[i] = u[i]
        OBVIOUS
    <2> HIDE DEF w
    <2>5. \A i \in DOMAIN t : w[i] = t[i]
        BY <1>5, <1>8, <1>9, <1>10, <2>3, <2>4
    <2>6. w = t
        BY <1>5, <1>6, <2>2, <2>5
    <2> QED
        BY <2>6 DEF w
<1> QED
    BY <1>11 DEF t, u, g, x, y

LEMMA TurnNumbers ==
    ASSUME NEW l, NEW f, TurnAccounts(l, "payseller", f)
    PROVE  LET g == Rewind(l, "payseller", f)
           IN  /\ OpenedIn(f) = OpenedIn(g) /\ BalanceIn(f) = BalanceIn(g)
               /\ PositionIn(f) = [PositionIn(g) EXCEPT ![<<l.buying[1].AccountID, l.req.sym>>] = @ + Lot(l)]
<1> DEFINE g == Rewind(l, "payseller", f)
           k == Bought(l)
           h == <<l.buying[1].AccountID, l.req.sym>>
<1>1. /\ Lot(l) \in Nat /\ k \in DOMAIN f /\ f[k] \in Nat
      /\ l.buying[1].AccountID \in Accounts /\ l.req.sym \in Symbols
    BY DEF TurnAccounts, Selling
<1>2. DOMAIN g = DOMAIN f /\ \A j \in DOMAIN f : g[j] = Was(l, "payseller", j, f[j])
    BY DEF Rewind
<1>3. \A j, o : (j # k /\ \A i : j # Order(i)) => Was(l, "payseller", j, o) = o
    BY DEF Was
<1>4. \A o : Was(l, "payseller", k, o) = o - Lot(l)
    BY KeysDiffer DEF Was, Bought, Selling
<1> HIDE DEF g
<1>5. \A a : (Balance(a) \in DOMAIN g <=> Balance(a) \in DOMAIN f) /\ Num(g, Balance(a)) = Num(f, Balance(a))
    <2>1. \A a : Balance(a) # k /\ \A i : Balance(a) # Order(i)
        BY KeysDiffer DEF Bought
    <2> QED
        BY <1>2, <1>3, <2>1 DEF Num
<1>6. OpenedIn(f) = OpenedIn(g) /\ BalanceIn(f) = BalanceIn(g)
    BY <1>5 DEF OpenedIn, BalanceIn
<1>7. \A a, s : Num(f, Position(a, s)) = IF Position(a, s) = k THEN f[k] ELSE Num(g, Position(a, s))
    <2>1. \A a, s : \A i : Position(a, s) # Order(i)
        BY KeysDiffer
    <2> QED
        BY <1>1, <1>2, <1>3, <2>1 DEF Num
<1>8. Num(g, k) + Lot(l) = f[k]
    BY <1>1, <1>2, <1>4 DEF Num
<1>9. PositionIn(f) = [PositionIn(g) EXCEPT ![h] = @ + Lot(l)]
    <2> DEFINE p == PositionIn(f)
               q == PositionIn(g)
    <2>1. h \in Accounts \X Symbols /\ Position(h[1], h[2]) = k
        BY <1>1 DEF Bought
    <2>2. \A j \in Accounts \X Symbols : j # h => Position(j[1], j[2]) # k
        <3>1. \A j \in Accounts \X Symbols : j = h <=> j[1] = l.buying[1].AccountID /\ j[2] = l.req.sym
            OBVIOUS
        <3> QED
            BY <3>1, KeysDiffer DEF Bought
    <2>3. p[h] = f[k] /\ q[h] = Num(g, k)
        BY <1>7, <2>1 DEF PositionIn
    <2>4. \A j \in Accounts \X Symbols : j # h => p[j] = q[j]
        BY <1>7, <2>2 DEF PositionIn
    <2>5. p = [j \in Accounts \X Symbols |-> p[j]] /\ q = [j \in Accounts \X Symbols |-> q[j]]
        BY DEF PositionIn
    <2> HIDE DEF p, q, h
    <2>6. p[h] = q[h] + Lot(l)
        BY <1>8, <2>3
    <2>7. p = [q EXCEPT ![h] = @ + Lot(l)]
        BY <2>1, <2>4, <2>5, <2>6
    <2> QED
        BY <2>7 DEF p, q, h
<1> QED
    BY <1>6, <1>9 DEF g

LEMMA FillsAppend ==
    ASSUME NEW e \in Seq(Fill), NEW old \in Seq(Fill), NEW l
    PROVE  e \o (old \o TurnFills(l)) = (e \o old) \o TurnFills(l)
<1> DEFINE two == TurnFills(l)
           S == Fill \cup {two[1], two[2]}
<1>1. two \in Seq({two[1], two[2]})
    BY DEF TurnFills
<1> HIDE DEF two
<1>2. e \in Seq(S) /\ old \in Seq(S) /\ two \in Seq(S)
    BY <1>1
<1> HIDE DEF S
<1>3. e \o (old \o two) = (e \o old) \o two
    BY <1>2, ConcatAssociative
<1> QED
    BY <1>3 DEF two

\* What Exchange sees before and after the seller is paid.
PayView(c, e, old, f, w) ==
    LET l == local[c]
        g == Rewind(l, "payseller", f)
    IN  /\ Shows(g, serial, e) /\ e = executed \o old
        /\ ViewMatching = {l.req.sym} /\ ViewBuying = l.buying /\ ViewSelling = l.selling
        /\ ViewOpened' = OpenedIn(w) /\ ViewBalance' = BalanceIn(w) /\ ViewPosition' = PositionIn(w)
        /\ ViewOrders' = OrdersIn(w, serial) /\ ViewExecuted' = e \o TurnFills(l)
        /\ ViewMatching' = {l.req.sym}
        /\ ViewBuying' = AfterMatch(l.buying, Lot(l)) /\ ViewSelling' = AfterMatch(l.selling, -Lot(l))

LEMMA PayViews ==
    ASSUME Inv, AInv, Tallies, NEW c \in Clients, LInv(c), Shown(c), Shown(c)', PaySeller(c), Crossing(local[c])
    PROVE  LET l == local[c]
               f == Ledger(Seen(c))
           IN  \E old : PayView(c, executed \o old, old, f,
                                Put(f, Balance(l.selling[1].AccountID), Lot(l) * TurnPrice(l) + l.seen))
<1> DEFINE l == local[c]
           f == Ledger(Seen(c))
           k == Balance(l.selling[1].AccountID)
           v == Lot(l) * TurnPrice(l) + l.seen
           w == Put(f, k, v)
           g == Rewind(l, "payseller", f)
           m == [l EXCEPT !.buying = AfterMatch(@, Lot(l)), !.selling = AfterMatch(@, -Lot(l))]
<1>1. pc[c] = "payseller" /\ pc[c] \in InTurns
    BY DEF PaySeller, InTurns
<1>2. /\ TurnRowsOf(l, pc[c], f, serial)
      /\ MatchAmount(c) = Lot(l) /\ MatchPrice(c) = TurnPrice(l) /\ SellerBalance(c) = k
    BY <1>1, TurnFacts DEF Matching
<1>3. DOMAIN l = Variables
    BY DEF Inv, LocalOK
<1>4. /\ Write(c, k, v) /\ Goto(c, "loop") /\ local' = [local EXCEPT ![c] = m]
      /\ UNCHANGED <<db, executed, serial>>
    BY <1>2 DEF PaySeller, UpdateRow
<1>5. pc'[c] = "loop" /\ local'[c] = m
    BY <1>4 DEF Goto, Inv, Types
<1>6. m.req = l.req /\ m.fills = l.fills /\ m.buying = AfterMatch(l.buying, Lot(l)) /\ m.selling = AfterMatch(l.selling, -Lot(l))
    BY <1>3 DEF Variables
<1>7. Ledger(Seen(c)') = w
    BY <1>4, WritesSeen, NoSymbolKeys
<1>8. PICK old \in Seq(Fill) : l.fills = old \o TurnFills(l)
    BY <1>1 DEF LInv
<1>9. SeenInLoop(c, g, old)
    BY <1>1, <1>8 DEF SeenInLoop
<1>10. l.buying[1].TransID # l.selling[1].TransID
    BY <1>2 DEF TurnRowsOf
<1> HIDE DEF m, w, g
<1>11. /\ Shows(g, serial, executed \o old)
       /\ ViewMatching = {l.req.sym} /\ ViewBuying = l.buying /\ ViewSelling = l.selling
    BY <1>9, <1>10, LoopViews
<1>12. /\ Shows(Ledger(Seen(c)), serial, executed \o local[c].fills)'
       /\ ViewMatching' = {m.req.sym} /\ ViewBuying' = m.buying /\ ViewSelling' = m.selling
    BY <1>5 DEF Shown, LoopShown, Matching
<1>13. executed \in Seq(Fill) /\ executed \o l.fills = (executed \o old) \o TurnFills(l)
    BY <1>8, FillsAppend DEF Tallies
<1>14. (executed \o local[c].fills)' = (executed \o old) \o TurnFills(l)
    BY <1>4, <1>5, <1>6, <1>13
<1>15. /\ ViewOpened' = OpenedIn(w) /\ ViewBalance' = BalanceIn(w) /\ ViewPosition' = PositionIn(w)
       /\ ViewOrders' = OrdersIn(w, serial) /\ ViewExecuted' = (executed \o old) \o TurnFills(l)
    BY <1>4, <1>7, <1>12, <1>14 DEF Shows
<1>16. PayView(c, executed \o old, old, f, w)
    BY <1>6, <1>11, <1>12, <1>15 DEF PayView, g
<1> QED
    BY <1>16 DEF w

\* Paying the seller is the turn of Exchange.
LEMMA PaysSeller ==
    ASSUME Inv, AInv, Tallies, NEW c \in Clients, LInv(c), Shown(c), Shown(c)', PaySeller(c)
    PROVE  Serial!Next
<1> DEFINE l == local[c]
           f == Ledger(Seen(c))
           b == l.buying[1]
           a == l.selling[1]
           g == Rewind(l, "payseller", f)
           n == Lot(l)
           p == TurnPrice(l)
           h == <<b.AccountID, l.req.sym>>
<1>1. pc[c] = "payseller" /\ pc[c] \in InTurns
    BY DEF PaySeller, InTurns
<1>2. Crossing(l)
    BY <1>1, LoneFacts DEF AInv, Undisturbed, Working, StillMirrored
<1>3. TurnRowsOf(l, "payseller", f, serial) /\ TurnAccounts(l, "payseller", f)
    BY <1>1, <1>2, TurnFacts DEF Matching
<1>4. PICK v : v = n * p + l.seen
    OBVIOUS
<1> DEFINE w == Put(f, Balance(a.AccountID), v)
<1>5. PICK old : PayView(c, executed \o old, old, f, w)
    BY <1>2, <1>4, PayViews
<1>6. a.AccountID \in Accounts /\ Balance(a.AccountID) \in DOMAIN f /\ l.seen = f[Balance(a.AccountID)]
    BY <1>3 DEF TurnAccounts
<1>7. OrdersIn(f, serial) = [OrdersIn(g, serial) EXCEPT ![b.TransID].Amount = b.Amount - n,
                                                       ![a.TransID].Amount = a.Amount + n]
    BY <1>3, TurnOrders
<1>8. /\ OpenedIn(f) = OpenedIn(g) /\ BalanceIn(f) = BalanceIn(g)
      /\ PositionIn(f) = [PositionIn(g) EXCEPT ![h] = @ + n]
    BY <1>3, TurnNumbers
<1>9. OrdersIn(w, serial) = OrdersIn(f, serial)
    BY KeysDiffer, PutTables
<1>10. /\ OpenedIn(w) = OpenedIn(f) \cup {a.AccountID} /\ PositionIn(w) = PositionIn(f)
       /\ BalanceIn(w) = [BalanceIn(f) EXCEPT ![a.AccountID] = v]
    BY <1>6, PutBalance
<1>11. OpenedIn(w) = OpenedIn(g)
    BY <1>6, <1>8, <1>10 DEF OpenedIn
<1>12. BalanceIn(f)[a.AccountID] = l.seen
    BY <1>6 DEF BalanceIn, Num
<1>13. BalanceIn(w) = [BalanceIn(g) EXCEPT ![a.AccountID] = n * p + @]
    BY <1>4, <1>8, <1>10, <1>12
<1> HIDE DEF w, g, f
<1>14. /\ ViewOpened = OpenedIn(g) /\ ViewBalance = BalanceIn(g) /\ ViewPosition = PositionIn(g)
       /\ ViewOrders = OrdersIn(g, serial) /\ ViewExecuted = executed \o old
       /\ ViewMatching = {l.req.sym} /\ ViewBuying = l.buying /\ ViewSelling = l.selling
    BY <1>5 DEF PayView, Shows, g
<1>15. /\ ViewOpened' = OpenedIn(w) /\ ViewBalance' = BalanceIn(w) /\ ViewPosition' = PositionIn(w)
       /\ ViewOrders' = OrdersIn(w, serial) /\ ViewExecuted' = (executed \o old) \o TurnFills(l)
       /\ ViewMatching' = {l.req.sym}
       /\ ViewBuying' = AfterMatch(l.buying, n) /\ ViewSelling' = AfterMatch(l.selling, -n)
    BY <1>5 DEF PayView
<1>16. Serial!MatchAmount(b, a) = n /\ Serial!MatchPrice(b, a) = p
    BY DEF Serial!MatchAmount, Serial!Lesser, Serial!MatchPrice, Lot, TurnPrice
<1>17. Serial!CanMatch
    BY <1>2, <1>14 DEF Serial!CanMatch, Crossing
<1>18. /\ ViewBuying' = Serial!AfterMatch(l.buying, n) /\ ViewSelling' = Serial!AfterMatch(l.selling, -n)
    BY <1>15 DEF AfterMatch, Serial!AfterMatch
<1>19. ViewExecuted' = ViewExecuted \o <<[TransID |-> b.TransID, Amount |-> n, Price |-> p],
                                         [TransID |-> a.TransID, Amount |-> -n, Price |-> p]>>
    BY <1>14, <1>15 DEF TurnFills
<1>20. ViewOrders' = [ViewOrders EXCEPT ![b.TransID].Amount = b.Amount - n, ![a.TransID].Amount = a.Amount + n]
    BY <1>7, <1>9, <1>14, <1>15, Zenon
<1>21. \E sym \in ViewMatching : ViewPosition' = [ViewPosition EXCEPT ![<<b.AccountID, sym>>] = @ + n]
    BY <1>8, <1>10, <1>14, <1>15
<1>22. ViewBalance' = [ViewBalance EXCEPT ![a.AccountID] = n * p + @]
    BY <1>13, <1>14, <1>15
<1>23. UNCHANGED <<ViewOpened, ViewMatching>> /\ ViewBuying[1] = b /\ ViewSelling[1] = a
    BY <1>11, <1>14, <1>15
<1> HIDE DEF n, p, b, a
<1>24. Serial!MatchHeads
    BY <1>14, <1>16, <1>17, <1>18, <1>19, <1>20, <1>21, <1>22, <1>23 DEF Serial!MatchHeads
<1> QED
    BY <1>24 DEF Serial!Next

\* The loop ends and the order commits.
LEMMA CommitsOrder ==
    ASSUME Inv, Tallies, NEW c \in Clients, Shown(c), Shown(c)', CommitOrder(c)
    PROVE  Serial!Next
<1> DEFINE l == local[c]
           f == Ledger(Seen(c))
<1>1. /\ pc[c] = "loop" /\ ~Crossing(l) /\ pc'[c] = "idle" /\ db' = Seen(c) /\ serial' = serial
      /\ executed' = executed \o l.fills
    BY DEF CommitOrder, CanMatch, Crossing, EndTransaction, Goto, Inv, Types
<1>2. pc[c] \in Matching /\ pc'[c] \notin Matching
    BY <1>1 DEF Matching, InTurns
<1>3. executed \o l.fills \in Seq(Fill)
    <2>1. executed \in Seq(Fill) /\ l.fills \in Seq(Fill)
        BY OwnTally DEF Tallies, Tally
    <2> QED
        BY <2>1, ConcatProperties
<1>4. /\ Shows(f, serial, executed \o l.fills)
      /\ ViewMatching = {l.req.sym} /\ ViewBuying = l.buying /\ ViewSelling = l.selling
    BY <1>1, <1>2 DEF Shown, LoopShown
<1>5. executed' \in Seq(Fill)
    BY <1>1, <1>3
<1>6. /\ Shows(Ledger(db), serial, executed)' /\ ViewMatching' = {} /\ ViewBuying' = <<>> /\ ViewSelling' = <<>>
    BY <1>2, <1>5 DEF Shown, RestShown
<1>7. UNCHANGED <<ViewOpened, ViewBalance, ViewPosition, ViewOrders, ViewExecuted>>
    BY <1>1, <1>4, <1>6 DEF Shows
<1>8. ~Serial!CanMatch
    BY <1>1, <1>4 DEF Serial!CanMatch, Crossing
<1>9. Serial!Commit
    BY <1>4, <1>6, <1>7, <1>8 DEF Serial!Commit, Serial!tables
<1> QED
    BY <1>9 DEF Serial!Next

\* Nothing happens here, and nothing there.
LEMMA StutterUnseen ==
    ASSUME Inv, AInv, Tallies, NEW c \in Clients, LInv(c), Shown(c), Shown(c)', UNCHANGED vars
    PROVE  UNCHANGED Serial!vars
<1> DEFINE l == local[c]
           f == Ledger(Seen(c))
<1>1. UNCHANGED <<db, executed, serial, tx, pc, local>>
    BY DEF vars
<1>2. Seen(c)' = Seen(c)
    BY <1>1 DEF Seen
<1>3. CASE pc[c] \notin Matching
    <2>1. pc'[c] \notin Matching /\ serial' \in {serial, serial + 1}
        BY <1>1, <1>3
    <2> QED
        BY <1>1, <1>3, <2>1, RestStays
<1>4. CASE pc[c] = "loop"
    <2>1. /\ Shows(f, serial, executed \o l.fills)
          /\ ViewMatching = {l.req.sym} /\ ViewBuying = l.buying /\ ViewSelling = l.selling
        BY <1>4 DEF Shown, LoopShown, Matching
    <2>2. /\ Shows(Ledger(Seen(c)), serial, executed \o local[c].fills)'
          /\ ViewMatching' = {l.req.sym} /\ ViewBuying' = l.buying /\ ViewSelling' = l.selling
        BY <1>1, <1>4 DEF Shown, LoopShown, Matching
    <2>3. UNCHANGED <<ViewOpened, ViewBalance, ViewPosition, ViewOrders, ViewExecuted>>
        BY <1>1, <1>2, <2>1, <2>2 DEF Shows
    <2> QED
        BY <2>1, <2>2, <2>3, ViewStays
<1>5. CASE pc[c] \in InTurns
    <2>1. Crossing(l)
        BY <1>5, LoneFacts DEF AInv, Undisturbed, Working, StillMirrored
    <2>2. TurnRowsOf(l, pc[c], f, serial)
        BY <1>5, <2>1, TurnFacts DEF Matching
    <2>3. SameVectors(l, l) /\ pc'[c] = pc[c] /\ local'[c] = l /\ Ledger(Seen(c)') = f
        BY <1>1, <1>2 DEF SameVectors
    <2>4. SameTables(Rewind(l, pc[c], f), Rewind(l, pc[c], f), serial)
        BY DEF SameTables
    <2> HIDE DEF f
    <2> QED
        BY <1>1, <1>5, <2>2, <2>3, <2>4, TurnPasses DEF f
<1> QED
    BY <1>3, <1>4, <1>5 DEF Matching

\* Every step of the only client is one of Exchange, or none.
LEMMA StepsAlone ==
    ASSUME Inv, AInv, Tallies, AInv', NEW c, Clients = {c}, LInv(c), Shown(c), Shown(c)', [Next]_vars
    PROVE  [Serial!Next]_Serial!vars
<1>1. up' /\ c \in Clients
    BY DEF AInv
<1>2. CASE \E d \in Clients : Receive(d)
    BY <1>1, <1>2, UnseenStays
<1>3. CASE \E d \in Clients : Handler(d)
    <2>1. Statement(c)
        BY <1>3 DEF Handler
    <2>2. \/ Unseen(c) \/ CommitCreate(c) \/ SelectSells(c) \/ UpdateBuyRow(c)
          \/ UpdateSellRow(c) \/ FindPosition(c) \/ AddPosition(c) \/ NewPosition(c) \/ ReadSeller(c)
          \/ PaySeller(c) \/ CommitOrder(c)
        BY <2>1, Zenon DEF Statement, Unseen
    <2>3. CASE Unseen(c)
        BY <1>1, <2>3, UnseenStays
    <2>4. CASE CommitCreate(c)
        BY <1>1, <2>4, CommitsCreate
    <2>5. CASE SelectSells(c)
        BY <1>1, <2>5, FetchesAlone
    <2>6. CASE UpdateBuyRow(c)
        BY <1>1, <2>6, TurnOpens
    <2>7. CASE UpdateSellRow(c) \/ FindPosition(c) \/ AddPosition(c) \/ NewPosition(c) \/ ReadSeller(c)
        BY <1>1, <2>7, TurnUnseen
    <2>8. CASE PaySeller(c)
        BY <1>1, <2>8, PaysSeller
    <2>9. CASE CommitOrder(c)
        BY <1>1, <2>9, CommitsOrder
    <2> QED
        BY <2>2, <2>3, <2>4, <2>5, <2>6, <2>7, <2>8, <2>9
<1>4. CASE DeadlockDetected
    BY <1>1, <1>4 DEF DeadlockDetected, Terminate
<1>5. CASE UNCHANGED vars
    BY <1>1, <1>5, StutterUnseen
<1> QED
    BY <1>2, <1>3, <1>4, <1>5 DEF Next

\* A server with no rows is Exchange at its start.
LEMMA OpensAlone ==
    ASSUME Init, NEW c \in Clients, Shown(c), \A course \in Courses : course.opening = NoRows
    PROVE  Serial!Init
<1>1. db = NoRows /\ executed = <<>> /\ serial = 0 /\ pc[c] = "idle"
    BY DEF Init
<1>2. pc[c] \notin Matching /\ executed \in Seq(Fill)
    BY <1>1 DEF Matching, InTurns
<1>3. /\ Shows(Ledger(db), serial, executed) /\ ViewMatching = {} /\ ViewBuying = <<>> /\ ViewSelling = <<>>
    BY <1>2 DEF Shown, RestShown
<1> DEFINE f == Ledger(db)
<1>4. \A k : k \notin DOMAIN f
    BY <1>1, NoRow, LedgerRows
<1> HIDE DEF f
<1>5. OpenedIn(f) = {} /\ BalanceIn(f) = [a \in Accounts |-> 0]
      /\ PositionIn(f) = [h \in Accounts \X Symbols |-> 0]
    BY <1>4 DEF OpenedIn, BalanceIn, PositionIn, Num
<1>6. OrdersIn(f, serial) = <<>>
    <2>1. {j \in 1 .. serial : Order(j) \in DOMAIN f} = {}
        BY <1>4
    <2> QED
        BY <2>1 DEF OrdersIn
<1> QED
    BY <1>1, <1>3, <1>5, <1>6 DEF f, Shows, Serial!Init

\* The numbers Exchange is given are those it is assumed to be given.
LEMMA SerialNumbers == Limits \subseteq Nat /\ Sizes \subseteq Nat \ {0} /\ Openings \subseteq Nat /\ Given \subseteq Nat
<1>1. \A kind : \A r \in Asks(kind) :
          /\ r.kind = kind
          /\ kind \in {"account", "position"} => r.amount \in Nat
          /\ kind = "order" => r.limit \in Nat /\ r.amount \in Int \ {0}
    <2> SUFFICES ASSUME NEW kind, NEW r \in Asks(kind)
                 PROVE  /\ r.kind = kind
                        /\ kind \in {"account", "position"} => r.amount \in Nat
                        /\ kind = "order" => r.limit \in Nat /\ r.amount \in Int \ {0}
        OBVIOUS
    <2>1. PICK course \in Courses : \E c \in Clients : r \in course.requests[c] /\ r.kind = kind
        BY DEF Asks
    <2> QED
        BY <2>1, ExchangeSqlAssumption, NumbersAssumption
<1>2. \A n \in Int \ {0} : Abs(n) \in Nat \ {0}
    BY DEF Abs
<1> QED
    BY <1>1, <1>2 DEF Limits, Sizes, Openings, Given

\* The handlers of a client alone make the atomic requests and the turns of the loop of Exchange, whatever he asks
\* for: what a statement of handle_transaction_buyorder, handle_transaction_sellorder, cancel_order or matchOrders
\* has read is still true when a later one writes it back, a trader's match with himself included.
THEOREM AloneIsSerial == Lone => (Spec => ImplementsExchange)
<1> SUFFICES ASSUME Lone PROVE Spec => ImplementsExchange
    OBVIOUS
<1>1. PICK c : Clients = {c}
    BY DEF Lone
<1>2. Apart
    BY <1>1 DEF Apart
<1>3. Shown(c)
    BY <1>1, RestShows, LoopShows, TurnShows DEF Shown
<1>4. Init => LInv(c)
    BY <1>1, StartsAlone
<1>5. Inv /\ AInv /\ Tallies /\ AInv' /\ LInv(c) /\ [Next]_vars => LInv(c)'
    BY <1>1, AloneKeeps
<1>6. Init /\ Shown(c) => Serial!Init
    BY <1>1, OpensAlone DEF Lone
<1>7. Inv /\ AInv /\ Tallies /\ AInv' /\ LInv(c) /\ Shown(c) /\ Shown(c)' /\ [Next]_vars
          => [Serial!Next]_Serial!vars
    BY <1>1, StepsAlone
<1>8. Spec => [](Inv /\ AInv /\ Tallies)
    BY <1>2, TalliesInvariant, PTL
<1>9. Spec => []LInv(c)
    BY <1>4, <1>5, <1>8, PTL DEF Spec
<1>10. Init /\ Shown(c) => (OthersSilent => Serial!Init)
    BY <1>6
<1>11. [Serial!Next]_Serial!vars => [OthersSilent => Serial!Next]_Serial!vars
    OBVIOUS
<1> QED
    BY <1>3, <1>7, <1>8, <1>9, <1>10, <1>11, PTL DEF Spec, ImplementsExchange
=============================================================================
