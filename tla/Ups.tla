--------------------------------- MODULE Ups ---------------------------------
(***************************************************************************)
(* The UPS server (gpb_server.cpp).  Two threads listen, to Amazon and to    *)
(* the world that moves the trucks; every message is handled by detached     *)
(* workers, which run concurrently, share truckList and the two maps of      *)
(* sequence numbers, and open a database connection each.  A worker that     *)
(* must tell a peer something sends it again and again until the number it   *)
(* carries is acknowledged.  A third thread asks the world for the status of *)
(* every busy truck.                                                         *)
(*                                                                          *)
(* Amazon and the world are external and modelled from how the code uses     *)
(* them: both send a message again until it is acknowledged, so it may       *)
(* arrive any number of times and in any order; the world may drop a command *)
(* (its "flakiness"), obeys a command once however often it receives it, and *)
(* numbers its reports.                                                      *)
(*                                                                          *)
(* A step is one statement that reads or writes a row, truckList or a map.   *)
(* The maps are used without the mutex; a lookup or an assignment is taken    *)
(* to be atomic.  Failing sockets and connections are left out.              *)
(***************************************************************************)
EXTENDS Integers, FiniteSets

CONSTANTS
    Scenarios,    \* sets of requests, one of which Amazon makes
    Trucks,       \* truck numbers, 0 to 64 in the code
    Stride,       \* trucks per warehouse in assign_truck, 5 in the code
    Users,        \* users known to USERR or auth_user
    WorldSeq(_),  \* the sequence number of a report of the world
    FirstQuery,   \* local_seqNum, 10000 in the code
    MaxQueries(_),  \* bound on the queries sent, by scenario
    MaxCopies     \* bound on the workers for one status report

\* What Amazon may ask for, with its own sequence number seq.
\*   [kind |-> "pickup", seq, ship, wh, dest]   AUreqPickup
\*   [kind |-> "delivery", seq, ship]           AUreqDelivery
\*   [kind |-> "change", seq, ship, dest]       AUchangeDestn
\*   [kind |-> "bind", seq, user]               AUbindUPS
\*   [kind |-> "disconnect"]                    AUcommands with disconnect set
Requests == UNION Scenarios
Ships == {r.ship : r \in {q \in Requests : q.kind = "pickup"}}
Dests == {r.dest : r \in {q \in Requests : q.kind \in {"pickup", "change"}}}
Warehouses == {r.wh : r \in {q \in Requests : q.kind = "pickup"}}

ASSUME UpsAssumption ==
    /\ Trucks \subseteq Nat /\ \A t \in Trucks : 0..t \subseteq Trucks
    /\ Stride \in Nat \ {0}
    /\ Warehouses \subseteq Nat
    /\ FirstQuery \in Nat
    /\ \A r \in Requests :
          /\ r.kind \in {"pickup", "delivery", "change", "bind", "disconnect"}
          /\ r.kind # "disconnect" => r.seq \in Nat

CREATED == -1     \* PKG.truckID while no truck is assigned
DELIVERED == -2   \* PKG.truckID of a delivered package
NoDest == "none"

Report(kind, truck, cmd, extra) == [kind |-> kind, truck |-> truck, cmd |-> cmd, extra |-> extra]
\* What the world reports; cmd is the number of the command it answers.
\*   "arrive"     UFinished with status ARRIVE WAREHOUSE
\*   "idle"       UFinished with any other status
\*   "delivered"  UDeliveryMade, extra the package
\*   "status"     UTruck, extra the status
\*   "error"      UErr

\* Scenarios are fixed when the program starts; the rest is state.
VARIABLES
    asks,        \* the requests Amazon makes in this run
    phase,       \* "up", "closing" (disconnect sent to the world), "ended", "crashed"
    ackedA,      \* seqNumAcked_amazon, a map of numbers to BOOLEAN
    ackedW,      \* seqNumAcked_world
    truckList,   \* the vector of trucks: status and whid
    TRUCK,       \* the table TRUCK: status
    PKG,         \* the table PKG, by pkgID
    workers,     \* local state of the workers, by message and copy
    nextQuery,   \* local_seqNum
    accepted,    \* commands the world has received
    told,        \* what Amazon has been told
    received     \* the messages that have reached the server at least once

server == <<phase, ackedA, ackedW, truckList, TRUCK, PKG, workers, nextQuery>>
peers == <<asks, accepted, told>>
vars == <<server, peers, received>>

EmptyMap == [n \in {} |-> FALSE]
\* The map f after f[k] = v.
Put(f, k, v) == [n \in DOMAIN f \cup {k} |-> IF n = k THEN v ELSE f[n]]
Acked(f, k) == k \in DOMAIN f /\ f[k]

Init ==
    /\ asks \in Scenarios
    /\ phase = "up"
    /\ ackedA = EmptyMap /\ ackedW = EmptyMap
    /\ truckList = [t \in Trucks |-> [status |-> 0, whid |-> -1]]
    /\ TRUCK = [t \in Trucks |-> 0]
    /\ PKG = [s \in {} |-> 0]
    /\ workers = [w \in {} |-> 0]
    /\ nextQuery = FirstQuery
    /\ accepted = {} /\ told = {}
    /\ received = {}

Running == phase \in {"up", "closing"}
-----------------------------------------------------------------------------
(* Workers                                                                  *)

\* The number a worker's own message carries, and its peer acknowledges.
Key(m) == IF m \in Requests THEN m.seq + 1 ELSE WorldSeq(m) + 1

\* Mutant of FirstStep: Amazon is told of a delivery that is not recorded.
FirstStepUnrecorded(m) ==
    CASE m.kind = "pickup" -> "scan"
      [] m.kind = "delivery" -> "readdest"
      [] m.kind = "change" -> "check"
      [] m.kind \in {"bind", "delivered"} -> "tell"
      [] m.kind = "arrive" -> "readwh"
      [] m.kind = "idle" -> "list"
      [] m.kind = "status" -> "table"
      [] m.kind = "error" -> "reset"

FirstStep(m) ==
    CASE m.kind = "pickup" -> "scan"
      [] m.kind = "delivery" -> "readdest"
      [] m.kind = "change" -> "check"
      [] m.kind = "bind" -> "tell"
      [] m.kind = "arrive" -> "readwh"
      [] m.kind = "idle" -> "list"
      [] m.kind = "delivered" -> "update"
      [] m.kind = "status" -> "table"
      [] m.kind = "error" -> "reset"

\* A handler's variables: truckID, whID, the destination, shipIDs, success.
Fresh(m) ==
    [pc |-> FirstStep(m),
     truck |-> IF m.kind = "pickup" THEN m.wh * Stride ELSE CREATED,
     wh |-> -1, dest |-> NoDest, ships |-> {},
     success |-> m.kind = "bind" /\ m.user \in Users]

\* thread t(...); t.detach()
Copies(m) == {w \in DOMAIN workers : w[1] = m}
Spawn(m) ==
    LET w == <<m, Cardinality(Copies(m)) + 1>>
    IN  workers' = [v \in DOMAIN workers \cup {w} |-> IF v = w THEN Fresh(m) ELSE workers[v]]

At(w, step) == Running /\ w \in DOMAIN workers /\ workers[w].pc = step
Goto(w, step) == workers' = [workers EXCEPT ![w].pc = step]
Assign(w, l) == workers' = [workers EXCEPT ![w] = l]
Keep(step, w) == [workers[w] EXCEPT !.pc = step]

\* An exception leaves a detached thread: std::terminate.
Terminate ==
    /\ phase' = "crashed"
    /\ UNCHANGED <<peers, ackedA, ackedW, truckList, TRUCK, PKG, workers, nextQuery, received>>
-----------------------------------------------------------------------------
(* Messages of Amazon                                                       *)

\* Amazon asks for the delivery, or another destination, of a package after it
\* has been told that the truck is there.
ToldOfTruck(s) == \E m \in told : m.kind = "arrived" /\ m.ship = s
MayAsk(r) == r.kind \in {"delivery", "change"} => ToldOfTruck(r.ship)

\* Mutant of AcceptForWorld: looks at the flag instead of looking for the number.
AcceptUntilAcked(r) ==
    /\ IF Acked(ackedW, Key(r))
       THEN UNCHANGED <<ackedW, workers>>
       ELSE ackedW' = Put(ackedW, Key(r), FALSE) /\ Spawn(r)
    /\ UNCHANGED ackedA

\* handle_AUrequests.  Its acknowledgement is not modelled: Amazon may send
\* any message again.
AcceptForWorld(r) ==
    /\ IF Key(r) \in DOMAIN ackedW
       THEN UNCHANGED <<ackedW, workers>>
       ELSE ackedW' = Put(ackedW, Key(r), FALSE) /\ Spawn(r)
    /\ UNCHANGED ackedA

AcceptForAmazon(m) ==
    /\ IF Key(m) \in DOMAIN ackedA
       THEN UNCHANGED <<ackedA, workers>>
       ELSE ackedA' = Put(ackedA, Key(m), FALSE) /\ Spawn(m)
    /\ UNCHANGED ackedW

handle_AUrequests(r) ==
    /\ Running
    /\ r \in asks /\ r.kind # "disconnect"
    /\ MayAsk(r)
    /\ received' = received \cup {r}
    /\ IF r.kind \in {"pickup", "delivery"} THEN AcceptForWorld(r) ELSE AcceptForAmazon(r)
    /\ UNCHANGED <<peers, phase, truckList, TRUCK, PKG, nextQuery>>

\* Amazon acknowledges something it was told (constructor of myAUcommands).  To
\* acknowledge it again changes nothing.
AmazonAcks(m) ==
    /\ Running
    /\ m \in told /\ ~Acked(ackedA, m.key)
    /\ ackedA' = Put(ackedA, m.key, TRUE)
    /\ UNCHANGED <<peers, phase, ackedW, truckList, TRUCK, PKG, workers, nextQuery, received>>

\* A disconnect is passed on to the world.
handle_disconnect_world ==
    /\ phase = "up"
    /\ \E r \in asks : r.kind = "disconnect"
    /\ phase' = "closing"
    /\ UNCHANGED <<peers, ackedA, ackedW, truckList, TRUCK, PKG, workers, nextQuery, received>>

\* UResponses with finished set: the listeners stop, gpb_server returns, and
\* the process ends with the workers it still has.
handle_disconnect_amazon ==
    /\ phase = "closing"
    /\ phase' = "ended"
    /\ UNCHANGED <<peers, ackedA, ackedW, truckList, TRUCK, PKG, workers, nextQuery, received>>
-----------------------------------------------------------------------------
(* Messages of the world                                                    *)

\* What a truck may be doing.
Doing(t) ==
    LET sent(kind) == \E c \in accepted : c.kind = kind /\ c.truck = t
    IN  {"IDLE"} \cup (IF sent("deliver") THEN {"DELIVERING"} ELSE {})
        \cup (IF sent("pickup") THEN {"TRAVELING", "ARRIVE WAREHOUSE", "LOADING"} ELSE {})

\* What the world may report, at any time after it received the command c: it
\* obeys, reports, and the report travels, as long as they take.  A truck that does
\* not exist is an error; a truck may still be idle, or idle again, when it is asked.
ReportsOn(c) ==
    IF c.truck \notin Trucks THEN {Report("error", c.truck, c.key, "")}
    ELSE CASE c.kind = "pickup" -> {Report("arrive", c.truck, c.key, "")}
           [] c.kind = "deliver" -> {Report("delivered", c.truck, c.key, c.ship), Report("idle", c.truck, c.key, "")}
           [] c.kind = "query" -> {Report("status", c.truck, c.key, s) : s \in Doing(c.truck)}

\* The answer to a query stays what it is.
MayReport(m) ==
    /\ \E c \in accepted : m \in ReportsOn(c)
    /\ \A n \in received : n.kind = "status" /\ m.kind = "status" /\ n.cmd = m.cmd => n = m

\* UFinished, UDeliveryMade and UErr are handled once, UTruck every time.
\* An error is remembered under its own number.
AcceptError(m) ==
    /\ IF WorldSeq(m) \in DOMAIN ackedA
       THEN UNCHANGED <<ackedA, workers>>
       ELSE ackedA' = Put(ackedA, WorldSeq(m), FALSE) /\ Spawn(m)
    /\ UNCHANGED ackedW

AcceptStatus(m) ==
    /\ Cardinality(Copies(m)) < MaxCopies
    /\ Spawn(m)
    /\ UNCHANGED <<ackedA, ackedW>>

handle_WUrequests(m) ==
    /\ Running
    /\ MayReport(m)
    /\ received' = received \cup {m}
    /\ \/ m.kind \in {"arrive", "idle", "delivered"} /\ AcceptForAmazon(m)
       \/ m.kind = "status" /\ AcceptStatus(m)
       \/ m.kind = "error" /\ AcceptError(m)
    /\ UNCHANGED <<peers, phase, truckList, TRUCK, PKG, nextQuery>>

\* Mutant of WorldAcks: the other map.
WorldAcksAmazon(c) ==
    /\ Running
    /\ c \in accepted /\ ~Acked(ackedA, c.key)
    /\ ackedA' = Put(ackedA, c.key, TRUE)
    /\ UNCHANGED <<peers, phase, ackedW, truckList, TRUCK, PKG, workers, nextQuery, received>>

\* The world acknowledges a command (constructor of myUResponses).
WorldAcks(c) ==
    /\ Running
    /\ c \in accepted /\ ~Acked(ackedW, c.key)
    /\ ackedW' = Put(ackedW, c.key, TRUE)
    /\ UNCHANGED <<peers, phase, ackedA, truckList, TRUCK, PKG, workers, nextQuery, received>>
-----------------------------------------------------------------------------
(* handle_AUreqPickup                                                       *)

\* assign_truck looks at one truck after another, from the warehouse's first.
ScanTrucks(w) ==
    /\ At(w, "scan")
    /\ LET t == workers[w].truck
       IN  \/ /\ t \notin Trucks
              /\ Assign(w, [Keep("insert", w) EXCEPT !.truck = CREATED])
           \/ /\ t \in Trucks /\ truckList[t].status # 1
              /\ Goto(w, "take")
           \/ /\ t \in Trucks /\ truckList[t].status = 1
              /\ Assign(w, [Keep("scan", w) EXCEPT !.truck = t + 1])
    /\ UNCHANGED <<peers, phase, ackedA, ackedW, truckList, TRUCK, PKG, nextQuery, received>>

\* Mutant of TakeTruck: the warehouse is not noted.
TakeTruckForNobody(w) ==
    /\ At(w, "take")
    /\ truckList' = [truckList EXCEPT ![workers[w].truck].status = 1]
    /\ Goto(w, "record")
    /\ UNCHANGED <<peers, phase, ackedA, ackedW, TRUCK, PKG, nextQuery, received>>

\* The truck is marked without a look at what became of it since.
TakeTruck(w) ==
    /\ At(w, "take")
    /\ truckList' = [truckList EXCEPT ![workers[w].truck] = [status |-> 1, whid |-> w[1].wh]]
    /\ Goto(w, "record")
    /\ UNCHANGED <<peers, phase, ackedA, ackedW, TRUCK, PKG, nextQuery, received>>

RecordTruck(w) ==
    /\ At(w, "record")
    /\ TRUCK' = [TRUCK EXCEPT ![workers[w].truck] = 1]
    /\ Goto(w, "insert")
    /\ UNCHANGED <<peers, phase, ackedA, ackedW, truckList, PKG, nextQuery, received>>

\* Mutant of Row: warehouse and truck change places in the INSERT.
RowSwapped(m, t) == [wh |-> t, dest |-> m.dest, truck |-> m.wh]

Row(m, t) == [wh |-> m.wh, dest |-> m.dest, truck |-> t]

\* insert_PKG leaves an existing row alone, and the handler goes on.
insert_PKG(m, t) ==
    PKG' = IF m.ship \in DOMAIN PKG THEN PKG ELSE Put(PKG, m.ship, Row(m, t))

InsertPackage(w) ==
    /\ At(w, "insert")
    /\ insert_PKG(w[1], workers[w].truck)
    /\ Goto(w, "send")
    /\ UNCHANGED <<peers, phase, ackedA, ackedW, truckList, TRUCK, nextQuery, received>>
-----------------------------------------------------------------------------
(* handle_AUreqDelivery                                                     *)

ReadDestination(w) ==
    /\ At(w, "readdest")
    /\ LET s == w[1].ship
       IN  \/ s \notin DOMAIN PKG /\ Terminate
           \/ /\ s \in DOMAIN PKG
              /\ Assign(w, [Keep("readtruck", w) EXCEPT !.dest = PKG[s].dest])
              /\ UNCHANGED <<peers, phase, ackedA, ackedW, truckList, TRUCK, PKG, nextQuery, received>>

\* get_PKG_truckID, then get_TRUCK_status, whose answer is only printed.
ReadTruck(w) ==
    /\ At(w, "readtruck")
    /\ LET t == PKG[w[1].ship].truck
       IN  \/ t \notin Trucks /\ Terminate
           \/ /\ t \in Trucks
              /\ Assign(w, [Keep("send", w) EXCEPT !.truck = t])
              /\ UNCHANGED <<peers, phase, ackedA, ackedW, truckList, TRUCK, PKG, nextQuery, received>>

Obeyed(k) == \E c \in accepted : c.key = k

\* UGoPickup or UGoDeliver.
Command(w) ==
    LET m == w[1]
        l == workers[w]
    IN  IF m.kind = "pickup"
        THEN [kind |-> "pickup", key |-> Key(m), truck |-> l.truck, wh |-> m.wh]
        ELSE [kind |-> "deliver", key |-> Key(m), truck |-> l.truck, ship |-> m.ship, dest |-> l.dest]

\* Mutant of SendCommand: the command is sent once.
SendCommandOnce(w) ==
    /\ At(w, "send")
    /\ \/ accepted' = IF Obeyed(Key(w[1])) THEN accepted ELSE accepted \cup {Command(w)}
       \/ UNCHANGED accepted
    /\ Goto(w, "done")
    /\ UNCHANGED <<asks, told, phase, ackedA, ackedW, truckList, TRUCK, PKG, nextQuery, received>>

\* The loop both handlers end in.  The world has the command at once or drops it,
\* and then nothing has changed: a copy that came later would find the worker
\* still in its loop, or the command obeyed.  A second command under a number that
\* the world has seen is not obeyed.
SendCommand(w) ==
    /\ At(w, "send")
    /\ \/ /\ ~Acked(ackedW, Key(w[1])) /\ ~Obeyed(Key(w[1]))
          /\ accepted' = accepted \cup {Command(w)}
          /\ UNCHANGED workers
       \/ /\ Acked(ackedW, Key(w[1]))
          /\ Goto(w, "done")
          /\ UNCHANGED accepted
    /\ UNCHANGED <<asks, told, phase, ackedA, ackedW, truckList, TRUCK, PKG, nextQuery, received>>
-----------------------------------------------------------------------------
(* handle_AUchangeDestn                                                     *)

CheckChange(w) ==
    /\ At(w, "check")
    /\ LET s == w[1].ship
       IN  \/ s \notin DOMAIN PKG /\ Terminate
           \/ /\ s \in DOMAIN PKG
              /\ Goto(w, IF PKG[s].truck < 0 THEN "tell" ELSE "change")
              /\ UNCHANGED <<peers, phase, ackedA, ackedW, truckList, TRUCK, PKG, nextQuery, received>>

\* update_PKG_dest, in a transaction of its own.
ChangeDestination(w) ==
    /\ At(w, "change")
    /\ PKG' = [PKG EXCEPT ![w[1].ship].dest = w[1].dest]
    /\ Assign(w, [Keep("tell", w) EXCEPT !.success = TRUE])
    /\ UNCHANGED <<peers, phase, ackedA, ackedW, truckList, TRUCK, nextQuery, received>>
-----------------------------------------------------------------------------
(* handle_UFinished                                                         *)

\* assign_wh: whid, then the table, then the list.
ReadWarehouse(w) ==
    /\ At(w, "readwh")
    /\ Assign(w, [Keep("table", w) EXCEPT !.wh = truckList[w[1].truck].whid])
    /\ UNCHANGED <<peers, phase, ackedA, ackedW, truckList, TRUCK, PKG, nextQuery, received>>

assign_status(status) ==
    CASE status = "IDLE" -> 0
      [] status = "TRAVELING" -> 1
      [] status \in {"ARRIVE WAREHOUSE", "LOADING"} -> 2
      [] status = "DELIVERING" -> 3

\* The status a report puts into list and table.
NewStatus(m) ==
    CASE m.kind = "arrive" -> 2
      [] m.kind = "idle" -> 0
      [] m.kind = "status" -> assign_status(m.extra)

\* update_TRUCK_status.  After it: an arrival and a status report go on to the
\* list, an idle truck's handler has been there.
WriteTable(w) ==
    /\ At(w, "table")
    /\ TRUCK' = [TRUCK EXCEPT ![w[1].truck] = NewStatus(w[1])]
    /\ Goto(w, IF w[1].kind = "idle" THEN "done" ELSE "list")
    /\ UNCHANGED <<peers, phase, ackedA, ackedW, truckList, PKG, nextQuery, received>>

AfterList(m) == CASE m.kind = "arrive" -> "getships" [] m.kind = "idle" -> "table" [] m.kind = "status" -> "done"

WriteList(w) ==
    /\ At(w, "list")
    /\ truckList' = [truckList EXCEPT ![w[1].truck].status = NewStatus(w[1])]
    /\ Goto(w, AfterList(w[1]))
    /\ UNCHANGED <<peers, phase, ackedA, ackedW, TRUCK, PKG, nextQuery, received>>

\* Mutant of ShipIDs: the packages of any truck.
ShipIDsOfAnyTruck(wh, t) == {s \in DOMAIN PKG : PKG[s].wh = wh /\ PKG[s].truck # DELIVERED}

\* get_shipIDs
ShipIDs(wh, t) == {s \in DOMAIN PKG : PKG[s].wh = wh /\ PKG[s].truck = t}

GetShips(w) ==
    /\ At(w, "getships")
    /\ LET wh == workers[w].wh
       IN  \/ wh < 0 /\ Terminate
           \/ /\ wh >= 0
              /\ Assign(w, [Keep("tell", w) EXCEPT !.ships = ShipIDs(wh, w[1].truck)])
              /\ UNCHANGED <<peers, phase, ackedA, ackedW, truckList, TRUCK, PKG, nextQuery, received>>
-----------------------------------------------------------------------------
(* handle_UDeliveryMade and handle_UErr                                     *)

MarkDelivered(w) ==
    /\ At(w, "update")
    /\ LET s == w[1].extra
       IN  \/ s \notin DOMAIN PKG /\ Terminate
           \/ /\ s \in DOMAIN PKG
              /\ PKG' = [PKG EXCEPT ![s].truck = DELIVERED]
              /\ Goto(w, "tell")
              /\ UNCHANGED <<peers, phase, ackedA, ackedW, truckList, TRUCK, nextQuery, received>>

\* The number reset is that of the report, not of the command it is about.
handle_UErr(w) ==
    /\ At(w, "reset")
    /\ ackedW' = Put(ackedW, WorldSeq(w[1]), FALSE)
    /\ Goto(w, "done")
    /\ UNCHANGED <<peers, phase, ackedA, truckList, TRUCK, PKG, nextQuery, received>>

\* UAtruckArrived, UAdelivered, UAchangeResp, UAbindUPSResponse.
Answers(w) ==
    LET m == w[1]
        l == workers[w]
    IN  CASE m.kind = "arrive" -> {[kind |-> "arrived", key |-> Key(m), wh |-> l.wh, ship |-> s, truck |-> m.truck] : s \in l.ships}
          [] m.kind = "delivered" -> {[kind |-> "delivered", key |-> Key(m), ship |-> m.extra]}
          [] m.kind = "change" -> {[kind |-> "changed", key |-> Key(m), success |-> l.success]}
          [] m.kind = "bind" -> {[kind |-> "bound", key |-> Key(m), success |-> l.success]}

\* The loop the handlers end in that tell Amazon something.  An arrival with no
\* packages sends an empty message, which nobody can acknowledge.  To tell Amazon
\* again changes nothing.
TellAmazon(w) ==
    /\ At(w, "tell")
    /\ \/ /\ ~Acked(ackedA, Key(w[1]))
          /\ ~(Answers(w) \subseteq told)
          /\ told' = told \cup Answers(w)
          /\ UNCHANGED workers
       \/ /\ Acked(ackedA, Key(w[1]))
          /\ Goto(w, "done")
          /\ UNCHANGED told
    /\ UNCHANGED <<asks, accepted, phase, ackedA, ackedW, truckList, TRUCK, PKG, nextQuery, received>>
-----------------------------------------------------------------------------
(* keep_querying                                                            *)

\* One turn of keep_querying asks for a truck that the list has as busy.
keep_querying(t) ==
    /\ Running
    /\ nextQuery < FirstQuery + MaxQueries(asks)
    /\ truckList[t].status # 0
    /\ ackedW' = Put(ackedW, nextQuery, FALSE)
    /\ nextQuery' = nextQuery + 1
    /\ accepted' = accepted \cup {[kind |-> "query", key |-> nextQuery, truck |-> t]}
    /\ UNCHANGED <<asks, told, phase, ackedA, truckList, TRUCK, PKG, workers, received>>
-----------------------------------------------------------------------------
\* The steps of one worker.
Step(w) ==
    \/ ScanTrucks(w) \/ TakeTruck(w) \/ RecordTruck(w) \/ InsertPackage(w)
    \/ ReadDestination(w) \/ ReadTruck(w) \/ SendCommand(w)
    \/ CheckChange(w) \/ ChangeDestination(w)
    \/ ReadWarehouse(w) \/ WriteTable(w) \/ WriteList(w) \/ GetShips(w)
    \/ MarkDelivered(w) \/ handle_UErr(w) \/ TellAmazon(w)

Next ==
    \/ \E r \in asks : handle_AUrequests(r)
    \/ \E m \in told : AmazonAcks(m)
    \/ handle_disconnect_world
    \/ handle_disconnect_amazon
    \/ \E c \in accepted : \E m \in ReportsOn(c) : handle_WUrequests(m)
    \/ \E c \in accepted : WorldAcks(c)
    \/ \E w \in DOMAIN workers : Step(w)
    \/ \E t \in Trucks : keep_querying(t)

Spec == Init /\ [][Next]_vars

\* Threads run on, and the peers answer, acknowledge and repeat what is not
\* acknowledged; of the copies of a command not all are dropped.  Each of these
\* takes few steps that change anything, so that fairness of them all together
\* lets none wait for ever.
Progress ==
    \/ \E w \in DOMAIN workers : Step(w)
    \/ \E m \in told : AmazonAcks(m)
    \/ \E c \in accepted : WorldAcks(c) \/ \E m \in ReportsOn(c) : handle_WUrequests(m)

FairSpec == Spec /\ WF_vars(Progress)
=============================================================================
