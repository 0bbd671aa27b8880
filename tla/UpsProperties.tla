---------------------------- MODULE UpsProperties ----------------------------
(***************************************************************************)
(* What holds of the UPS server of Ups.tla, and what the code says of it.  *)
(***************************************************************************)
EXTENDS Ups

Steps == {"scan", "take", "record", "insert", "send", "readdest", "readtruck", "check", "change",
          "tell", "readwh", "list", "table", "getships", "update", "reset", "done"}

\* Types of the server's maps, tables and workers.
TypeOK ==
    /\ phase \in {"up", "closing", "ended", "crashed"}
    /\ \A n \in DOMAIN ackedA : n \in Nat /\ ackedA[n] \in BOOLEAN
    /\ \A n \in DOMAIN ackedW : n \in Nat /\ ackedW[n] \in BOOLEAN
    /\ truckList \in [Trucks -> [status : 0..3, whid : Warehouses \cup {-1}]]
    /\ TRUCK \in [Trucks -> 0..3]
    /\ DOMAIN PKG \subseteq Ships
    /\ \A s \in DOMAIN PKG : PKG[s] \in [wh : Warehouses, dest : Dests, truck : Trucks \cup {CREATED, DELIVERED}]
    /\ \A w \in DOMAIN workers : w[1] \in received /\ workers[w].pc \in Steps
-----------------------------------------------------------------------------
Worker(m) == <<m, 1>>
Started(m) == Worker(m) \in DOMAIN workers
Done(m) == Started(m) /\ workers[Worker(m)].pc = "done"

\* A message is acted on once however often it arrives.
ActedOnOnce == \A w \in DOMAIN workers : w[1].kind # "status" => w[2] = 1

\* No worker stops resending before its peer has its message: no flag is set by an
\* acknowledgement of something else, and the world has obeyed the very command,
\* not another one with the same number.
HeardBeforeDone ==
    \A m \in received : Done(m) =>
        /\ m.kind \in {"pickup", "delivery"} => Command(Worker(m)) \in accepted
        /\ m.kind \in {"change", "bind", "arrive", "delivered"} =>
              Answers(Worker(m)) # {} /\ Answers(Worker(m)) \subseteq told

\* No handler throws while Amazon asks only for what it has been told of.
StaysUp == phase # "crashed"

\* Amazon is told that a truck is at a warehouse only if it has arrived there,
\* and for packages booked with it; a package goes out with that truck.
RightTruck ==
    /\ \A m \in told : m.kind = "arrived" =>
          /\ PKG[m.ship].truck \in {m.truck, DELIVERED}
          /\ PKG[m.ship].wh = m.wh
          /\ \E c \in accepted : /\ c.kind = "pickup" /\ c.truck = m.truck /\ c.wh = m.wh
                                 /\ Report("arrive", c.truck, c.key, "") \in received
    /\ \A d \in accepted : d.kind = "deliver" =>
          /\ PKG[d.ship].truck \in {d.truck, DELIVERED}
          /\ \E m \in told : m.kind = "arrived" /\ m.ship = d.ship /\ m.truck = d.truck

\* In the end every request that was received is done with, and Amazon has heard
\* of the truck for every package that got one and of every delivery it asked
\* for, unless the server is told to disconnect.
Fetched(s) == ToldOfTruck(s) \/ (s \in DOMAIN PKG /\ PKG[s].truck = CREATED)
Delivered(s) == \E m \in told : m.kind = "delivered" /\ m.ship = s
RequestsEnd ==
    <>[](phase # "up" \/ \A r \in received \cap asks :
            /\ Done(r)
            /\ r.kind = "pickup" => Fetched(r.ship)
            /\ r.kind = "delivery" => Delivered(r.ship))
-----------------------------------------------------------------------------
(* The promise                                                              *)

Sent(s) == \E c \in accepted : c.kind = "deliver" /\ c.ship = s
Stage(s) ==
    IF Delivered(s) THEN "confirmed"
    ELSE IF s \in DOMAIN PKG /\ PKG[s].truck = DELIVERED THEN "delivered"
    ELSE IF Sent(s) THEN "out"
    ELSE IF ToldOfTruck(s) THEN "waiting"
    ELSE IF s \in DOMAIN PKG THEN "booked"
    ELSE "unknown"

\* A delivered package's row no longer names its truck, the command does.
BookedTruck(s) ==
    IF s \notin DOMAIN PKG THEN CREATED
    ELSE IF PKG[s].truck # DELIVERED THEN PKG[s].truck
    ELSE (CHOOSE c \in accepted : c.kind = "deliver" /\ c.ship = s).truck

Promise == INSTANCE Parcels WITH
    NoTruck <- CREATED,
    stage <- [s \in Ships |-> Stage(s)],
    truck <- [s \in Ships |-> BookedTruck(s)]

\* The server keeps what Parcels promises, whatever is lost or repeated.
ImplementsParcels == Promise!Spec
-----------------------------------------------------------------------------
(* What the code says of itself and does not do                             *)

\* gpb_server.cpp:200-203: a command whose number has not been seen is handled.
FirstSeenIsHandled == \A r \in asks \cap received : Started(r)
=============================================================================
