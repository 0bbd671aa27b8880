------------------------------ MODULE UpsProofs ------------------------------
(***************************************************************************)
(* Proofs about the UPS server, for any requests, trucks and numbers: it     *)
(* acts on a message once however often it arrives; no worker stops before   *)
(* its peer has heard from it, if different messages have different numbers; *)
(* tables and maps keep their types; no handler throws, if a delivery is     *)
(* asked for once; packages go with the truck that came for them, if no      *)
(* truck serves two warehouses; and Parcels is kept whatever is lost.        *)
(***************************************************************************)
EXTENDS UpsProperties, TLAPS, FiniteSetTheorems

\* The number a message is remembered by, in the map that its listener looks at.
Remembered(m) ==
    IF m.kind \in {"pickup", "delivery"} THEN Key(m) \in DOMAIN ackedW
    ELSE IF m.kind = "error" THEN WorldSeq(m) \in DOMAIN ackedA
    ELSE Key(m) \in DOMAIN ackedA

\* Every worker is the first for a message that is remembered, but those for a status.
OnceInv ==
    /\ asks \subseteq Requests
    /\ \A w \in DOMAIN workers : w[1].kind # "status" => w[2] = 1 /\ Remembered(w[1])

\* The kinds of messages whose workers send a command, and those that tell Amazon.
Senders == {"pickup", "delivery"}
Tellers == {"change", "bind", "arrive", "delivered"}

StepsOf(kind) ==
    CASE kind = "pickup" -> {"scan", "take", "record", "insert", "send", "done"}
      [] kind = "delivery" -> {"readdest", "readtruck", "send", "done"}
      [] kind = "change" -> {"check", "change", "tell", "done"}
      [] kind = "bind" -> {"tell", "done"}
      [] kind = "arrive" -> {"readwh", "table", "list", "getships", "tell", "done"}
      [] kind = "idle" -> {"list", "table", "done"}
      [] kind = "delivered" -> {"update", "tell", "done"}
      [] kind = "status" -> {"table", "list", "done"}
      [] kind = "error" -> {"reset", "done"}

Kinds == {"pickup", "delivery", "change", "bind", "arrive", "idle", "delivered", "status", "error"}

Variables == {"pc", "truck", "wh", "dest", "ships", "success"}

\* The workers have come from messages and are where their handler leads them.
WorkersInv ==
    \A w \in DOMAIN workers :
        /\ DOMAIN workers[w] = Variables
        /\ w = <<w[1], w[2]>> /\ w[1] \in received
        /\ w[1].kind \in Kinds
        /\ workers[w].pc \in StepsOf(w[1].kind)

\* Where a command and an answer come from.
SentBy(c, w) == w[1].kind \in Senders /\ workers[w].pc \in {"send", "done"} /\ c = Command(w)
ToldBy(m, w) ==
    /\ w[1].kind \in Tellers /\ workers[w].pc \in {"tell", "done"}
    /\ m \in Answers(w) /\ Answers(w) \subseteq told

\* What is acknowledged has been heard.
HeardInv ==
    /\ nextQuery \in Nat /\ nextQuery >= FirstQuery
    /\ \A c \in accepted :
          \/ c.key \in FirstQuery .. nextQuery - 1
          \/ \E w \in DOMAIN workers : SentBy(c, w)
    /\ \A k \in DOMAIN ackedW : ackedW[k] => Obeyed(k)
    /\ \A m \in told : \E w \in DOMAIN workers : ToldBy(m, w)
    /\ \A k \in DOMAIN ackedA : ackedA[k] => \E m \in told : m.key = k
    /\ \A w \in DOMAIN workers : workers[w].pc = "done" =>
          /\ w[1].kind \in Senders => Command(w) \in accepted
          /\ w[1].kind \in Tellers => Answers(w) # {} /\ Answers(w) \subseteq told

\* Numbers that are not used for two things: commands and queries to the world,
\* answers to Amazon.
NumbersApart ==
    /\ \A m, n \in received : m.kind \in Senders /\ n.kind \in Senders /\ Key(m) = Key(n) => m = n
    /\ \A m \in received : m.kind \in Senders => Key(m) < FirstQuery
    /\ \A m, n \in received : m.kind \in Tellers /\ n.kind \in Tellers /\ Key(m) = Key(n) => m = n
-----------------------------------------------------------------------------
(* Once                                                                     *)

\* The maps and the requests only grow.
Grows == DOMAIN ackedA \subseteq DOMAIN ackedA' /\ DOMAIN ackedW \subseteq DOMAIN ackedW' /\ asks' = asks

\* What is remembered stays so.
LEMMA RememberedStays ==
    ASSUME Grows, NEW m, Remembered(m)
    PROVE  Remembered(m)'
    BY DEF Grows, Remembered

\* A worker takes a step: the workers are the same, the maps no smaller.
LEMMA StepGrows ==
    ASSUME NEW w \in DOMAIN workers, Step(w)
    PROVE  Grows /\ DOMAIN workers' = DOMAIN workers /\ received' = received
<1> USE DEF Grows, peers, Goto, Assign, Terminate
<1>1. CASE ScanTrucks(w) \/ TakeTruck(w) \/ RecordTruck(w) \/ InsertPackage(w)
    BY <1>1 DEF ScanTrucks, TakeTruck, RecordTruck, InsertPackage
<1>2. CASE ReadDestination(w) \/ ReadTruck(w) \/ SendCommand(w)
    BY <1>2 DEF ReadDestination, ReadTruck, SendCommand
<1>3. CASE CheckChange(w) \/ ChangeDestination(w)
    BY <1>3 DEF CheckChange, ChangeDestination
<1>4. CASE ReadWarehouse(w) \/ WriteTable(w) \/ WriteList(w) \/ GetShips(w)
    BY <1>4 DEF ReadWarehouse, WriteTable, WriteList, GetShips
<1>5. CASE MarkDelivered(w) \/ handle_UErr(w) \/ TellAmazon(w)
    BY <1>5 DEF MarkDelivered, handle_UErr, TellAmazon, Put
<1> QED
    BY <1>1, <1>2, <1>3, <1>4, <1>5 DEF Step

\* Every step but a listener's leaves the workers' names alone.
LEMMA OthersGrow ==
    ASSUME [Next]_vars,
           ~(\E r \in asks : handle_AUrequests(r)),
           ~(\E c \in accepted : \E m \in ReportsOn(c) : handle_WUrequests(m))
    PROVE  Grows /\ DOMAIN workers' = DOMAIN workers /\ received' = received
<1> USE DEF Grows, peers
<1>1. CASE UNCHANGED vars
    BY <1>1 DEF vars, server
<1>2. ASSUME NEW m \in told, AmazonAcks(m) PROVE Grows /\ DOMAIN workers' = DOMAIN workers /\ received' = received
    BY <1>2 DEF AmazonAcks, Put
<1>3. CASE handle_disconnect_world \/ handle_disconnect_amazon
    BY <1>3 DEF handle_disconnect_world, handle_disconnect_amazon
<1>4. ASSUME NEW c \in accepted, WorldAcks(c) PROVE Grows /\ DOMAIN workers' = DOMAIN workers /\ received' = received
    BY <1>4 DEF WorldAcks, Put
<1>5. ASSUME NEW t \in Trucks, keep_querying(t) PROVE Grows /\ DOMAIN workers' = DOMAIN workers /\ received' = received
    BY <1>5 DEF keep_querying, Put
<1>6. ASSUME NEW w \in DOMAIN workers, Step(w) PROVE Grows /\ DOMAIN workers' = DOMAIN workers /\ received' = received
    BY <1>6, StepGrows
<1> QED
    BY <1>1, <1>2, <1>3, <1>4, <1>5, <1>6 DEF Next

\* A listener either starts no worker, or one for a status, or the first one for a
\* message that it remembers from now on.
Starts(m) ==
    /\ Grows
    /\ received' = received \cup {m}
    /\ \/ UNCHANGED workers
       \/ Spawn(m) /\ (m.kind = "status" \/ (~Remembered(m) /\ Remembered(m)'))

LEMMA AmazonStarts ==
    ASSUME OnceInv, NEW r \in asks, handle_AUrequests(r)
    PROVE  Starts(r) /\ r.kind \in {"pickup", "delivery", "change", "bind"}
<1>1. r \in Requests /\ r.kind \in {"pickup", "delivery", "change", "bind"}
    BY UpsAssumption DEF OnceInv, handle_AUrequests
<1>2. CASE r.kind \in {"pickup", "delivery"}
    BY <1>1, <1>2 DEF handle_AUrequests, AcceptForWorld, Starts, Grows, Remembered, Put, peers
<1>3. CASE r.kind \in {"change", "bind"}
    BY <1>1, <1>3 DEF handle_AUrequests, AcceptForAmazon, Starts, Grows, Remembered, Put, peers
<1> QED
    BY <1>1, <1>2, <1>3

LEMMA WorldStarts ==
    ASSUME NEW m, handle_WUrequests(m)
    PROVE  Starts(m) /\ m.kind \in {"arrive", "idle", "delivered", "status", "error"}
<1>1. CASE m.kind \in {"arrive", "idle", "delivered"} /\ AcceptForAmazon(m)
    BY <1>1 DEF handle_WUrequests, AcceptForAmazon, Starts, Grows, Remembered, Put, peers
<1>2. CASE m.kind = "status" /\ AcceptStatus(m)
    BY <1>2 DEF handle_WUrequests, AcceptStatus, Starts, Grows, peers
<1>3. CASE m.kind = "error" /\ AcceptError(m)
    BY <1>3 DEF handle_WUrequests, AcceptError, Starts, Grows, Remembered, Put, peers
<1> QED
    BY <1>1, <1>2, <1>3 DEF handle_WUrequests

\* A worker that is started for a message remembered from now on is its first.
LEMMA FirstWorker ==
    ASSUME OnceInv, NEW m, Starts(m)
    PROVE  OnceInv'
<1>1. asks' \subseteq Requests
    BY DEF OnceInv, Starts, Grows
<1>2. \A w \in DOMAIN workers : w[1].kind # "status" => w[2] = 1 /\ Remembered(w[1])'
    BY RememberedStays DEF OnceInv, Starts
<1>3. CASE UNCHANGED workers
    BY <1>1, <1>2, <1>3 DEF OnceInv
<1>4. CASE Spawn(m) /\ (m.kind = "status" \/ (~Remembered(m) /\ Remembered(m)'))
    <2> DEFINE new == <<m, Cardinality(Copies(m)) + 1>>
    <2>1. DOMAIN workers' = DOMAIN workers \cup {new} /\ new[1] = m /\ new[2] = Cardinality(Copies(m)) + 1
        BY <1>4 DEF Spawn
    <2>2. m.kind # "status" => Copies(m) = {}
        BY <1>4 DEF OnceInv, Copies
    <2>3. m.kind # "status" => new[2] = 1 /\ Remembered(m)'
        BY <1>4, <2>1, <2>2, FS_EmptySet
    <2> HIDE DEF new
    <2>4. ASSUME NEW w \in DOMAIN workers', w[1].kind # "status" PROVE w[2] = 1 /\ Remembered(w[1])'
        <3>1. CASE w \in DOMAIN workers
            BY <1>2, <2>4, <3>1
        <3>2. CASE w = new
            <4>1. w[1] = m
                BY <2>1, <3>2
            <4> QED
                BY <2>1, <2>3, <2>4, <3>2, <4>1
        <3> QED
            BY <2>1, <3>1, <3>2
    <2> QED
        BY <1>1, <2>4 DEF OnceInv
<1> QED
    BY <1>3, <1>4 DEF Starts

LEMMA OnceStep == OnceInv /\ [Next]_vars => OnceInv'
<1> SUFFICES ASSUME OnceInv, [Next]_vars PROVE OnceInv'
    OBVIOUS
<1>1. ASSUME NEW r \in asks, handle_AUrequests(r) PROVE OnceInv'
    BY <1>1, AmazonStarts, FirstWorker
<1>2. ASSUME NEW c \in accepted, NEW m \in ReportsOn(c), handle_WUrequests(m) PROVE OnceInv'
    BY <1>2, WorldStarts, FirstWorker
<1>3. ASSUME Grows, DOMAIN workers' = DOMAIN workers PROVE OnceInv'
    <2>1. \A w \in DOMAIN workers : Remembered(w[1]) => Remembered(w[1])'
        BY <1>3, RememberedStays
    <2> QED
        BY <1>3, <2>1 DEF OnceInv, Grows
<1> QED
    BY <1>1, <1>2, <1>3, OthersGrow

LEMMA Once == Spec => []OnceInv
<1>1. Init => OnceInv
    BY DEF Init, OnceInv, Requests
<1> QED
    BY <1>1, OnceStep, PTL DEF Spec

\* A message is acted on once however often it arrives, for any requests, any
\* number of trucks and any numbers the peers choose, even the same ones.
THEOREM ActsOnce == Spec => []ActedOnOnce
<1>1. OnceInv => ActedOnOnce
    BY DEF OnceInv, ActedOnOnce
<1> QED
    BY <1>1, Once, PTL
-----------------------------------------------------------------------------
(* Workers                                                                  *)

\* A new worker is at its handler's first step, and the others are where they were.
LEMMA NewWorker ==
    ASSUME WorkersInv, NEW m, m.kind \in Kinds, Starts(m)
    PROVE  WorkersInv'
<1>1. CASE UNCHANGED workers
    BY <1>1 DEF WorkersInv, Starts
<1>2. CASE Spawn(m)
    <2> DEFINE new == <<m, Cardinality(Copies(m)) + 1>>
    <2>1. /\ workers' = [v \in DOMAIN workers \cup {new} |-> IF v = new THEN Fresh(m) ELSE workers[v]]
          /\ new = <<new[1], new[2]>> /\ new[1] = m
        BY <1>2 DEF Spawn
    <2> HIDE DEF new
    <2>2. DOMAIN Fresh(m) = Variables /\ Fresh(m).pc = FirstStep(m)
        BY DEF Fresh, Variables
    <2>3. FirstStep(m) \in StepsOf(m.kind)
        BY DEF FirstStep, StepsOf, Kinds
    <2>4. m \in received' /\ received \subseteq received'
        BY DEF Starts
    <2> SUFFICES ASSUME NEW w \in DOMAIN workers'
                 PROVE  /\ DOMAIN workers'[w] = Variables
                        /\ w = <<w[1], w[2]>> /\ w[1] \in received'
                        /\ w[1].kind \in Kinds
                        /\ workers'[w].pc \in StepsOf(w[1].kind)
        BY DEF WorkersInv
    <2>5. CASE w = new
        <3>1. workers'[w] = Fresh(m) /\ w[1] = m
            BY <2>1, <2>5
        <3> QED
            BY <2>1, <2>2, <2>3, <2>4, <2>5, <3>1
    <2>6. CASE w # new
        <3>1. w \in DOMAIN workers /\ workers'[w] = workers[w]
            BY <2>1, <2>6
        <3> QED
            BY <2>4, <3>1 DEF WorkersInv
    <2> QED
        BY <2>5, <2>6
<1> QED
    BY <1>1, <1>2 DEF Starts

\* A step between a handler's start and the loop it ends in: nobody hears of it.
Quiet(w) ==
    /\ DOMAIN workers' = DOMAIN workers
    /\ \A v \in DOMAIN workers : v # w => workers'[v] = workers[v]
    /\ DOMAIN workers'[w] = Variables
    /\ workers'[w].pc \in StepsOf(w[1].kind)
    /\ workers[w].pc \notin {"send", "tell", "done"}
    /\ workers'[w].pc = "done" => w[1].kind \notin Senders \cup Tellers
    /\ accepted' = accepted /\ told' = told /\ ackedA' = ackedA /\ nextQuery' = nextQuery
    /\ ackedW' = ackedW \/ \E k : ackedW' = Put(ackedW, k, FALSE)

\* Every step of a worker is quiet, but those of the two loops.
LEMMA QuietSteps ==
    ASSUME WorkersInv, NEW w \in DOMAIN workers, Step(w), ~SendCommand(w), ~TellAmazon(w)
    PROVE  Quiet(w)
<1> USE DEF Goto, Assign, Keep, Terminate, At, Variables, Quiet, peers, Senders, Tellers
<1>0. DOMAIN workers[w] = Variables /\ w[1].kind \in Kinds /\ workers[w].pc \in StepsOf(w[1].kind)
    BY DEF WorkersInv
<1>1. CASE ScanTrucks(w)
    BY <1>0, <1>1 DEF ScanTrucks, StepsOf, Kinds
<1>2. CASE TakeTruck(w)
    BY <1>0, <1>2 DEF TakeTruck, StepsOf, Kinds
<1>3. CASE RecordTruck(w)
    BY <1>0, <1>3 DEF RecordTruck, StepsOf, Kinds
<1>4. CASE InsertPackage(w)
    BY <1>0, <1>4 DEF InsertPackage, StepsOf, Kinds
<1>5. CASE ReadDestination(w)
    BY <1>0, <1>5 DEF ReadDestination, StepsOf, Kinds
<1>6. CASE ReadTruck(w)
    BY <1>0, <1>6 DEF ReadTruck, StepsOf, Kinds
<1>7. CASE CheckChange(w)
    BY <1>0, <1>7 DEF CheckChange, StepsOf, Kinds
<1>8. CASE ChangeDestination(w)
    BY <1>0, <1>8 DEF ChangeDestination, StepsOf, Kinds
<1>9. CASE ReadWarehouse(w)
    BY <1>0, <1>9 DEF ReadWarehouse, StepsOf, Kinds
<1>10. CASE WriteTable(w)
    BY <1>0, <1>10 DEF WriteTable, StepsOf, Kinds
<1>11. CASE WriteList(w)
    BY <1>0, <1>11 DEF WriteList, AfterList, StepsOf, Kinds
<1>12. CASE GetShips(w)
    BY <1>0, <1>12 DEF GetShips, StepsOf, Kinds
<1>13. CASE MarkDelivered(w)
    BY <1>0, <1>13 DEF MarkDelivered, StepsOf, Kinds
<1>14. CASE handle_UErr(w)
    BY <1>0, <1>14 DEF handle_UErr, StepsOf, Kinds
<1> QED
    BY <1>1, <1>2, <1>3, <1>4, <1>5, <1>6, <1>7, <1>8, <1>9, <1>10, <1>11, <1>12, <1>13, <1>14 DEF Step

\* A worker leaves its loop, or sends once more and stays.
LEMMA LoopSteps ==
    ASSUME WorkersInv, NEW w \in DOMAIN workers, SendCommand(w) \/ TellAmazon(w)
    PROVE  /\ DOMAIN workers' = DOMAIN workers
           /\ \A v \in DOMAIN workers : /\ v # w => workers'[v] = workers[v]
                                        /\ DOMAIN workers'[v] = DOMAIN workers[v]
                                        /\ \A x \in Variables \ {"pc"} : workers'[v][x] = workers[v][x]
           /\ workers'[w].pc \in {workers[w].pc, "done"}
           /\ ackedA' = ackedA /\ ackedW' = ackedW /\ nextQuery' = nextQuery
<1>0. \A v \in DOMAIN workers : DOMAIN workers[v] = Variables
    BY DEF WorkersInv
<1>1. CASE UNCHANGED workers
    BY <1>1 DEF SendCommand, TellAmazon
<1>2. CASE workers' = [workers EXCEPT ![w].pc = "done"]
    BY <1>0, <1>2 DEF SendCommand, TellAmazon, Variables
<1> QED
    BY <1>1, <1>2 DEF SendCommand, TellAmazon, Goto

\* Every step keeps the workers where their handlers lead them.
LEMMA WorkersStep == WorkersInv /\ OnceInv /\ [Next]_vars => WorkersInv'
<1> SUFFICES ASSUME WorkersInv, OnceInv, [Next]_vars PROVE WorkersInv'
    OBVIOUS
<1>1. ASSUME NEW r \in asks, handle_AUrequests(r) PROVE WorkersInv'
    BY <1>1, AmazonStarts, NewWorker DEF Kinds
<1>2. ASSUME NEW c \in accepted, NEW m \in ReportsOn(c), handle_WUrequests(m) PROVE WorkersInv'
    BY <1>2, WorldStarts, NewWorker DEF Kinds
<1>3. ASSUME NEW w \in DOMAIN workers, Step(w) PROVE WorkersInv'
    <2>1. received' = received
        BY <1>3, StepGrows
    <2>2. CASE SendCommand(w) \/ TellAmazon(w)
        <3>1. \A v \in DOMAIN workers : workers'[v].pc \in {workers[v].pc, "done"} /\ DOMAIN workers'[v] = DOMAIN workers[v]
            BY <2>2, LoopSteps
        <3>2. \A v \in DOMAIN workers : "done" \in StepsOf(v[1].kind)
            BY DEF WorkersInv, StepsOf, Kinds
        <3>3. DOMAIN workers' = DOMAIN workers
            BY <2>2, LoopSteps
        <3> QED
            BY <2>1, <3>1, <3>2, <3>3 DEF WorkersInv
    <2>3. CASE ~SendCommand(w) /\ ~TellAmazon(w)
        <3>1. Quiet(w)
            BY <1>3, <2>3, QuietSteps
        <3> QED
            BY <2>1, <3>1 DEF Quiet, WorkersInv
    <2> QED
        BY <2>2, <2>3
<1>4. ASSUME workers' = workers, received' = received PROVE WorkersInv'
    BY <1>4 DEF WorkersInv
<1>5. CASE UNCHANGED vars
    BY <1>4, <1>5 DEF vars, server
<1>6. ASSUME NEW m \in told, AmazonAcks(m) PROVE WorkersInv'
    BY <1>4, <1>6 DEF AmazonAcks
<1>7. CASE handle_disconnect_world \/ handle_disconnect_amazon
    BY <1>4, <1>7 DEF handle_disconnect_world, handle_disconnect_amazon
<1>8. ASSUME NEW c \in accepted, WorldAcks(c) PROVE WorkersInv'
    BY <1>4, <1>8 DEF WorldAcks
<1>9. ASSUME NEW t \in Trucks, keep_querying(t) PROVE WorkersInv'
    BY <1>4, <1>9 DEF keep_querying
<1> QED
    BY <1>1, <1>2, <1>3, <1>5, <1>6, <1>7, <1>8, <1>9 DEF Next
-----------------------------------------------------------------------------
(* Heard before done                                                        *)

\* A command and an answer are made of what a worker no longer changes.
LEMMA LastWords ==
    ASSUME NEW v, \A x \in Variables \ {"pc"} : workers'[v][x] = workers[v][x]
    PROVE  Command(v)' = Command(v) /\ Answers(v)' = Answers(v)
<1>1. /\ workers'[v].truck = workers[v].truck /\ workers'[v].wh = workers[v].wh
      /\ workers'[v].dest = workers[v].dest /\ workers'[v].ships = workers[v].ships
      /\ workers'[v].success = workers[v].success
    BY DEF Variables
<1> QED
    BY <1>1 DEF Command, Answers

\* Different workers that send, and different workers that tell, use different numbers.
LEMMA OwnNumbers ==
    ASSUME OnceInv, WorkersInv, NumbersApart, NEW v \in DOMAIN workers, NEW w \in DOMAIN workers,
           Key(v[1]) = Key(w[1]),
           \/ v[1].kind \in Senders /\ w[1].kind \in Senders
           \/ v[1].kind \in Tellers /\ w[1].kind \in Tellers
    PROVE  v = w
<1>1. v[1] \in received /\ w[1] \in received /\ v = <<v[1], v[2]>> /\ w = <<w[1], w[2]>>
    BY DEF WorkersInv
<1>2. v[1] = w[1]
    BY <1>1 DEF NumbersApart
<1>3. v[2] = 1 /\ w[2] = 1
    BY DEF OnceInv, Senders, Tellers
<1> QED
    BY <1>1, <1>2, <1>3

\* The fate of a worker that somebody may have heard.
Heeded(w) == w[1].kind \in Senders \cup Tellers /\ workers[w].pc \in {"send", "tell", "done"}

\* A step in which nobody hears anything and nobody stops who should be heard.
LEMMA NobodyHears ==
    ASSUME HeardInv,
           accepted' = accepted, told' = told, nextQuery' = nextQuery,
           \A k \in DOMAIN ackedW' : ackedW'[k] => Obeyed(k),
           \A k \in DOMAIN ackedA' : ackedA'[k] => \E m \in told : m.key = k,
           \A v \in DOMAIN workers : Heeded(v) => v \in DOMAIN workers' /\ workers'[v] = workers[v],
           \A v \in DOMAIN workers' : v[1].kind \in Senders \cup Tellers /\ workers'[v].pc = "done" =>
                v \in DOMAIN workers /\ workers'[v] = workers[v]
    PROVE  HeardInv'
<1>1. \A v : workers'[v] = workers[v] => Command(v)' = Command(v) /\ Answers(v)' = Answers(v)
    BY DEF Command, Answers
<1>2. \A c \in accepted : \A v \in DOMAIN workers : SentBy(c, v) => v \in DOMAIN workers' /\ SentBy(c, v)'
    BY <1>1 DEF SentBy, Heeded
<1>3. \A m \in told : \A v \in DOMAIN workers : ToldBy(m, v) => v \in DOMAIN workers' /\ ToldBy(m, v)'
    BY <1>1 DEF ToldBy, Heeded
<1>4. \A c \in accepted' : \/ c.key \in FirstQuery .. nextQuery' - 1
                           \/ \E v \in DOMAIN workers' : SentBy(c, v)'
    BY <1>2 DEF HeardInv
<1>5. \A m \in told' : \E v \in DOMAIN workers' : ToldBy(m, v)'
    BY <1>3 DEF HeardInv
<1>6. \A v \in DOMAIN workers' : workers'[v].pc = "done" =>
          /\ v[1].kind \in Senders => Command(v)' \in accepted'
          /\ v[1].kind \in Tellers => Answers(v)' # {} /\ Answers(v)' \subseteq told'
    BY <1>1 DEF HeardInv
<1>7. /\ \A k \in DOMAIN ackedW' : ackedW'[k] => Obeyed(k)'
      /\ \A k \in DOMAIN ackedA' : ackedA'[k] => \E m \in told' : m.key = k
    BY DEF Obeyed
<1> QED
    BY <1>4, <1>5, <1>6, <1>7 DEF HeardInv

\* A listener's step.
LEMMA ListenersHear ==
    ASSUME HeardInv, OnceInv, WorkersInv, NEW m, Starts(m), m.kind \in Kinds,
           accepted' = accepted, told' = told, nextQuery' = nextQuery,
           ackedW' = ackedW \/ \E k : ackedW' = Put(ackedW, k, FALSE),
           ackedA' = ackedA \/ \E k : ackedA' = Put(ackedA, k, FALSE)
    PROVE  HeardInv'
<1>1. /\ \A k \in DOMAIN ackedW' : ackedW'[k] => Obeyed(k)
      /\ \A k \in DOMAIN ackedA' : ackedA'[k] => \E n \in told : n.key = k
    BY DEF HeardInv, Put
<1>2. CASE UNCHANGED workers
    BY <1>1, <1>2, NobodyHears
<1>3. CASE Spawn(m) /\ (m.kind = "status" \/ (~Remembered(m) /\ Remembered(m)'))
    <2> DEFINE new == <<m, Cardinality(Copies(m)) + 1>>
    <2>1. /\ workers' = [v \in DOMAIN workers \cup {new} |-> IF v = new THEN Fresh(m) ELSE workers[v]]
          /\ new[1] = m
        BY <1>3 DEF Spawn
    <2> HIDE DEF new
    <2>2. Fresh(m).pc # "done"
        BY DEF Fresh, FirstStep, Kinds
    <2>3. new \in DOMAIN workers => m.kind \notin Senders \cup Tellers
        BY <1>3, <2>1 DEF OnceInv, Senders, Tellers
    <2>4. \A v \in DOMAIN workers : Heeded(v) => v \in DOMAIN workers' /\ workers'[v] = workers[v]
        BY <2>1, <2>3 DEF Heeded
    <2>5. \A v \in DOMAIN workers' : workers'[v].pc = "done" => v # new /\ v \in DOMAIN workers /\ workers'[v] = workers[v]
        BY <2>1, <2>2
    <2> QED
        BY <1>1, <2>4, <2>5, NobodyHears
<1> QED
    BY <1>2, <1>3 DEF Starts

\* A quiet step of a worker.
LEMMA QuietHears ==
    ASSUME HeardInv, NEW w \in DOMAIN workers, Quiet(w)
    PROVE  HeardInv'
<1>1. /\ \A k \in DOMAIN ackedW' : ackedW'[k] => Obeyed(k)
      /\ \A k \in DOMAIN ackedA' : ackedA'[k] => \E n \in told : n.key = k
    BY DEF HeardInv, Put, Quiet
<1>2. \A v \in DOMAIN workers : Heeded(v) => v \in DOMAIN workers' /\ workers'[v] = workers[v]
    BY DEF Heeded, Quiet
<1>3. \A v \in DOMAIN workers' : v[1].kind \in Senders \cup Tellers /\ workers'[v].pc = "done" =>
          v \in DOMAIN workers /\ workers'[v] = workers[v]
    BY DEF Quiet
<1> QED
    BY <1>1, <1>2, <1>3, NobodyHears DEF Quiet

\* The loop of a command: it ends when the command has been obeyed, because no
\* other command has its number.
LEMMA CommandHears ==
    ASSUME HeardInv, OnceInv, WorkersInv, NumbersApart, NEW w \in DOMAIN workers,
           w[1].kind \in Senders, SendCommand(w)
    PROVE  HeardInv'
<1>1. /\ DOMAIN workers' = DOMAIN workers /\ ackedA' = ackedA /\ ackedW' = ackedW /\ nextQuery' = nextQuery
      /\ told' = told /\ workers[w].pc = "send" /\ workers'[w].pc \in {"send", "done"}
      /\ \A v \in DOMAIN workers : v # w => workers'[v] = workers[v]
    BY LoopSteps DEF SendCommand, At
<1>2. \A v \in DOMAIN workers : Command(v)' = Command(v) /\ Answers(v)' = Answers(v)
    BY LoopSteps, LastWords
<1>3. accepted' \in {accepted, accepted \cup {Command(w)}}
    BY DEF SendCommand
<1>4. \A c \in accepted : \A v \in DOMAIN workers : SentBy(c, v) => SentBy(c, v)'
    BY <1>1, <1>2 DEF SentBy
<1>5. \A c : c = Command(w) => SentBy(c, w)'
    BY <1>1, <1>2 DEF SentBy
<1>6. \A c \in accepted' : \/ c.key \in FirstQuery .. nextQuery' - 1
                           \/ \E v \in DOMAIN workers' : SentBy(c, v)'
    <2>1. \A c \in accepted : \/ c.key \in FirstQuery .. nextQuery' - 1
                             \/ \E v \in DOMAIN workers' : SentBy(c, v)'
        BY <1>1, <1>4 DEF HeardInv
    <2> QED
        BY <1>1, <1>3, <1>5, <2>1
<1>7. \A m \in told : \A v \in DOMAIN workers : ToldBy(m, v) => ToldBy(m, v)'
    BY <1>1, <1>2 DEF ToldBy, Senders, Tellers
<1>8. \A m \in told' : \E v \in DOMAIN workers' : ToldBy(m, v)'
    BY <1>1, <1>7 DEF HeardInv
<1>9. workers'[w].pc = "done" => Command(w) \in accepted
    <2> SUFFICES ASSUME workers'[w].pc = "done" PROVE Command(w) \in accepted
        OBVIOUS
    <2>1. Acked(ackedW, Key(w[1]))
        BY <1>1 DEF SendCommand
    <2>2. PICK c \in accepted : c.key = Key(w[1])
        BY <2>1 DEF Acked, HeardInv, Obeyed
    <2>3. Key(w[1]) < FirstQuery
        BY DEF NumbersApart, WorkersInv
    <2>4. c.key \notin FirstQuery .. nextQuery - 1
        BY <2>2, <2>3, UpsAssumption DEF HeardInv
    <2>5. PICK v \in DOMAIN workers : SentBy(c, v)
        BY <2>4 DEF HeardInv
    <2>6. Key(v[1]) = Key(w[1]) /\ v[1].kind \in Senders
        BY <2>2, <2>5 DEF SentBy, Command
    <2>7. v = w
        BY <2>6, OwnNumbers
    <2> QED
        BY <2>5, <2>7 DEF SentBy
<1>10. \A v \in DOMAIN workers' : workers'[v].pc = "done" =>
          /\ v[1].kind \in Senders => Command(v)' \in accepted'
          /\ v[1].kind \in Tellers => Answers(v)' # {} /\ Answers(v)' \subseteq told'
    BY <1>1, <1>2, <1>3, <1>9 DEF HeardInv, Senders, Tellers
<1>11. \A k \in DOMAIN ackedW' : ackedW'[k] => Obeyed(k)'
    BY <1>1, <1>3 DEF HeardInv, Obeyed
<1>12. \A k \in DOMAIN ackedA' : ackedA'[k] => \E m \in told' : m.key = k
    BY <1>1 DEF HeardInv
<1>13. nextQuery' \in Nat /\ nextQuery' >= FirstQuery
    BY <1>1 DEF HeardInv
<1> QED
    BY <1>6, <1>8, <1>10, <1>11, <1>12, <1>13 DEF HeardInv

\* The loop of an answer, likewise.
LEMMA AnswerHears ==
    ASSUME HeardInv, OnceInv, WorkersInv, NumbersApart, NEW w \in DOMAIN workers,
           w[1].kind \in Tellers, TellAmazon(w)
    PROVE  HeardInv'
<1>1. /\ DOMAIN workers' = DOMAIN workers /\ ackedA' = ackedA /\ ackedW' = ackedW /\ nextQuery' = nextQuery
      /\ accepted' = accepted /\ workers[w].pc = "tell" /\ workers'[w].pc \in {"tell", "done"}
      /\ \A v \in DOMAIN workers : v # w => workers'[v] = workers[v]
    BY LoopSteps DEF TellAmazon, At
<1>2. \A v \in DOMAIN workers : Command(v)' = Command(v) /\ Answers(v)' = Answers(v)
    BY LoopSteps, LastWords
<1>3. told' \in {told, told \cup Answers(w)}
    BY DEF TellAmazon
<1>4. \A c \in accepted : \A v \in DOMAIN workers : SentBy(c, v) => SentBy(c, v)'
    BY <1>1, <1>2 DEF SentBy, Senders, Tellers
<1>5. \A c \in accepted' : \/ c.key \in FirstQuery .. nextQuery' - 1
                           \/ \E v \in DOMAIN workers' : SentBy(c, v)'
    BY <1>1, <1>4 DEF HeardInv
<1>6. \A m \in told : \A v \in DOMAIN workers : ToldBy(m, v) => ToldBy(m, v)'
    BY <1>1, <1>2, <1>3 DEF ToldBy
<1>7. told' # told => \A m \in Answers(w) : ToldBy(m, w)'
    BY <1>1, <1>2, <1>3 DEF ToldBy
<1>8. \A m \in told' : \E v \in DOMAIN workers' : ToldBy(m, v)'
    BY <1>1, <1>3, <1>6, <1>7 DEF HeardInv
<1>9. workers'[w].pc = "done" => Answers(w) # {} /\ Answers(w) \subseteq told
    <2> SUFFICES ASSUME workers'[w].pc = "done" PROVE Answers(w) # {} /\ Answers(w) \subseteq told
        OBVIOUS
    <2>1. Acked(ackedA, Key(w[1]))
        BY <1>1 DEF TellAmazon
    <2>2. PICK m \in told : m.key = Key(w[1])
        BY <2>1 DEF Acked, HeardInv
    <2>3. PICK v \in DOMAIN workers : ToldBy(m, v)
        BY DEF HeardInv
    <2>4. Key(v[1]) = Key(w[1]) /\ v[1].kind \in Tellers
        BY <2>2, <2>3 DEF ToldBy, Answers, Tellers
    <2>5. v = w
        BY <2>4, OwnNumbers
    <2> QED
        BY <2>3, <2>5 DEF ToldBy
<1>10. \A v \in DOMAIN workers' : workers'[v].pc = "done" =>
          /\ v[1].kind \in Senders => Command(v)' \in accepted'
          /\ v[1].kind \in Tellers => Answers(v)' # {} /\ Answers(v)' \subseteq told'
    <2>1. told \subseteq told'
        BY <1>3
    <2> QED
        BY <1>1, <1>2, <1>9, <2>1 DEF HeardInv, Senders, Tellers
<1>11. \A k \in DOMAIN ackedW' : ackedW'[k] => Obeyed(k)'
    BY <1>1 DEF HeardInv, Obeyed
<1>12. \A k \in DOMAIN ackedA' : ackedA'[k] => \E m \in told' : m.key = k
    BY <1>1, <1>3 DEF HeardInv
<1>13. nextQuery' \in Nat /\ nextQuery' >= FirstQuery
    BY <1>1 DEF HeardInv
<1> QED
    BY <1>5, <1>8, <1>10, <1>11, <1>12, <1>13 DEF HeardInv

\* A query has a number of its own.
LEMMA QueryHears ==
    ASSUME HeardInv, NEW t \in Trucks, keep_querying(t)
    PROVE  HeardInv'
<1>1. /\ workers' = workers /\ told' = told /\ ackedA' = ackedA /\ nextQuery' = nextQuery + 1
      /\ ackedW' = Put(ackedW, nextQuery, FALSE)
      /\ accepted' = accepted \cup {[kind |-> "query", key |-> nextQuery, truck |-> t]}
    BY DEF keep_querying
<1>2. nextQuery \in Nat /\ nextQuery >= FirstQuery /\ FirstQuery \in Nat
    BY UpsAssumption DEF HeardInv
<1>3. \A v : Command(v)' = Command(v) /\ Answers(v)' = Answers(v)
    BY <1>1 DEF Command, Answers
<1>4. \A c \in accepted : \A v \in DOMAIN workers : SentBy(c, v) => SentBy(c, v)'
    BY <1>1, <1>3 DEF SentBy
<1>5. \A c \in accepted' : \/ c.key \in FirstQuery .. nextQuery' - 1
                           \/ \E v \in DOMAIN workers' : SentBy(c, v)'
    BY <1>1, <1>2, <1>4 DEF HeardInv
<1>6. \A m \in told : \A v \in DOMAIN workers : ToldBy(m, v) => ToldBy(m, v)'
    BY <1>1, <1>3 DEF ToldBy
<1>7. \A k \in DOMAIN ackedW' : ackedW'[k] => Obeyed(k)'
    BY <1>1 DEF HeardInv, Obeyed, Put
<1>8. \A v \in DOMAIN workers' : workers'[v].pc = "done" =>
          /\ v[1].kind \in Senders => Command(v)' \in accepted'
          /\ v[1].kind \in Tellers => Answers(v)' # {} /\ Answers(v)' \subseteq told'
    BY <1>1, <1>3 DEF HeardInv
<1>9. \A m \in told' : \E v \in DOMAIN workers' : ToldBy(m, v)'
    BY <1>1, <1>6 DEF HeardInv
<1>10. \A k \in DOMAIN ackedA' : ackedA'[k] => \E m \in told' : m.key = k
    BY <1>1 DEF HeardInv
<1>11. nextQuery' \in Nat /\ nextQuery' >= FirstQuery
    BY <1>1, <1>2
<1> QED
    BY <1>5, <1>7, <1>8, <1>9, <1>10, <1>11 DEF HeardInv

LEMMA SendersSend ==
    ASSUME WorkersInv, NEW w \in DOMAIN workers
    PROVE  /\ SendCommand(w) => w[1].kind \in Senders
           /\ TellAmazon(w) => w[1].kind \in Tellers
<1>1. w[1].kind \in Kinds /\ workers[w].pc \in StepsOf(w[1].kind)
    BY DEF WorkersInv
<1> QED
    BY <1>1 DEF SendCommand, TellAmazon, At, StepsOf, Kinds, Senders, Tellers

LEMMA HeardStep == HeardInv /\ OnceInv /\ WorkersInv /\ NumbersApart /\ [Next]_vars => HeardInv'
<1> SUFFICES ASSUME HeardInv, OnceInv, WorkersInv, NumbersApart, [Next]_vars PROVE HeardInv'
    OBVIOUS
<1>1. ASSUME NEW r \in asks, handle_AUrequests(r) PROVE HeardInv'
    <2>1. Starts(r) /\ r.kind \in Kinds
        BY <1>1, AmazonStarts DEF Kinds
    <2>2. /\ accepted' = accepted /\ told' = told /\ nextQuery' = nextQuery
          /\ ackedW' = ackedW \/ \E k : ackedW' = Put(ackedW, k, FALSE)
          /\ ackedA' = ackedA \/ \E k : ackedA' = Put(ackedA, k, FALSE)
        BY <1>1 DEF handle_AUrequests, AcceptForWorld, AcceptForAmazon, peers
    <2> QED
        BY <2>1, <2>2, ListenersHear
<1>2. ASSUME NEW c \in accepted, NEW m \in ReportsOn(c), handle_WUrequests(m) PROVE HeardInv'
    <2>1. Starts(m) /\ m.kind \in Kinds
        BY <1>2, WorldStarts DEF Kinds
    <2>2. /\ accepted' = accepted /\ told' = told /\ nextQuery' = nextQuery
          /\ ackedW' = ackedW \/ \E k : ackedW' = Put(ackedW, k, FALSE)
          /\ ackedA' = ackedA \/ \E k : ackedA' = Put(ackedA, k, FALSE)
        BY <1>2 DEF handle_WUrequests, AcceptForAmazon, AcceptStatus, AcceptError, peers
    <2> QED
        BY <2>1, <2>2, ListenersHear
<1>3. ASSUME NEW w \in DOMAIN workers, Step(w) PROVE HeardInv'
    <2>1. CASE SendCommand(w)
        BY <2>1, SendersSend, CommandHears
    <2>2. CASE TellAmazon(w)
        BY <2>2, SendersSend, AnswerHears
    <2>3. CASE ~SendCommand(w) /\ ~TellAmazon(w)
        BY <1>3, <2>3, QuietSteps, QuietHears
    <2> QED
        BY <2>1, <2>2, <2>3
<1>4. ASSUME UNCHANGED <<workers, accepted, told, nextQuery>>,
             \A k \in DOMAIN ackedW' : ackedW'[k] => Obeyed(k),
             \A k \in DOMAIN ackedA' : ackedA'[k] => \E m \in told : m.key = k
      PROVE  HeardInv'
    BY <1>4, NobodyHears
<1>5. CASE UNCHANGED vars
    BY <1>4, <1>5 DEF vars, server, peers, HeardInv
<1>6. ASSUME NEW m \in told, AmazonAcks(m) PROVE HeardInv'
    BY <1>4, <1>6 DEF AmazonAcks, peers, HeardInv, Put
<1>7. CASE handle_disconnect_world \/ handle_disconnect_amazon
    BY <1>4, <1>7 DEF handle_disconnect_world, handle_disconnect_amazon, peers, HeardInv
<1>8. ASSUME NEW c \in accepted, WorldAcks(c) PROVE HeardInv'
    BY <1>4, <1>8 DEF WorldAcks, peers, HeardInv, Put, Obeyed
<1>9. ASSUME NEW t \in Trucks, keep_querying(t) PROVE HeardInv'
    BY <1>9, QueryHears
<1> QED
    BY <1>1, <1>2, <1>3, <1>5, <1>6, <1>7, <1>8, <1>9 DEF Next

\* If the numbers of different messages are different, no worker stops resending
\* before its peer has its message: an acknowledgement of something else does not
\* end its loop, and the world has obeyed the very command.
THEOREM HeardFirst == Spec /\ []NumbersApart => []HeardBeforeDone
<1>1. Init => OnceInv /\ WorkersInv /\ HeardInv
    BY UpsAssumption DEF Init, OnceInv, Requests, WorkersInv, HeardInv, EmptyMap
<1>2. OnceInv /\ WorkersInv /\ HeardInv => HeardBeforeDone
    BY DEF HeardInv, HeardBeforeDone, Done, Started, Worker, Senders, Tellers
<1> QED
    BY <1>1, <1>2, OnceStep, WorkersStep, HeardStep, PTL DEF Spec
-----------------------------------------------------------------------------
(* Trucks and packages                                                      *)

Statuses == {"IDLE", "TRAVELING", "ARRIVE WAREHOUSE", "LOADING", "DELIVERING"}

\* Package s is booked with truck t, and has gone out with no other one.
HasTruck(s, t) ==
    /\ s \in DOMAIN PKG /\ t \in Trucks
    /\ PKG[s].truck \in {t, DELIVERED}
    /\ \A c \in accepted : c.kind = "deliver" /\ c.ship = s => c.truck = t

\* Truck t has been sent to a warehouse.
HasHome(t) == t \in Trucks /\ truckList[t].whid \in Warehouses

\* What a worker's message and variables have to do with the tables.
PickupOK(m, l) ==
    m.kind = "pickup" =>
        /\ m.ship \in Ships /\ m.wh \in Warehouses /\ m.dest \in Dests
        /\ l.pc = "take" => l.truck \in Trucks
        /\ l.pc = "record" => HasHome(l.truck)
        /\ l.pc \in {"insert", "send", "done"} => l.truck = CREATED \/ HasHome(l.truck)
DeliveryOK(m, l) ==
    m.kind = "delivery" =>
        /\ ToldOfTruck(m.ship)
        /\ l.pc \in {"send", "done"} => HasTruck(m.ship, l.truck)
ChangeOK(m, l) == m.kind = "change" => ToldOfTruck(m.ship) /\ m.dest \in Dests
ArriveOK(m, l) ==
    m.kind = "arrive" =>
        /\ HasHome(m.truck)
        /\ l.pc \in {"table", "list", "getships", "tell", "done"} => l.wh \in Warehouses
        /\ l.pc \in {"tell", "done"} => \A s \in l.ships : HasTruck(s, m.truck) /\ PKG[s].wh = l.wh
StatusOK(m, l) ==
    /\ m.kind \in {"idle", "status"} => m.truck \in Trucks
    /\ m.kind = "status" => m.extra \in Statuses
MadeOK(m, l) ==
    m.kind = "delivered" =>
        /\ Sent(m.extra)
        /\ l.pc \in {"tell", "done"} => m.extra \in DOMAIN PKG /\ PKG[m.extra].truck = DELIVERED

LocalOK(m, l) ==
    PickupOK(m, l) /\ DeliveryOK(m, l) /\ ChangeOK(m, l) /\ ArriveOK(m, l) /\ StatusOK(m, l) /\ MadeOK(m, l)

\* What the world and Amazon have been sent.
CommandOK(c) ==
    \/ c.kind = "pickup" /\ (c.truck = CREATED \/ HasHome(c.truck))
    \/ c.kind = "deliver" /\ HasTruck(c.ship, c.truck) /\ ToldOfTruck(c.ship)
    \/ c.kind = "query" /\ c.truck \in Trucks
AnswerOK(m) ==
    \/ m.kind = "arrived" /\ HasTruck(m.ship, m.truck) /\ PKG[m.ship].wh = m.wh
    \/ m.kind = "delivered" /\ m.ship \in DOMAIN PKG /\ PKG[m.ship].truck = DELIVERED
    \/ m.kind \in {"changed", "bound"}

Tables ==
    /\ truckList \in [Trucks -> [status : 0..3, whid : Warehouses \cup {-1}]]
    /\ TRUCK \in [Trucks -> 0..3]
    /\ DOMAIN PKG \subseteq Ships
    /\ \A s \in DOMAIN PKG : PKG[s] \in [wh : Warehouses, dest : Dests, truck : Trucks \cup {CREATED, DELIVERED}]

TravelInv ==
    /\ Tables
    /\ \A s \in DOMAIN PKG : PKG[s].truck = DELIVERED => Sent(s)
    /\ \A c \in accepted : CommandOK(c)
    /\ \A m \in told : AnswerOK(m)
    /\ \A w \in DOMAIN workers : LocalOK(w[1], workers[w])
-----------------------------------------------------------------------------
\* A truck is never among the numbers that stand for none.
LEMMA NoNumbers == \A t \in Trucks : t # CREATED /\ t # DELIVERED
BY UpsAssumption DEF CREATED, DELIVERED

\* A package has one truck.
LEMMA OneTruck ==
    ASSUME TravelInv, NEW s, NEW t, NEW u, HasTruck(s, t), HasTruck(s, u)
    PROVE  t = u
<1>1. CASE PKG[s].truck = DELIVERED
    <2>1. Sent(s)
        BY <1>1 DEF TravelInv, HasTruck
    <2>2. PICK c \in accepted : c.kind = "deliver" /\ c.ship = s
        BY <2>1 DEF Sent
    <2> QED
        BY <2>2 DEF HasTruck
<1>2. CASE PKG[s].truck # DELIVERED
    BY <1>2 DEF HasTruck
<1> QED
    BY <1>1, <1>2

\* What no step takes back.
Stable ==
    /\ accepted \subseteq accepted' /\ told \subseteq told'
    /\ \A s \in DOMAIN PKG : s \in DOMAIN PKG' /\ PKG'[s].wh = PKG[s].wh /\ PKG'[s].truck \in {PKG[s].truck, DELIVERED}
    /\ \A t : HasHome(t) => HasHome(t)'
    /\ \A s, t : HasTruck(s, t) => HasTruck(s, t)'

LEMMA StableTold == ASSUME Stable, NEW s, ToldOfTruck(s) PROVE ToldOfTruck(s)'
BY DEF Stable, ToldOfTruck

LEMMA StableSent == ASSUME Stable, NEW s, Sent(s) PROVE Sent(s)'
BY DEF Stable, Sent

\* What is known of a worker stays true while others step.
LEMMA StableLocal ==
    ASSUME Stable, NEW m, NEW l, LocalOK(m, l)
    PROVE  LocalOK(m, l)'
<1>1. PickupOK(m, l)'
    BY DEF Stable, LocalOK, PickupOK
<1>2. DeliveryOK(m, l)' /\ ChangeOK(m, l)'
    BY StableTold DEF Stable, LocalOK, DeliveryOK, ChangeOK
<1>3. ArriveOK(m, l)'
    <2>1. \A s : HasTruck(s, m.truck) /\ PKG[s].wh = l.wh => HasTruck(s, m.truck)' /\ PKG'[s].wh = l.wh
        BY DEF Stable, HasTruck
    <2> QED
        BY <2>1 DEF Stable, LocalOK, ArriveOK
<1>4. StatusOK(m, l)'
    BY DEF LocalOK, StatusOK
<1>5. MadeOK(m, l)'
    BY StableSent DEF Stable, LocalOK, MadeOK
<1> QED
    BY <1>1, <1>2, <1>3, <1>4, <1>5 DEF LocalOK

LEMMA StableSaid ==
    ASSUME Stable, TravelInv
    PROVE  (\A c \in accepted : CommandOK(c)') /\ (\A m \in told : AnswerOK(m)')
<1>1. \A c \in accepted : CommandOK(c)'
    BY StableTold DEF Stable, TravelInv, CommandOK
<1>2. \A m \in told : AnswerOK(m)'
    <2>1. \A s, t, wh : HasTruck(s, t) /\ PKG[s].wh = wh => HasTruck(s, t)' /\ PKG'[s].wh = wh
        BY DEF Stable, HasTruck
    <2> QED
        BY <2>1 DEF Stable, TravelInv, AnswerOK
<1> QED
    BY <1>1, <1>2

\* If the trucks' homes stay, the rows' trucks too, and a command that is added names the truck
\* that its package has, nothing is taken back.
LEMMA StableIf ==
    ASSUME TravelInv, accepted \subseteq accepted', told \subseteq told',
           \A s \in DOMAIN PKG : s \in DOMAIN PKG' /\ PKG'[s].wh = PKG[s].wh /\ PKG'[s].truck \in {PKG[s].truck, DELIVERED},
           \A t \in Trucks : truckList[t].whid \in Warehouses => truckList'[t].whid \in Warehouses,
           \A c \in accepted' : c \in accepted \/ c.kind # "deliver" \/ HasTruck(c.ship, c.truck)
    PROVE  Stable
<1>1. ASSUME NEW t, HasHome(t) PROVE HasHome(t)'
    BY <1>1 DEF HasHome
<1>2. ASSUME NEW s, NEW t, HasTruck(s, t) PROVE HasTruck(s, t)'
    <2>1. \A c \in accepted' : c.kind = "deliver" /\ c.ship = s => c.truck = t
        BY <1>2, OneTruck DEF HasTruck
    <2> QED
        BY <1>2, <2>1 DEF HasTruck
<1> QED
    BY <1>1, <1>2 DEF Stable
-----------------------------------------------------------------------------
\* A worker takes a step that tells nobody; TravelInv needs to be shown only of what it changes.
LEMMA OwnStep ==
    ASSUME TravelInv, Stable, NEW w \in DOMAIN workers,
           DOMAIN workers' = DOMAIN workers,
           \A v \in DOMAIN workers : v # w => workers'[v] = workers[v],
           LocalOK(w[1], workers[w])',
           Tables',
           \A s \in DOMAIN PKG' : PKG'[s].truck = DELIVERED => Sent(s)',
           \A c \in accepted' \ accepted : CommandOK(c)',
           \A m \in told' \ told : AnswerOK(m)'
    PROVE  TravelInv'
<1>1. ASSUME NEW v \in DOMAIN workers' PROVE LocalOK(v[1], workers[v])'
    <2>1. CASE v = w
        BY <2>1
    <2>2. CASE v # w
        <3>1. PICK l : l = workers[v] /\ l = workers'[v]
            BY <2>2
        <3>2. LocalOK(v[1], l)
            BY <3>1 DEF TravelInv
        <3>3. LocalOK(v[1], l)'
            BY <3>2, StableLocal
        <3> QED
            BY <3>1, <3>3
    <2> QED
        BY <2>1, <2>2
<1> QED
    BY <1>1, StableSaid DEF TravelInv
-----------------------------------------------------------------------------
\* Which handler a worker at a step runs.
LEMMA KindAt ==
    ASSUME WorkersInv, NEW w \in DOMAIN workers
    PROVE  /\ DOMAIN workers[w] = Variables
           /\ workers[w].pc \in {"scan", "take", "record", "insert"} => w[1].kind = "pickup"
           /\ workers[w].pc \in {"readdest", "readtruck"} => w[1].kind = "delivery"
           /\ workers[w].pc = "send" => w[1].kind \in Senders
           /\ workers[w].pc \in {"check", "change"} => w[1].kind = "change"
           /\ workers[w].pc \in {"readwh", "getships"} => w[1].kind = "arrive"
           /\ workers[w].pc \in {"table", "list"} => w[1].kind \in {"arrive", "idle", "status"}
           /\ workers[w].pc = "update" => w[1].kind = "delivered"
           /\ workers[w].pc = "reset" => w[1].kind = "error"
           /\ workers[w].pc = "tell" => w[1].kind \in Tellers
<1>1. DOMAIN workers[w] = Variables /\ w[1].kind \in Kinds /\ workers[w].pc \in StepsOf(w[1].kind)
    BY DEF WorkersInv
<1> QED
    BY <1>1 DEF StepsOf, Kinds, Senders, Tellers

\* What a handler's own condition leaves to be shown.
LEMMA OneKind ==
    ASSUME NEW m, NEW l
    PROVE  /\ m.kind = "pickup" /\ PickupOK(m, l) => LocalOK(m, l)
           /\ m.kind = "delivery" /\ DeliveryOK(m, l) => LocalOK(m, l)
           /\ m.kind = "change" /\ ChangeOK(m, l) => LocalOK(m, l)
           /\ m.kind = "arrive" /\ ArriveOK(m, l) => LocalOK(m, l)
           /\ m.kind \in {"idle", "status"} /\ StatusOK(m, l) => LocalOK(m, l)
           /\ m.kind = "delivered" /\ MadeOK(m, l) => LocalOK(m, l)
           /\ m.kind \in {"bind", "error"} => LocalOK(m, l)
BY DEF LocalOK, PickupOK, DeliveryOK, ChangeOK, ArriveOK, StatusOK, MadeOK

\* A worker's step that changes only its variables, and one that takes no step at all.
Unmoved == UNCHANGED <<truckList, TRUCK, PKG, accepted, told>>

LEMMA UnmovedStable ==
    ASSUME TravelInv, Unmoved
    PROVE  /\ Stable /\ Tables'
           /\ \A s \in DOMAIN PKG' : PKG'[s].truck = DELIVERED => Sent(s)'
<1>1. Stable
    BY StableIf DEF Unmoved
<1> QED
    BY <1>1 DEF Unmoved, TravelInv, Tables, Sent

LEMMA NoStep ==
    ASSUME TravelInv, Unmoved, workers' = workers
    PROVE  TravelInv'
<1>1. \A w \in DOMAIN workers' : LocalOK(w[1], workers[w])'
    <2> SUFFICES ASSUME NEW w \in DOMAIN workers PROVE LocalOK(w[1], workers[w])'
        OBVIOUS
    <2>1. PICK l : l = workers[w] /\ l = workers'[w]
        OBVIOUS
    <2>2. LocalOK(w[1], l)
        BY <2>1 DEF TravelInv
    <2>3. LocalOK(w[1], l)'
        BY <2>2, StableLocal, UnmovedStable
    <2> QED
        BY <2>1, <2>3
<1> QED
    BY <1>1, StableSaid, UnmovedStable DEF TravelInv, Unmoved

LEMMA PrivateStep ==
    ASSUME TravelInv, Unmoved, NEW w \in DOMAIN workers, NEW l,
           workers' = [workers EXCEPT ![w] = l], LocalOK(w[1], l)
    PROVE  TravelInv'
<1>1. DOMAIN workers' = DOMAIN workers /\ workers'[w] = l /\ \A v \in DOMAIN workers : v # w => workers'[v] = workers[v]
    OBVIOUS
<1>2. LocalOK(w[1], l)'
    BY StableLocal, UnmovedStable
<1>3. LocalOK(w[1], workers[w])'
    BY <1>1, <1>2
<1> QED
    BY <1>1, <1>3, OwnStep, UnmovedStable DEF Unmoved
-----------------------------------------------------------------------------
LEMMA ScanTravels ==
    ASSUME TravelInv, WorkersInv, NEW w \in DOMAIN workers, ScanTrucks(w)
    PROVE  TravelInv'
<1> USE DEF At
<1>1. /\ DOMAIN workers[w] = Variables /\ workers[w].pc = "scan" /\ w[1].kind = "pickup"
      /\ PickupOK(w[1], workers[w]) /\ Unmoved
    BY KindAt DEF TravelInv, LocalOK, ScanTrucks, Unmoved, peers
<1>2. CASE workers' = [workers EXCEPT ![w] = [Keep("insert", w) EXCEPT !.truck = CREATED]]
    <2> DEFINE l == [Keep("insert", w) EXCEPT !.truck = CREATED]
    <2>1. l.pc = "insert" /\ l.truck = CREATED
        BY <1>1 DEF Keep, Variables
    <2> HIDE DEF l
    <2>2. LocalOK(w[1], l)
        BY <1>1, <2>1, OneKind DEF PickupOK
    <2> QED
        BY <1>1, <1>2, <2>2, PrivateStep DEF l
<1>3. CASE workers[w].truck \in Trucks /\ Goto(w, "take")
    <2> DEFINE l == [workers[w] EXCEPT !.pc = "take"]
    <2>1. l.pc = "take" /\ l.truck = workers[w].truck /\ workers' = [workers EXCEPT ![w] = l]
        BY <1>1, <1>3 DEF Goto, Variables
    <2> HIDE DEF l
    <2>2. LocalOK(w[1], l)
        BY <1>1, <1>3, <2>1, OneKind DEF PickupOK
    <2> QED
        BY <1>1, <2>1, <2>2, PrivateStep
<1>4. CASE workers' = [workers EXCEPT ![w] = [Keep("scan", w) EXCEPT !.truck = workers[w].truck + 1]]
    <2> DEFINE l == [Keep("scan", w) EXCEPT !.truck = workers[w].truck + 1]
    <2>1. l.pc = "scan"
        BY <1>1 DEF Keep, Variables
    <2> HIDE DEF l
    <2>2. LocalOK(w[1], l)
        BY <1>1, <2>1, OneKind DEF PickupOK
    <2> QED
        BY <1>1, <1>4, <2>2, PrivateStep DEF l
<1> QED
    BY <1>2, <1>3, <1>4 DEF ScanTrucks, Assign

\* A worker that only goes on keeps its handler's variables.
LEMMA GoesOn ==
    ASSUME WorkersInv, NEW w \in DOMAIN workers, NEW step, Goto(w, step)
    PROVE  \E l : /\ workers' = [workers EXCEPT ![w] = l]
                  /\ l.pc = step /\ l.truck = workers[w].truck /\ l.wh = workers[w].wh
                  /\ l.ships = workers[w].ships
<1> DEFINE l == [workers[w] EXCEPT !.pc = step]
<1>1. DOMAIN workers[w] = Variables
    BY DEF WorkersInv
<1>2. workers' = [workers EXCEPT ![w] = l]
    BY DEF Goto
<1>3. l.pc = step /\ l.truck = workers[w].truck /\ l.wh = workers[w].wh /\ l.ships = workers[w].ships
    BY <1>1 DEF Variables
<1> HIDE DEF l
<1> QED
    BY <1>2, <1>3

\* A thread that throws leaves everything as it is.
LEMMA TerminateTravels ==
    ASSUME TravelInv, Terminate
    PROVE  TravelInv'
BY NoStep DEF Terminate, Unmoved, peers

\* A step of a worker that tells nobody, but may write a row or the list.
LEMMA QuietStep ==
    ASSUME TravelInv, Stable, NEW w \in DOMAIN workers, NEW l,
           workers' = [workers EXCEPT ![w] = l], LocalOK(w[1], l)',
           accepted' = accepted, told' = told,
           Tables', \A s \in DOMAIN PKG' : PKG'[s].truck = DELIVERED => Sent(s)
    PROVE  TravelInv'
<1>1. DOMAIN workers' = DOMAIN workers /\ workers'[w] = l /\ \A v \in DOMAIN workers : v # w => workers'[v] = workers[v]
    OBVIOUS
<1>2. LocalOK(w[1], workers[w])'
    BY <1>1
<1>3. \A s \in DOMAIN PKG' : PKG'[s].truck = DELIVERED => Sent(s)'
    BY DEF Sent
<1> QED
    BY <1>1, <1>2, <1>3, OwnStep

LEMMA TakeTravels ==
    ASSUME TravelInv, WorkersInv, NEW w \in DOMAIN workers, TakeTruck(w)
    PROVE  TravelInv'
<1>1. /\ workers[w].pc = "take" /\ w[1].kind = "pickup" /\ PickupOK(w[1], workers[w])
      /\ Goto(w, "record") /\ accepted' = accepted /\ told' = told /\ PKG' = PKG /\ TRUCK' = TRUCK
      /\ truckList' = [truckList EXCEPT ![workers[w].truck] = [status |-> 1, whid |-> w[1].wh]]
    BY KindAt DEF TravelInv, LocalOK, TakeTruck, At, peers
<1>2. PICK l : /\ workers' = [workers EXCEPT ![w] = l] /\ l.pc = "record" /\ l.truck = workers[w].truck
    BY <1>1, GoesOn
<1>3. workers[w].truck \in Trucks /\ w[1].wh \in Warehouses
    BY <1>1 DEF PickupOK
<1>4. \A t \in Trucks : truckList'[t] = IF t = workers[w].truck THEN [status |-> 1, whid |-> w[1].wh] ELSE truckList[t]
    BY <1>1, <1>3 DEF TravelInv, Tables
<1>5. Stable
    BY <1>1, <1>3, <1>4, StableIf
<1>6. Tables'
    BY <1>1, <1>3, <1>4 DEF TravelInv, Tables
<1>7. PickupOK(w[1], l)'
    BY <1>1, <1>2, <1>3, <1>4 DEF PickupOK, HasHome
<1>8. LocalOK(w[1], l)'
    BY <1>1, <1>7 DEF LocalOK, PickupOK, DeliveryOK, ChangeOK, ArriveOK, StatusOK, MadeOK
<1>9. \A s \in DOMAIN PKG' : PKG'[s].truck = DELIVERED => Sent(s)
    BY <1>1 DEF TravelInv
<1> QED
    BY <1>1, <1>2, <1>5, <1>6, <1>8, <1>9, QuietStep

LEMMA RecordTravels ==
    ASSUME TravelInv, WorkersInv, NEW w \in DOMAIN workers, RecordTruck(w)
    PROVE  TravelInv'
<1>1. /\ workers[w].pc = "record" /\ w[1].kind = "pickup" /\ PickupOK(w[1], workers[w])
      /\ Goto(w, "insert") /\ accepted' = accepted /\ told' = told /\ PKG' = PKG /\ truckList' = truckList
      /\ TRUCK' = [TRUCK EXCEPT ![workers[w].truck] = 1]
    BY KindAt DEF TravelInv, LocalOK, RecordTruck, At, peers
<1>2. PICK l : /\ workers' = [workers EXCEPT ![w] = l] /\ l.pc = "insert" /\ l.truck = workers[w].truck
    BY <1>1, GoesOn
<1>3. Stable
    BY <1>1, StableIf
<1>4. Tables'
    <2>1. TRUCK \in [Trucks -> 0..3] /\ 1 \in 0..3
        BY DEF TravelInv, Tables
    <2>2. TRUCK' \in [Trucks -> 0..3]
        BY <1>1, <2>1
    <2> QED
        BY <1>1, <2>2 DEF TravelInv, Tables
<1>5. PickupOK(w[1], l)
    BY <1>1, <1>2 DEF PickupOK
<1>6. LocalOK(w[1], l)'
    BY <1>1, <1>3, <1>5, OneKind, StableLocal
<1>7. \A s \in DOMAIN PKG' : PKG'[s].truck = DELIVERED => Sent(s)
    BY <1>1 DEF TravelInv
<1> QED
    BY <1>1, <1>2, <1>3, <1>4, <1>6, <1>7, QuietStep

LEMMA InsertTravels ==
    ASSUME TravelInv, WorkersInv, NEW w \in DOMAIN workers, InsertPackage(w)
    PROVE  TravelInv'
<1>1. /\ workers[w].pc = "insert" /\ w[1].kind = "pickup" /\ PickupOK(w[1], workers[w])
      /\ Goto(w, "send") /\ accepted' = accepted /\ told' = told /\ TRUCK' = TRUCK /\ truckList' = truckList
      /\ insert_PKG(w[1], workers[w].truck)
    BY KindAt DEF TravelInv, LocalOK, InsertPackage, At, peers
<1>2. PICK l : /\ workers' = [workers EXCEPT ![w] = l] /\ l.pc = "send" /\ l.truck = workers[w].truck
    BY <1>1, GoesOn
<1> DEFINE row == [wh |-> w[1].wh, dest |-> w[1].dest, truck |-> workers[w].truck]
<1>3. /\ row \in [wh : Warehouses, dest : Dests, truck : Trucks \cup {CREATED, DELIVERED}]
      /\ row.truck # DELIVERED /\ w[1].ship \in Ships
    BY <1>1, NoNumbers DEF PickupOK, HasHome, CREATED, DELIVERED
<1>4. /\ DOMAIN PKG' = DOMAIN PKG \cup {w[1].ship}
      /\ \A s \in DOMAIN PKG' : PKG'[s] = IF s \in DOMAIN PKG THEN PKG[s] ELSE row
    BY <1>1 DEF insert_PKG, Put, Row
<1> HIDE DEF row
<1>5. Stable
    BY <1>1, <1>4, StableIf
<1>6. Tables'
    BY <1>1, <1>3, <1>4 DEF TravelInv, Tables
<1>7. PickupOK(w[1], l)
    BY <1>1, <1>2 DEF PickupOK
<1>8. LocalOK(w[1], l)'
    BY <1>1, <1>5, <1>7, OneKind, StableLocal
<1>9. \A s \in DOMAIN PKG' : PKG'[s].truck = DELIVERED => Sent(s)
    BY <1>1, <1>3, <1>4 DEF TravelInv
<1> QED
    BY <1>1, <1>2, <1>5, <1>6, <1>8, <1>9, QuietStep

LEMMA DestinationTravels ==
    ASSUME TravelInv, WorkersInv, NEW w \in DOMAIN workers, ReadDestination(w)
    PROVE  TravelInv'
<1>1. /\ DOMAIN workers[w] = Variables /\ w[1].kind = "delivery" /\ DeliveryOK(w[1], workers[w])
    BY KindAt DEF TravelInv, LocalOK, ReadDestination, At
<1>2. CASE Terminate
    BY <1>2, TerminateTravels
<1>3. CASE ~Terminate
    <2> DEFINE l == [Keep("readtruck", w) EXCEPT !.dest = PKG[w[1].ship].dest]
    <2>1. workers' = [workers EXCEPT ![w] = l] /\ Unmoved
        BY <1>3 DEF ReadDestination, Assign, Unmoved, peers
    <2>2. l.pc = "readtruck"
        BY <1>1 DEF Keep, Variables
    <2> HIDE DEF l
    <2>3. LocalOK(w[1], l)
        BY <1>1, <2>2, OneKind DEF DeliveryOK
    <2> QED
        BY <2>1, <2>3, PrivateStep
<1> QED
    BY <1>2, <1>3

\* A command for a package bears the truck that its row names.
LEMMA RowsTruck ==
    ASSUME TravelInv, NEW s \in DOMAIN PKG, NEW t \in Trucks, PKG[s].truck = t
    PROVE  HasTruck(s, t)
BY NoNumbers DEF TravelInv, CommandOK, HasTruck

LEMMA ReadTruckTravels ==
    ASSUME TravelInv, WorkersInv, NEW w \in DOMAIN workers, ReadTruck(w)
    PROVE  TravelInv'
<1>1. /\ DOMAIN workers[w] = Variables /\ w[1].kind = "delivery" /\ DeliveryOK(w[1], workers[w])
    BY KindAt DEF TravelInv, LocalOK, ReadTruck, At
<1>2. CASE Terminate
    BY <1>2, TerminateTravels
<1>3. CASE ~Terminate
    <2> DEFINE t == PKG[w[1].ship].truck
               l == [Keep("send", w) EXCEPT !.truck = t]
    <2>1. workers' = [workers EXCEPT ![w] = l] /\ Unmoved /\ t \in Trucks
        BY <1>3 DEF ReadTruck, Assign, Unmoved, peers
    <2>2. l.pc = "send" /\ l.truck = t
        BY <1>1 DEF Keep, Variables
    <2>3. w[1].ship \in DOMAIN PKG
        <3>1. PICK m \in told : m.kind = "arrived" /\ m.ship = w[1].ship
            BY <1>1 DEF DeliveryOK, ToldOfTruck
        <3> QED
            BY <3>1 DEF TravelInv, AnswerOK, HasTruck
    <2>4. HasTruck(w[1].ship, t)
        BY <2>1, <2>3, RowsTruck
    <2> HIDE DEF l
    <2>5. LocalOK(w[1], l)
        BY <1>1, <2>2, <2>4, OneKind DEF DeliveryOK
    <2> QED
        BY <2>1, <2>5, PrivateStep
<1> QED
    BY <1>2, <1>3

\* What Amazon is told of has a row.
LEMMA ToldHasRow ==
    ASSUME TravelInv, NEW s, ToldOfTruck(s)
    PROVE  s \in DOMAIN PKG /\ \E t : HasTruck(s, t)
<1>1. PICK m \in told : m.kind = "arrived" /\ m.ship = s
    BY DEF ToldOfTruck
<1> QED
    BY <1>1 DEF TravelInv, AnswerOK, HasTruck

LEMMA CheckTravels ==
    ASSUME TravelInv, WorkersInv, NEW w \in DOMAIN workers, CheckChange(w)
    PROVE  TravelInv'
<1>1. /\ w[1].kind = "change" /\ ChangeOK(w[1], workers[w])
    BY KindAt DEF TravelInv, LocalOK, CheckChange, At
<1>2. CASE Terminate
    BY <1>2, TerminateTravels
<1>3. CASE ~Terminate
    <2>1. Unmoved /\ \E step : Goto(w, step)
        BY <1>3 DEF CheckChange, Unmoved, peers
    <2>2. PICK l : workers' = [workers EXCEPT ![w] = l]
        BY <2>1, GoesOn
    <2>3. LocalOK(w[1], l)
        BY <1>1, OneKind DEF ChangeOK
    <2> QED
        BY <2>1, <2>2, <2>3, PrivateStep
<1> QED
    BY <1>2, <1>3

LEMMA ChangeTravels ==
    ASSUME TravelInv, WorkersInv, NEW w \in DOMAIN workers, ChangeDestination(w)
    PROVE  TravelInv'
<1>1. /\ w[1].kind = "change" /\ ChangeOK(w[1], workers[w])
      /\ accepted' = accepted /\ told' = told /\ TRUCK' = TRUCK /\ truckList' = truckList
      /\ PKG' = [PKG EXCEPT ![w[1].ship].dest = w[1].dest]
    BY KindAt DEF TravelInv, LocalOK, ChangeDestination, At, peers
<1>2. PICK l : workers' = [workers EXCEPT ![w] = l]
    BY DEF ChangeDestination, Assign
<1>3. \A s \in DOMAIN PKG : PKG[s] \in [wh : Warehouses, dest : Dests, truck : Trucks \cup {CREATED, DELIVERED}]
    BY DEF TravelInv, Tables
<1>4. /\ DOMAIN PKG' = DOMAIN PKG
      /\ \A s \in DOMAIN PKG : PKG'[s].wh = PKG[s].wh /\ PKG'[s].truck = PKG[s].truck
    BY <1>1, <1>3
<1>5. Stable
    BY <1>1, <1>4, StableIf
<1>6. Tables'
    <2>1. w[1].dest \in Dests
        BY <1>1 DEF ChangeOK
    <2>2. \A s \in DOMAIN PKG : PKG'[s] \in [wh : Warehouses, dest : Dests, truck : Trucks \cup {CREATED, DELIVERED}]
        BY <1>1, <1>3, <2>1
    <2> QED
        BY <1>1, <1>4, <2>2 DEF TravelInv, Tables
<1>7. LocalOK(w[1], l)'
    <2>1. LocalOK(w[1], l)
        BY <1>1, OneKind DEF ChangeOK
    <2> QED
        BY <1>5, <2>1, StableLocal
<1>8. \A s \in DOMAIN PKG' : PKG'[s].truck = DELIVERED => Sent(s)
    BY <1>4 DEF TravelInv
<1> QED
    BY <1>1, <1>2, <1>5, <1>6, <1>7, <1>8, QuietStep

LEMMA WarehouseTravels ==
    ASSUME TravelInv, WorkersInv, NEW w \in DOMAIN workers, ReadWarehouse(w)
    PROVE  TravelInv'
<1>1. /\ DOMAIN workers[w] = Variables /\ w[1].kind = "arrive" /\ ArriveOK(w[1], workers[w]) /\ Unmoved
    BY KindAt DEF TravelInv, LocalOK, ReadWarehouse, At, Unmoved, peers
<1> DEFINE wh == truckList[w[1].truck].whid
           l == [Keep("table", w) EXCEPT !.wh = wh]
<1>2. workers' = [workers EXCEPT ![w] = l]
    BY DEF ReadWarehouse, Assign
<1>3. l.pc = "table" /\ l.wh = wh
    BY <1>1 DEF Keep, Variables
<1>4. wh \in Warehouses
    BY <1>1 DEF ArriveOK, HasHome
<1> HIDE DEF l, wh
<1>5. LocalOK(w[1], l)
    BY <1>1, <1>3, <1>4, OneKind DEF ArriveOK
<1> QED
    BY <1>1, <1>2, <1>5, PrivateStep

\* The number a report puts into list and table, of a truck there is.
LEMMA ReportedStatus ==
    ASSUME TravelInv, NEW w \in DOMAIN workers, w[1].kind \in {"arrive", "idle", "status"}
    PROVE  w[1].truck \in Trucks /\ NewStatus(w[1]) \in 0..3
<1>1. LocalOK(w[1], workers[w])
    BY DEF TravelInv
<1>2. w[1].truck \in Trucks
    BY <1>1 DEF LocalOK, ArriveOK, StatusOK, HasHome
<1>3. w[1].kind = "status" => w[1].extra \in Statuses
    BY <1>1 DEF LocalOK, StatusOK
<1>4. CASE w[1].kind = "arrive"
    BY <1>2, <1>4 DEF NewStatus
<1>5. CASE w[1].kind = "idle"
    BY <1>2, <1>5 DEF NewStatus
<1>6. CASE w[1].kind = "status"
    <2>1. NewStatus(w[1]) = assign_status(w[1].extra)
        BY <1>6 DEF NewStatus
    <2>2. \A s \in Statuses : assign_status(s) \in {0, 1, 2, 3}
        BY DEF assign_status, Statuses
    <2>3. {0, 1, 2, 3} \subseteq 0..3
        OBVIOUS
    <2>4. NewStatus(w[1]) \in {0, 1, 2, 3}
        BY <1>3, <1>6, <2>1, <2>2
    <2> HIDE DEF NewStatus
    <2> QED
        BY <1>2, <2>3, <2>4
<1> QED
    BY <1>4, <1>5, <1>6

\* A worker that goes on within its handler, but for the steps that read something first.
LEMMA OnwardOK ==
    ASSUME NEW m, NEW k, NEW l, LocalOK(m, k), m.kind \in {"arrive", "idle", "status"},
           m.kind = "arrive" => k.pc \in {"table", "list"} /\ l.pc \in {"table", "list", "getships"} /\ l.wh = k.wh
    PROVE  LocalOK(m, l)
<1>1. CASE m.kind = "arrive"
    BY <1>1, OneKind DEF LocalOK, ArriveOK
<1>2. CASE m.kind \in {"idle", "status"}
    BY <1>2, OneKind DEF LocalOK, StatusOK
<1> QED
    BY <1>1, <1>2

LEMMA TableTravels ==
    ASSUME TravelInv, WorkersInv, NEW w \in DOMAIN workers, WriteTable(w)
    PROVE  TravelInv'
<1> DEFINE n == NewStatus(w[1])
           next == IF w[1].kind = "idle" THEN "done" ELSE "list"
<1>1. /\ workers[w].pc = "table" /\ w[1].kind \in {"arrive", "idle", "status"} /\ LocalOK(w[1], workers[w])
      /\ Goto(w, next) /\ accepted' = accepted /\ told' = told /\ PKG' = PKG /\ truckList' = truckList
      /\ TRUCK' = [TRUCK EXCEPT ![w[1].truck] = n]
    BY KindAt DEF TravelInv, WriteTable, At, peers
<1>2. PICK l : workers' = [workers EXCEPT ![w] = l] /\ l.pc = next /\ l.wh = workers[w].wh
    BY <1>1, GoesOn
<1>3. Stable
    BY <1>1, StableIf
<1>4. Tables'
    <2>1. n \in 0..3 /\ TRUCK \in [Trucks -> 0..3]
        BY <1>1, ReportedStatus DEF TravelInv, Tables
    <2> HIDE DEF n
    <2>2. TRUCK' \in [Trucks -> 0..3]
        BY <1>1, <2>1
    <2> QED
        BY <1>1, <2>2 DEF TravelInv, Tables
<1>5. LocalOK(w[1], l)
    BY <1>1, <1>2, OnwardOK
<1>6. LocalOK(w[1], l)'
    BY <1>3, <1>5, StableLocal
<1>7. \A s \in DOMAIN PKG' : PKG'[s].truck = DELIVERED => Sent(s)
    BY <1>1 DEF TravelInv
<1> QED
    BY <1>1, <1>2, <1>3, <1>4, <1>6, <1>7, QuietStep

LEMMA ListTravels ==
    ASSUME TravelInv, WorkersInv, NEW w \in DOMAIN workers, WriteList(w)
    PROVE  TravelInv'
<1> DEFINE n == NewStatus(w[1])
<1>1. /\ workers[w].pc = "list" /\ w[1].kind \in {"arrive", "idle", "status"} /\ LocalOK(w[1], workers[w])
      /\ Goto(w, AfterList(w[1])) /\ accepted' = accepted /\ told' = told /\ PKG' = PKG /\ TRUCK' = TRUCK
      /\ truckList' = [truckList EXCEPT ![w[1].truck].status = n]
    BY KindAt DEF TravelInv, WriteList, At, peers
<1>2. PICK l : workers' = [workers EXCEPT ![w] = l] /\ l.pc = AfterList(w[1]) /\ l.wh = workers[w].wh
    BY <1>1, GoesOn
<1>3. /\ n \in 0..3 /\ w[1].truck \in Trucks
      /\ truckList \in [Trucks -> [status : 0..3, whid : Warehouses \cup {-1}]]
    BY <1>1, ReportedStatus DEF TravelInv, Tables
<1> HIDE DEF n
<1>4. /\ truckList' \in [Trucks -> [status : 0..3, whid : Warehouses \cup {-1}]]
      /\ \A t \in Trucks : truckList'[t].whid = truckList[t].whid
    BY <1>1, <1>3
<1>5. Stable
    BY <1>1, <1>4, StableIf
<1>6. Tables'
    BY <1>1, <1>4 DEF TravelInv, Tables
<1>7. LocalOK(w[1], l)
    BY <1>1, <1>2, OnwardOK DEF AfterList
<1>8. LocalOK(w[1], l)'
    BY <1>5, <1>7, StableLocal
<1>9. \A s \in DOMAIN PKG' : PKG'[s].truck = DELIVERED => Sent(s)
    BY <1>1 DEF TravelInv
<1> QED
    BY <1>1, <1>2, <1>5, <1>6, <1>8, <1>9, QuietStep

LEMMA ShipsTravel ==
    ASSUME TravelInv, WorkersInv, NEW w \in DOMAIN workers, GetShips(w)
    PROVE  TravelInv'
<1>1. /\ DOMAIN workers[w] = Variables /\ workers[w].pc = "getships"
      /\ w[1].kind = "arrive" /\ ArriveOK(w[1], workers[w])
    BY KindAt DEF TravelInv, LocalOK, GetShips, At
<1>2. CASE Terminate
    BY <1>2, TerminateTravels
<1>3. CASE ~Terminate
    <2> DEFINE ships == ShipIDs(workers[w].wh, w[1].truck)
               l == [Keep("tell", w) EXCEPT !.ships = ships]
    <2>1. workers' = [workers EXCEPT ![w] = l] /\ Unmoved
        BY <1>3 DEF GetShips, Assign, Unmoved, peers
    <2>2. l.pc = "tell" /\ l.wh = workers[w].wh /\ l.ships = ships
        BY <1>1 DEF Keep, Variables
    <2>3. w[1].truck \in Trucks /\ workers[w].wh \in Warehouses
        BY <1>1 DEF ArriveOK, HasHome
    <2>4. \A s \in ships : HasTruck(s, w[1].truck) /\ PKG[s].wh = workers[w].wh
        BY <2>3, RowsTruck DEF ShipIDs
    <2> HIDE DEF l, ships
    <2>5. LocalOK(w[1], l)
        BY <1>1, <2>2, <2>3, <2>4, OneKind DEF ArriveOK
    <2> QED
        BY <2>1, <2>5, PrivateStep
<1> QED
    BY <1>2, <1>3

LEMMA MarkTravels ==
    ASSUME TravelInv, WorkersInv, NEW w \in DOMAIN workers, MarkDelivered(w)
    PROVE  TravelInv'
<1>1. w[1].kind = "delivered" /\ MadeOK(w[1], workers[w])
    BY KindAt DEF TravelInv, LocalOK, MarkDelivered, At
<1>2. CASE Terminate
    BY <1>2, TerminateTravels
<1>3. CASE ~Terminate
    <2> DEFINE s == w[1].extra
    <2>1. /\ s \in DOMAIN PKG /\ Goto(w, "tell")
          /\ accepted' = accepted /\ told' = told /\ TRUCK' = TRUCK /\ truckList' = truckList
          /\ PKG' = [PKG EXCEPT ![s].truck = DELIVERED]
        BY <1>3 DEF MarkDelivered, peers
    <2>2. PICK l : workers' = [workers EXCEPT ![w] = l] /\ l.pc = "tell"
        BY <2>1, GoesOn
    <2>3. \A r \in DOMAIN PKG : PKG[r] \in [wh : Warehouses, dest : Dests, truck : Trucks \cup {CREATED, DELIVERED}]
        BY DEF TravelInv, Tables
    <2>4. /\ DOMAIN PKG' = DOMAIN PKG
          /\ \A r \in DOMAIN PKG : /\ PKG'[r].wh = PKG[r].wh
                                   /\ PKG'[r].truck = IF r = s THEN DELIVERED ELSE PKG[r].truck
                                   /\ PKG'[r] \in [wh : Warehouses, dest : Dests, truck : Trucks \cup {CREATED, DELIVERED}]
        BY <2>1, <2>3
    <2> HIDE DEF s
    <2>5. Stable
        BY <2>1, <2>4, StableIf
    <2>6. Tables'
        BY <2>1, <2>4 DEF TravelInv, Tables
    <2>7. MadeOK(w[1], l)'
        BY <1>1, <2>1, <2>4, <2>5, StableSent DEF MadeOK, s
    <2>8. LocalOK(w[1], l)'
        BY <1>1, <2>7 DEF LocalOK, PickupOK, DeliveryOK, ChangeOK, ArriveOK, StatusOK, MadeOK
    <2>9. \A r \in DOMAIN PKG' : PKG'[r].truck = DELIVERED => Sent(r)
        BY <1>1, <2>4 DEF TravelInv, MadeOK, s
    <2> QED
        BY <2>1, <2>2, <2>5, <2>6, <2>8, <2>9, QuietStep
<1> QED
    BY <1>2, <1>3

LEMMA ErrorTravels ==
    ASSUME TravelInv, WorkersInv, NEW w \in DOMAIN workers, handle_UErr(w)
    PROVE  TravelInv'
<1>1. w[1].kind = "error" /\ Unmoved /\ Goto(w, "done")
    BY KindAt DEF handle_UErr, At, Unmoved, peers
<1>2. PICK l : workers' = [workers EXCEPT ![w] = l]
    BY <1>1, GoesOn
<1>3. LocalOK(w[1], l)
    BY <1>1, OneKind
<1> QED
    BY <1>1, <1>2, <1>3, PrivateStep

\* Something is said, and nobody moves.
LEMMA SaidStep ==
    ASSUME TravelInv, UNCHANGED <<truckList, TRUCK, PKG, workers>>,
           accepted \subseteq accepted', told \subseteq told',
           \A c \in accepted' \ accepted :
               \/ c.kind = "pickup" /\ (c.truck = CREATED \/ HasHome(c.truck))
               \/ c.kind = "deliver" /\ HasTruck(c.ship, c.truck) /\ ToldOfTruck(c.ship)
               \/ c.kind = "query" /\ c.truck \in Trucks,
           \A m \in told' \ told : AnswerOK(m)
    PROVE  TravelInv'
<1>1. \A c \in accepted' : c \in accepted \/ c.kind # "deliver" \/ HasTruck(c.ship, c.truck)
    OBVIOUS
<1>2. Stable
    BY <1>1, StableIf
<1>3. \A w \in DOMAIN workers' : LocalOK(w[1], workers[w])'
    <2> SUFFICES ASSUME NEW w \in DOMAIN workers PROVE LocalOK(w[1], workers[w])'
        OBVIOUS
    <2>1. PICK l : l = workers[w] /\ l = workers'[w]
        OBVIOUS
    <2>2. LocalOK(w[1], l)
        BY <2>1 DEF TravelInv
    <2>3. LocalOK(w[1], l)'
        BY <1>2, <2>2, StableLocal
    <2> QED
        BY <2>1, <2>3
<1>4. \A c \in accepted' \ accepted : CommandOK(c)'
    BY <1>2, StableTold DEF Stable, CommandOK
<1>5. \A m \in told' \ told : AnswerOK(m)'
    <2>1. \A s, t, wh : HasTruck(s, t) /\ PKG[s].wh = wh => HasTruck(s, t)' /\ PKG'[s].wh = wh
        BY <1>2 DEF Stable, HasTruck
    <2> QED
        BY <2>1 DEF AnswerOK
<1>6. Tables' /\ \A s \in DOMAIN PKG' : PKG'[s].truck = DELIVERED => Sent(s)'
    BY <1>2, StableSent DEF TravelInv, Tables
<1> QED
    BY <1>2, <1>3, <1>4, <1>5, <1>6, StableSaid DEF TravelInv

LEMMA CommandTravels ==
    ASSUME TravelInv, WorkersInv, NEW w \in DOMAIN workers, SendCommand(w)
    PROVE  TravelInv'
<1>1. /\ workers[w].pc = "send" /\ w[1].kind \in Senders /\ LocalOK(w[1], workers[w])
      /\ told' = told /\ TRUCK' = TRUCK /\ truckList' = truckList /\ PKG' = PKG
    BY KindAt DEF TravelInv, SendCommand, At
<1>2. CASE accepted' = accepted \cup {Command(w)} /\ UNCHANGED workers
    <2>1. CASE w[1].kind = "pickup"
        <3>1. Command(w).kind = "pickup" /\ Command(w).truck = workers[w].truck
            BY <2>1 DEF Command
        <3>2. workers[w].truck = CREATED \/ HasHome(workers[w].truck)
            BY <1>1, <2>1 DEF LocalOK, PickupOK
        <3> QED
            BY <1>1, <1>2, <3>1, <3>2, SaidStep
    <2>2. CASE w[1].kind = "delivery"
        <3>1. Command(w).kind = "deliver" /\ Command(w).truck = workers[w].truck /\ Command(w).ship = w[1].ship
            BY <2>2 DEF Command
        <3>2. HasTruck(w[1].ship, workers[w].truck) /\ ToldOfTruck(w[1].ship)
            BY <1>1, <2>2 DEF LocalOK, DeliveryOK
        <3> QED
            BY <1>1, <1>2, <3>1, <3>2, SaidStep
    <2> QED
        BY <1>1, <2>1, <2>2 DEF Senders
<1>3. CASE Goto(w, "done") /\ UNCHANGED accepted
    <2>1. PICK l : workers' = [workers EXCEPT ![w] = l] /\ l.pc = "done" /\ l.truck = workers[w].truck
        BY <1>3, GoesOn
    <2>2. LocalOK(w[1], l)
        BY <1>1, <2>1, OneKind DEF LocalOK, PickupOK, DeliveryOK, Senders
    <2> QED
        BY <1>1, <1>3, <2>1, <2>2, PrivateStep DEF Unmoved
<1> QED
    BY <1>2, <1>3 DEF SendCommand

LEMMA AnswerTravels ==
    ASSUME TravelInv, WorkersInv, NEW w \in DOMAIN workers, TellAmazon(w)
    PROVE  TravelInv'
<1>1. /\ workers[w].pc = "tell" /\ w[1].kind \in Tellers /\ LocalOK(w[1], workers[w])
      /\ accepted' = accepted /\ TRUCK' = TRUCK /\ truckList' = truckList /\ PKG' = PKG
    BY KindAt DEF TravelInv, TellAmazon, At
<1>2. CASE told' = told \cup Answers(w) /\ UNCHANGED workers
    <2>1. \A m \in Answers(w) : AnswerOK(m)
        <3>1. CASE w[1].kind = "arrive"
            <4>1. \A s \in workers[w].ships : HasTruck(s, w[1].truck) /\ PKG[s].wh = workers[w].wh
                BY <1>1, <3>1 DEF LocalOK, ArriveOK
            <4> QED
                BY <3>1, <4>1 DEF Answers, AnswerOK
        <3>2. CASE w[1].kind = "delivered"
            BY <1>1, <3>2 DEF Answers, AnswerOK, LocalOK, MadeOK
        <3>3. CASE w[1].kind \in {"change", "bind"}
            BY <3>3 DEF Answers, AnswerOK
        <3> QED
            BY <1>1, <3>1, <3>2, <3>3 DEF Tellers
    <2> QED
        BY <1>1, <1>2, <2>1, SaidStep
<1>3. CASE Goto(w, "done") /\ UNCHANGED told
    <2>1. PICK l : /\ workers' = [workers EXCEPT ![w] = l]
                   /\ l.pc = "done" /\ l.wh = workers[w].wh /\ l.ships = workers[w].ships
        BY <1>3, GoesOn
    <2>2. LocalOK(w[1], l)
        BY <1>1, <2>1, OneKind DEF LocalOK, ChangeOK, ArriveOK, MadeOK, Tellers
    <2> QED
        BY <1>1, <1>3, <2>1, <2>2, PrivateStep DEF Unmoved
<1> QED
    BY <1>2, <1>3 DEF TellAmazon

LEMMA QueryTravels ==
    ASSUME TravelInv, NEW t \in Trucks, keep_querying(t)
    PROVE  TravelInv'
<1> DEFINE c == [kind |-> "query", key |-> nextQuery, truck |-> t]
<1>1. /\ UNCHANGED <<truckList, TRUCK, PKG, workers>> /\ told' = told
      /\ accepted' = accepted \cup {c} /\ c.kind = "query" /\ c.truck \in Trucks
    BY DEF keep_querying
<1> HIDE DEF c
<1> QED
    BY <1>1, SaidStep
-----------------------------------------------------------------------------
\* A listener starts a worker whose message says what a handler takes for granted.
LEMMA StartTravels ==
    ASSUME TravelInv, Unmoved, NEW m, Starts(m), LocalOK(m, Fresh(m))
    PROVE  TravelInv'
<1>1. CASE UNCHANGED workers
    BY <1>1, NoStep
<1>2. CASE Spawn(m)
    <2> DEFINE new == <<m, Cardinality(Copies(m)) + 1>>
    <2>1. /\ workers' = [v \in DOMAIN workers \cup {new} |-> IF v = new THEN Fresh(m) ELSE workers[v]]
          /\ new[1] = m
        BY <1>2 DEF Spawn
    <2> HIDE DEF new
    <2>2. \A w \in DOMAIN workers' : LocalOK(w[1], workers[w])'
        <3> SUFFICES ASSUME NEW w \in DOMAIN workers' PROVE LocalOK(w[1], workers[w])'
            OBVIOUS
        <3>1. PICK l : l = workers'[w]
            OBVIOUS
        <3>2. LocalOK(w[1], l)
            <4>1. CASE w = new
                BY <2>1, <3>1, <4>1
            <4>2. CASE w # new
                BY <2>1, <3>1, <4>2 DEF TravelInv
            <4> QED
                BY <4>1, <4>2
        <3>3. LocalOK(w[1], l)'
            BY <3>2, StableLocal, UnmovedStable
        <3> QED
            BY <3>1, <3>3
    <2> QED
        BY <2>2, StableSaid, UnmovedStable DEF TravelInv, Unmoved
<1> QED
    BY <1>1, <1>2 DEF Starts

LEMMA AsksTravel ==
    ASSUME TravelInv, OnceInv, NEW r \in asks, handle_AUrequests(r)
    PROVE  TravelInv'
<1>1. /\ Starts(r) /\ r.kind \in {"pickup", "delivery", "change", "bind"} /\ r \in Requests
      /\ MayAsk(r) /\ Unmoved
    BY AmazonStarts DEF OnceInv, handle_AUrequests, Unmoved, peers
<1>2. Fresh(r).pc = FirstStep(r)
    BY DEF Fresh
<1>3. CASE r.kind = "pickup"
    BY <1>1, <1>2, <1>3, OneKind, StartTravels DEF PickupOK, FirstStep, Ships, Warehouses, Dests
<1>4. CASE r.kind = "delivery"
    BY <1>1, <1>2, <1>4, OneKind, StartTravels DEF DeliveryOK, FirstStep, MayAsk
<1>5. CASE r.kind = "change"
    BY <1>1, <1>5, OneKind, StartTravels DEF ChangeOK, MayAsk, Dests
<1>6. CASE r.kind = "bind"
    BY <1>1, <1>6, OneKind, StartTravels
<1> QED
    BY <1>1, <1>3, <1>4, <1>5, <1>6

\* What a report says is so.
LEMMA ReportTrue ==
    ASSUME TravelInv, NEW c \in accepted, NEW m \in ReportsOn(c), m.kind # "error"
    PROVE  /\ m.truck = c.truck /\ c.truck \in Trucks
           /\ m.kind = "arrive" => c.kind = "pickup" /\ m = Report("arrive", c.truck, c.key, "")
           /\ m.kind = "delivered" => c.kind = "deliver" /\ m.extra = c.ship
           /\ m.kind = "status" => m.extra \in Statuses
<1>1. c.kind \in {"pickup", "deliver", "query"}
    BY DEF TravelInv, CommandOK
<1>2. c.truck \in Trucks
    <2> SUFFICES ASSUME c.truck \notin Trucks PROVE FALSE
        OBVIOUS
    <2>1. m = Report("error", c.truck, c.key, "")
        BY DEF ReportsOn
    <2>2. m.kind = "error"
        BY <2>1 DEF Report
    <2> QED
        BY <2>2
<1>3. CASE c.kind = "pickup"
    <2>1. m = Report("arrive", c.truck, c.key, "")
        BY <1>2, <1>3 DEF ReportsOn
    <2>2. m.kind = "arrive" /\ m.truck = c.truck
        BY <2>1 DEF Report
    <2> QED
        BY <1>2, <1>3, <2>1, <2>2
<1>4. CASE c.kind = "deliver"
    <2>1. m = Report("delivered", c.truck, c.key, c.ship) \/ m = Report("idle", c.truck, c.key, "")
        BY <1>2, <1>4 DEF ReportsOn
    <2>2. CASE m = Report("delivered", c.truck, c.key, c.ship)
        <3>1. m.kind = "delivered" /\ m.truck = c.truck /\ m.extra = c.ship
            BY <2>2 DEF Report
        <3> QED
            BY <1>2, <1>4, <3>1
    <2>3. CASE m = Report("idle", c.truck, c.key, "")
        <3>1. m.kind = "idle" /\ m.truck = c.truck
            BY <2>3 DEF Report
        <3> QED
            BY <1>2, <1>4, <3>1
    <2> QED
        BY <2>1, <2>2, <2>3
<1>5. CASE c.kind = "query"
    <2>1. PICK s \in Doing(c.truck) : m = Report("status", c.truck, c.key, s)
        BY <1>2, <1>5 DEF ReportsOn
    <2>2. s \in Statuses
        BY <2>1 DEF Doing, Statuses
    <2>3. m.kind = "status" /\ m.truck = c.truck /\ m.extra = s
        BY <2>1 DEF Report
    <2> QED
        BY <1>2, <1>5, <2>2, <2>3
<1> QED
    BY <1>1, <1>3, <1>4, <1>5

LEMMA ReportsTravel ==
    ASSUME TravelInv, NEW c \in accepted, NEW m \in ReportsOn(c), handle_WUrequests(m)
    PROVE  TravelInv'
<1>1. /\ Starts(m) /\ m.kind \in {"arrive", "idle", "delivered", "status", "error"} /\ Unmoved
    BY WorldStarts DEF handle_WUrequests, Unmoved, peers
<1>2. Fresh(m).pc = FirstStep(m)
    BY DEF Fresh
<1>3. CASE m.kind = "arrive"
    <2>1. HasHome(m.truck)
        BY <1>3, ReportTrue, NoNumbers DEF TravelInv, CommandOK
    <2> QED
        BY <1>1, <1>2, <1>3, <2>1, OneKind, StartTravels DEF ArriveOK, FirstStep
<1>4. CASE m.kind \in {"idle", "status"}
    <2>1. m.truck \in Trucks /\ (m.kind = "status" => m.extra \in Statuses)
        BY <1>4, ReportTrue
    <2> QED
        BY <1>1, <1>4, <2>1, OneKind, StartTravels DEF StatusOK
<1>5. CASE m.kind = "delivered"
    <2>1. Sent(m.extra)
        BY <1>5, ReportTrue DEF Sent
    <2> QED
        BY <1>1, <1>2, <1>5, <2>1, OneKind, StartTravels DEF MadeOK, FirstStep
<1>6. CASE m.kind = "error"
    BY <1>1, <1>6, OneKind, StartTravels
<1> QED
    BY <1>1, <1>3, <1>4, <1>5, <1>6
-----------------------------------------------------------------------------
LEMMA TravelStep == TravelInv /\ WorkersInv /\ OnceInv /\ [Next]_vars => TravelInv'
<1> SUFFICES ASSUME TravelInv, WorkersInv, OnceInv, [Next]_vars PROVE TravelInv'
    OBVIOUS
<1>1. ASSUME NEW r \in asks, handle_AUrequests(r) PROVE TravelInv'
    BY <1>1, AsksTravel
<1>2. ASSUME NEW c \in accepted, NEW m \in ReportsOn(c), handle_WUrequests(m) PROVE TravelInv'
    BY <1>2, ReportsTravel
<1>3. ASSUME NEW w \in DOMAIN workers, Step(w) PROVE TravelInv'
    BY <1>3, ScanTravels, TakeTravels, RecordTravels, InsertTravels, DestinationTravels, ReadTruckTravels,
       CommandTravels, CheckTravels, ChangeTravels, WarehouseTravels, TableTravels, ListTravels, ShipsTravel,
       MarkTravels, ErrorTravels, AnswerTravels DEF Step
<1>4. CASE UNCHANGED vars
    BY <1>4, NoStep DEF vars, server, peers, Unmoved
<1>5. ASSUME NEW m \in told, AmazonAcks(m) PROVE TravelInv'
    BY <1>5, NoStep DEF AmazonAcks, peers, Unmoved
<1>6. CASE handle_disconnect_world \/ handle_disconnect_amazon
    BY <1>6, NoStep DEF handle_disconnect_world, handle_disconnect_amazon, peers, Unmoved
<1>7. ASSUME NEW c \in accepted, WorldAcks(c) PROVE TravelInv'
    BY <1>7, NoStep DEF WorldAcks, peers, Unmoved
<1>8. ASSUME NEW t \in Trucks, keep_querying(t) PROVE TravelInv'
    BY <1>8, QueryTravels
<1> QED
    BY <1>1, <1>2, <1>3, <1>4, <1>5, <1>6, <1>7, <1>8 DEF Next

LEMMA TravelInit == Init => TravelInv
<1> SUFFICES ASSUME Init PROVE TravelInv
    OBVIOUS
<1>1. 0 \in 0..3
    OBVIOUS
<1>2. Tables
    BY <1>1 DEF Init, Tables
<1> QED
    BY <1>2 DEF Init, TravelInv

LEMMA Travels == Spec => [](TravelInv /\ WorkersInv /\ OnceInv)
<1>1. Init => OnceInv /\ WorkersInv
    BY DEF Init, OnceInv, Requests, WorkersInv
<1> QED
    BY <1>1, TravelInit, TravelStep, OnceStep, WorkersStep, PTL DEF Spec
-----------------------------------------------------------------------------
(* Types                                                                    *)

\* The numbers of the world's reports are numbers.
ReportsNumbered == \A m \in received : m \notin Requests => WorldSeq(m) \in Nat

NumbersInv ==
    /\ phase \in {"up", "closing", "ended", "crashed"}
    /\ nextQuery \in Nat
    /\ \A n \in DOMAIN ackedA : n \in Nat /\ ackedA[n] \in BOOLEAN
    /\ \A n \in DOMAIN ackedW : n \in Nat /\ ackedW[n] \in BOOLEAN
    /\ \A c \in accepted : c.key \in Nat
    /\ \A m \in told : m.key \in Nat
    /\ \A m \in received : m.kind \in Kinds

LEMMA PutTyped ==
    ASSUME NEW f, \A n \in DOMAIN f : n \in Nat /\ f[n] \in BOOLEAN, NEW k \in Nat, NEW b \in BOOLEAN
    PROVE  \A n \in DOMAIN Put(f, k, b) : n \in Nat /\ Put(f, k, b)[n] \in BOOLEAN
BY DEF Put

\* A worker's number, and that of a failed command's report.
LEMMA KeysAreNumbers ==
    ASSUME ReportsNumbered, \A m \in received : m.kind \in Kinds, NEW m \in received
    PROVE  Key(m) \in Nat /\ (m.kind = "error" => WorldSeq(m) \in Nat)
<1>1. CASE m \in Requests
    <2>1. m.kind # "disconnect"
        BY DEF Kinds
    <2>2. m.seq \in Nat /\ m.kind # "error"
        BY <1>1, <2>1, UpsAssumption
    <2> QED
        BY <1>1, <2>2 DEF Key
<1>2. CASE m \notin Requests
    BY <1>2 DEF ReportsNumbered, Key
<1> QED
    BY <1>1, <1>2

LEMMA NumbersStep ==
    NumbersInv /\ WorkersInv /\ OnceInv /\ ReportsNumbered /\ ReportsNumbered' /\ [Next]_vars => NumbersInv'
<1> SUFFICES ASSUME NumbersInv, WorkersInv, OnceInv, ReportsNumbered, ReportsNumbered', [Next]_vars PROVE NumbersInv'
    OBVIOUS
<1> USE DEF NumbersInv
<1>1. ASSUME NEW r \in asks, handle_AUrequests(r) PROVE NumbersInv'
    <2>1. r.kind \in Kinds /\ received' = received \cup {r}
        BY <1>1, AmazonStarts DEF Kinds, Starts
    <2>2. \A m \in received' : m.kind \in Kinds
        BY <2>1
    <2>3. Key(r) \in Nat
        <3>1. r \in Requests
            BY DEF OnceInv
        <3> QED
            BY <1>1, <3>1, UpsAssumption DEF Key, handle_AUrequests
    <2>4. /\ ackedA' = ackedA \/ ackedA' = Put(ackedA, Key(r), FALSE)
          /\ ackedW' = ackedW \/ ackedW' = Put(ackedW, Key(r), FALSE)
          /\ UNCHANGED <<phase, nextQuery, accepted, told>>
        BY <1>1 DEF handle_AUrequests, AcceptForWorld, AcceptForAmazon, peers
    <2> QED
        BY <2>2, <2>3, <2>4, PutTyped
<1>2. ASSUME NEW c \in accepted, NEW m \in ReportsOn(c), handle_WUrequests(m) PROVE NumbersInv'
    <2>1. m.kind \in {"arrive", "idle", "delivered", "status", "error"} /\ received' = received \cup {m}
        BY <1>2, WorldStarts DEF Starts
    <2>2. \A n \in received' : n.kind \in Kinds
        BY <2>1 DEF Kinds
    <2>3. m \notin Requests
        BY <2>1, UpsAssumption
    <2>4. WorldSeq(m) \in Nat /\ Key(m) \in Nat
        BY <2>1, <2>3 DEF ReportsNumbered, Key
    <2>5. /\ ackedA' \in {ackedA, Put(ackedA, Key(m), FALSE), Put(ackedA, WorldSeq(m), FALSE)}
          /\ ackedW' = ackedW
          /\ UNCHANGED <<phase, nextQuery, accepted, told>>
        BY <1>2 DEF handle_WUrequests, AcceptForAmazon, AcceptStatus, AcceptError, peers
    <2> QED
        BY <2>2, <2>4, <2>5, PutTyped
<1>3. ASSUME NEW w \in DOMAIN workers, Step(w) PROVE NumbersInv'
    <2>1. received' = received /\ w[1] \in received
        BY <1>3, StepGrows DEF WorkersInv
    <2>2. Key(w[1]) \in Nat
        BY <2>1, KeysAreNumbers
    <2>3. CASE SendCommand(w)
        <3>1. Command(w).key = Key(w[1])
            BY DEF Command
        <3> QED
            BY <2>1, <2>2, <2>3, <3>1 DEF SendCommand
    <2>4. CASE TellAmazon(w)
        <3>1. w[1].kind \in Tellers
            BY <2>4, SendersSend
        <3>2. \A m \in Answers(w) : m.key = Key(w[1])
            BY <3>1 DEF Answers, Tellers
        <3> QED
            BY <2>1, <2>2, <2>4, <3>2 DEF TellAmazon
    <2>5. CASE handle_UErr(w)
        <3>1. w[1].kind = "error"
            BY <2>5, KindAt DEF handle_UErr, At
        <3>2. WorldSeq(w[1]) \in Nat
            BY <2>1, <3>1, KeysAreNumbers
        <3> QED
            BY <2>1, <2>5, <3>2, PutTyped DEF handle_UErr, peers
    <2>6. CASE ~SendCommand(w) /\ ~TellAmazon(w) /\ ~handle_UErr(w)
        <3>1. UNCHANGED <<ackedA, ackedW, nextQuery, accepted, told>> /\ phase' \in {phase, "crashed"}
            BY <1>3, <2>6 DEF Step, ScanTrucks, TakeTruck, RecordTruck, InsertPackage, ReadDestination, ReadTruck,
               CheckChange, ChangeDestination, ReadWarehouse, WriteTable, WriteList, GetShips, MarkDelivered,
               Terminate, peers
        <3> QED
            BY <2>1, <3>1
    <2> QED
        BY <2>3, <2>4, <2>5, <2>6
<1>4. CASE UNCHANGED vars
    BY <1>4 DEF vars, server, peers
<1>5. ASSUME NEW m \in told, AmazonAcks(m) PROVE NumbersInv'
    BY <1>5, PutTyped DEF AmazonAcks, peers
<1>6. CASE handle_disconnect_world \/ handle_disconnect_amazon
    BY <1>6 DEF handle_disconnect_world, handle_disconnect_amazon, peers
<1>7. ASSUME NEW c \in accepted, WorldAcks(c) PROVE NumbersInv'
    BY <1>7, PutTyped DEF WorldAcks, peers
<1>8. ASSUME NEW t \in Trucks, keep_querying(t) PROVE NumbersInv'
    <2> DEFINE c == [kind |-> "query", key |-> nextQuery, truck |-> t]
    <2>1. /\ accepted' = accepted \cup {c} /\ c.key = nextQuery /\ nextQuery' = nextQuery + 1
          /\ ackedW' = Put(ackedW, nextQuery, FALSE) /\ UNCHANGED <<phase, ackedA, told, received>>
        BY <1>8 DEF keep_querying
    <2> HIDE DEF c
    <2>2. nextQuery \in Nat /\ nextQuery + 1 \in Nat
        OBVIOUS
    <2>3. \A d \in accepted' : d.key \in Nat
        BY <2>1, <2>2
    <2>4. \A n \in DOMAIN ackedW' : n \in Nat /\ ackedW'[n] \in BOOLEAN
        BY <2>1, <2>2, PutTyped
    <2> QED
        BY <2>1, <2>2, <2>3, <2>4
<1> QED
    BY <1>1, <1>2, <1>3, <1>4, <1>5, <1>6, <1>7, <1>8 DEF Next

\* Tables, maps and workers keep their types, for any requests and trucks, if the world's
\* reports bear numbers.
THEOREM Typed == Spec /\ []ReportsNumbered => []TypeOK
<1>1. Init => NumbersInv
    BY UpsAssumption DEF Init, NumbersInv, EmptyMap
<1>2. \A kind \in Kinds : StepsOf(kind) \subseteq Steps
    BY DEF Kinds, StepsOf, Steps
<1>3. NumbersInv /\ TravelInv /\ WorkersInv => TypeOK
    BY <1>2 DEF NumbersInv, TravelInv, Tables, WorkersInv, TypeOK
<1> QED
    BY <1>1, <1>3, NumbersStep, Travels, PTL DEF Spec
-----------------------------------------------------------------------------
(* Up                                                                       *)

\* Requests come from Amazon's list, commands to a truck from a worker that has not changed since.
SourceInv ==
    /\ asks \in Scenarios
    /\ \A w \in DOMAIN workers : w[1].kind \in Senders => w[1] \in asks
    /\ \A c \in accepted : c.kind = "query" \/ \E w \in DOMAIN workers : SentBy(c, w)

\* The kinds of commands are those of the workers that send them.
LEMMA SentKinds ==
    ASSUME NEW c, NEW w, SentBy(c, w)
    PROVE  /\ c.kind = "pickup" => w[1].kind = "pickup" /\ c.truck = workers[w].truck /\ c.wh = w[1].wh
           /\ c.kind = "deliver" => w[1].kind = "delivery" /\ c.truck = workers[w].truck /\ c.ship = w[1].ship
           /\ c.kind # "query"
<1>1. CASE w[1].kind = "pickup"
    BY <1>1 DEF SentBy, Command
<1>2. CASE w[1].kind = "delivery"
    BY <1>2 DEF SentBy, Command
<1> QED
    BY <1>1, <1>2 DEF SentBy, Senders

\* A worker in its loop or past it sends what it has sent.
LEMMA SentStays ==
    ASSUME WorkersInv, OnceInv, [Next]_vars, NEW c, NEW v \in DOMAIN workers, SentBy(c, v)
    PROVE  v \in DOMAIN workers' /\ SentBy(c, v)'
<1>1. ASSUME v \in DOMAIN workers', workers'[v] = workers[v] PROVE SentBy(c, v)'
    BY <1>1 DEF SentBy, Command
<1>2. ASSUME NEW m, Starts(m) PROVE v \in DOMAIN workers' /\ workers'[v] = workers[v]
    <2>1. CASE UNCHANGED workers
        BY <2>1
    <2>2. CASE Spawn(m) /\ (m.kind = "status" \/ (~Remembered(m) /\ Remembered(m)'))
        <3> DEFINE new == <<m, Cardinality(Copies(m)) + 1>>
        <3>1. /\ workers' = [u \in DOMAIN workers \cup {new} |-> IF u = new THEN Fresh(m) ELSE workers[u]]
              /\ new[1] = m
            BY <2>2 DEF Spawn
        <3> HIDE DEF new
        <3>2. v # new
            BY <2>2, <3>1 DEF OnceInv, SentBy, Senders
        <3> QED
            BY <3>1, <3>2
    <2> QED
        BY <1>2, <2>1, <2>2 DEF Starts
<1>3. CASE \E r \in asks : handle_AUrequests(r)
    BY <1>1, <1>2, <1>3, AmazonStarts
<1>4. CASE \E d \in accepted : \E m \in ReportsOn(d) : handle_WUrequests(m)
    BY <1>1, <1>2, <1>4, WorldStarts
<1>5. ASSUME NEW w \in DOMAIN workers, Step(w) PROVE v \in DOMAIN workers' /\ SentBy(c, v)'
    <2>1. CASE SendCommand(w) \/ TellAmazon(w)
        <3>1. v \in DOMAIN workers' /\ Command(v)' = Command(v)
            BY <2>1, LoopSteps, LastWords
        <3>2. workers'[v].pc \in {workers[v].pc, "done"}
            BY <2>1, LoopSteps
        <3> QED
            BY <3>1, <3>2 DEF SentBy
    <2>2. CASE ~SendCommand(w) /\ ~TellAmazon(w)
        <3>1. Quiet(w)
            BY <1>5, <2>2, QuietSteps
        <3>2. v \in DOMAIN workers' /\ workers'[v] = workers[v]
            BY <3>1 DEF Quiet, SentBy
        <3> QED
            BY <1>1, <3>2
    <2> QED
        BY <2>1, <2>2
<1>6. CASE workers' = workers
    BY <1>1, <1>6
<1>7. CASE UNCHANGED vars \/ handle_disconnect_world \/ handle_disconnect_amazon
    BY <1>6, <1>7 DEF vars, server, handle_disconnect_world, handle_disconnect_amazon
<1>8. CASE \/ \E m \in told : AmazonAcks(m)
           \/ \E d \in accepted : WorldAcks(d)
           \/ \E t \in Trucks : keep_querying(t)
    BY <1>6, <1>8 DEF AmazonAcks, WorldAcks, keep_querying
<1> QED
    BY <1>3, <1>4, <1>5, <1>7, <1>8 DEF Next

\* Whatever the world newly has is a query or what a worker sends.
LEMMA NewCommands ==
    ASSUME WorkersInv, [Next]_vars, NEW c \in accepted' \ accepted
    PROVE  c.kind = "query" \/ \E w \in DOMAIN workers : SentBy(c, w)
<1>1. CASE UNCHANGED accepted
    BY <1>1
<1>2. ASSUME NEW w \in DOMAIN workers, SendCommand(w)
      PROVE  c.kind = "query" \/ \E v \in DOMAIN workers : SentBy(c, v)
    <2>1. c = Command(w) /\ workers[w].pc = "send"
        BY <1>2 DEF SendCommand, At
    <2>2. w[1].kind \in Senders
        BY <1>2, SendersSend
    <2> QED
        BY <2>1, <2>2 DEF SentBy
<1>3. ASSUME NEW w \in DOMAIN workers, Step(w), ~SendCommand(w) PROVE UNCHANGED accepted
    <2>1. CASE TellAmazon(w)
        BY <2>1 DEF TellAmazon
    <2>2. CASE ~TellAmazon(w)
        BY <1>3, <2>2, QuietSteps DEF Quiet
    <2> QED
        BY <2>1, <2>2
<1>4. ASSUME NEW t \in Trucks, keep_querying(t) PROVE c.kind = "query"
    BY <1>4 DEF keep_querying
<1>5. CASE UNCHANGED vars \/ handle_disconnect_world \/ handle_disconnect_amazon
    BY <1>1, <1>5 DEF vars, peers, handle_disconnect_world, handle_disconnect_amazon
<1>6. CASE \/ \E r \in asks : handle_AUrequests(r)
           \/ \E m \in told : AmazonAcks(m)
           \/ \E d \in accepted : WorldAcks(d)
           \/ \E d \in accepted : \E m \in ReportsOn(d) : handle_WUrequests(m)
    BY <1>1, <1>6 DEF handle_AUrequests, AmazonAcks, WorldAcks, handle_WUrequests, peers
<1> QED
    BY <1>1, <1>2, <1>3, <1>4, <1>5, <1>6 DEF Next

\* Where a new worker comes from.
LEMMA NewSources ==
    ASSUME OnceInv, WorkersInv, [Next]_vars, NEW w \in DOMAIN workers', w \notin DOMAIN workers
    PROVE  w[1] \in asks \/ \E c \in accepted : w[1] \in ReportsOn(c) /\ w[1].kind \notin Senders
<1>1. ASSUME NEW m, Starts(m) PROVE w[1] = m
    BY <1>1 DEF Starts, Spawn
<1>2. ASSUME NEW r \in asks, handle_AUrequests(r) PROVE w[1] \in asks
    BY <1>1, <1>2, AmazonStarts
<1>3. ASSUME NEW c \in accepted, NEW m \in ReportsOn(c), handle_WUrequests(m)
      PROVE  w[1] \in ReportsOn(c) /\ w[1].kind \notin Senders
    BY <1>1, <1>3, WorldStarts DEF Senders
<1> QED
    BY <1>2, <1>3, OthersGrow

LEMMA SourceStep == SourceInv /\ WorkersInv /\ OnceInv /\ [Next]_vars => SourceInv'
<1> SUFFICES ASSUME SourceInv, WorkersInv, OnceInv, [Next]_vars PROVE SourceInv'
    OBVIOUS
<1>1. asks' = asks
    BY AmazonStarts, WorldStarts, OthersGrow DEF Starts, Grows
<1>2. \A w \in DOMAIN workers' : w[1].kind \in Senders => w[1] \in asks
    BY NewSources DEF SourceInv
<1>3. \A c \in accepted : c.kind = "query" \/ \E w \in DOMAIN workers' : SentBy(c, w)'
    BY SentStays DEF SourceInv
<1>4. \A c \in accepted' \ accepted : c.kind = "query" \/ \E w \in DOMAIN workers' : SentBy(c, w)'
    BY NewCommands, SentStays
<1> QED
    BY <1>1, <1>2, <1>3, <1>4 DEF SourceInv

LEMMA Sources == Spec => []SourceInv
<1>1. Init => SourceInv
    BY DEF Init, SourceInv
<1>2. Spec => [](OnceInv /\ WorkersInv)
    BY Travels, PTL
<1> QED
    BY <1>1, <1>2, SourceStep, PTL DEF Spec

\* Amazon asks for the delivery of a package once.
OneDelivery ==
    \A a \in Scenarios : \A q, r \in a : q.kind = "delivery" /\ r.kind = "delivery" /\ q.ship = r.ship => q = r

\* While a delivery's worker has not sent its command the package is not out.
LEMMA NotOut ==
    ASSUME OneDelivery, SourceInv, WorkersInv, OnceInv,
           NEW w \in DOMAIN workers, w[1].kind = "delivery", workers[w].pc \in {"readdest", "readtruck"}
    PROVE  ~Sent(w[1].ship)
<1> SUFFICES ASSUME NEW c \in accepted, c.kind = "deliver", c.ship = w[1].ship PROVE FALSE
    BY DEF Sent
<1>1. PICK v \in DOMAIN workers : SentBy(c, v)
    BY DEF SourceInv
<1>2. v[1].kind = "delivery" /\ v[1].ship = w[1].ship
    BY <1>1, SentKinds
<1>3. v[1] = w[1]
    BY <1>2 DEF SourceInv, OneDelivery, Senders
<1>4. v[2] = 1 /\ w[2] = 1
    BY <1>2 DEF OnceInv
<1>5. v = w
    BY <1>3, <1>4 DEF WorkersInv
<1> QED
    BY <1>1, <1>5 DEF SentBy

LEMMA NoThrow ==
    ASSUME OneDelivery, TravelInv, SourceInv, WorkersInv, OnceInv, NEW w \in DOMAIN workers, Step(w)
    PROVE  phase' = phase
<1>0. LocalOK(w[1], workers[w]) /\ DOMAIN workers[w] = Variables
    BY DEF TravelInv, WorkersInv
<1>1. CASE ReadDestination(w)
    <2>1. ToldOfTruck(w[1].ship)
        BY <1>0, <1>1, KindAt DEF ReadDestination, At, LocalOK, DeliveryOK
    <2>2. w[1].ship \in DOMAIN PKG
        BY <2>1, ToldHasRow
    <2> QED
        BY <1>1, <2>2 DEF ReadDestination
<1>2. CASE ReadTruck(w)
    <2>1. w[1].kind = "delivery" /\ workers[w].pc = "readtruck"
        BY <1>2, KindAt DEF ReadTruck, At
    <2>2. PICK t : HasTruck(w[1].ship, t)
        BY <1>0, <2>1, ToldHasRow DEF LocalOK, DeliveryOK
    <2>3. PKG[w[1].ship].truck # DELIVERED
        BY <2>1, <2>2, NotOut DEF TravelInv, HasTruck
    <2>4. PKG[w[1].ship].truck \in Trucks
        BY <2>2, <2>3 DEF HasTruck
    <2> QED
        BY <1>2, <2>4 DEF ReadTruck
<1>3. CASE CheckChange(w)
    <2>1. ToldOfTruck(w[1].ship)
        BY <1>0, <1>3, KindAt DEF CheckChange, At, LocalOK, ChangeOK
    <2>2. w[1].ship \in DOMAIN PKG
        BY <2>1, ToldHasRow
    <2> QED
        BY <1>3, <2>2 DEF CheckChange
<1>4. CASE GetShips(w)
    <2>1. workers[w].wh \in Warehouses
        BY <1>0, <1>4, KindAt DEF GetShips, At, LocalOK, ArriveOK
    <2>2. workers[w].wh \in Nat
        BY <2>1, UpsAssumption
    <2>3. ~(workers[w].wh < 0)
        BY <2>2
    <2> DEFINE wh == workers[w].wh
    <2>4. wh < 0 \/ phase' = phase
        BY <1>4 DEF GetShips
    <2> QED
        BY <2>3, <2>4
<1>5. CASE MarkDelivered(w)
    <2>1. Sent(w[1].extra)
        BY <1>0, <1>5, KindAt DEF MarkDelivered, At, LocalOK, MadeOK
    <2>2. PICK c \in accepted : c.kind = "deliver" /\ c.ship = w[1].extra
        BY <2>1 DEF Sent
    <2>3. w[1].extra \in DOMAIN PKG
        BY <2>2 DEF TravelInv, CommandOK, HasTruck
    <2> QED
        BY <1>5, <2>3 DEF MarkDelivered
<1>6. CASE ScanTrucks(w) \/ TakeTruck(w) \/ RecordTruck(w) \/ InsertPackage(w) \/ SendCommand(w) \/ ChangeDestination(w)
    BY <1>6 DEF ScanTrucks, TakeTruck, RecordTruck, InsertPackage, SendCommand, ChangeDestination
<1>7. CASE ReadWarehouse(w) \/ WriteTable(w) \/ WriteList(w) \/ handle_UErr(w) \/ TellAmazon(w)
    BY <1>7 DEF ReadWarehouse, WriteTable, WriteList, handle_UErr, TellAmazon
<1> QED
    BY <1>1, <1>2, <1>3, <1>4, <1>5, <1>6, <1>7 DEF Step

LEMMA StaysUpStep ==
    ASSUME OneDelivery, TravelInv, SourceInv, WorkersInv, OnceInv, StaysUp, [Next]_vars
    PROVE  StaysUp'
<1> USE DEF StaysUp
<1>1. ASSUME NEW w \in DOMAIN workers, Step(w) PROVE StaysUp'
    BY <1>1, NoThrow
<1>2. CASE UNCHANGED vars \/ handle_disconnect_world \/ handle_disconnect_amazon
    BY <1>2 DEF vars, server, handle_disconnect_world, handle_disconnect_amazon
<1>3. CASE \/ \E r \in asks : handle_AUrequests(r)
           \/ \E m \in told : AmazonAcks(m)
           \/ \E c \in accepted : WorldAcks(c)
           \/ \E c \in accepted : \E m \in ReportsOn(c) : handle_WUrequests(m)
           \/ \E t \in Trucks : keep_querying(t)
    BY <1>3 DEF handle_AUrequests, AmazonAcks, WorldAcks, handle_WUrequests, keep_querying
<1> QED
    BY <1>1, <1>2, <1>3 DEF Next

\* No handler throws, for any requests and trucks, as long as Amazon asks for a package's
\* delivery once, and for that or another destination only after it has been told of the truck.
THEOREM NeverThrows ==
    ASSUME OneDelivery
    PROVE  Spec => []StaysUp
<1>1. Init => StaysUp
    BY DEF Init, StaysUp
<1>2. TravelInv /\ SourceInv /\ WorkersInv /\ OnceInv /\ StaysUp /\ [Next]_vars => StaysUp'
    BY StaysUpStep
<1> QED
    BY <1>1, <1>2, Travels, Sources, PTL DEF Spec
-----------------------------------------------------------------------------
(* The right truck                                                          *)

\* No truck is sent to two warehouses.
Past == {"record", "insert", "send", "done"}
Taken(w, t) == w[1].kind = "pickup" /\ workers[w].pc \in Past /\ workers[w].truck = t
TrucksApart ==
    \A t \in Trucks : \A v, w \in DOMAIN workers : Taken(v, t) /\ Taken(w, t) => v[1].wh = w[1].wh

\* A truck that was taken stands for the warehouse it was taken for.
HomeInv == \A t \in Trucks : \A w \in DOMAIN workers : Taken(w, t) => truckList[t].whid = w[1].wh

LEMMA HomeKept ==
    ASSUME HomeInv, \A t \in Trucks : truckList'[t].whid = truckList[t].whid,
           \A t \in Trucks : \A v \in DOMAIN workers' : Taken(v, t)' => v \in DOMAIN workers /\ Taken(v, t)
    PROVE  HomeInv'
BY DEF HomeInv

\* The list's homes change where a truck is taken, and nowhere else.
LEMMA HomesStay ==
    ASSUME TravelInv, WorkersInv, [Next]_vars, ~(\E w \in DOMAIN workers : TakeTruck(w)), NEW t \in Trucks
    PROVE  truckList'[t].whid = truckList[t].whid
<1>1. CASE truckList' = truckList
    BY <1>1
<1>2. ASSUME NEW w \in DOMAIN workers, WriteList(w) PROVE truckList'[t].whid = truckList[t].whid
    BY <1>2 DEF WriteList, TravelInv, Tables
<1>3. ASSUME NEW w \in DOMAIN workers, Step(w), ~WriteList(w) PROVE truckList' = truckList
    BY <1>3 DEF Step, ScanTrucks, TakeTruck, RecordTruck, InsertPackage, ReadDestination, ReadTruck, SendCommand,
       CheckChange, ChangeDestination, ReadWarehouse, WriteTable, GetShips, MarkDelivered, handle_UErr, TellAmazon,
       Terminate
<1>4. CASE UNCHANGED vars \/ handle_disconnect_world \/ handle_disconnect_amazon
    BY <1>1, <1>4 DEF vars, server, handle_disconnect_world, handle_disconnect_amazon
<1>5. CASE \/ \E r \in asks : handle_AUrequests(r)
           \/ \E m \in told : AmazonAcks(m)
           \/ \E c \in accepted : WorldAcks(c)
           \/ \E c \in accepted : \E m \in ReportsOn(c) : handle_WUrequests(m)
           \/ \E u \in Trucks : keep_querying(u)
    BY <1>1, <1>5 DEF handle_AUrequests, AmazonAcks, WorldAcks, handle_WUrequests, keep_querying
<1> QED
    BY <1>1, <1>2, <1>3, <1>4, <1>5 DEF Next

\* What the workers of a step's other handlers know stays, and a new one knows nothing.
LEMMA OthersKept ==
    ASSUME WorkersInv, OnceInv, [Next]_vars, NEW v \in DOMAIN workers',
           ~(\E w \in DOMAIN workers : w = v /\ Step(w))
    PROVE  \/ v \in DOMAIN workers /\ workers'[v] = workers[v]
           \/ /\ workers'[v].pc = FirstStep(v[1])
              /\ \/ v[1] \in asks /\ v[1].kind \in {"pickup", "delivery", "change", "bind"}
                 \/ \E c \in accepted : v[1] \in ReportsOn(c) /\ handle_WUrequests(v[1])
<1>1. ASSUME NEW m, Starts(m)
      PROVE  \/ v \in DOMAIN workers /\ workers'[v] = workers[v]
             \/ v[1] = m /\ workers'[v].pc = FirstStep(m)
    <2>1. CASE UNCHANGED workers
        BY <2>1
    <2>2. CASE Spawn(m)
        <3> DEFINE new == <<m, Cardinality(Copies(m)) + 1>>
        <3>1. /\ workers' = [u \in DOMAIN workers \cup {new} |-> IF u = new THEN Fresh(m) ELSE workers[u]]
              /\ new[1] = m /\ Fresh(m).pc = FirstStep(m)
            BY <2>2 DEF Spawn, Fresh
        <3> HIDE DEF new
        <3> QED
            BY <3>1
    <2> QED
        BY <1>1, <2>1, <2>2 DEF Starts
<1>2. ASSUME NEW r \in asks, handle_AUrequests(r)
      PROVE  \/ v \in DOMAIN workers /\ workers'[v] = workers[v]
             \/ v[1] = r /\ workers'[v].pc = FirstStep(r) /\ r.kind \in {"pickup", "delivery", "change", "bind"}
    BY <1>1, <1>2, AmazonStarts
<1>3. ASSUME NEW c \in accepted, NEW m \in ReportsOn(c), handle_WUrequests(m)
      PROVE  \/ v \in DOMAIN workers /\ workers'[v] = workers[v]
             \/ v[1] = m /\ workers'[v].pc = FirstStep(m)
    BY <1>1, <1>3, WorldStarts
<1>4. ASSUME NEW w \in DOMAIN workers, Step(w), w # v PROVE v \in DOMAIN workers /\ workers'[v] = workers[v]
    <2>1. CASE SendCommand(w) \/ TellAmazon(w)
        BY <1>4, <2>1, LoopSteps
    <2>2. CASE ~SendCommand(w) /\ ~TellAmazon(w)
        BY <1>4, <2>2, QuietSteps DEF Quiet
    <2> QED
        BY <2>1, <2>2
<1>5. CASE UNCHANGED vars \/ handle_disconnect_world \/ handle_disconnect_amazon
    BY <1>5 DEF vars, server, handle_disconnect_world, handle_disconnect_amazon
<1>6. CASE \/ \E m \in told : AmazonAcks(m)
           \/ \E c \in accepted : WorldAcks(c)
           \/ \E u \in Trucks : keep_querying(u)
    BY <1>6 DEF AmazonAcks, WorldAcks, keep_querying
<1> QED
    BY <1>2, <1>3, <1>4, <1>5, <1>6 DEF Next

\* A step of a pickup's own worker, but the one that takes the truck.
LEMMA TakenKept ==
    ASSUME WorkersInv, NEW w \in DOMAIN workers, Step(w), ~TakeTruck(w), NEW t \in Trucks, Taken(w, t)'
    PROVE  Taken(w, t)
<1>1. w[1].kind = "pickup" /\ DOMAIN workers[w] = Variables /\ workers[w].pc \in StepsOf("pickup")
    BY DEF Taken, WorkersInv
<1>2. CASE ScanTrucks(w)
    <2>1. /\ workers'[w].pc = "insert" => workers'[w].truck = CREATED
          /\ workers'[w].pc \in {"insert", "take", "scan"}
        BY <1>1, <1>2 DEF ScanTrucks, Assign, Goto, Keep, Variables
    <2> QED
        BY <2>1, NoNumbers DEF Taken, Past
<1>3. ASSUME NEW step, Goto(w, step), workers[w].pc \in Past PROVE Taken(w, t)
    <2>1. workers'[w].truck = workers[w].truck
        BY <1>1, <1>3 DEF Goto, Variables
    <2> QED
        BY <1>1, <1>3, <2>1 DEF Taken
<1>4. CASE RecordTruck(w) \/ InsertPackage(w)
    BY <1>3, <1>4 DEF RecordTruck, InsertPackage, At, Past
<1>5. CASE SendCommand(w)
    BY <1>1, <1>3, <1>5 DEF SendCommand, At, Past, Taken
<1>6. ScanTrucks(w) \/ RecordTruck(w) \/ InsertPackage(w) \/ SendCommand(w)
    BY <1>1 DEF Step, At, StepsOf, ReadDestination, ReadTruck, CheckChange, ChangeDestination, ReadWarehouse,
       WriteTable, WriteList, GetShips, MarkDelivered, handle_UErr, TellAmazon
<1> QED
    BY <1>2, <1>4, <1>5, <1>6

LEMMA HomeStep == HomeInv /\ TrucksApart' /\ TravelInv /\ WorkersInv /\ OnceInv /\ [Next]_vars => HomeInv'
<1> SUFFICES ASSUME HomeInv, TrucksApart', TravelInv, WorkersInv, OnceInv, [Next]_vars PROVE HomeInv'
    OBVIOUS
<1>1. ASSUME NEW w \in DOMAIN workers, TakeTruck(w) PROVE HomeInv'
    <2>1. w[1].kind = "pickup" /\ workers[w].truck \in Trucks /\ DOMAIN workers[w] = Variables
        BY <1>1, KindAt DEF TakeTruck, At, TravelInv, LocalOK, PickupOK
    <2>2. /\ DOMAIN workers' = DOMAIN workers
          /\ workers'[w].pc = "record" /\ workers'[w].truck = workers[w].truck
          /\ \A v \in DOMAIN workers : v # w => workers'[v] = workers[v]
        BY <1>1, <2>1 DEF TakeTruck, Goto, Variables
    <2>3. Taken(w, workers[w].truck)'
        BY <2>1, <2>2 DEF Taken, Past
    <2>4. \A t \in Trucks : truckList'[t].whid = IF t = workers[w].truck THEN w[1].wh ELSE truckList[t].whid
        BY <1>1, <2>1 DEF TakeTruck, TravelInv, Tables
    <2> SUFFICES ASSUME NEW t \in Trucks, NEW v \in DOMAIN workers', Taken(v, t)' PROVE truckList'[t].whid = v[1].wh
        BY DEF HomeInv
    <2>5. CASE t = workers[w].truck
        BY <2>2, <2>3, <2>4, <2>5 DEF TrucksApart
    <2>6. CASE t # workers[w].truck
        <3>1. v # w /\ v \in DOMAIN workers /\ workers'[v] = workers[v]
            BY <2>2, <2>6 DEF Taken
        <3>2. Taken(v, t)
            BY <3>1 DEF Taken
        <3> QED
            BY <2>4, <2>6, <3>1, <3>2 DEF HomeInv
    <2> QED
        BY <2>5, <2>6
<1>2. CASE ~(\E w \in DOMAIN workers : TakeTruck(w))
    <2>1. ASSUME NEW t \in Trucks, NEW v \in DOMAIN workers', Taken(v, t)' PROVE v \in DOMAIN workers /\ Taken(v, t)
        <3>1. CASE \E w \in DOMAIN workers : w = v /\ Step(w)
            BY <1>2, <2>1, <3>1, TakenKept
        <3>2. CASE v \in DOMAIN workers /\ workers'[v] = workers[v]
            BY <2>1, <3>2 DEF Taken
        <3>3. CASE workers'[v].pc = FirstStep(v[1])
            BY <2>1, <3>3 DEF Taken, Past, FirstStep
        <3> QED
            BY <3>1, <3>2, <3>3, OthersKept
    <2> QED
        BY <1>2, <2>1, HomesStay, HomeKept
<1> QED
    BY <1>1, <1>2

\* The pickup of an arrival, and the home that its worker has read.
ArrivedFor(m, c) == c.kind = "pickup" /\ m = Report("arrive", c.truck, c.key, "")
HomeRead == {"table", "list", "getships", "tell", "done"}
ArriveInv ==
    /\ \A w \in DOMAIN workers : w[1].kind = "arrive" =>
          \E c \in accepted : ArrivedFor(w[1], c) /\ (workers[w].pc \in HomeRead => workers[w].wh = c.wh)
    /\ \A m \in told : m.kind = "arrived" =>
          \E c \in accepted : /\ c.kind = "pickup" /\ c.truck = m.truck /\ c.wh = m.wh
                              /\ Report("arrive", c.truck, c.key, "") \in received

LEMMA ArrivedTruck == ASSUME NEW m, NEW c, ArrivedFor(m, c) PROVE m.truck = c.truck
BY DEF ArrivedFor, Report

\* A pickup that the world has was sent for the warehouse that its truck stands for.
LEMMA PickupsHome ==
    ASSUME HomeInv, SourceInv, NEW c \in accepted, c.kind = "pickup", c.truck \in Trucks
    PROVE  truckList[c.truck].whid = c.wh
<1>1. PICK v \in DOMAIN workers : SentBy(c, v)
    BY DEF SourceInv
<1>2. Taken(v, c.truck) /\ v[1].wh = c.wh
    BY <1>1, SentKinds DEF SentBy, Taken, Past
<1> QED
    BY <1>2 DEF HomeInv

\* Nothing that was said or received is taken back.
LEMMA SaidStays ==
    ASSUME WorkersInv, OnceInv, [Next]_vars
    PROVE  accepted \subseteq accepted' /\ received \subseteq received'
<1>1. received \subseteq received'
    BY AmazonStarts, WorldStarts, OthersGrow DEF Starts
<1>2. ASSUME NEW w \in DOMAIN workers, Step(w) PROVE accepted \subseteq accepted'
    <2>1. CASE SendCommand(w)
        BY <2>1 DEF SendCommand
    <2>2. CASE TellAmazon(w)
        BY <2>2 DEF TellAmazon
    <2>3. CASE ~SendCommand(w) /\ ~TellAmazon(w)
        BY <1>2, <2>3, QuietSteps DEF Quiet
    <2> QED
        BY <2>1, <2>2, <2>3
<1>3. CASE UNCHANGED vars \/ handle_disconnect_world \/ handle_disconnect_amazon
    BY <1>3 DEF vars, peers, handle_disconnect_world, handle_disconnect_amazon
<1>4. CASE \/ \E r \in asks : handle_AUrequests(r)
           \/ \E m \in told : AmazonAcks(m)
           \/ \E c \in accepted : WorldAcks(c)
           \/ \E c \in accepted : \E m \in ReportsOn(c) : handle_WUrequests(m)
           \/ \E t \in Trucks : keep_querying(t)
    BY <1>4 DEF handle_AUrequests, AmazonAcks, WorldAcks, handle_WUrequests, keep_querying, peers
<1> QED
    BY <1>1, <1>2, <1>3, <1>4 DEF Next

\* What Amazon newly hears of is what a worker tells.
LEMMA NewlyTold ==
    ASSUME WorkersInv, [Next]_vars, NEW m \in told' \ told
    PROVE  \E w \in DOMAIN workers : TellAmazon(w) /\ m \in Answers(w)
<1>1. ASSUME NEW w \in DOMAIN workers, Step(w), ~TellAmazon(w) PROVE told' = told
    <2>1. CASE SendCommand(w)
        BY <2>1 DEF SendCommand
    <2>2. CASE ~SendCommand(w)
        BY <1>1, <2>2, QuietSteps DEF Quiet
    <2> QED
        BY <2>1, <2>2
<1>2. ASSUME NEW w \in DOMAIN workers, TellAmazon(w) PROVE m \in Answers(w)
    BY <1>2 DEF TellAmazon
<1>3. CASE UNCHANGED vars \/ handle_disconnect_world \/ handle_disconnect_amazon
    BY <1>3 DEF vars, peers, handle_disconnect_world, handle_disconnect_amazon
<1>4. CASE \/ \E r \in asks : handle_AUrequests(r)
           \/ \E n \in told : AmazonAcks(n)
           \/ \E c \in accepted : WorldAcks(c)
           \/ \E c \in accepted : \E n \in ReportsOn(c) : handle_WUrequests(n)
           \/ \E t \in Trucks : keep_querying(t)
    BY <1>4 DEF handle_AUrequests, AmazonAcks, WorldAcks, handle_WUrequests, keep_querying, peers
<1> QED
    BY <1>1, <1>2, <1>3, <1>4 DEF Next

\* The own worker of an arrival: it reads the truck's home and keeps it.
LEMMA HomeReadKept ==
    ASSUME WorkersInv, NEW w \in DOMAIN workers, w[1].kind = "arrive", Step(w), ~Terminate,
           workers'[w].pc \in HomeRead
    PROVE  \/ workers'[w].wh = truckList[w[1].truck].whid /\ ReadWarehouse(w)
           \/ workers[w].pc \in HomeRead /\ workers'[w].wh = workers[w].wh
<1>1. DOMAIN workers[w] = Variables /\ workers[w].pc \in StepsOf("arrive")
    BY DEF WorkersInv
<1>2. CASE ReadWarehouse(w)
    BY <1>1, <1>2 DEF ReadWarehouse, Assign, Keep, Variables
<1>3. CASE WriteTable(w) \/ WriteList(w) \/ GetShips(w) \/ TellAmazon(w)
    <2>1. workers[w].pc \in HomeRead
        BY <1>3 DEF WriteTable, WriteList, GetShips, TellAmazon, At, HomeRead
    <2>2. workers'[w].wh = workers[w].wh
        BY <1>1, <1>3 DEF WriteTable, WriteList, GetShips, TellAmazon, Goto, Assign, Keep, Variables
    <2> QED
        BY <2>1, <2>2
<1>4. ReadWarehouse(w) \/ WriteTable(w) \/ WriteList(w) \/ GetShips(w) \/ TellAmazon(w)
    BY <1>1 DEF Step, At, StepsOf, ReadDestination, ReadTruck, CheckChange, ChangeDestination,
       ScanTrucks, TakeTruck, RecordTruck, InsertPackage, SendCommand, MarkDelivered, handle_UErr
<1> QED
    BY <1>2, <1>3, <1>4

LEMMA ArriveStep ==
    ArriveInv /\ HomeInv /\ SourceInv /\ TravelInv /\ WorkersInv /\ OnceInv /\ [Next]_vars => ArriveInv'
<1> SUFFICES ASSUME ArriveInv, HomeInv, SourceInv, TravelInv, WorkersInv, OnceInv, [Next]_vars PROVE ArriveInv'
    OBVIOUS
<1>1. accepted \subseteq accepted' /\ received \subseteq received'
    BY SaidStays
<1>2. ASSUME NEW v \in DOMAIN workers', v[1].kind = "arrive"
      PROVE  \E c \in accepted' : ArrivedFor(v[1], c) /\ (workers'[v].pc \in HomeRead => workers'[v].wh = c.wh)
    <2>1. CASE v \in DOMAIN workers
        <3>1. PICK c \in accepted : ArrivedFor(v[1], c) /\ (workers[v].pc \in HomeRead => workers[v].wh = c.wh)
            BY <1>2, <2>1 DEF ArriveInv
        <3>2. v[1].truck = c.truck /\ c.truck \in Trucks
            BY <1>2, <2>1, <3>1, ArrivedTruck DEF TravelInv, LocalOK, ArriveOK, HasHome
        <3>3. truckList[c.truck].whid = c.wh
            BY <3>1, <3>2, PickupsHome DEF ArrivedFor
        <3>4. workers'[v].pc \in HomeRead => workers'[v].wh = c.wh
            <4>1. CASE workers'[v] = workers[v]
                BY <3>1, <4>1
            <4>2. CASE Step(v)
                <5>1. CASE Terminate
                    BY <3>1, <5>1 DEF Terminate
                <5>2. CASE ~Terminate
                    BY <1>2, <2>1, <3>1, <3>2, <3>3, <4>2, <5>2, HomeReadKept
                <5> QED
                    BY <5>1, <5>2
            <4>3. CASE workers'[v].pc = FirstStep(v[1])
                BY <1>2, <4>3 DEF FirstStep, HomeRead
            <4> QED
                BY <4>1, <4>2, <4>3, OthersKept
        <3> QED
            BY <1>1, <3>1, <3>4
    <2>2. CASE v \notin DOMAIN workers
        <3>1. workers'[v].pc = "readwh" /\ \E c \in accepted : v[1] \in ReportsOn(c)
            BY <1>2, <2>2, OthersKept DEF FirstStep
        <3>2. PICK c \in accepted : v[1] \in ReportsOn(c)
            BY <3>1
        <3>3. ArrivedFor(v[1], c)
            BY <1>2, <3>2, ReportTrue DEF ArrivedFor
        <3> QED
            BY <1>1, <3>1, <3>3 DEF HomeRead
    <2> QED
        BY <2>1, <2>2
<1>3. ASSUME NEW m \in told', m.kind = "arrived"
      PROVE  \E c \in accepted' : /\ c.kind = "pickup" /\ c.truck = m.truck /\ c.wh = m.wh
                                  /\ Report("arrive", c.truck, c.key, "") \in received'
    <2>1. CASE m \in told
        BY <1>1, <1>3, <2>1 DEF ArriveInv
    <2>2. CASE m \notin told
        <3>1. PICK w \in DOMAIN workers : TellAmazon(w) /\ m \in Answers(w)
            BY <2>2, NewlyTold
        <3>2. w[1].kind \in Tellers /\ workers[w].pc = "tell"
            BY <3>1, SendersSend DEF TellAmazon, At
        <3>3. w[1].kind = "arrive"
            BY <1>3, <3>1, <3>2 DEF Answers, Tellers
        <3>4. m.wh = workers[w].wh /\ m.truck = w[1].truck
            BY <3>1, <3>3 DEF Answers
        <3>5. PICK c \in accepted : ArrivedFor(w[1], c) /\ (workers[w].pc \in HomeRead => workers[w].wh = c.wh)
            BY <3>3 DEF ArriveInv
        <3>6. c.wh = m.wh /\ c.kind = "pickup"
            BY <3>2, <3>4, <3>5 DEF HomeRead, ArrivedFor
        <3>7. c.truck = m.truck
            BY <3>4, <3>5, ArrivedTruck
        <3>8. Report("arrive", c.truck, c.key, "") \in received
            BY <3>5 DEF ArrivedFor, WorkersInv
        <3> QED
            BY <1>1, <3>6, <3>7, <3>8
    <2> QED
        BY <2>1, <2>2
<1> QED
    BY <1>2, <1>3 DEF ArriveInv

\* Amazon is told of an arrival only after it, and for packages booked with that truck, and a
\* package goes out with the truck it waited for; for any requests, trucks and numbers, as long
\* as no truck is sent to two warehouses.
THEOREM WithTheRightTruck == Spec /\ []TrucksApart => []RightTruck
<1>1. Init => HomeInv /\ ArriveInv
    BY DEF Init, HomeInv, ArriveInv
<1>2. TravelInv /\ ArriveInv => RightTruck
    <2> SUFFICES ASSUME TravelInv, ArriveInv PROVE RightTruck
        OBVIOUS
    <2>1. ASSUME NEW m \in told, m.kind = "arrived"
          PROVE  HasTruck(m.ship, m.truck) /\ PKG[m.ship].wh = m.wh
        BY <2>1 DEF TravelInv, AnswerOK
    <2>2. ASSUME NEW d \in accepted, d.kind = "deliver"
          PROVE  HasTruck(d.ship, d.truck) /\ ToldOfTruck(d.ship)
        BY <2>2 DEF TravelInv, CommandOK
    <2>3. ASSUME NEW d \in accepted, d.kind = "deliver"
          PROVE  \E m \in told : m.kind = "arrived" /\ m.ship = d.ship /\ m.truck = d.truck
        <3>1. PICK m \in told : m.kind = "arrived" /\ m.ship = d.ship
            BY <2>2, <2>3 DEF ToldOfTruck
        <3>2. m.truck = d.truck
            BY <2>1, <2>2, <2>3, <3>1, OneTruck
        <3> QED
            BY <3>1, <3>2
    <2> QED
        BY <2>1, <2>2, <2>3 DEF RightTruck, ArriveInv, HasTruck
<1> QED
    BY <1>1, <1>2, HomeStep, ArriveStep, Travels, Sources, PTL DEF Spec
-----------------------------------------------------------------------------
(* The promise                                                              *)

MarkedDelivered(s) == s \in DOMAIN PKG /\ PKG[s].truck = DELIVERED

\* Each stage of a package comes after the one before.
LEMMA StagesInOrder ==
    ASSUME TravelInv, NEW s
    PROVE  /\ Delivered(s) => MarkedDelivered(s)
           /\ MarkedDelivered(s) => Sent(s)
           /\ Sent(s) => ToldOfTruck(s)
           /\ ToldOfTruck(s) => s \in DOMAIN PKG
<1>1. Delivered(s) => MarkedDelivered(s)
    BY DEF Delivered, MarkedDelivered, TravelInv, AnswerOK
<1>2. MarkedDelivered(s) => Sent(s)
    BY DEF MarkedDelivered, TravelInv
<1>3. Sent(s) => ToldOfTruck(s)
    BY DEF Sent, TravelInv, CommandOK
<1> QED
    BY <1>1, <1>2, <1>3, ToldHasRow

LEMMA StageIs ==
    ASSUME TravelInv, NEW s
    PROVE  /\ Stage(s) = "confirmed" <=> Delivered(s)
           /\ Stage(s) = "delivered" <=> MarkedDelivered(s) /\ ~Delivered(s)
           /\ Stage(s) = "out" <=> Sent(s) /\ ~MarkedDelivered(s)
           /\ Stage(s) = "waiting" <=> ToldOfTruck(s) /\ ~Sent(s)
           /\ Stage(s) = "booked" <=> s \in DOMAIN PKG /\ ~ToldOfTruck(s)
           /\ Stage(s) = "unknown" <=> s \notin DOMAIN PKG
BY StagesInOrder DEF Stage, MarkedDelivered

\* A package's stage is the same if what it is made of is.
LEMMA StageStays ==
    ASSUME NEW s, Delivered(s)' <=> Delivered(s), MarkedDelivered(s)' <=> MarkedDelivered(s), Sent(s)' <=> Sent(s),
           ToldOfTruck(s)' <=> ToldOfTruck(s), s \in DOMAIN PKG' <=> s \in DOMAIN PKG
    PROVE  Stage(s)' = Stage(s)
BY DEF Stage, Delivered, MarkedDelivered

\* A package's truck is the one it is booked with, delivered or not.
LEMMA BookedIs ==
    ASSUME TravelInv, NEW s, NEW t, HasTruck(s, t)
    PROVE  BookedTruck(s) = t
<1>1. CASE PKG[s].truck # DELIVERED
    BY <1>1 DEF BookedTruck, HasTruck
<1>2. CASE PKG[s].truck = DELIVERED
    <2>1. \E c \in accepted : c.kind = "deliver" /\ c.ship = s
        BY <1>2 DEF TravelInv, HasTruck, Sent
    <2> DEFINE d == CHOOSE c \in accepted : c.kind = "deliver" /\ c.ship = s
    <2>2. d \in accepted /\ d.kind = "deliver" /\ d.ship = s
        BY <2>1
    <2>3. BookedTruck(s) = d.truck
        BY <1>2 DEF BookedTruck, HasTruck
    <2> HIDE DEF d
    <2> QED
        BY <2>2, <2>3 DEF HasTruck
<1> QED
    BY <1>1, <1>2

LEMMA BookedAre == TravelInv => \A s, t : HasTruck(s, t) => BookedTruck(s) = t
BY BookedIs

LEMMA BookedWillBe == TravelInv' => (\A s, t : HasTruck(s, t) => BookedTruck(s) = t)'
BY BookedAre, PTL

LEMMA BookedStays ==
    ASSUME TravelInv, TravelInv', accepted \subseteq accepted', NEW s \in DOMAIN PKG, s \in DOMAIN PKG',
           PKG'[s].truck = PKG[s].truck \/ Sent(s)
    PROVE  BookedTruck(s)' = BookedTruck(s)
<1>1. CASE Sent(s)
    <2>1. PICK c \in accepted : c.kind = "deliver" /\ c.ship = s
        BY <1>1 DEF Sent
    <2>2. HasTruck(s, c.truck)
        BY <2>1 DEF TravelInv, CommandOK
    <2>3. HasTruck(s, c.truck)'
        BY <2>1 DEF TravelInv, CommandOK
    <2>4. BookedTruck(s) = c.truck
        BY <2>2, BookedIs
    <2>6. BookedTruck(s)' = c.truck
        BY <2>3, BookedWillBe
    <2> QED
        BY <2>4, <2>6
<1>2. CASE ~Sent(s)
    BY <1>2 DEF BookedTruck, TravelInv
<1> QED
    BY <1>1, <1>2

\* What Amazon and the world have heard is not taken back.
LEMMA SentGrows ==
    ASSUME accepted \subseteq accepted', told \subseteq told', NEW s
    PROVE  (Sent(s) => Sent(s)') /\ (ToldOfTruck(s) => ToldOfTruck(s)') /\ (Delivered(s) => Delivered(s)')
BY DEF Sent, ToldOfTruck, Delivered

LEMMA TrucksStay ==
    ASSUME TravelInv, TravelInv', accepted \subseteq accepted', DOMAIN PKG' = DOMAIN PKG,
           \A s \in DOMAIN PKG : PKG'[s].truck = PKG[s].truck \/ Sent(s)
    PROVE  \A s : BookedTruck(s)' = BookedTruck(s)
<1> SUFFICES ASSUME NEW s PROVE BookedTruck(s)' = BookedTruck(s)
    OBVIOUS
<1>1. CASE s \in DOMAIN PKG
    BY <1>1, BookedStays
<1>2. CASE s \notin DOMAIN PKG
    BY <1>2 DEF BookedTruck
<1> QED
    BY <1>1, <1>2

\* Nothing that concerns a package is new.
LEMMA NothingMoves ==
    ASSUME TravelInv, TravelInv', accepted \subseteq accepted', told \subseteq told', DOMAIN PKG' = DOMAIN PKG,
           \A s \in DOMAIN PKG : PKG'[s].truck = PKG[s].truck,
           \A c \in accepted' \ accepted : c.kind = "deliver" => Sent(c.ship),
           \A m \in told' \ told : /\ m.kind = "arrived" => ToldOfTruck(m.ship)
                                   /\ m.kind = "delivered" => Delivered(m.ship)
    PROVE  UNCHANGED Promise!vars
<1>1. \A s : BookedTruck(s)' = BookedTruck(s)
    BY TrucksStay
<1>2. \A s : Sent(s)' => Sent(s)
    BY DEF Sent
<1>3. \A s : (ToldOfTruck(s)' => ToldOfTruck(s)) /\ (Delivered(s)' => Delivered(s))
    BY DEF ToldOfTruck, Delivered
<1>4. \A s : MarkedDelivered(s)' <=> MarkedDelivered(s)
    BY DEF MarkedDelivered
<1>5. \A s : Stage(s)' = Stage(s)
    BY <1>2, <1>3, <1>4, SentGrows, StageStays
<1> QED
    BY <1>1, <1>5 DEF Promise!vars

\* One package goes on.
LEMMA OneMoves ==
    ASSUME NEW s \in Ships, NEW from, NEW to, Stage(s) = from, Stage(s)' = to,
           \A u \in Ships : u # s => Stage(u)' = Stage(u)
    PROVE  Promise!Move(s, from, to)
BY DEF Promise!Move

LEMMA TrucksKept == ASSUME \A s : BookedTruck(s)' = BookedTruck(s) PROVE [s \in Ships |-> BookedTruck(s)]' = [s \in Ships |-> BookedTruck(s)]
OBVIOUS

LEMMA InsertBooks ==
    ASSUME TravelInv, TravelInv', WorkersInv, NEW w \in DOMAIN workers, InsertPackage(w)
    PROVE  [Promise!Next]_Promise!vars
<1> DEFINE s == w[1].ship
           t == workers[w].truck
<1>1. /\ w[1].kind = "pickup" /\ workers[w].pc = "insert" /\ accepted' = accepted /\ told' = told
      /\ PKG' = IF s \in DOMAIN PKG THEN PKG ELSE Put(PKG, s, Row(w[1], t))
    BY KindAt DEF InsertPackage, At, insert_PKG, peers
<1>2. s \in Ships /\ t \in Trucks \cup {CREATED} /\ t # DELIVERED
    <2>1. PickupOK(w[1], workers[w])
        BY DEF TravelInv, LocalOK
    <2> QED
        BY <1>1, <2>1, NoNumbers DEF PickupOK, HasHome, CREATED, DELIVERED
<1> HIDE DEF s, t
<1>3. CASE s \in DOMAIN PKG
    BY <1>1, <1>3, NothingMoves
<1>4. CASE s \notin DOMAIN PKG
    <2>1. /\ DOMAIN PKG' = DOMAIN PKG \cup {s} /\ PKG'[s].truck = t
          /\ \A u \in DOMAIN PKG : PKG'[u] = PKG[u]
        BY <1>1, <1>4 DEF Put, Row
    <2>2. \A u : (Sent(u)' <=> Sent(u)) /\ (ToldOfTruck(u)' <=> ToldOfTruck(u)) /\ (Delivered(u)' <=> Delivered(u))
        BY <1>1 DEF Sent, ToldOfTruck, Delivered
    <2>3. \A u : MarkedDelivered(u)' <=> MarkedDelivered(u)
        BY <1>2, <2>1 DEF MarkedDelivered
    <2>4. Stage(s) = "unknown"
        BY <1>4, StageIs
    <2>5. Stage(s)' = "booked"
        <3>1. ~Sent(s) /\ ~ToldOfTruck(s) /\ ~Delivered(s) /\ ~MarkedDelivered(s)
            BY <1>4, StagesInOrder
        <3> QED
            BY <2>1, <2>2, <2>3, <3>1 DEF Stage, MarkedDelivered
    <2>6. \A u \in Ships : u # s => Stage(u)' = Stage(u)
        BY <2>1, <2>2, <2>3, StageStays
    <2>7. Promise!Move(s, "unknown", "booked")
        BY <1>2, <2>4, <2>5, <2>6, OneMoves
    <2>8. BookedTruck(s)' = t
        BY <1>2, <2>1 DEF BookedTruck
    <2>9. \A u \in Ships : u # s => BookedTruck(u)' = BookedTruck(u)
        <3> SUFFICES ASSUME NEW u \in Ships, u # s PROVE BookedTruck(u)' = BookedTruck(u)
            OBVIOUS
        <3>1. CASE u \in DOMAIN PKG
            BY <1>1, <2>1, <3>1, BookedStays
        <3>2. CASE u \notin DOMAIN PKG
            BY <2>1, <3>2 DEF BookedTruck
        <3> QED
            BY <3>1, <3>2
    <2>10. [r \in Ships |-> BookedTruck(r)]' = [[r \in Ships |-> BookedTruck(r)] EXCEPT ![s] = t]
        BY <1>2, <2>8, <2>9
    <2>11. Promise!Book(s, t)
        BY <2>7, <2>10 DEF Promise!Book
    <2> QED
        BY <1>2, <2>11 DEF Promise!Next
<1> QED
    BY <1>3, <1>4

LEMMA CommandSendsOut ==
    ASSUME TravelInv, TravelInv', WorkersInv, NEW w \in DOMAIN workers, SendCommand(w)
    PROVE  [Promise!Next]_Promise!vars
<1>0. PICK c : c = Command(w)
    OBVIOUS
<1>1. /\ w[1].kind \in Senders /\ told' = told /\ PKG' = PKG
      /\ accepted' = accepted \/ accepted' = accepted \cup {c}
    BY <1>0, SendersSend DEF SendCommand
<1>2. CASE accepted' = accepted \/ c.kind # "deliver" \/ Sent(c.ship)
    BY <1>1, <1>2, NothingMoves
<1>3. CASE accepted' = accepted \cup {c} /\ c.kind = "deliver" /\ ~Sent(c.ship)
    <2> DEFINE s == c.ship
    <2>1. ToldOfTruck(s)' /\ Sent(s)'
        BY <1>3 DEF TravelInv, CommandOK, Sent
    <2>2. \A u : (ToldOfTruck(u)' <=> ToldOfTruck(u)) /\ (Delivered(u)' <=> Delivered(u)) /\ (MarkedDelivered(u)' <=> MarkedDelivered(u))
        BY <1>1 DEF ToldOfTruck, Delivered, MarkedDelivered
    <2>3. \A u : u # s => (Sent(u)' <=> Sent(u))
        BY <1>3 DEF Sent
    <2>4. s \in Ships
        BY <2>1, <2>2, ToldHasRow DEF TravelInv, Tables
    <2>5. Stage(s) = "waiting"
        BY <1>3, <2>1, <2>2, StageIs
    <2>6. Stage(s)' = "out"
        <3>1. ~Delivered(s) /\ ~MarkedDelivered(s)
            BY <1>3, StagesInOrder
        <3>2. ~Delivered(s)' /\ ~MarkedDelivered(s)'
            BY <2>2, <3>1
        <3> QED
            BY <2>1, <3>2 DEF Stage, MarkedDelivered
    <2>7. \A u \in Ships : u # s => Stage(u)' = Stage(u)
        BY <1>1, <2>2, <2>3, StageStays
    <2>8. Promise!Move(s, "waiting", "out")
        BY <2>4, <2>5, <2>6, <2>7, OneMoves
    <2>9. \A u : BookedTruck(u)' = BookedTruck(u)
        BY <1>1, TrucksStay
    <2>10. Promise!SendOut(s)
        BY <2>8, <2>9, TrucksKept DEF Promise!SendOut
    <2> QED
        BY <2>4, <2>10 DEF Promise!Next
<1> QED
    BY <1>1, <1>2, <1>3

LEMMA MarkDelivers ==
    ASSUME TravelInv, TravelInv', WorkersInv, NEW w \in DOMAIN workers, MarkDelivered(w)
    PROVE  [Promise!Next]_Promise!vars
<1> DEFINE s == w[1].extra
<1>1. Sent(s) /\ accepted' = accepted /\ told' = told
    <2>1. MadeOK(w[1], workers[w]) /\ w[1].kind = "delivered"
        BY KindAt DEF TravelInv, LocalOK, MarkDelivered, At
    <2> QED
        BY <2>1 DEF MadeOK, MarkDelivered, Terminate, peers
<1>2. PKG' = PKG \/ (s \in DOMAIN PKG /\ PKG' = [PKG EXCEPT ![s].truck = DELIVERED])
    BY DEF MarkDelivered, Terminate
<1> HIDE DEF s
<1>3. CASE PKG' = PKG
    BY <1>1, <1>3, NothingMoves
<1>4. CASE s \in DOMAIN PKG /\ PKG' = [PKG EXCEPT ![s].truck = DELIVERED]
    <2>1. \A u \in DOMAIN PKG : PKG[u] \in [wh : Warehouses, dest : Dests, truck : Trucks \cup {CREATED, DELIVERED}]
        BY DEF TravelInv, Tables
    <2>2. /\ DOMAIN PKG' = DOMAIN PKG /\ PKG'[s].truck = DELIVERED
          /\ \A u \in DOMAIN PKG : u # s => PKG'[u] = PKG[u]
        BY <1>4, <2>1
    <2>3. CASE PKG[s].truck = DELIVERED
        BY <1>1, <2>2, <2>3, NothingMoves
    <2>4. CASE PKG[s].truck # DELIVERED
        <3>1. \A u : (Sent(u)' <=> Sent(u)) /\ (ToldOfTruck(u)' <=> ToldOfTruck(u)) /\ (Delivered(u)' <=> Delivered(u))
            BY <1>1 DEF Sent, ToldOfTruck, Delivered
        <3>2. ~MarkedDelivered(s) /\ MarkedDelivered(s)' /\ \A u : u # s => (MarkedDelivered(u)' <=> MarkedDelivered(u))
            BY <1>4, <2>2, <2>4 DEF MarkedDelivered
        <3>3. Stage(s) = "out" /\ ~Delivered(s)
            BY <1>1, <3>2, StageIs, StagesInOrder
        <3>4. Stage(s)' = "delivered"
            BY <3>1, <3>2, <3>3 DEF Stage, MarkedDelivered
        <3>5. \A u \in Ships : u # s => Stage(u)' = Stage(u)
            BY <2>2, <3>1, <3>2, StageStays
        <3>6. s \in Ships
            BY <1>4 DEF TravelInv, Tables
        <3>7. Promise!Move(s, "out", "delivered")
            BY <3>3, <3>4, <3>5, <3>6, OneMoves
        <3>8. \A u : BookedTruck(u)' = BookedTruck(u)
            BY <1>1, <2>2, TrucksStay
        <3>9. Promise!Deliver(s)
            BY <3>7, <3>8, TrucksKept DEF Promise!Deliver
        <3> QED
            BY <3>6, <3>9 DEF Promise!Next
    <2> QED
        BY <2>3, <2>4
<1> QED
    BY <1>2, <1>3, <1>4

LEMMA ArrivalAnnounces ==
    ASSUME TravelInv, TravelInv', NEW w \in DOMAIN workers, w[1].kind = "arrive", workers[w].pc = "tell",
           told' = told \cup Answers(w), UNCHANGED <<PKG, accepted, workers>>
    PROVE  [Promise!Next]_Promise!vars
<1> DEFINE ships == workers[w].ships
<1>1. ArriveOK(w[1], workers[w])
    BY DEF TravelInv, LocalOK
<1>2. \A s \in ships : HasTruck(s, w[1].truck)
    BY <1>1 DEF ArriveOK
<1>3. \A m \in Answers(w) : m.kind = "arrived" /\ m.ship \in ships
    BY DEF Answers
<1>4. \A s \in ships : \E m \in Answers(w) : m.kind = "arrived" /\ m.ship = s
    <2> SUFFICES ASSUME NEW s \in ships PROVE \E m \in Answers(w) : m.kind = "arrived" /\ m.ship = s
        OBVIOUS
    <2> DEFINE a == [kind |-> "arrived", key |-> Key(w[1]), wh |-> workers[w].wh, ship |-> s, truck |-> w[1].truck]
    <2>1. a \in Answers(w)
        BY DEF Answers
    <2>2. a.kind = "arrived" /\ a.ship = s
        OBVIOUS
    <2> QED
        BY <2>1, <2>2
<1>5. PICK S : S = {s \in ships : ~ToldOfTruck(s)}
    OBVIOUS
<1> HIDE DEF ships
<1>6. CASE S = {}
    <2>1. \A m \in told' \ told : m.kind = "arrived" /\ ToldOfTruck(m.ship)
        BY <1>3, <1>5, <1>6
    <2> QED
        BY <2>1, NothingMoves
<1>7. CASE S # {}
    <2>1. S \subseteq Ships
        BY <1>2, <1>5 DEF HasTruck, TravelInv, Tables
    <2>2. \A s \in S : ~ToldOfTruck(s) /\ ToldOfTruck(s)'
        BY <1>4, <1>5 DEF ToldOfTruck
    <2>3. \A s : s \notin S => (ToldOfTruck(s)' <=> ToldOfTruck(s))
        BY <1>3, <1>5 DEF ToldOfTruck
    <2>4. \A s : (Sent(s)' <=> Sent(s)) /\ (Delivered(s)' <=> Delivered(s)) /\ (MarkedDelivered(s)' <=> MarkedDelivered(s))
        BY <1>3 DEF Sent, Delivered, MarkedDelivered
    <2>5. \A s \in S : Stage(s) = "booked" /\ BookedTruck(s) # CREATED
        <3> SUFFICES ASSUME NEW s \in S PROVE Stage(s) = "booked" /\ BookedTruck(s) # CREATED
            OBVIOUS
        <3>1. HasTruck(s, w[1].truck)
            BY <1>2, <1>5
        <3>2. s \in DOMAIN PKG /\ w[1].truck \in Trucks
            BY <3>1 DEF HasTruck
        <3> QED
            BY <2>2, <3>1, <3>2, StageIs, BookedIs, NoNumbers
    <2>6. \A s \in S : Stage(s)' = "waiting"
        <3> SUFFICES ASSUME NEW s \in S PROVE Stage(s)' = "waiting"
            OBVIOUS
        <3>1. ~Delivered(s) /\ ~MarkedDelivered(s) /\ ~Sent(s)
            BY <2>2, StagesInOrder
        <3>2. ~Delivered(s)' /\ ~MarkedDelivered(s)' /\ ~Sent(s)'
            BY <2>4, <3>1
        <3> QED
            BY <2>2, <3>2 DEF Stage, MarkedDelivered
    <2>7. \A s : s \notin S => Stage(s)' = Stage(s)
        BY <2>3, <2>4, StageStays
    <2>8. \A s : BookedTruck(s)' = BookedTruck(s)
        BY TrucksStay
    <2>9. [s \in Ships |-> Stage(s)]' = [s \in Ships |-> IF s \in S THEN "waiting" ELSE [r \in Ships |-> Stage(r)][s]]
        BY <2>6, <2>7
    <2>10. Promise!Announce(S)
        BY <1>7, <2>1, <2>5, <2>8, <2>9, TrucksKept DEF Promise!Announce
    <2> QED
        BY <2>1, <2>10 DEF Promise!Next
<1> QED
    BY <1>6, <1>7

LEMMA AnswerConfirms ==
    ASSUME TravelInv, TravelInv', WorkersInv, NEW w \in DOMAIN workers, TellAmazon(w)
    PROVE  [Promise!Next]_Promise!vars
<1>1. /\ w[1].kind \in Tellers /\ workers[w].pc = "tell" /\ PKG' = PKG /\ accepted' = accepted
    BY SendersSend DEF TellAmazon, At
<1>2. CASE told' = told
    BY <1>1, <1>2, NothingMoves
<1>3. CASE told' = told \cup Answers(w) /\ UNCHANGED workers
    <2>1. CASE w[1].kind = "arrive"
        BY <1>1, <1>3, <2>1, ArrivalAnnounces
    <2>2. CASE w[1].kind \in {"change", "bind"}
        <3>1. \A m \in Answers(w) : m.kind \in {"changed", "bound"}
            BY <2>2 DEF Answers
        <3> QED
            BY <1>1, <1>3, <3>1, NothingMoves
    <2>3. CASE w[1].kind = "delivered"
        <3> DEFINE s == w[1].extra
        <3>1. MarkedDelivered(s)
            BY <1>1, <2>3 DEF TravelInv, LocalOK, MadeOK, MarkedDelivered
        <3>2. /\ \A m \in Answers(w) : m.kind = "delivered" /\ m.ship = s
              /\ \E m \in Answers(w) : m.kind = "delivered" /\ m.ship = s
            <4> DEFINE a == [kind |-> "delivered", key |-> Key(w[1]), ship |-> s]
            <4>1. Answers(w) = {a}
                BY <2>3 DEF Answers
            <4>2. a.kind = "delivered" /\ a.ship = s
                OBVIOUS
            <4> HIDE DEF a
            <4> QED
                BY <4>1, <4>2
        <3> HIDE DEF s
        <3>3. CASE Delivered(s)
            BY <1>1, <1>3, <3>2, <3>3, NothingMoves
        <3>4. CASE ~Delivered(s)
            <4>1. \A u : (Sent(u)' <=> Sent(u)) /\ (MarkedDelivered(u)' <=> MarkedDelivered(u)) /\ (ToldOfTruck(u)' <=> ToldOfTruck(u))
                BY <1>1, <1>3, <3>2 DEF Sent, MarkedDelivered, ToldOfTruck
            <4>2. Delivered(s)' /\ \A u : u # s => (Delivered(u)' <=> Delivered(u))
                BY <1>3, <3>2 DEF Delivered
            <4>3. Stage(s) = "delivered"
                BY <3>1, <3>4, StageIs
            <4>4. Stage(s)' = "confirmed"
                BY <4>2 DEF Stage
            <4>5. \A u \in Ships : u # s => Stage(u)' = Stage(u)
                BY <1>1, <4>1, <4>2, StageStays
            <4>6. s \in Ships
                BY <3>1 DEF MarkedDelivered, TravelInv, Tables
            <4>7. Promise!Move(s, "delivered", "confirmed")
                BY <4>3, <4>4, <4>5, <4>6, OneMoves
            <4>8. \A u : BookedTruck(u)' = BookedTruck(u)
                BY <1>1, TrucksStay
            <4>9. Promise!Confirm(s)
                BY <4>7, <4>8, TrucksKept DEF Promise!Confirm
            <4> QED
                BY <4>6, <4>9 DEF Promise!Next
        <3> QED
            BY <3>3, <3>4
    <2> QED
        BY <1>1, <2>1, <2>2, <2>3 DEF Tellers
<1> QED
    BY <1>2, <1>3 DEF TellAmazon

LEMMA PromiseStep ==
    TravelInv /\ TravelInv' /\ WorkersInv /\ OnceInv /\ [Next]_vars => [Promise!Next]_Promise!vars
<1> SUFFICES ASSUME TravelInv, TravelInv', WorkersInv, OnceInv, [Next]_vars PROVE [Promise!Next]_Promise!vars
    OBVIOUS
<1>1. ASSUME UNCHANGED <<PKG, accepted, told>> PROVE [Promise!Next]_Promise!vars
    BY <1>1, NothingMoves
<1>2. ASSUME NEW w \in DOMAIN workers, Step(w) PROVE [Promise!Next]_Promise!vars
    <2>1. CASE InsertPackage(w) \/ SendCommand(w) \/ MarkDelivered(w) \/ TellAmazon(w)
        BY <2>1, InsertBooks, CommandSendsOut, MarkDelivers, AnswerConfirms
    <2>2. CASE ChangeDestination(w)
        <3>1. /\ accepted' = accepted /\ told' = told /\ PKG' = [PKG EXCEPT ![w[1].ship].dest = w[1].dest]
            BY <2>2 DEF ChangeDestination, peers
        <3>2. \A s \in DOMAIN PKG : PKG[s] \in [wh : Warehouses, dest : Dests, truck : Trucks \cup {CREATED, DELIVERED}]
            BY DEF TravelInv, Tables
        <3>3. DOMAIN PKG' = DOMAIN PKG /\ \A s \in DOMAIN PKG : PKG'[s].truck = PKG[s].truck
            BY <3>1, <3>2
        <3> QED
            BY <3>1, <3>3, NothingMoves
    <2>3. CASE ScanTrucks(w) \/ TakeTruck(w) \/ RecordTruck(w) \/ ReadDestination(w) \/ ReadTruck(w) \/ CheckChange(w)
        BY <1>1, <2>3 DEF ScanTrucks, TakeTruck, RecordTruck, ReadDestination, ReadTruck, CheckChange, Terminate, peers
    <2>4. CASE ReadWarehouse(w) \/ WriteTable(w) \/ WriteList(w) \/ GetShips(w) \/ handle_UErr(w)
        BY <1>1, <2>4 DEF ReadWarehouse, WriteTable, WriteList, GetShips, handle_UErr, Terminate, peers
    <2> QED
        BY <1>2, <2>1, <2>2, <2>3, <2>4 DEF Step
<1>3. ASSUME NEW t \in Trucks, keep_querying(t) PROVE [Promise!Next]_Promise!vars
    <2> DEFINE c == [kind |-> "query", key |-> nextQuery, truck |-> t]
    <2>1. told' = told /\ PKG' = PKG /\ accepted' = accepted \cup {c} /\ c.kind # "deliver"
        BY <1>3 DEF keep_querying
    <2> HIDE DEF c
    <2> QED
        BY <2>1, NothingMoves
<1>4. CASE UNCHANGED vars \/ handle_disconnect_world \/ handle_disconnect_amazon
    BY <1>1, <1>4 DEF vars, server, peers, handle_disconnect_world, handle_disconnect_amazon
<1>5. CASE \/ \E r \in asks : handle_AUrequests(r)
           \/ \E m \in told : AmazonAcks(m)
           \/ \E c \in accepted : WorldAcks(c)
           \/ \E c \in accepted : \E m \in ReportsOn(c) : handle_WUrequests(m)
    BY <1>1, <1>5 DEF handle_AUrequests, AmazonAcks, WorldAcks, handle_WUrequests, peers
<1> QED
    BY <1>2, <1>3, <1>4, <1>5 DEF Next

\* The server implements Parcels, for any requests, trucks and numbers, whatever is lost,
\* repeated or late: a package is booked with one truck, announced, sent out, delivered and
\* confirmed, each once and in this order.
THEOREM KeepsThePromise == Spec => ImplementsParcels
<1>1. Init => Promise!Init
    <2> SUFFICES ASSUME Init PROVE Promise!Init
        OBVIOUS
    <2>1. \A s : Stage(s) = "unknown" /\ BookedTruck(s) = CREATED
        BY DEF Init, Stage, Delivered, Sent, ToldOfTruck, BookedTruck
    <2> QED
        BY <2>1 DEF Promise!Init
<1> QED
    BY <1>1, PromiseStep, Travels, PTL DEF Spec, ImplementsParcels, Promise!Spec
=============================================================================
