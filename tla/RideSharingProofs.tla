------------------------- MODULE RideSharingProofs -------------------------
(***************************************************************************)
(* For any users, rides and cars: the types of the ride sharing site, and    *)
(* that among users who take turns seats are lost in one way only and no     *)
(* confirmed ride changes.                                                 *)
(***************************************************************************)
EXTENDS RideSharingProperties, TLAPS

Views == {"change", "delete", "join", "cancel", "confirm", "complete"}

\* What the server may be doing for a user.
Reading == [step: {"read"}, view: Views, ride: Rides, typed: Nat]
Saving == [step: {"save"}, view: Views, ride: Rides, typed: Nat, row: Row]

\* What the history tells of a ride.
Counts == [owner: Nat, sharer: Nat, overdrawn: BOOLEAN]

Serves(u) ==
    \/ request[u] = Idle
    \/ request[u] \in Reading \cup Saving /\ request[u].ride \in used

\* The types, with those of the requests and of the history.
TypeInv ==
    /\ RidesTypeOK
    /\ request = [u \in Users |-> request[u]]
    /\ \A u \in Users : Serves(u)
    /\ owed \in [Rides -> Counts]

\* Among careful users one request is served at a time, and what it has read is
\* what is there: the button it came from is still on the page.
UpToDate(u) ==
    request[u] # Idle =>
        LET q == request[u] IN
        /\ \A v \in Users : v # u => request[v] = Idle
        /\ q.ride \in DOMAIN ride_owner
        /\ <<q.view, q.ride>> \in Buttons(u)
        /\ q.step = "save" => q.row = ride_owner[q.ride]

OneAtATime == careful => \A u \in Users : UpToDate(u)

IInv == TypeInv /\ OneAtATime /\ SeatsKept
-----------------------------------------------------------------------------
(* Types                                                                    *)

\* The initial states satisfy the invariant: nothing is there yet.
LEMMA InitInv == Init => IInv
<1> SUFFICES ASSUME Init PROVE IInv
    OBVIOUS
<1>1. RidesTypeOK
    BY SeatsAssumption DEF Init, RidesTypeOK, Idle
<1>2. TypeInv
    BY <1>1 DEF Init, TypeInv, Serves, Counts, Seats
<1>3. OneAtATime
    BY DEF Init, OneAtATime, UpToDate
<1>4. SeatsKept
    BY DEF Init, SeatsKept
<1> QED
    BY <1>2, <1>3, <1>4 DEF IInv

\* A row that changes in one field, to a value of its type, is a row.
LEMMA FieldSet ==
    ASSUME NEW row \in Row
    PROVE  /\ \A x \in Users : [row EXCEPT !.owner = x] \in Row
           /\ \A x \in Nat : [row EXCEPT !.num_passengers = x] \in Row
           /\ \A x \in BOOLEAN : [row EXCEPT !.sharing = x] \in Row
           /\ \A x \in Users \cup {NoOne} :
                /\ [row EXCEPT !.sharer = x] \in Row
                /\ [row EXCEPT !.driver_name = x] \in Row
           /\ \A x \in {"open", "confirmed", "completed"} : [row EXCEPT !.status = x] \in Row
    BY SMT DEF Row

\* What a view makes of a row is a row again, unless it has too few passengers.
LEMMA NewRowType ==
    ASSUME NEW u \in Users, NEW q \in Saving, NEW sharing \in BOOLEAN, q.view # "delete",
           ride_sharer \in [Users -> Nat]
    PROVE  /\ NewRow(u, q, sharing).num_passengers \in Int
           /\ NewRow(u, q, sharing).num_passengers >= 0 => NewRow(u, q, sharing) \in Row
<1> DEFINE row == q.row
           new == NewRow(u, q, sharing)
<1>1. row \in Row /\ q.typed \in Nat /\ q.view \in Views \ {"delete"} /\ ride_sharer[u] \in Nat
    BY DEF Saving
<1>2. CASE q.view = "change"
    <2> DEFINE mine == [row EXCEPT !.owner = u]
               counted == [mine EXCEPT !.num_passengers = q.typed]
    <2>1. counted \in Row
        BY <1>1, FieldSet
    <2>2. new = [counted EXCEPT !.sharing = sharing]
        BY <1>2 DEF NewRow
    <2> HIDE DEF counted
    <2>3. [counted EXCEPT !.sharing = sharing] \in Row
        BY <2>1, FieldSet
    <2>4. [counted EXCEPT !.sharing = sharing].num_passengers \in Int
        BY <2>3 DEF Row
    <2> QED
        BY <2>2, <2>3, <2>4, Zenon
<1>3. CASE q.view \in {"join", "cancel"}
    <2> DEFINE n == IF q.view = "join" THEN row.num_passengers + ride_sharer[u]
                    ELSE row.num_passengers - ride_sharer[u]
               sharer == IF q.view = "join" THEN u ELSE NoOne
               open == [row EXCEPT !.status = "open"]
               shared == [open EXCEPT !.sharer = sharer]
    <2>1. n \in Int /\ sharer \in Users \cup {NoOne}
        BY <1>1 DEF Row
    <2>2. shared \in Row
        BY <1>1, <2>1, FieldSet
    <2>3. new = [shared EXCEPT !.num_passengers = n]
        BY <1>3 DEF NewRow, Joined, Cancelled
    <2> HIDE DEF n, shared
    <2>4. new.num_passengers = n
        BY <2>2, <2>3 DEF Row
    <2>5. ASSUME n >= 0 PROVE new \in Row
        <3>1. n \in Nat
            BY <2>1, <2>5
        <3>2. [shared EXCEPT !.num_passengers = n] \in Row
            BY <2>2, <3>1, FieldSet
        <3> QED
            BY <2>3, <3>2, Zenon
    <2> QED
        BY <2>1, <2>4, <2>5
<1>4. CASE q.view = "confirm"
    <2> DEFINE confirmed == [row EXCEPT !.status = "confirmed"]
    <2>1. confirmed \in Row
        BY <1>1, FieldSet
    <2>2. new = [confirmed EXCEPT !.driver_name = u]
        BY <1>4 DEF NewRow
    <2> HIDE DEF confirmed
    <2>3. [confirmed EXCEPT !.driver_name = u] \in Row
        BY <2>1, FieldSet
    <2>4. new \in Row
        BY <2>2, <2>3, Zenon
    <2> QED
        BY <2>4 DEF Row
<1>5. CASE q.view = "complete"
    <2>1. new = [row EXCEPT !.status = "completed"]
        BY <1>5 DEF NewRow
    <2>2. new \in Row
        BY <1>1, <2>1, FieldSet
    <2> QED
        BY <2>2 DEF Row
<1> QED
    BY <1>1, <1>2, <1>3, <1>4, <1>5 DEF Views

\* What is counted on is counted in seats.
LEMMA OwedType ==
    ASSUME NEW u \in Users, NEW q \in Saving, ride_sharer \in [Users -> Nat], owed \in [Rides -> Counts]
    PROVE  Owed(u, q) \in Counts
<1> DEFINE o == owed[q.ride]
<1>1. o \in Counts /\ q.typed \in Nat /\ ride_sharer[u] \in Nat
    BY DEF Saving
<1>2. o.owner \in Nat /\ o.sharer \in Nat /\ o.overdrawn \in BOOLEAN
    BY <1>1 DEF Counts
<1>3. CASE q.view = "change"
    <2> DEFINE left == IF q.typed < o.sharer THEN q.typed ELSE o.sharer
    <2>1. left \in Nat /\ q.typed - left \in Nat
        BY <1>1, <1>2
    <2>2. Owed(u, q) = [owner |-> q.typed - left, sharer |-> left, overdrawn |-> FALSE]
        BY <1>3 DEF Owed
    <2> HIDE DEF left
    <2> QED
        BY <2>1, <2>2 DEF Counts
<1>4. CASE q.view # "change"
    <2>1. Owed(u, q) \in {o, [o EXCEPT !.sharer = ride_sharer[u]],
                          [o EXCEPT !.sharer = 0, !.overdrawn = @ \/ ride_sharer[u] > o.sharer]}
        BY <1>4 DEF Owed
    <2>2. [o EXCEPT !.sharer = ride_sharer[u]] \in Counts
        BY <1>1 DEF Counts
    <2>3. [o EXCEPT !.sharer = 0, !.overdrawn = @ \/ ride_sharer[u] > o.sharer] \in Counts
        BY <1>1, <1>2 DEF Counts
    <2> QED
        BY <1>1, <2>1, <2>2, <2>3
<1> QED
    BY <1>3, <1>4

\* A user whose request does not change is still served as before.
LEMMA StillServed ==
    ASSUME NEW u \in Users, NEW v \in Users \ {u}, Serves(v), used \subseteq used',
           request = [x \in Users |-> request[x]],
           NEW q, request' = [request EXCEPT ![u] = q]
    PROVE  Serves(v)'
<1>1. request'[v] = request[v]
    OBVIOUS
<1> QED
    BY <1>1 DEF Serves

\* The types are kept by every step.
LEMMA TypeStep == TypeInv /\ [Next]_vars => TypeInv'
<1> SUFFICES ASSUME TypeInv, [Next]_vars PROVE TypeInv'
    OBVIOUS
<1> USE SeatsAssumption
<1>0. ride_sharer \in [Users -> Nat]
    BY DEF TypeInv, RidesTypeOK
<1>1. ASSUME UNCHANGED vars PROVE TypeInv'
    BY <1>1 DEF vars, TypeInv, RidesTypeOK, Serves
<1>2. ASSUME NEW u \in Users, LoadPage(u) PROVE TypeInv'
    BY <1>2 DEF LoadPage, TypeInv, RidesTypeOK, Serves
<1>3. ASSUME NEW u \in Users, NEW n \in Numbers, SearchRide(u, n) PROVE TypeInv'
    BY <1>3 DEF SearchRide, TypeInv, RidesTypeOK, Serves
<1>4. ASSUME NEW u \in Users, NEW r \in Rides, NEW n \in Numbers, NEW sharing \in BOOLEAN,
             CreateRide(u, r, n, sharing)
      PROVE  TypeInv'
    <2> DEFINE row == [owner |-> u, num_passengers |-> n, sharing |-> sharing, sharer |-> NoOne,
                       status |-> "open", driver_name |-> NoOne]
    <2>1. row \in Row
        BY DEF Row
    <2>2. ride_owner' = [q \in DOMAIN ride_owner \cup {r} |-> IF q = r THEN row ELSE ride_owner[q]]
        BY <1>4, Zenon DEF CreateRide
    <2> HIDE DEF row
    <2>3. \A q \in DOMAIN ride_owner' : ride_owner'[q] \in Row
        BY <2>1, <2>2 DEF TypeInv, RidesTypeOK
    <2>4. RidesTypeOK'
        BY <1>4, <2>2, <2>3 DEF CreateRide, TypeInv, RidesTypeOK
    <2>5. owed' \in [Rides -> Counts]
        BY <1>4 DEF CreateRide, TypeInv, Counts, Seats
    <2>6. \A v \in Users : Serves(v)'
        BY <1>4 DEF CreateRide, TypeInv, Serves
    <2> QED
        BY <1>4, <2>4, <2>5, <2>6 DEF CreateRide, TypeInv
<1>5. ASSUME NEW u \in Users, NEW view \in Views, NEW r \in Rides, Press(u, view, r) PROVE TypeInv'
    <2>2. PICK typed \in IF view = "change" THEN {ride_owner[r].num_passengers} \cup Numbers ELSE {0} :
             request' = [request EXCEPT ![u] = [step |-> "read", view |-> view, ride |-> r, typed |-> typed]]
        BY <1>5, Zenon DEF Press
    <2> DEFINE q == [step |-> "read", view |-> view, ride |-> r, typed |-> typed]
    <2>3. r \in DOMAIN ride_owner /\ ride_owner[r] \in Row /\ r \in used
        BY <1>5 DEF Press, TypeInv, RidesTypeOK
    <2>4. typed \in Nat
        <3>1. CASE view = "change"
            BY <2>2, <2>3, <3>1 DEF Row
        <3>2. CASE view # "change"
            BY <2>2, <3>2
        <3> QED
            BY <3>1, <3>2
    <2>5. q \in Reading /\ q.ride \in used /\ q.step = "read"
        BY <2>3, <2>4 DEF Reading
    <2>6. UNCHANGED <<careful, ride_owner, used, ride_sharer, owed>>
        BY <1>5 DEF Press
    <2>7. request' = [request EXCEPT ![u] = q]
        BY <2>2
    <2> HIDE DEF q
    <2>8. request'[u] = q
        BY <2>7 DEF TypeInv
    <2>9. \A v \in Users : Serves(v)'
        <3> SUFFICES ASSUME NEW v \in Users PROVE Serves(v)'
            OBVIOUS
        <3>1. CASE v = u
            BY <2>5, <2>6, <2>8, <3>1 DEF Serves
        <3>2. CASE v # u
            BY <2>6, <2>7, <3>2, StillServed DEF TypeInv
        <3> QED
            BY <3>1, <3>2
    <2>10. RidesTypeOK'
        BY <2>5, <2>6, <2>7 DEF TypeInv, RidesTypeOK
    <2> QED
        BY <2>6, <2>7, <2>9, <2>10 DEF TypeInv
<1>6. ASSUME NEW u \in Users, ReadRow(u) PROVE TypeInv'
    <2> DEFINE q == request[u]
    <2> DEFINE p == IF q.ride \in DOMAIN ride_owner
                    THEN [step |-> "save", view |-> q.view, ride |-> q.ride, typed |-> q.typed,
                          row |-> ride_owner[q.ride]]
                    ELSE Idle
    <2>1. q \in Reading /\ q.ride \in used
        BY <1>6 DEF ReadRow, TypeInv, Serves, Saving, Idle
    <2>2. p = Idle \/ (p \in Saving /\ p.ride \in used)
        BY <2>1 DEF TypeInv, RidesTypeOK, Reading, Saving
    <2>3. UNCHANGED <<careful, ride_owner, used, ride_sharer, owed>>
        BY <1>6 DEF ReadRow
    <2>4. request' = [request EXCEPT ![u] = p]
        BY <1>6, Zenon DEF ReadRow
    <2>5. p.step \in {"idle", "save"}
        BY DEF Idle
    <2> HIDE DEF p
    <2>6. request'[u] = p
        BY <2>4 DEF TypeInv
    <2>7. \A v \in Users : Serves(v)'
        <3> SUFFICES ASSUME NEW v \in Users PROVE Serves(v)'
            OBVIOUS
        <3>1. CASE v = u
            BY <2>2, <2>3, <2>6, <3>1 DEF Serves
        <3>2. CASE v # u
            BY <2>3, <2>4, <3>2, StillServed DEF TypeInv
        <3> QED
            BY <3>1, <3>2
    <2>8. RidesTypeOK'
        BY <2>3, <2>4, <2>5 DEF TypeInv, RidesTypeOK
    <2> QED
        BY <2>3, <2>4, <2>7, <2>8 DEF TypeInv
<1>7. ASSUME NEW u \in Users, SaveRow(u) PROVE TypeInv'
    <2> DEFINE q == request[u]
    <2>1. q \in Saving /\ q.ride \in used /\ q.view # "delete"
        BY <1>7 DEF SaveRow, TypeInv, Serves, Reading, Idle
    <2>2. PICK sharing \in BOOLEAN : StoreRow(q.ride, NewRow(u, q, sharing))
        <3>1. q.row.sharing \in BOOLEAN
            BY <2>1, Zenon DEF Saving, Row
        <3> QED
            BY <1>7, <3>1, Zenon DEF SaveRow
    <2> DEFINE row == NewRow(u, q, sharing)
    <2>3. row.num_passengers >= 0 => row \in Row
        BY <1>0, <2>1, NewRowType
    <2>4. /\ request' = [request EXCEPT ![u] = Idle]
          /\ UNCHANGED <<careful, used, ride_sharer>>
          /\ owed' = [owed EXCEPT ![q.ride] = IF careful THEN Owed(u, q) ELSE @]
        BY <1>7, Zenon DEF SaveRow
    <2>5. owed' \in [Rides -> Counts]
        <3>1. Owed(u, q) \in Counts
            BY <1>0, <2>1, OwedType DEF TypeInv
        <3>2. q.ride \in Rides
            BY <2>1 DEF Saving
        <3> QED
            BY <2>4, <3>1, <3>2 DEF TypeInv
    <2>6. row.num_passengers \in Int
        BY <1>0, <2>1, NewRowType
    <2>7. StoreRow(q.ride, row)
        BY <2>2
    <2> HIDE DEF row
    <2>8. /\ DOMAIN ride_owner' \subseteq used
          /\ \A r \in DOMAIN ride_owner' : ride_owner'[r] \in Row
        BY <2>1, <2>3, <2>6, <2>7 DEF StoreRow, TypeInv, RidesTypeOK
    <2>9. RidesTypeOK'
        BY <2>4, <2>8 DEF TypeInv, RidesTypeOK, Idle
    <2>10. request'[u] = Idle
        BY <2>4 DEF TypeInv
    <2>11. \A v \in Users : Serves(v)'
        <3> SUFFICES ASSUME NEW v \in Users PROVE Serves(v)'
            OBVIOUS
        <3>1. CASE v = u
            BY <2>10, <3>1 DEF Serves
        <3>2. CASE v # u
            BY <2>4, <3>2, StillServed DEF TypeInv
        <3> QED
            BY <3>1, <3>2
    <2> QED
        BY <2>4, <2>5, <2>9, <2>11 DEF TypeInv
<1>8. ASSUME NEW u \in Users, DeleteRow(u) PROVE TypeInv'
    <2> DEFINE q == request[u]
    <2>1. /\ ride_owner' = [r \in DOMAIN ride_owner \ {q.ride} |-> ride_owner[r]]
          /\ request' = [request EXCEPT ![u] = Idle]
          /\ UNCHANGED <<careful, used, ride_sharer, owed>>
        BY <1>8, Zenon DEF DeleteRow
    <2>2. RidesTypeOK'
        BY <2>1 DEF TypeInv, RidesTypeOK, Idle
    <2>3. request'[u] = Idle
        BY <2>1 DEF TypeInv
    <2>4. \A v \in Users : Serves(v)'
        <3> SUFFICES ASSUME NEW v \in Users PROVE Serves(v)'
            OBVIOUS
        <3>1. CASE v = u
            BY <2>3, <3>1 DEF Serves
        <3>2. CASE v # u
            BY <2>1, <3>2, StillServed DEF TypeInv
        <3> QED
            BY <3>1, <3>2
    <2> QED
        BY <2>1, <2>2, <2>4 DEF TypeInv
<1> QED
    BY <1>1, <1>2, <1>3, <1>4, <1>5, <1>6, <1>7, <1>8 DEF Next, Views
-----------------------------------------------------------------------------
(* One request at a time                                                    *)

\* What a button on a page says of its ride.
LEMMA ButtonMeans ==
    ASSUME NEW u \in Users, NEW view \in Views, NEW r, <<view, r>> \in Buttons(u)
    PROVE  /\ r \in DOMAIN ride_owner
           /\ view # "complete" => ride_owner[r].status = "open"
           /\ view = "complete" => ride_owner[r].status = "confirmed"
           /\ view = "cancel" => ride_owner[r].sharer = u
    BY DEF Buttons, Button, RidesWith, Views

\* The buttons of a page come from the two tables.
LEMMA SameButtons ==
    ASSUME NEW u \in Users, UNCHANGED <<ride_owner, ride_sharer>>
    PROVE  Buttons(u)' = Buttons(u)
    BY DEF Buttons, Button, RidesWith

\* Careful users are kept out while a request is served.
LEMMA OneAtATimeStep == TypeInv /\ OneAtATime /\ [Next]_vars => OneAtATime'
<1> SUFFICES ASSUME TypeInv, OneAtATime, [Next]_vars, careful' PROVE \A v \in Users : UpToDate(v)'
    BY DEF OneAtATime
<1>0. request = [u \in Users |-> request[u]] /\ careful' = careful
    BY DEF TypeInv, Next, LoadPage, SearchRide, CreateRide, Press, ReadRow, SaveRow, DeleteRow, vars
<1> DEFINE AllIdle == \A v \in Users : request[v] = Idle
<1>1. ASSUME UNCHANGED vars PROVE \A v \in Users : UpToDate(v)'
    <2>1. \A v \in Users : UpToDate(v) /\ Buttons(v)' = Buttons(v)
        BY <1>0, <1>1, SameButtons DEF OneAtATime, vars
    <2> QED
        BY <1>1, <2>1 DEF vars, UpToDate
<1>2. ASSUME AllIdle, UNCHANGED request PROVE \A v \in Users : UpToDate(v)'
    BY <1>2 DEF UpToDate
<1>3. ASSUME NEW u \in Users, request' = [request EXCEPT ![u] = Idle],
             \A v \in Users : v # u => request[v] = Idle
      PROVE  \A v \in Users : UpToDate(v)'
    <2>1. \A v \in Users : request'[v] = Idle
        BY <1>0, <1>3
    <2> QED
        BY <2>1 DEF UpToDate
<1>4. ASSUME NEW u \in Users, NEW view \in Views, NEW r \in Rides, Press(u, view, r)
      PROVE  \A v \in Users : UpToDate(v)'
    <2>2. PICK typed :
             request' = [request EXCEPT ![u] = [step |-> "read", view |-> view, ride |-> r, typed |-> typed]]
        BY <1>4, Zenon DEF Press
    <2>3. AllIdle /\ <<view, r>> \in Buttons(u) /\ UNCHANGED <<ride_owner, ride_sharer>>
        BY <1>0, <1>4 DEF Press, MayAct
    <2>4. r \in DOMAIN ride_owner
        BY <2>3, ButtonMeans
    <2>5. <<view, r>> \in Buttons(u)'
        BY <2>3, SameButtons
    <2> DEFINE q == [step |-> "read", view |-> view, ride |-> r, typed |-> typed]
    <2>6. q.view = view /\ q.ride = r /\ q.step = "read"
        OBVIOUS
    <2>7. request' = [request EXCEPT ![u] = q]
        BY <2>2
    <2> HIDE DEF q
    <2>8. request'[u] = q /\ \A v \in Users : v # u => request'[v] = Idle
        BY <1>0, <2>3, <2>7
    <2>9. UpToDate(u)'
        BY <2>3, <2>4, <2>5, <2>6, <2>8 DEF UpToDate
    <2> QED
        BY <2>8, <2>9 DEF UpToDate
<1>5. ASSUME NEW u \in Users, ReadRow(u) PROVE \A v \in Users : UpToDate(v)'
    <2> DEFINE q == request[u]
               p == [step |-> "save", view |-> q.view, ride |-> q.ride, typed |-> q.typed,
                     row |-> ride_owner[q.ride]]
    <2>1. UpToDate(u) /\ q # Idle
        BY <1>0, <1>5 DEF ReadRow, OneAtATime, Idle
    <2>2. q.ride \in DOMAIN ride_owner
        BY <2>1 DEF UpToDate
    <2>3. request' = [request EXCEPT ![u] = IF q.ride \in DOMAIN ride_owner THEN p ELSE Idle]
        BY <1>5, Zenon DEF ReadRow
    <2>4. /\ p.view = q.view /\ p.ride = q.ride /\ p.step = "save" /\ p.row = ride_owner[q.ride]
        OBVIOUS
    <2> HIDE DEF p
    <2>5. request'[u] = p /\ \A v \in Users : v # u => request'[v] = Idle
        BY <1>0, <2>1, <2>2, <2>3 DEF UpToDate
    <2>6. UNCHANGED <<ride_owner, ride_sharer>> /\ Buttons(u)' = Buttons(u)
        BY <1>5, SameButtons DEF ReadRow
    <2>7. UpToDate(u)'
        BY <2>1, <2>4, <2>5, <2>6 DEF UpToDate
    <2> QED
        BY <2>5, <2>7 DEF UpToDate
<1>6. ASSUME NEW u \in Users, SaveRow(u) \/ DeleteRow(u) PROVE \A v \in Users : UpToDate(v)'
    <2>1. UpToDate(u) /\ request[u] # Idle
        <3>1. UpToDate(u)
            BY <1>0 DEF OneAtATime
        <3>2. request[u].step = "save"
            BY <1>6 DEF SaveRow, DeleteRow
        <3> QED
            BY <3>1, <3>2 DEF Idle
    <2>2. request' = [request EXCEPT ![u] = Idle]
        BY <1>6, Zenon DEF SaveRow, DeleteRow
    <2> QED
        BY <1>3, <2>1, <2>2 DEF UpToDate
<1>7. ASSUME NEW u \in Users, LoadPage(u) PROVE FALSE
    BY <1>0, <1>7 DEF LoadPage
<1>8. ASSUME NEW u \in Users, NEW n \in Numbers, SearchRide(u, n) PROVE AllIdle /\ UNCHANGED request
    BY <1>0, <1>8 DEF SearchRide, MayAct
<1>9. ASSUME NEW u \in Users, NEW r \in Rides, NEW n \in Numbers, NEW sharing \in BOOLEAN,
             CreateRide(u, r, n, sharing)
      PROVE  AllIdle /\ UNCHANGED request
    BY <1>0, <1>9 DEF CreateRide, MayAct
<1> HIDE DEF AllIdle
<1> QED
    BY <1>1, <1>2, <1>4, <1>5, <1>6, <1>7, <1>8, <1>9 DEF Next, Views
-----------------------------------------------------------------------------
(* Seats                                                                    *)

\* What an open ride has for its owner and its sharer.
Seated(r) ==
    ride_owner[r].status = "open" /\ ~owed[r].overdrawn =>
        ride_owner[r].num_passengers >= owed[r].owner + owed[r].sharer

\* A careful user's view has read the row that is there.
LEMMA ReadsWhatIsThere ==
    ASSUME TypeInv, OneAtATime, careful, NEW u \in Users, request[u].step = "save"
    PROVE  /\ request[u] \in Saving
           /\ request[u].ride \in DOMAIN ride_owner
           /\ request[u].row = ride_owner[request[u].ride]
           /\ <<request[u].view, request[u].ride>> \in Buttons(u)
<1>1. request[u] \in Saving
    BY DEF TypeInv, Serves, Reading, Idle
<1>2. UpToDate(u)
    BY DEF OneAtATime
<1>3. request[u] # Idle
    BY DEF Idle
<1> QED
    BY <1>1, <1>2, <1>3 DEF UpToDate

\* The row a careful user's view saves has the seats it must have; what is refused is
\* a cancellation.
LEMMA SavedSeats ==
    ASSUME TypeInv, OneAtATime, careful, NEW u \in Users, request[u].step = "save", request[u].view # "delete",
           Seated(request[u].ride), NEW sharing \in BOOLEAN,
           NEW new, new = NewRow(u, request[u], sharing), NEW o, o = Owed(u, request[u])
    PROVE  /\ new.num_passengers < 0 => o = owed[request[u].ride]
           /\ new.status = "open" /\ ~o.overdrawn /\ new.num_passengers >= 0 => new.num_passengers >= o.owner + o.sharer
<1> DEFINE q == request[u]
           row == ride_owner[q.ride]
           was == owed[q.ride]
<1>1. q \in Saving /\ q.row = row /\ q.ride \in DOMAIN ride_owner /\ <<q.view, q.ride>> \in Buttons(u)
    BY ReadsWhatIsThere
<1>3. q.view \in Views \ {"delete"} /\ q.typed \in Nat /\ q.ride \in Rides /\ q.row \in Row
    BY <1>1 DEF Saving
<1>4. row.num_passengers \in Nat /\ was \in Counts
    BY <1>1, <1>3 DEF Row, TypeInv
<1>12. was.owner \in Nat /\ was.sharer \in Nat
    BY <1>4 DEF Counts
<1>5. ride_sharer[u] \in Nat
    BY SeatsAssumption DEF TypeInv, RidesTypeOK
<1>6. q.view # "complete" => row.status = "open"
    BY <1>1, <1>3, ButtonMeans
<1>8. CASE q.view = "change"
    <2>1. new = [q.row EXCEPT !.owner = u, !.num_passengers = q.typed, !.sharing = sharing]
        BY <1>8 DEF NewRow
    <2>2. new.num_passengers = q.typed
        BY <1>1, <1>3, <2>1 DEF Row
    <2>3. PICK left \in Nat : o = [owner |-> q.typed - left, sharer |-> left, overdrawn |-> FALSE]
        BY <1>3, <1>12, <1>8 DEF Owed
    <2> QED
        BY <1>3, <2>2, <2>3
<1>9. CASE q.view = "join"
    <2>1. new = Joined(q.row, u)
        BY <1>9 DEF NewRow
    <2>2. new.num_passengers = row.num_passengers + ride_sharer[u]
        BY <1>1, <1>3, <2>1 DEF Row, Joined
    <2>3. o = [was EXCEPT !.sharer = ride_sharer[u]]
        BY <1>9 DEF Owed
    <2>4. o.owner = was.owner /\ o.sharer = ride_sharer[u] /\ o.overdrawn = was.overdrawn
        BY <1>4, <2>3 DEF Counts
    <2> QED
        BY <1>4, <1>12, <1>5, <1>6, <1>9, <2>2, <2>4 DEF Seated
<1>10. CASE q.view = "cancel"
    <2>1. new = Cancelled(q.row, u)
        BY <1>10 DEF NewRow
    <2>2. new.num_passengers = row.num_passengers - ride_sharer[u]
        BY <1>1, <1>3, <2>1 DEF Row, Cancelled
    <2>3. CASE ride_sharer[u] =< q.row.num_passengers
        <3>1. o = [was EXCEPT !.sharer = 0, !.overdrawn = @ \/ ride_sharer[u] > was.sharer]
            BY <1>10, <2>3 DEF Owed
        <3>2. o.owner = was.owner /\ o.sharer = 0 /\ (o.overdrawn <=> was.overdrawn \/ ride_sharer[u] > was.sharer)
            BY <1>4, <3>1 DEF Counts
        <3> QED
            BY <1>1, <1>4, <1>12, <1>5, <1>6, <1>10, <2>2, <2>3, <3>2 DEF Seated
    <2>4. CASE ~(ride_sharer[u] =< q.row.num_passengers)
        <3>1. o = was
            BY <1>10, <2>4 DEF Owed
        <3> QED
            BY <1>1, <1>4, <1>5, <2>2, <2>4, <3>1
    <2> QED
        BY <2>3, <2>4
<1>11. CASE q.view \in {"confirm", "complete"}
    <2>1. new.status # "open" /\ o = was
        BY <1>1, <1>3, <1>11 DEF NewRow, Row, Owed
    <2> QED
        BY <1>11, <2>1
<1> QED
    BY <1>3, <1>8, <1>9, <1>10, <1>11 DEF Views

\* Without an overdrawing cancellation no step of careful users takes a seat.
LEMMA SeatsStep == IInv /\ [Next]_vars => SeatsKept'
<1> SUFFICES ASSUME IInv, [Next]_vars, careful', NEW r \in DOMAIN ride_owner' PROVE Seated(r)'
    BY DEF SeatsKept, Seated
<1>0. careful' = careful /\ careful
    BY DEF IInv, TypeInv, Next, LoadPage, SearchRide, CreateRide, Press, ReadRow, SaveRow, DeleteRow, vars
<1>1. /\ \A p \in DOMAIN ride_owner : Seated(p) /\ ride_owner[p] \in Row
      /\ TypeInv /\ OneAtATime
    BY <1>0 DEF IInv, TypeInv, RidesTypeOK, SeatsKept, Seated
<1>2. ASSUME UNCHANGED <<ride_owner, owed>> PROVE Seated(r)'
    BY <1>1, <1>2 DEF Seated
<1>3. ASSUME NEW u \in Users, NEW n \in Numbers, SearchRide(u, n) PROVE Seated(r)'
    BY <1>2, <1>3 DEF SearchRide
<1>4. ASSUME NEW u \in Users, NEW p \in Rides, NEW n \in Numbers, NEW sharing \in BOOLEAN,
             CreateRide(u, p, n, sharing)
      PROVE  Seated(r)'
    <2> DEFINE row == [owner |-> u, num_passengers |-> n, sharing |-> sharing, sharer |-> NoOne,
                       status |-> "open", driver_name |-> NoOne]
    <2>1. ride_owner' = [q \in DOMAIN ride_owner \cup {p} |-> IF q = p THEN row ELSE ride_owner[q]]
        BY <1>4, Zenon DEF CreateRide
    <2>2. owed' = [owed EXCEPT ![p] = Seats(n)] /\ owed \in [Rides -> Counts]
        BY <1>0, <1>1, <1>4 DEF CreateRide, TypeInv
    <2>3. row.num_passengers = n /\ n \in Nat
        BY SeatsAssumption
    <2> HIDE DEF row
    <2>4. CASE r = p
        <3>1. ride_owner'[r] = row /\ owed'[r] = Seats(n)
            BY <2>1, <2>2, <2>4
        <3>2. Seats(n).owner = n /\ Seats(n).sharer = 0
            BY DEF Seats
        <3> QED
            BY <2>3, <3>1, <3>2 DEF Seated
    <2>5. CASE r # p
        <3>1. r \in DOMAIN ride_owner /\ ride_owner'[r] = ride_owner[r] /\ owed'[r] = owed[r]
            BY <2>1, <2>2, <2>5
        <3> QED
            BY <1>1, <3>1 DEF Seated
    <2> QED
        BY <2>4, <2>5
<1>5. ASSUME NEW u \in Users, SaveRow(u) PROVE Seated(r)'
    <2> DEFINE q == request[u]
    <2>1. q.step = "save" /\ q.view # "delete"
        BY <1>5 DEF SaveRow
    <2>2. q \in Saving /\ q.ride \in DOMAIN ride_owner /\ q.row = ride_owner[q.ride]
        BY <1>0, <1>1, <2>1, ReadsWhatIsThere
    <2>3. PICK sharing \in BOOLEAN : StoreRow(q.ride, NewRow(u, q, sharing))
        <3>1. q.row.sharing \in BOOLEAN
            BY <2>2, Zenon DEF Saving, Row
        <3> QED
            BY <1>5, <3>1, Zenon DEF SaveRow
    <2>4. PICK new, o : new = NewRow(u, q, sharing) /\ o = Owed(u, q)
        OBVIOUS
    <2>5. /\ new.num_passengers < 0 => o = owed[q.ride]
          /\ new.status = "open" /\ ~o.overdrawn /\ new.num_passengers >= 0 => new.num_passengers >= o.owner + o.sharer
        BY <1>0, <1>1, <2>1, <2>2, <2>4, SavedSeats
    <2>6. new.num_passengers \in Int
        <3>1. ride_sharer \in [Users -> Nat]
            BY <1>1, SeatsAssumption DEF TypeInv, RidesTypeOK
        <3> QED
            BY <2>1, <2>2, <2>4, <3>1, NewRowType
    <2>7. owed' = [owed EXCEPT ![q.ride] = o] /\ StoreRow(q.ride, new)
        BY <1>0, <1>5, <2>3, <2>4, Zenon DEF SaveRow
    <2>8. q.ride \in Rides /\ owed \in [Rides -> Counts]
        BY <1>1, <2>2 DEF Saving, TypeInv
    <2>9. owed'[q.ride] = o /\ \A p \in Rides : p # q.ride => owed'[p] = owed[p]
        BY <2>7, <2>8
    <2>10. CASE new.num_passengers < 0
        <3>1. UNCHANGED ride_owner
            BY <2>7, <2>10 DEF StoreRow
        <3>2. UNCHANGED owed
            BY <2>5, <2>7, <2>8, <2>10
        <3> QED
            BY <1>2, <3>1, <3>2
    <2>11. CASE ~(new.num_passengers < 0)
        <3>1. ride_owner' = [p \in DOMAIN ride_owner \cup {q.ride} |-> IF p = q.ride THEN new ELSE ride_owner[p]]
            BY <2>7, <2>11 DEF StoreRow
        <3>2. CASE r = q.ride
            <4>1. ride_owner'[r] = new /\ owed'[r] = o
                BY <2>9, <3>1, <3>2
            <4> QED
                BY <2>5, <2>6, <2>11, <4>1 DEF Seated
        <3>3. CASE r # q.ride
            <4>1. r \in DOMAIN ride_owner /\ ride_owner'[r] = ride_owner[r] /\ r \in Rides
                BY <1>1, <3>1, <3>3 DEF TypeInv, RidesTypeOK
            <4>2. owed'[r] = owed[r]
                BY <2>9, <3>3, <4>1
            <4> QED
                BY <1>1, <4>1, <4>2 DEF Seated
        <3> QED
            BY <3>2, <3>3
    <2> QED
        BY <2>10, <2>11
<1>6. ASSUME NEW u \in Users, DeleteRow(u) PROVE Seated(r)'
    <2>1. r \in DOMAIN ride_owner /\ ride_owner'[r] = ride_owner[r] /\ UNCHANGED owed
        BY <1>6 DEF DeleteRow
    <2> QED
        BY <1>1, <2>1 DEF Seated
<1>7. ASSUME NEW u \in Users, LoadPage(u) \/ ReadRow(u) \/ (\E view \in Views, p \in Rides : Press(u, view, p))
      PROVE  UNCHANGED <<ride_owner, owed>>
    BY <1>7 DEF LoadPage, ReadRow, Press
<1>8. ASSUME UNCHANGED vars PROVE UNCHANGED <<ride_owner, ride_sharer, owed>>
    BY <1>8 DEF vars
<1> QED
    BY <1>2, <1>3, <1>4, <1>5, <1>6, <1>7, <1>8 DEF Next, Views
-----------------------------------------------------------------------------
(* The theorems                                                             *)

\* The invariant holds for ever.
LEMMA Invariant == Spec => []IInv
<1>1. IInv /\ [Next]_vars => IInv'
    BY TypeStep, OneAtATimeStep, SeatsStep DEF IInv
<1> QED
    BY <1>1, InitInv, PTL DEF Spec

\* The table holds whole rows without negative numbers, whoever presses what and
\* when (models.py: PositiveIntegerField).
THEOREM TableTyped == Spec => []RidesTypeOK
<1>1. IInv => RidesTypeOK
    BY DEF IInv, TypeInv
<1> QED
    BY <1>1, Invariant, PTL

\* Users who take turns lose seats to the owner's own form and to a cancellation that takes
\* off more than the sharer has, and to nothing else, however many they are and however
\* often rides are joined over others, changed and cancelled.
THEOREM SeatsLostByOverdrawingOnly == Spec => []SeatsKept
<1>1. IInv => SeatsKept
    BY DEF IInv
<1> QED
    BY <1>1, Invariant, PTL

\* A step of users who take turns leaves a confirmed ride alone or completes it.
LEMMA ConfirmedStep ==
    IInv /\ [Next]_vars =>
        (careful => \A r \in {q \in DOMAIN ride_owner : ride_owner[q].status # "open"} :
            /\ r \in DOMAIN ride_owner'
            /\ ride_owner'[r] \in {ride_owner[r], [ride_owner[r] EXCEPT !.status = "completed"]})
<1> SUFFICES ASSUME IInv, [Next]_vars, careful, NEW r \in DOMAIN ride_owner, ride_owner[r].status # "open"
             PROVE  /\ r \in DOMAIN ride_owner'
                    /\ ride_owner'[r] \in {ride_owner[r], [ride_owner[r] EXCEPT !.status = "completed"]}
    OBVIOUS
<1>0. TypeInv /\ OneAtATime
    BY DEF IInv
<1> DEFINE Kept == r \in DOMAIN ride_owner' /\ ride_owner'[r] \in {ride_owner[r], [ride_owner[r] EXCEPT !.status = "completed"]}
<1>1. ASSUME UNCHANGED ride_owner PROVE Kept
    BY <1>1
<1>2. ASSUME NEW u \in Users, NEW p \in Rides, NEW n \in Numbers, NEW sharing \in BOOLEAN,
             CreateRide(u, p, n, sharing)
      PROVE  Kept
    <2>1. p # r
        BY <1>0, <1>2 DEF CreateRide, TypeInv, RidesTypeOK
    <2> QED
        BY <1>2, <2>1 DEF CreateRide
<1>3. ASSUME NEW u \in Users, SaveRow(u) PROVE Kept
    <2> DEFINE q == request[u]
    <2>1. q.step = "save" /\ q.view # "delete"
        BY <1>3 DEF SaveRow
    <2>2. q \in Saving /\ q.ride \in DOMAIN ride_owner /\ q.row = ride_owner[q.ride] /\ <<q.view, q.ride>> \in Buttons(u)
        BY <1>0, <2>1, ReadsWhatIsThere
    <2>3. PICK sharing \in BOOLEAN : StoreRow(q.ride, NewRow(u, q, sharing))
        <3>1. q.row.sharing \in BOOLEAN
            BY <2>2, Zenon DEF Saving, Row
        <3> QED
            BY <1>3, <3>1, Zenon DEF SaveRow
    <2>4. CASE q.ride # r
        BY <2>3, <2>4 DEF StoreRow
    <2>5. CASE q.ride = r
        <3>1. q.view = "complete"
            BY <2>2, <2>5, ButtonMeans DEF Saving
        <3> DEFINE new == NewRow(u, q, sharing)
        <3>2. new = [ride_owner[r] EXCEPT !.status = "completed"]
            BY <2>2, <2>5, <3>1 DEF NewRow
        <3>3. StoreRow(r, new)
            BY <2>3, <2>5
        <3> HIDE DEF new
        <3> QED
            BY <3>2, <3>3 DEF StoreRow
    <2> QED
        BY <2>4, <2>5
<1>4. ASSUME NEW u \in Users, DeleteRow(u) PROVE Kept
    <2>1. request[u].step = "save" /\ request[u].view = "delete"
        BY <1>4 DEF DeleteRow
    <2>2. <<request[u].view, request[u].ride>> \in Buttons(u)
        BY <1>0, <2>1, ReadsWhatIsThere
    <2>3. request[u].ride # r
        BY <2>1, <2>2, ButtonMeans DEF Views
    <2> QED
        BY <1>4, <2>3 DEF DeleteRow
<1>5. ASSUME NEW u \in Users, LoadPage(u) \/ ReadRow(u) \/ (\E n \in Numbers : SearchRide(u, n))
                               \/ (\E view \in Views, p \in Rides : Press(u, view, p))
      PROVE  UNCHANGED ride_owner
    BY <1>5 DEF LoadPage, ReadRow, SearchRide, Press
<1>6. ASSUME UNCHANGED vars PROVE UNCHANGED ride_owner
    BY <1>6 DEF vars
<1> HIDE DEF Kept
<1>7. Kept
    BY <1>1, <1>2, <1>3, <1>4, <1>5, <1>6 DEF Next, Views
<1> QED
    BY <1>7 DEF Kept

\* What rideowner_list.html:12 promises holds among any number of users who take turns.
THEOREM ConfirmedForGood == Spec => ConfirmedRideKept
<1>1. IInv /\ [Next]_vars =>
        [careful => \A r \in {q \in DOMAIN ride_owner : ride_owner[q].status # "open"} :
            /\ r \in DOMAIN ride_owner'
            /\ ride_owner'[r] \in {ride_owner[r], [ride_owner[r] EXCEPT !.status = "completed"]}]_vars
    BY ConfirmedStep
<1> QED
    BY <1>1, Invariant, PTL DEF Spec, ConfirmedRideKept
=============================================================================
