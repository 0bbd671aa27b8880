---------------------------- MODULE RideSharing ----------------------------
(***************************************************************************)
(* The ride sharing site (ride/views.py, ride/models.py and the pages that  *)
(* link to the views): owners ask for rides, sharers join and cancel,       *)
(* drivers confirm and complete.  A view reads a row of Ride_owner, changes *)
(* some fields and saves the whole row, without looking at the status; what *)
(* keeps a confirmed ride is only that the pages do not show the buttons.   *)
(* runserver starts a thread per request.                                  *)
(*                                                                         *)
(* Destinations, times, vehicles and special requests suit everyone; the    *)
(* plate of a driver goes with his name.                                   *)
(***************************************************************************)
EXTENDS Integers, FiniteSets

CONSTANTS
    Users,
    Rides,      \* primary keys, handed out once
    Numbers,    \* passengers a form may carry
    Capacity,   \* Ride_driver.num_passengers of each user
    NoOne,      \* the empty string in sharer and driver_name
    MaxSeats,   \* bound on the passengers of a ride that is joined
    MaxActive   \* bound on users with a page or a request at once

ASSUME SeatsAssumption ==
    /\ Numbers \subseteq Nat \ {0}
    /\ Capacity \in [Users -> Nat]
    /\ NoOne \notin Users

VARIABLES
    careful,        \* users take turns and press what their page shows now
    ride_owner,     \* the table: a row for each ride there is
    used,           \* keys that have been handed out
    ride_sharer,    \* passengers of each user's last search, 0 for none
    page,           \* the button a user has before him
    request,        \* what the server does for each user
    owed            \* history: seats of each ride that owner and sharer count on, and
                    \* whether a cancellation has taken off more than its join added

vars == <<careful, ride_owner, used, ride_sharer, page, request, owed>>

Row == [owner: Users, num_passengers: Nat, sharing: BOOLEAN, sharer: Users \cup {NoOne},
        status: {"open", "confirmed", "completed"}, driver_name: Users \cup {NoOne}]

\* No request; a view that has not read its row; one that has.
Idle == [step |-> "idle"]

\* The owner counts on n seats.
Seats(n) == [owner |-> n, sharer |-> 0, overdrawn |-> FALSE]

Init ==
    /\ careful \in BOOLEAN
    /\ ride_owner = [r \in {} |-> {}]
    /\ used = {}
    /\ ride_sharer = [u \in Users |-> 0]
    /\ page = [u \in Users |-> {}]
    /\ request = [u \in Users |-> Idle]
    /\ owed = [r \in Rides |-> Seats(0)]
-----------------------------------------------------------------------------
(* The pages                                                                *)

\* Mutant of RidesWith: the pages show their buttons in every status.
RidesInAnyStatus(status) == DOMAIN ride_owner

RidesWith(status) == {r \in DOMAIN ride_owner : ride_owner[r].status = status}

Button(view, rides) == {view} \X rides

\* RideOwnerListView, RideSharerResultView, RideSharerStatusView,
\* RideDriverSearchView and RideDriverStatusView, with the conditions of their
\* templates.
Buttons(u) ==
    LET own == {r \in DOMAIN ride_owner : ride_owner[r].owner = u}
        others == DOMAIN ride_owner \ own
    IN  UNION {
          Button("change", own \cap RidesWith("open")),
          Button("delete", own \cap RidesWith("open")),
          Button("join", {r \in others \cap RidesWith("open") : ride_owner[r].sharing /\ ride_sharer[u] > 0}),
          Button("cancel", {r \in others \cap RidesWith("open") : ride_owner[r].sharer = u}),
          Button("confirm", {r \in others \cap RidesWith("open") : ride_owner[r].num_passengers =< Capacity[u]}),
          Button("complete", {r \in others \cap RidesWith("confirmed") : ride_owner[r].driver_name = u})}

\* Careful users act one after the other, on pages that are up to date.
MayAct(u) ==
    /\ request[u] = Idle
    /\ careful => \A v \in Users : request[v] = Idle

\* A user opens a page for the sake of one of its buttons.
LoadPage(u) ==
    /\ ~careful /\ request[u] = Idle /\ page[u] = {}
    /\ Cardinality({v \in Users : page[v] # {} \/ request[v] # Idle}) < MaxActive
    /\ \E button \in Buttons(u) : page' = [page EXCEPT ![u] = {button}]
    /\ UNCHANGED <<careful, ride_owner, used, ride_sharer, request, owed>>

\* RideSharerSearchView; the views look at the last search only.
SearchRide(u, n) ==
    /\ MayAct(u)
    /\ ride_sharer' = [ride_sharer EXCEPT ![u] = n]
    /\ UNCHANGED <<careful, ride_owner, used, page, request, owed>>

\* RideOwnerCreateView
CreateRide(u, r, n, sharing) ==
    /\ MayAct(u) /\ r \notin used
    /\ used' = used \cup {r}
    /\ ride_owner' = [q \in DOMAIN ride_owner \cup {r} |->
            IF q = r THEN [owner |-> u, num_passengers |-> n, sharing |-> sharing, sharer |-> NoOne,
                           status |-> "open", driver_name |-> NoOne]
            ELSE ride_owner[q]]
    /\ owed' = [owed EXCEPT ![r] = Seats(IF careful THEN n ELSE 0)]
    /\ UNCHANGED <<careful, ride_sharer, page, request>>

\* A button is pressed.  The form of "change" is sent with the number of
\* passengers it was opened with, or with another one.
Press(u, view, r) ==
    /\ MayAct(u)
    /\ <<view, r>> \in IF careful THEN Buttons(u) ELSE page[u]
    /\ r \in DOMAIN ride_owner
    /\ \E typed \in IF view = "change" THEN {ride_owner[r].num_passengers} \cup Numbers ELSE {0} :
        request' = [request EXCEPT ![u] = [step |-> "read", view |-> view, ride |-> r, typed |-> typed]]
    /\ page' = [page EXCEPT ![u] = {}]
    /\ UNCHANGED <<careful, ride_owner, used, ride_sharer, owed>>
-----------------------------------------------------------------------------
(* The views                                                                *)

\* The row is read; the request fails when the ride has been deleted.  No ride is
\* joined beyond MaxSeats.
ReadRow(u) ==
    LET q == request[u] IN
    /\ q.step = "read"
    /\ (q.view = "join" /\ q.ride \in DOMAIN ride_owner) =>
            ride_owner[q.ride].num_passengers + ride_sharer[u] =< MaxSeats
    /\ request' = [request EXCEPT ![u] =
            IF q.ride \in DOMAIN ride_owner
            THEN [step |-> "save", view |-> q.view, ride |-> q.ride, typed |-> q.typed,
                  row |-> ride_owner[q.ride]]
            ELSE Idle]
    /\ UNCHANGED <<careful, ride_owner, used, ride_sharer, page, owed>>

\* Mutant of Cancelled: the seats are not given back.
CancelledForFree(row, u) == [row EXCEPT !.status = "open", !.sharer = NoOne, !.num_passengers = 0]

\* cancel takes off the passengers of the last search, whatever was added.
Cancelled(row, u) ==
    [row EXCEPT !.status = "open", !.sharer = NoOne,
                !.num_passengers = @ - ride_sharer[u]]

Joined(row, u) ==
    [row EXCEPT !.status = "open", !.sharer = u,
                !.num_passengers = @ + ride_sharer[u]]

\* What each view makes of the row it has read; sharing is what the form of
\* "change" says.
NewRow(u, q, sharing) ==
    CASE q.view = "change" -> [q.row EXCEPT !.owner = u, !.num_passengers = q.typed, !.sharing = sharing]
      [] q.view = "join" -> Joined(q.row, u)
      [] q.view = "cancel" -> Cancelled(q.row, u)
      [] q.view = "confirm" -> [q.row EXCEPT !.status = "confirmed", !.driver_name = u]
      [] q.view = "complete" -> [q.row EXCEPT !.status = "completed"]

\* Mutant of StoreRow: the check of the column is missing.
StoreAnyRow(r, row) ==
    ride_owner' = [q \in DOMAIN ride_owner \cup {r} |-> IF q = r THEN row ELSE ride_owner[q]]

\* save() updates every column of the row, or inserts it again when it is
\* gone; a PositiveIntegerField refuses a negative number, and the view fails.
StoreRow(r, row) ==
    ride_owner' =
        IF row.num_passengers < 0 THEN ride_owner
        ELSE [q \in DOMAIN ride_owner \cup {r} |-> IF q = r THEN row ELSE ride_owner[q]]

\* What owner and sharer count on once the view has saved its row.  The owner's
\* form states all the seats there are; those of the sharer named come first.
Owed(u, q) ==
    LET o == owed[q.ride] IN
    CASE q.view = "change" ->
            LET left == IF q.typed < o.sharer THEN q.typed ELSE o.sharer
            IN  [owner |-> q.typed - left, sharer |-> left, overdrawn |-> FALSE]
      [] q.view = "join" -> [o EXCEPT !.sharer = ride_sharer[u]]
      [] q.view = "cancel" /\ ride_sharer[u] =< q.row.num_passengers ->
            [o EXCEPT !.sharer = 0, !.overdrawn = @ \/ ride_sharer[u] > o.sharer]
      [] OTHER -> o

SaveRow(u) ==
    LET q == request[u] IN
    /\ q.step = "save" /\ q.view # "delete"
    /\ \E sharing \in IF q.view = "change" THEN BOOLEAN ELSE {q.row.sharing} :
            StoreRow(q.ride, NewRow(u, q, sharing))
    /\ owed' = [owed EXCEPT ![q.ride] = IF careful THEN Owed(u, q) ELSE @]
    /\ request' = [request EXCEPT ![u] = Idle]
    /\ UNCHANGED <<careful, used, ride_sharer, page>>

\* RideOwnerDeleteView
DeleteRow(u) ==
    LET q == request[u] IN
    /\ q.step = "save" /\ q.view = "delete"
    /\ ride_owner' = [r \in DOMAIN ride_owner \ {q.ride} |-> ride_owner[r]]
    /\ request' = [request EXCEPT ![u] = Idle]
    /\ UNCHANGED <<careful, used, ride_sharer, page, owed>>

Next ==
    \E u \in Users :
        \/ LoadPage(u)
        \/ \E n \in Numbers : SearchRide(u, n)
        \/ \E r \in Rides, n \in Numbers, sharing \in BOOLEAN : CreateRide(u, r, n, sharing)
        \/ \E view \in {"change", "delete", "join", "cancel", "confirm", "complete"}, r \in Rides : Press(u, view, r)
        \/ ReadRow(u)
        \/ SaveRow(u)
        \/ DeleteRow(u)

Spec == Init /\ [][Next]_vars
=============================================================================
