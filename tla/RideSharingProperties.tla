----------------------- MODULE RideSharingProperties -----------------------
(***************************************************************************)
(* What the ride sharing site keeps.                                       *)
(***************************************************************************)
EXTENDS RideSharing

\* Type correctness, for any users: the table holds whole rows, without negative
\* numbers, under keys that have been handed out.
RidesTypeOK ==
    /\ careful \in BOOLEAN
    /\ DOMAIN ride_owner \subseteq used /\ used \subseteq Rides
    /\ \A r \in DOMAIN ride_owner : ride_owner[r] \in Row
    /\ ride_sharer \in [Users -> Numbers \cup {0}]
    /\ \A u \in Users : request[u].step \in {"idle", "read", "save"}

\* Among users who take turns, seats are lost in two ways only.  The owner's form states
\* any number (views.py:68-73), which may leave the sharer fewer seats than he joined with,
\* or none: that number counts from then on.  And a sharer's cancellation takes off more
\* than he still has, because he has searched again or the form has left him fewer
\* (views.py:195-198; ridesharer_status.html:11 asks to cancel before searching again,
\* nothing holds him to it): from then to the next form nothing is promised.  Otherwise an
\* open ride has the seats of its owner and of the sharer it names, however often it is
\* joined over others, changed and cancelled.
SeatsKept ==
    careful =>
        \A r \in DOMAIN ride_owner : ride_owner[r].status = "open" /\ ~owed[r].overdrawn =>
            ride_owner[r].num_passengers >= owed[r].owner + owed[r].sharer

\* "Once a driver comfirms your ride, you cannot change or cancel that ride"
\* (rideowner_list.html:12): among users who take turns a confirmed ride keeps its driver,
\* its sharer and its passengers, and can only be completed.  No view checks it.
ConfirmedRideKept ==
    [][careful =>
        \A r \in {q \in DOMAIN ride_owner : ride_owner[q].status # "open"} :
            /\ r \in DOMAIN ride_owner'
            /\ ride_owner'[r] \in {ride_owner[r], [ride_owner[r] EXCEPT !.status = "completed"]}]_vars
=============================================================================
