------------------------------- MODULE Parcels -------------------------------
(***************************************************************************)
(* What the UPS server promises about a package, with nothing said of       *)
(* messages, workers or maps: it is booked with one truck or with none, the *)
(* truck comes, the package goes out with it, is delivered, and Amazon      *)
(* hears of it, each once and in this order.  Ups.tla implements it.        *)
(***************************************************************************)
EXTENDS Integers

CONSTANTS Ships, Trucks, NoTruck

VARIABLES
    stage,      \* how far each package has come
    truck       \* the truck it was booked with

vars == <<stage, truck>>

Stages == {"unknown", "booked", "waiting", "out", "delivered", "confirmed"}

Init ==
    /\ stage = [s \in Ships |-> "unknown"]
    /\ truck = [s \in Ships |-> NoTruck]

Move(s, from, to) == stage[s] = from /\ stage' = [stage EXCEPT ![s] = to]

Book(s, t) == Move(s, "unknown", "booked") /\ truck' = [truck EXCEPT ![s] = t]

\* The trucks come for all the packages they are booked for at once.
Announce(S) ==
    /\ S # {}
    /\ \A s \in S : stage[s] = "booked" /\ truck[s] # NoTruck
    /\ stage' = [s \in Ships |-> IF s \in S THEN "waiting" ELSE stage[s]]
    /\ UNCHANGED truck

SendOut(s) == Move(s, "waiting", "out") /\ UNCHANGED truck
Deliver(s) == Move(s, "out", "delivered") /\ UNCHANGED truck
Confirm(s) == Move(s, "delivered", "confirmed") /\ UNCHANGED truck

Next ==
    \/ \E s \in Ships, t \in Trucks \cup {NoTruck} : Book(s, t)
    \/ \E S \in SUBSET Ships : Announce(S)
    \/ \E s \in Ships : SendOut(s) \/ Deliver(s) \/ Confirm(s)

Spec == Init /\ [][Next]_vars
=============================================================================
