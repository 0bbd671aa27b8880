-------------------------------- MODULE MCUps --------------------------------
(***************************************************************************)
(* Instances of Ups for TLC.                                               *)
(***************************************************************************)
EXTENDS UpsProperties

CONSTANTS s1, s2, d1, d2, u1, u2

Pickup(n, s, wh) == [kind |-> "pickup", seq |-> n, ship |-> s, wh |-> wh, dest |-> d1]
Delivery(n, s) == [kind |-> "delivery", seq |-> n, ship |-> s]
Change(n, s) == [kind |-> "change", seq |-> n, ship |-> s, dest |-> d2]
Bind(n, u) == [kind |-> "bind", seq |-> n, user |-> u]
Disconnect == [kind |-> "disconnect"]

\* Two packages at one warehouse, whose pickups may race for a truck.
OneWarehouse == {Pickup(1, s1, 0), Pickup(2, s2, 0)}
\* Two packages at two warehouses with trucks of their own.
TwoWarehouses == {Pickup(1, s1, 0), Pickup(2, s2, 1)}
\* One package asked for under two numbers, at one warehouse.
AskedTwice == {Pickup(1, s1, 0), Pickup(2, s1, 0)}
\* One package asked for again, where there is no truck, and delivered.
AskedElsewhere == {Pickup(1, s1, 0), Pickup(2, s1, 2), Delivery(3, s1)}
\* A package that is sent elsewhere.
Redirected == {Pickup(1, s1, 0), Delivery(2, s1), Change(3, s1)}
\* A warehouse for which there is no truck, and two users to bind.
NoTruckLeft == {Pickup(1, s1, 2), Bind(4, u1), Bind(5, u2)}
\* A truck whose status is asked for, and an end to it all.
Watched == {Pickup(1, s1, 0), Disconnect}

AllScenarios == {OneWarehouse, TwoWarehouses, AskedTwice, AskedElsewhere, Redirected, NoTruckLeft, Watched}
RedirectedOnly == {Redirected}
OneQuery(a) == IF a = Watched THEN 1 ELSE 0

\* The world's numbers: one for every report, far from Amazon's numbers.
Offset(m) == CASE m.kind \in {"arrive", "error", "status"} -> 0 [] m.kind = "delivered" -> 2 [] m.kind = "idle" -> 4
SeparateNumbers(m) == 100 + 10 * m.cmd + Offset(m)
\* The world counts its reports from a small number, as Amazon its requests.
SmallNumbers(m) == 1 + m.cmd + Offset(m)
=============================================================================
