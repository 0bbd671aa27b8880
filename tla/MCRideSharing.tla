--------------------------- MODULE MCRideSharing ---------------------------
(***************************************************************************)
(* Instances of RideSharing for TLC.                                       *)
(***************************************************************************)
EXTENDS RideSharingProperties, TLC

\* Every car has room for MaxSeats passengers.
MCCapacity == [u \in Users |-> MaxSeats]

MCSymmetry == Permutations(Users)
=============================================================================
