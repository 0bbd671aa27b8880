\* Three users, each an owner, sharer and driver; one ride.
CONSTANTS
    Users = {u1, u2, u3}
    Rides = {r1}
    Numbers = {1, 2}
    Capacity <- MCCapacity
    NoOne = NoOne
    MaxSeats = 3
    MaxActive = 2
SPECIFICATION Spec
SYMMETRY MCSymmetry
CHECK_DEADLOCK FALSE
INVARIANTS
    RidesTypeOK
    SeatsKept
PROPERTIES
    ConfirmedRideKept
