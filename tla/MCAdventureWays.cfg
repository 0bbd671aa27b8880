\* A story of the README's with two ways to win and two pages that cannot be reached.
CONSTANTS
    NoGadget = NoGadget
    coin = coin
    rope = rope
    Files <- FromReadme
    MaxTurns = 3
SPECIFICATION Spec
CHECK_DEADLOCK FALSE
INVARIANTS
    EveryWayPrinted
