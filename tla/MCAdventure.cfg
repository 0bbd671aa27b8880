\* Stories of four and five pages, altered files, stories with gadgets.
CONSTANTS
    NoGadget = NoGadget
    coin = coin
    rope = rope
    Files <- Everything
    MaxTurns = 3
SPECIFICATION FairSpec
CHECK_DEADLOCK FALSE
INVARIANTS
    TypeOK
    RefusesExactly
    ConditionsHold
    PathsWin
PROPERTIES
    SearchEnds
