\* The links of the UPS server, two frames on each, cut anywhere.
CONSTANTS
    Links <- MCLinks
    Greetings <- MCGreetings
    Frames <- MCFrames
    Block = 40
    MaxFrames = 2
SPECIFICATION Spec
CHECK_DEADLOCK FALSE
INVARIANTS
    WireTypeOK
    FramesAgree
    HandedInOrder
