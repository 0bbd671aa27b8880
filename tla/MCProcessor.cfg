\* Words of three bits, four instructions.
CONSTANTS
    W = 3
    A = 2
    Regs <- MCRegs
    Programs <- MCPrograms
SPECIFICATION Spec
CHECK_DEADLOCK FALSE
INVARIANTS
    ProcessorTypeOK
PROPERTIES
    ExecutesProgram
    StoresItsOwn
