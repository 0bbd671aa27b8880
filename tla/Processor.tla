----------------------------- MODULE Processor -----------------------------
(***************************************************************************)
(* The 32-bit processor and the skeleton it runs in, one action per rising   *)
(* edge of the board's clock (skeleton.v, processor.v, alu.v, onehot.v, the   *)
(* register file and the clock dividers).  The memories are clocked by the    *)
(* board and register their address and their output, so a word arrives two   *)
(* ticks after its address; the program counter and the registers are        *)
(* clocked by the clock divided by four, inverted.                           *)
(*                                                                         *)
(* Words, addresses and immediates have the widths of the constants; an      *)
(* instruction is the record of its fields, not a word.  The divided clock   *)
(* moves after the outputs of the memories, as it does through two dividers. *)
(***************************************************************************)
EXTENDS Integers

CONSTANTS
    W,          \* bits of a word (32)
    A,          \* bits of an address (12)
    Regs,       \* the registers of the file (0 .. 31)
    Programs    \* contents of the instruction memory

Word == 0 .. 2^W - 1
Address == 0 .. 2^A - 1

ROps == {"add", "sub", "and", "or", "sll", "sra"}
IOps == {"addi", "sw", "lw", "bne", "blt"}
JOps == {"j", "jal", "jr", "bex", "setx"}

\* Immediates and targets are kept as the numbers the words of seventeen_SX.v and
\* twentyseven_SX.v stand for.
Instruction == [op: ROps \cup IOps \cup JOps, rd: Regs, rs: Regs, rt: Regs, shamt: 0 .. W - 1,
                imm: -(2^(W - 1)) .. 2^(W - 1) - 1]

ASSUME ProcessorAssumption ==
    /\ W \in Nat \ {0, 1} /\ A \in 1..W
    /\ {0, 30, 31} \subseteq Regs
    /\ \A program \in Programs : program \in [Address -> Instruction]

\* What the proofs use of powers: how one is made of the one before.
ASSUME PowersAssumption == 2^0 = 1 /\ \A n \in 0 .. W - 1 : 2^(n + 1) = 2 * 2^n

VARIABLES
    imem,           \* the instruction memory
    address_reg,    \* the address its last tick registered
    q_imem,         \* its output
    dmem, dmem_address_reg, q_dmem,
    pc,             \* the flip-flops of dffe_PC
    regs,           \* those of register_list
    clk_two,        \* clk_div_two
    clk_four,       \* clk_div_four
    reset,          \* the input
    ticks           \* history: ticks since power-up or since reset rose, at most 4

vars == <<imem, address_reg, q_imem, dmem, dmem_address_reg, q_dmem, pc, regs, clk_two, clk_four, reset, ticks>>

\* The number a word stands for, and back.
Signed(x) == IF x < 2^(W - 1) THEN x ELSE x - 2^W
ToWord(n) == n % 2^W

\* Mutant of Extended: the sign is extended beyond the word.
ExtendedBeyond(a) == IF a < 2^(A - 1) THEN a ELSE a - 2^A

\* Sign extension of an address (twelve_SX.v).
Extended(a) == ToWord(IF a < 2^(A - 1) THEN a ELSE a - 2^A)

Nop == [op |-> "add", rd |-> 0, rs |-> 0, rt |-> 0, shamt |-> 0, imm |-> 0]

Init ==
    /\ imem \in Programs
    /\ q_imem = Nop /\ address_reg = 0
    /\ dmem = [a \in Address |-> 0] /\ q_dmem = 0 /\ dmem_address_reg = 0
    /\ pc = 0
    /\ regs = [r \in Regs |-> 0]
    /\ clk_two = FALSE /\ clk_four = FALSE /\ reset = FALSE /\ ticks = 0
-----------------------------------------------------------------------------
(* The data path, combinational in the instruction, the registers, the       *)
(* program counter and the word loaded                                      *)

\* Bit i of a word, and the word made of bits.
Bit(x, i) == (x \div 2^i) % 2

Bits(b) ==
    LET sum[n \in 0 .. W] == IF n = 0 THEN 0 ELSE sum[n - 1] + b[n - 1] * 2^(n - 1)
    IN  sum[W]

\* What ALUOPcode selects; every instruction but those of type R adds.
AluResult(op, a, b, shamt) ==
    CASE op = "sub" -> ToWord(a - b)
      [] op = "and" -> Bits([i \in 0 .. W - 1 |-> Bit(a, i) * Bit(b, i)])
      [] op = "or" -> Bits([i \in 0 .. W - 1 |-> IF Bit(a, i) + Bit(b, i) > 0 THEN 1 ELSE 0])
      [] op = "sll" -> ToWord(a * 2^shamt)
      [] op = "sra" -> ToWord(Signed(a) \div 2^shamt)
      [] OTHER -> ToWord(a + b)

\* inner_cout is the sign of the sum, or of the difference for sub; and, or and
\* the shifts leave what the sum has set.  overflow compares it with the sign of
\* the result that was selected.
Overflow(op, a, b, result) ==
    LET wide == IF op = "sub" THEN Signed(a) - Signed(b) ELSE Signed(a) + Signed(b)
    IN  (wide < 0) # (Signed(result) < 0)

\* Mutant of PortB: a store puts out rt.
PortBWithoutStores(i) == IF i.op = "bex" THEN 30 ELSE IF i.op \in {"bne", "blt", "jr"} THEN i.rd ELSE i.rt

\* ctrl_readRegA and ctrl_readRegB
PortA(i) == IF i.op = "bex" THEN 0 ELSE i.rs
PortB(i) == IF i.op = "bex" THEN 30 ELSE IF i.op \in {"sw", "bne", "blt", "jr"} THEN i.rd ELSE i.rt

OperandA(i) == regs[PortA(i)]
OperandB(i) == IF i.op \in {"addi", "sw", "lw"} THEN ToWord(i.imm) ELSE regs[PortB(i)]

Result(i) == AluResult(i.op, OperandA(i), OperandB(i), i.shamt)
V(i) == Overflow(i.op, OperandA(i), OperandB(i), Result(i))

WriteEnable(i) == i.op \in ROps \cup {"addi", "lw", "jal", "setx"}

\* ctrl_writeReg: any overflow leads to $rstatus, whatever the instruction.
WriteReg(i) ==
    IF V(i) THEN 30 ELSE IF i.op = "jal" THEN 31 ELSE IF i.op = "setx" THEN 30 ELSE i.rd

PCAddOne == (pc + 1) % 2^A

\* data_writeReg, with the word the data memory puts out
WriteData(i, loaded) ==
    CASE V(i) /\ i.op = "add" -> 1
      [] V(i) /\ i.op = "addi" -> 2
      [] V(i) /\ i.op = "sub" -> 3
      [] i.op = "jal" -> Extended(PCAddOne)
      [] i.op = "setx" -> ToWord(i.imm)
      [] i.op = "lw" -> loaded
      [] OTHER -> Result(i)

Branches(i) ==
    \/ i.op = "bne" /\ OperandA(i) # OperandB(i)
    \/ i.op = "blt" /\ Signed(OperandB(i)) < Signed(OperandA(i))

Jumps(i) == i.op \in {"j", "jal"} \/ (i.op = "bex" /\ OperandA(i) # OperandB(i))

PCInput(i) ==
    CASE i.op = "jr" -> OperandB(i) % 2^A
      [] Jumps(i) -> i.imm % 2^A
      [] Branches(i) -> (PCAddOne + i.imm) % 2^A
      [] OTHER -> PCAddOne
-----------------------------------------------------------------------------
(* The clocks                                                               *)

\* Mutant of Clocked: the processor runs on the clock divided by two.
ClockedTwice == ~reset /\ ~clk_two

\* The dividers: clk_two turns at each tick, clk_four when clk_two rises, and the
\* processor's clock is clk_four inverted.
Clocked == ~reset /\ ~clk_two /\ clk_four

\* register_list: register 0 stays zero; the file is written at the same edge as the PC.
Execute(i, loaded) ==
    /\ pc' = PCInput(i)
    /\ regs' = [r \in Regs |->
            IF WriteEnable(i) /\ r = WriteReg(i) /\ r # 0 THEN WriteData(i, loaded) ELSE regs[r]]

\* The instruction memory, a ROM.
FetchTick ==
    /\ q_imem' = imem[address_reg]
    /\ address_reg' = pc

\* The data memory: it samples what the instruction before its eyes puts on the
\* lines, at every tick.
MemoryTick ==
    /\ q_dmem' = dmem[dmem_address_reg]
    /\ dmem_address_reg' = Result(q_imem) % 2^A
    /\ dmem' = IF q_imem.op = "sw" THEN [dmem EXCEPT ![Result(q_imem) % 2^A] = regs[PortB(q_imem)]] ELSE dmem

Tick ==
    /\ FetchTick
    /\ MemoryTick
    /\ clk_two' = (~reset /\ ~clk_two)
    /\ clk_four' = IF ~reset /\ ~clk_two THEN ~clk_four ELSE clk_four
    /\ IF Clocked THEN Execute(q_imem', q_dmem') ELSE UNCHANGED <<pc, regs>>
    /\ ticks' = IF ticks < 4 THEN ticks + 1 ELSE 4
    /\ UNCHANGED <<imem, reset>>

\* Reset clears the flip-flops and clk_div_two at once.  clk_div_four is cleared
\* at an edge of clk_div_two only, and there is none as long as reset lasts.
AssertReset ==
    /\ ~reset /\ reset' = TRUE
    /\ pc' = 0
    /\ regs' = [r \in Regs |-> 0]
    /\ clk_two' = FALSE
    /\ ticks' = 0
    /\ UNCHANGED <<imem, address_reg, q_imem, dmem, dmem_address_reg, q_dmem, clk_four>>

ReleaseReset ==
    /\ reset /\ reset' = FALSE
    /\ UNCHANGED <<imem, address_reg, q_imem, dmem, dmem_address_reg, q_dmem, pc, regs, clk_two, clk_four, ticks>>

Next == Tick \/ AssertReset \/ ReleaseReset

Spec == Init /\ [][Next]_vars
=============================================================================
