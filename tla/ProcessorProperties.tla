------------------------ MODULE ProcessorProperties ------------------------
(***************************************************************************)
(* What the processor promises a program: at each edge of its clock the      *)
(* instruction at pc is executed, whole, once the memories have caught up    *)
(* with a reset.                                                             *)
(***************************************************************************)
EXTENDS Processor

\* Type correctness, for any program: the data path keeps its widths.
ProcessorTypeOK ==
    /\ pc \in Address /\ address_reg \in Address /\ dmem_address_reg \in Address
    /\ regs \in [Regs -> Word] /\ regs[0] = 0
    /\ dmem \in [Address -> Word] /\ q_dmem \in Word
    /\ clk_two \in BOOLEAN /\ clk_four \in BOOLEAN /\ reset \in BOOLEAN /\ ticks \in 0 .. 4
-----------------------------------------------------------------------------
(* The instruction set, on numbers                                          *)

rs(i) == Signed(regs[i.rs])
rt(i) == Signed(regs[i.rt])
rd(i) == Signed(regs[i.rd])

Fits(n) == -(2^(W - 1)) =< n /\ n < 2^(W - 1)

MemoryAddress(i) == (rs(i) + i.imm) % 2^A

Ones(x) == {k \in 0 .. W - 1 : (x \div 2^k) % 2 = 1}

Arithmetic(i) == CASE i.op = "add" -> rs(i) + rt(i) [] i.op = "addi" -> rs(i) + i.imm [] i.op = "sub" -> rs(i) - rt(i)

\* The value an instruction computes; and, or are stated bit by bit.
IsValue(i, v) ==
    CASE i.op \in {"add", "addi", "sub"} -> v = ToWord(Arithmetic(i))
      [] i.op = "and" -> Ones(v) = Ones(regs[i.rs]) \cap Ones(regs[i.rt])
      [] i.op = "or" -> Ones(v) = Ones(regs[i.rs]) \cup Ones(regs[i.rt])
      [] i.op = "sll" -> Ones(v) = {k + i.shamt : k \in Ones(regs[i.rs])} \cap (0 .. W - 1)
      [] i.op = "sra" -> \E rest \in 0 .. 2^i.shamt - 1 : rs(i) = Signed(v) * 2^i.shamt + rest
      [] i.op = "lw" -> v = dmem[MemoryAddress(i)]
      [] i.op = "jal" -> v % 2^A = (pc + 1) % 2^A
      [] i.op = "setx" -> v = ToWord(i.imm)

\* The register it is for, and what is written there when nothing is wrong.
Target(i) == IF i.op = "jal" THEN 31 ELSE IF i.op = "setx" THEN 30 ELSE i.rd

Writes(r, Is(_)) ==
    /\ \A q \in Regs \ {r} : regs'[q] = regs[q]
    /\ r # 0 => Is(regs'[r])

\* The status an arithmetic overflow leaves in $30 (processor.v:214).
Status(i) == CASE i.op = "add" -> 1 [] i.op = "addi" -> 2 [] i.op = "sub" -> 3

Registers(i) ==
    CASE i.op \in {"sw", "j", "jr", "bne", "blt", "bex"} -> regs' = regs
      [] i.op \in {"add", "addi", "sub"} /\ ~Fits(Arithmetic(i)) -> Writes(30, LAMBDA v : v = Status(i))
      [] OTHER -> LET Is(v) == IsValue(i, v) IN Writes(Target(i), Is)

NextPC(i) ==
    CASE i.op \in {"j", "jal"} -> i.imm
      [] i.op = "bex" /\ regs[30] # 0 -> i.imm
      [] i.op = "jr" -> rd(i)
      [] i.op = "bne" /\ rd(i) # rs(i) -> pc + 1 + i.imm
      [] i.op = "blt" /\ rd(i) < rs(i) -> pc + 1 + i.imm
      [] OTHER -> pc + 1

\* An edge of the processor's clock.  A word of a memory is there two ticks after
\* its address, so the instruction needs two ticks since pc was cleared, a store
\* three and a load four.  A reset clears neither the memories' registers nor
\* clk_four: an edge earlier than that executes what was fetched before the
\* reset, and nothing is said of it here.
Edge == Tick /\ Clocked
Fetched == ticks >= CASE imem[pc].op = "lw" -> 3 [] imem[pc].op = "sw" -> 2 [] OTHER -> 1

\* A result that is neither a sum nor a difference, taken for an overflow: alu.v
\* compares the sign of the result with that of the sum of the operands.
Misdirected(i) == i.op \in {"and", "or", "sll", "sra", "lw", "jal"} /\ V(i)

\* Each edge that is not too early after a reset executes the instruction at pc
\* with the registers and the memory the edge before has left: both memories have answered in time, an
\* overflow is reported in $30 instead of rd, branches and jumps lead where they
\* say, and a misdirected result is right, but in $30.
ExecutesProgram ==
    [][Edge /\ Fetched =>
        LET i == imem[pc]
            Is(v) == IsValue(i, v)
        IN  /\ IF Misdirected(i) THEN Writes(30, Is) ELSE Registers(i)
            /\ pc' = NextPC(i) % 2^A
            /\ i.op = "sw" => dmem'[MemoryAddress(i)] = regs[i.rd]]_vars

\* The data memory sees the lines at every tick, four times an instruction, with
\* registers that have changed under it: still nothing in it changes but what the
\* instruction at pc stores, from the fourth tick after a reset began.  Before that
\* a store fetched before the reset still writes, and nothing is said of it.
StoresItsOwn ==
    [][(Tick /\ ticks >= 3) =>
        \A a \in Address : dmem'[a] # dmem[a] =>
            /\ imem[pc].op = "sw"
            /\ a = MemoryAddress(imem[pc])
            /\ dmem'[a] = regs[imem[pc].rd]]_vars

\* "sll $7, $4, 31  # r7 = r4 << 31 = 0x80000000(hex)" (halfTestCases.s:8): a
\* shift writes rd.
ShiftsWriteTheirRegister ==
    [][Edge /\ Fetched /\ imem[pc].op = "sll" => Registers(imem[pc])]_vars
=============================================================================
