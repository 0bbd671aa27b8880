---------------------------- MODULE MCProcessor ----------------------------
(***************************************************************************)
(* Instances of Processor for TLC: words of a few bits, four addresses.     *)
(***************************************************************************)
EXTENDS ProcessorProperties, Sequences

R(op, rd_, rs_, rt_, shamt_) == [op |-> op, rd |-> rd_, rs |-> rs_, rt |-> rt_, shamt |-> shamt_, imm |-> 0]
I(op, rd_, rs_, imm_) == [op |-> op, rd |-> rd_, rs |-> rs_, rt |-> 0, shamt |-> 0, imm |-> imm_]
\* The fields of a target are bits of its sign.
J(op, target) == LET sign == IF target < 0 THEN 31 ELSE 0 IN [R(op, sign, sign, sign, 0) EXCEPT !.imm = target]

\* Two registers of the program's own, the status and the link.
MCRegs == {0, 1, 2, 30, 31}

\* Every program of four instructions that starts by counting; they run again
\* and again, for pc wraps.
MCBodies ==
    {R(op, 2, 1, 2, 0) : op \in {"add", "sub", "and", "or"}}
    \cup {R(op, 2, 1, 0, 1) : op \in {"sll", "sra"}}
    \cup {I("addi", 1, 1, 3), I("addi", 1, 2, -1), I("lw", 1, 2, 1), I("sw", 1, 2, 1),
          I("bne", 1, 2, 1), I("blt", 2, 1, -3), R("jr", 2, 0, 0, 0)}
    \cup {J("j", 0), J("jal", 3), J("bex", 1), J("setx", -1)}

Program(b0, b1, b2, b3) == [a \in 0 .. 3 |-> <<b0, b1, b2, b3>>[a + 1]]

\* Those that start by counting, and a few that start with the memory: a reset
\* may find its first instruction half done.
MCPrograms ==
    {Program(I("addi", 1, 1, 1), b1, b2, b3) : b1 \in MCBodies, b2 \in MCBodies, b3 \in MCBodies}
    \cup {Program(b0, I("addi", 1, 1, 1), I("addi", 2, 2, 3), I(op, 1, 2, 1)) :
            b0 \in {I("sw", 1, 2, 1), I("lw", 1, 2, 1)}, op \in {"sw", "lw"}}
=============================================================================
