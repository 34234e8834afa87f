------------------------------- MODULE MCCpu -------------------------------
(***************************************************************************)
(* Four-bit words of one-bit bytes, a RAM of three words, and registers    *)
(* r0, r1 and the link register r2.  Any word of RAM may stand for any     *)
(* instruction of MCInsns, which has each opcode with immediates on both   *)
(* sides of zero, so that programs of up to MaxSteps instructions do what  *)
(* any program could, one that changes its own code too.                   *)
(***************************************************************************)
EXTENDS Disassembler, Bitwise

CONSTANT MaxSteps
VARIABLE steps

MCAnd(v, w) == v & w
MCOr(v, w) == v | w
MCXor(v, w) == v ^^ w

Rec(op, f, rt, ra, rb, imm) ==
    [op |-> op, f |-> f, rt |-> rt, ra |-> ra, rb |-> rb, imm |-> imm]

\* Instructions of MCInsns with another value in a field that the disassembler does
\* not show, or in one that it does.
MCOddInsns ==
    {Rec("ADDR", FALSE, 1, 1, 2, 0), Rec("RDEP", FALSE, 2, 1, 0, 0),
     Rec("WREP", FALSE, 1, 2, 0, 0), Rec("JMPR", TRUE, 2, 1, 2, 0),
     Rec("LDUI", FALSE, 1, 2, 2, 1), Rec("BRNE", FALSE, 1, 1, 0, 3),
     Rec("BRZR", FALSE, 2, 1, 1, 1), Rec("BAD0", FALSE, 0, 2, 1, 0)}

MCInsns ==
    {Rec(op, TRUE, 1, 1, 2, 0) : op \in {"SLLR", "SRLR", "SRAR", "ANDR", "ORRR",
        "NOTR", "XORR", "ADDR", "SUBR", "MULR", "DIVR", "JMPR", "JALR", "BAD0"}}
    \cup {Rec(op, FALSE, 2, 2, 1, 0) : op \in {"ADDR", "SUBR", "MULR", "DIVR",
        "RDEP", "WREP", "BAD1"}}
    \cup {Rec(op, TRUE, 1, 2, 0, 3) : op \in {"SLLI", "SRLI", "SRAI"}}
    \cup {Rec(op, FALSE, 2, 1, 0, k) : op \in {"ANDI", "ORRI", "XORI"}, k \in {1, 2}}
    \cup {Rec(op, FALSE, 1, 1, 0, k) : op \in {"ADDI", "LDUI"}, k \in 0 .. 3}
    \cup {Rec(op, FALSE, 0, 0, 0, k) : op \in {"JMPI", "JALI"}, k \in {1, 7}}
    \cup {Rec(op, FALSE, 2, 0, 0, 1) : op \in FlagBranch}
    \cup {Rec(op, FALSE, 1, 2, 0, 3) : op \in CmpBranch}
    \cup {Rec(op, FALSE, 1, 2, 0, k) : op \in Load \cup StoreOp, k \in {0, 3}}
    \cup MCOddInsns

MCDecode == [w \in Word |-> MCInsns]
MCImages == {[x \in Ram |-> IF x \in {1, 7} THEN 1 ELSE 0]}

MCInit == Init /\ steps = 0
MCNext == Next /\ steps < MaxSteps /\ steps' = steps + 1
MCSpec == MCInit /\ [][MCNext]_<<vars, steps>>
=============================================================================
