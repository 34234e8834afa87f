---------------------------- MODULE Disassembler ----------------------------
(***************************************************************************)
(* What the monitor shows of an instruction: CuDecodeOp of opdec.c, which  *)
(* decodes the word a second time, apart from the handlers of ops.c that   *)
(* Cpu models.  A text is a mnemonic and the operands in their order.      *)
(***************************************************************************)
EXTENDS Cpu

\* The mnemonics of the opcodes that set the flags.
FlagMnemonic ==
    [SLLR |-> "SLRF", SRLR |-> "SRRF", SRAR |-> "SRAS", SLLI |-> "SLIF",
     SRLI |-> "SRIF", SRAI |-> "SRAJ", ANDR |-> "ADRF", ORRR |-> "ORRF",
     NOTR |-> "NOTF", XORR |-> "XORF", ADDR |-> "ADDF", SUBR |-> "SUBF",
     MULR |-> "MULF", DIVR |-> "DIVF"]

\* Mutant: the two opcodes of an operation are shown alike.
OneMnemonic(i) == IF i.op \in Bad THEN "????" ELSE i.op

Mnemonic(i) == CASE i.op \in Bad -> "????"
                 [] i.op \in DOMAIN FlagMnemonic /\ i.f -> FlagMnemonic[i.op]
                 [] OTHER -> i.op

\* CuDecodeOp0x00: the register instructions.
Operands0x00(i) ==
    CASE i.op \in RegShift \cup {"ANDR", "ORRR", "XORR", "ADDR", "SUBR", "MULR", "DIVR"}
              -> <<i.rt, i.ra, i.rb>>
      [] i.op \in ImmShift -> <<i.rt, i.ra, i.imm>>
      [] i.op = "NOTR" -> <<i.rt, i.ra>>
      [] i.op = "RDEP" -> <<i.rt>>
      [] i.op = "WREP" -> <<i.ra>>
      [] i.op \in {"JMPR", "JALR"} -> <<i.ra, i.rb, i.imm>>

\* The lower 21 bits of the word: those of ra and of the 16-bit immediate.
Imm21(i) == i.ra * HalfRange + i.imm

OperandsOther(i) ==
    CASE i.op \in BoolImm \cup {"ADDI"} \cup Load \cup StoreOp -> <<i.rt, i.ra, i.imm>>
      [] i.op \in {"JMPI", "JALI"} -> <<i.imm>>
      [] i.op \in FlagBranch \cup {"LDUI"} -> <<i.rt, i.imm>>
      [] i.op \in CmpBranch -> <<i.rt, Imm21(i)>>

Op0x00 == RegShift \cup ImmShift \cup DOMAIN FlagMnemonic
          \cup {"RDEP", "WREP", "JMPR", "JALR"}

CuDecodeOp(i) ==
    [mnemonic |-> Mnemonic(i),
     operands |-> CASE i.op \in Bad -> <<>>
                    [] i.op \in Op0x00 -> Operands0x00(i)
                    [] OTHER -> OperandsOther(i)]
-----------------------------------------------------------------------------
Decodable == UNION {Decode[w] : w \in Word}

ShownLike(i) == {j \in Decodable : CuDecodeOp(j) = CuDecodeOp(i)}

LookAlikes == UNION {{i} \X (ShownLike(i) \ {i}) : i \in Decodable}

\* Instructions that the monitor shows alike do alike, whatever the registers and
\* the memory hold: no field that matters to ops.c is missing from the text of
\* opdec.c, none is shown that hides another, and no two opcodes share a name.
TextTellsAction ==
    [][\A p \in LookAlikes :
           p[1] \in NextInsn /\ ExecOp(p[1]) => ExecOp(p[2])]_vars
=============================================================================
