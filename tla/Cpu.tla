-------------------------------- MODULE Cpu --------------------------------
(***************************************************************************)
(* One instruction of CUP after another: GetNextInsn and ExecOneInsn of    *)
(* cpu.c, the registers and the flags, and the handlers of ops.c.          *)
(*                                                                         *)
(* An instruction is a record of its fields; the pairs of opcodes that     *)
(* differ only in whether they set the flags (ADDR and ADDF, say) share a  *)
(* name and differ in the field f.  Registers are numbers modulo           *)
(* WordRange, and the 64-bit values of the code numbers modulo its square. *)
(***************************************************************************)
EXTENDS Bytes

CONSTANTS
    WordBits,       \* 32
    NumIregs,       \* CU_NUM_IREGS
    LinkReg,        \* LINK_REG_NUM
    Imm21Range,     \* 2^21
    Imm26Range,     \* 2^26
    ResetVector,    \* RESET_VECTOR
    DefRegVal,      \* DEF_REG_VAL
    Images,         \* what the loader may have left in RAM
    BitAnd(_, _), BitOr(_, _), BitXor(_, _),    \* &, | and ^ of uint32_t
    Decode          \* the instructions that a word of RAM may stand for

LongRange == WordRange * WordRange
RegNum == 0 .. NumIregs - 1
Flag == {"N", "O", "C", "Z"}

RegShift == {"SLLR", "SRLR", "SRAR"}
ImmShift == {"SLLI", "SRLI", "SRAI"}
BoolImm == {"ANDI", "ORRI", "XORI"}
FlagBranch == {"BRNR", "BROR", "BRCR", "BRZR"}
CmpBranch == {"BRNE", "BRGT"}
Load == {"LDWD", "LDHS", "LDHU", "LDBS", "LDBU"}
StoreOp == {"STWD", "STHW", "STSB"}
Bad == {"BAD0", "BAD1"}     \* by its op0, by its op1
Op == RegShift \cup ImmShift \cup BoolImm \cup FlagBranch \cup CmpBranch
      \cup Load \cup StoreOp \cup Bad
      \cup {"ANDR", "ORRR", "NOTR", "XORR", "ADDR", "SUBR", "MULR", "DIVR",
            "RDEP", "WREP", "JMPR", "JALR", "ADDI", "JMPI", "JALI", "LDUI"}

\* The values of the immediate field of an opcode.
ImmRange(op) ==
    CASE op \in ImmShift \cup {"JMPR", "JALR"} -> WordBits
      [] op \in FlagBranch -> Imm21Range
      [] op \in {"JMPI", "JALI"} -> Imm26Range
      [] OTHER -> HalfRange

Insn == {i \in [op : Op, f : BOOLEAN, rt : RegNum, ra : RegNum, rb : RegNum, imm : Nat] :
            i.imm < ImmRange(i.op)}

\* What a C compiler knows of the bit-wise operators.
ASSUME BitAssumption ==
    \A v, w \in Word : {BitAnd(v, w), BitOr(v, w), BitXor(v, w)} \subseteq Word
ASSUME WidthAssumption ==
    /\ WordBits \in Nat \ {0} /\ WordRange = 2 ^ WordBits
    /\ \A n \in 0 .. WordBits : 2 ^ n \in 1 .. WordRange
ASSUME ImmAssumption ==
    /\ Imm21Range \in 1 .. WordRange
    /\ Imm26Range \in 1 .. WordRange
ASSUME RegAssumption ==
    NumIregs \in Nat /\ LinkReg \in RegNum \ {0} /\ DefRegVal \in Word
ASSUME RamImageAssumption == Images \subseteq [Ram -> Byte]
ASSUME RamAssumption == MemSize % 4 = 0 /\ ResetVector \in Ram /\ ResetVector % 4 = 0
ASSUME DecodeAssumption ==
    \A w \in Word : Decode[w] # {} /\ \A i \in Decode[w] : i \in Insn

VARIABLES
    cuss_mem,
    cup_iregs,
    cup_epr,        \* the upper half of a product or a dividend
    cup_psr,        \* the flags that are set
    cup_pc,
    result          \* what ExecOneInsn returned; "undefined" after a division by 0

vars == <<cuss_mem, cup_iregs, cup_epr, cup_psr, cup_pc, result>>

\* main() loads the image before CuInitCpu is called.
Init ==
    /\ cuss_mem \in Images
    /\ cup_iregs = [r \in RegNum |-> IF r = 0 THEN 0 ELSE DefRegVal]
    /\ cup_epr = 0
    /\ cup_psr = {}
    /\ cup_pc = ResetVector
    /\ result = "ok"
-----------------------------------------------------------------------------
(***************************************************************************)
(* The accessors of cpu.c.  A register field cannot name a register that   *)
(* does not exist, so CuGetIntReg and CuSetIntReg do not fail.             *)
(***************************************************************************)
\* Mutant: the alignment is not checked.
IsProgCtrUnaligned(a) == IsValidPhyMemAddr(a)

\* What CuSetProgCtr accepts.
IsProgCtr(a) == IsValidPhyMemAddr(a) /\ a % 4 = 0

\* The call of CuSetProgCtr that ends every handler.
SetProgCtr(a) == \/ IsProgCtr(a) /\ cup_pc' = a /\ result' = "ok"
                 \/ ~IsProgCtr(a) /\ UNCHANGED cup_pc /\ result' = "error"

NextPc == Plus(cup_pc, 4)

\* Writing r0 has no effect.
SetIntReg(r, v) ==
    cup_iregs' = IF r = 0 THEN cup_iregs ELSE [cup_iregs EXCEPT ![r] = v]

\* The flags of a 64-bit result.
IntFlags(res) ==
    (IF res % WordRange >= WordRange \div 2 THEN {"N"} ELSE {})
    \cup (IF res >= WordRange THEN {"O"} ELSE {})
    \cup (IF (res \div WordRange) % 2 = 1 THEN {"C"} ELSE {})
    \cup (IF res % WordRange = 0 THEN {"Z"} ELSE {})

\* CuSetIntFlags sets flags and clears none.
SetCpuIntFlags(res) == cup_psr' = cup_psr \cup IntFlags(res)

\* Sign extension of a value below range, where range divides WordRange.
SignExt(v, range) == IF v >= range \div 2 THEN v + (WordRange - range) ELSE v

\* The address of the word that is v words, sign-extended, from base.
WordsFrom(base, v, range) == Plus(4 * SignExt(v, range), base)

Fault == result' = "error" /\ UNCHANGED <<cuss_mem, cup_iregs, cup_epr, cup_psr, cup_pc>>
-----------------------------------------------------------------------------
(***************************************************************************)
(* CuExecOp0x00: the register instructions.                                *)
(***************************************************************************)
\* Mutant: the result is not cut down to 32 bits.
PutLong(i, res) ==
    /\ SetIntReg(i.rt, res)
    /\ IF i.f THEN SetCpuIntFlags(res) ELSE UNCHANGED cup_psr
    /\ SetProgCtr(NextPc)
    /\ UNCHANGED cuss_mem

\* The 64-bit value res becomes the result, in rt and, if asked for, the flags.
Put(i, res) ==
    /\ SetIntReg(i.rt, res % WordRange)
    /\ IF i.f THEN SetCpuIntFlags(res) ELSE UNCHANGED cup_psr
    /\ SetProgCtr(NextPc)
    /\ UNCHANGED cuss_mem

\* v shifted by n bits.  An all-zero word, SLLR r0, r0, r0, is taken for a NOP,
\* which it is anyway.
Shifted(op, v, n) ==
    CASE op \in {"SLLR", "SLLI"} -> (v * 2 ^ n) % WordRange
      [] op \in {"SRLR", "SRLI"} -> v \div 2 ^ n
      [] op \in {"SRAR", "SRAI"} ->
            v \div 2 ^ n + (IF v >= WordRange \div 2
                            THEN WordRange - 2 ^ (WordBits - n) ELSE 0)

Shift(i) ==
    /\ \/ /\ i.op \in RegShift
          /\ Put(i, Shifted(i.op, cup_iregs[i.ra], cup_iregs[i.rb] % WordBits))
       \/ /\ i.op \in ImmShift
          /\ Put(i, Shifted(i.op, cup_iregs[i.ra], i.imm))
    /\ UNCHANGED cup_epr

Logic(i) ==
    /\ LET a == cup_iregs[i.ra]
           b == cup_iregs[i.rb]
       IN  \/ i.op = "ANDR" /\ Put(i, BitAnd(a, b))
           \/ i.op = "ORRR" /\ Put(i, BitOr(a, b))
           \/ i.op = "NOTR" /\ Put(i, WordRange - 1 - a)
           \/ i.op = "XORR" /\ Put(i, BitXor(a, b))
    /\ UNCHANGED cup_epr

\* The difference is an int64_t, whose upper half is all ones after a borrow.
AddSub(i) ==
    /\ LET a == cup_iregs[i.ra]
           b == cup_iregs[i.rb]
       IN  \/ i.op = "ADDR" /\ Put(i, a + b)
           \/ i.op = "SUBR" /\ Put(i, (a - b) % LongRange)
    /\ UNCHANGED cup_epr

\* Mutant: ep is left alone.
MulLow(i) ==
    /\ i.op = "MULR"
    /\ LET p == cup_iregs[i.ra] * cup_iregs[i.rb] IN Put(i, p)
    /\ UNCHANGED cup_epr

\* The product, whose upper half goes to ep.  One that does not fit an int64_t
\* is a signed overflow in C; the build's multiplication wraps around, and the
\* code then masks the same 64 bits.
Mul(i) ==
    /\ i.op = "MULR"
    /\ LET p == cup_iregs[i.ra] * cup_iregs[i.rb]
       IN  Put(i, p) /\ cup_epr' = p \div WordRange

\* The bits ep:ra as the int64_t that the code divides; the shift of ep into the
\* sign bit is what the build makes of it.
Dividend(i) == LET d == cup_epr * WordRange + cup_iregs[i.ra]
               IN  IF d >= LongRange \div 2 THEN d - LongRange ELSE d

\* C's division rounds towards zero.
Quotient(n, d) == IF n >= 0 THEN n \div d ELSE -((-n) \div d)

Div(i) ==
    /\ i.op = "DIVR"
    /\ cup_iregs[i.rb] # 0
    /\ LET n == Dividend(i)
           d == cup_iregs[i.rb]
           q == Quotient(n, d)
       IN  Put(i, q % LongRange) /\ cup_epr' = (n - q * d) % WordRange

\* Division by zero is undefined in C, and ends CUSS where the hardware traps.
DivByZero(i) ==
    /\ i.op = "DIVR"
    /\ cup_iregs[i.rb] = 0
    /\ result' = "undefined"
    /\ UNCHANGED <<cuss_mem, cup_iregs, cup_epr, cup_psr, cup_pc>>

MoveEp(i) ==
    /\ \/ /\ i.op = "RDEP"
          /\ SetIntReg(i.rt, cup_epr)
          /\ UNCHANGED cup_epr
       \/ /\ i.op = "WREP"
          /\ cup_epr' = cup_iregs[i.ra]
          /\ UNCHANGED cup_iregs
    /\ SetProgCtr(NextPc)
    /\ UNCHANGED <<cuss_mem, cup_psr>>

JmpReg(i) ==
    /\ \/ i.op = "JMPR" /\ UNCHANGED cup_iregs
       \/ i.op = "JALR" /\ SetIntReg(LinkReg, NextPc)
    /\ SetProgCtr(Plus(cup_iregs[i.rb] * 2 ^ i.imm, cup_iregs[i.ra]))
    /\ UNCHANGED <<cuss_mem, cup_epr, cup_psr>>

BadInsn(i) == i.op \in Bad /\ Fault
-----------------------------------------------------------------------------
(***************************************************************************)
(* The handlers of the other opcodes.                                      *)
(***************************************************************************)
\* Results of immediate operations always set the flags.
PutFlags(i, res) == Put([i EXCEPT !.f = TRUE], res)

BoolImmOps(i) ==
    /\ LET a == cup_iregs[i.ra]
       IN  \/ i.op = "ANDI" /\ PutFlags(i, BitAnd(i.imm, a))
           \/ i.op = "ORRI" /\ PutFlags(i, BitOr(i.imm, a))
           \/ i.op = "XORI" /\ PutFlags(i, BitXor(i.imm, a))
    /\ UNCHANGED cup_epr

\* The operand is extended to 32 bits by its sign, and to 64 with zeros.
AddImmOp(i) ==
    /\ i.op = "ADDI"
    /\ PutFlags(i, SignExt(i.imm, HalfRange) + cup_iregs[i.ra])
    /\ UNCHANGED cup_epr

JmpOps(i) ==
    /\ \/ i.op = "JMPI" /\ UNCHANGED cup_iregs
       \/ i.op = "JALI" /\ SetIntReg(LinkReg, NextPc)
    /\ SetProgCtr(WordsFrom(cup_pc, i.imm, Imm26Range))
    /\ UNCHANGED <<cuss_mem, cup_epr, cup_psr>>

FlagOf == [BRNR |-> "N", BROR |-> "O", BRCR |-> "C", BRZR |-> "Z"]

FlagBranchOps(i) ==
    /\ i.op \in FlagBranch
    /\ SetProgCtr(IF FlagOf[i.op] \in cup_psr
                  THEN WordsFrom(cup_iregs[i.rt], i.imm, Imm21Range)
                  ELSE NextPc)
    /\ UNCHANGED <<cuss_mem, cup_iregs, cup_epr, cup_psr>>

CmpBranchOps(i) ==
    /\ LET taken == \/ i.op = "BRNE" /\ cup_iregs[i.rt] # cup_iregs[i.ra]
                    \/ i.op = "BRGT" /\ cup_iregs[i.rt] > cup_iregs[i.ra]
       IN  /\ i.op \in CmpBranch
           /\ SetProgCtr(IF taken THEN WordsFrom(cup_pc, i.imm, HalfRange) ELSE NextPc)
    /\ UNCHANGED <<cuss_mem, cup_iregs, cup_epr, cup_psr>>

\* The lower half of rt becomes zero.
LoadUpImmOp(i) ==
    /\ i.op = "LDUI"
    /\ SetIntReg(i.rt, i.imm * HalfRange)
    /\ SetProgCtr(NextPc)
    /\ UNCHANGED <<cuss_mem, cup_epr, cup_psr>>

Address(i) == Plus(cup_iregs[i.ra], SignExt(i.imm, HalfRange))

\* How many bytes a load or a store is about.
Size(op) == CASE op \in {"LDWD", "STWD"} -> 4
              [] op \in {"LDHS", "LDHU", "STHW"} -> 2
              [] op \in {"LDBS", "LDBU", "STSB"} -> 1

Loaded(i) == LET v == LoadBytes(cuss_mem, Address(i), Size(i.op))
             IN  CASE i.op = "LDHS" -> SignExt(v, HalfRange)
                   [] i.op = "LDBS" -> SignExt(v, ByteRange)
                   [] OTHER -> v

\* Mutant: a load that is refused has already cleared the register.
LoadMemOpsClearing(i) ==
    /\ i.op \in Load
    /\ IF CanAccess(Address(i), Size(i.op))
       THEN SetIntReg(i.rt, Loaded(i)) /\ SetProgCtr(NextPc)
       ELSE SetIntReg(i.rt, 0) /\ UNCHANGED cup_pc /\ result' = "error"
    /\ UNCHANGED <<cuss_mem, cup_epr, cup_psr>>

LoadMemOps(i) ==
    /\ i.op \in Load
    /\ \/ /\ CanAccess(Address(i), Size(i.op))
          /\ SetIntReg(i.rt, Loaded(i))
          /\ SetProgCtr(NextPc)
          /\ UNCHANGED <<cuss_mem, cup_epr, cup_psr>>
       \/ ~CanAccess(Address(i), Size(i.op)) /\ Fault

StoreMemOps(i) ==
    /\ i.op \in StoreOp
    /\ \/ /\ CanAccess(Address(i), Size(i.op))
          /\ cuss_mem' = StoreBytes(cuss_mem, Address(i), Size(i.op), cup_iregs[i.rt])
          /\ SetProgCtr(NextPc)
          /\ UNCHANGED <<cup_iregs, cup_epr, cup_psr>>
       \/ ~CanAccess(Address(i), Size(i.op)) /\ Fault
-----------------------------------------------------------------------------
ExecOp0x00(i) ==
    \/ Shift(i) \/ Logic(i) \/ AddSub(i) \/ Mul(i) \/ Div(i) \/ DivByZero(i)
    \/ MoveEp(i) \/ JmpReg(i)

\* CuExecOp: the handler of the opcode.
ExecOp(i) ==
    \/ ExecOp0x00(i) \/ BadInsn(i) \/ BoolImmOps(i) \/ AddImmOp(i) \/ JmpOps(i)
    \/ FlagBranchOps(i) \/ CmpBranchOps(i) \/ LoadUpImmOp(i) \/ LoadMemOps(i)
    \/ StoreMemOps(i)

\* GetNextInsn.  That it never fails is FetchNeverFails below.
NextInsn == Decode[LoadBytes(cuss_mem, cup_pc, 4)]

\* ExecOneInsn: no thread goes on after an instruction that fails.
ExecOneInsn == result = "ok" /\ \E i \in NextInsn : ExecOp(i)

Next == ExecOneInsn

Spec == Init /\ [][Next]_vars
-----------------------------------------------------------------------------
TypeOK ==
    /\ cuss_mem \in [Ram -> Byte]
    /\ cup_iregs \in [RegNum -> Word]
    /\ cup_iregs[0] = 0
    /\ cup_epr \in Word
    /\ cup_psr \subseteq Flag
    /\ cup_pc \in Word
    /\ result \in {"ok", "error", "undefined"}

\* Wherever a program leads, the next instruction can be fetched: the four
\* bytes at cup_pc are in RAM and aligned, whatever was jumped to.
FetchNeverFails == CanAccess(cup_pc, 4) /\ cup_pc % 4 = 0

\* MULR leaves the whole product in ep:rt, and DIVR the quotient and the remainder
\* of ep:ra, as long as product and dividend are not negative as an int64_t.  Of
\* larger ones nothing is said: the product overflows, which C does not define,
\* and DivIsExact fails.  (TODO.md: "Fix unsigned multiply and divide instructions".)
ExactResult(i) ==
    LET a == cup_iregs[i.ra]
        b == cup_iregs[i.rb]
        rt == cup_iregs'[i.rt]
    IN  /\ i.op = "MULR" /\ a * b < LongRange \div 2
               => cup_epr' * WordRange + rt = a * b
        /\ i.op = "DIVR" /\ cup_epr < b /\ cup_epr < WordRange \div 2
               => rt * b + cup_epr' = cup_epr * WordRange + a /\ cup_epr' < b

Arithmetic == {"MULR", "DIVR"}

ExactArithmetic ==
    [][\A i \in NextInsn :
        i.op \in Arithmetic /\ i.rt # 0 /\ result' = "ok" /\ ExecOp(i)
        => ExactResult(i)]_vars

\* An instruction that fails leaves cup_pc where it was, and nothing else is
\* changed unless it was the last word of RAM, after which there is no next
\* one, or a call, which has set the link register.
FailureIsContained ==
    [][result' = "error" =>
        /\ cup_pc' = cup_pc
        /\ \/ UNCHANGED <<cuss_mem, cup_iregs, cup_epr, cup_psr>>
           \/ cup_pc = MemSize - 4
           \/ /\ cup_iregs' = [cup_iregs EXCEPT ![LinkReg] = NextPc]
              /\ UNCHANGED <<cuss_mem, cup_epr, cup_psr>>]_vars
-----------------------------------------------------------------------------
(***************************************************************************)
(* What the documents say and the code does not do.                        *)
(***************************************************************************)
\* cup.md: the flags "represent various conditions for integer arithmetic", and
\* ADDF "sets the relevant condition-code flags": after an ADDF or a SUBF, Z
\* tells whether its result is zero.
FlagsTellResult ==
    [][\A i \in NextInsn :
        i.op \in {"ADDR", "SUBR"} /\ i.f /\ i.rt # 0 /\ result' = "ok" /\ ExecOp(i)
        => ("Z" \in cup_psr' <=> cup_iregs'[i.rt] = 0)]_vars

\* cup.md: LDUI is "R[rt](31:16) = imm16", so that ORRI and LDUI together load a
\* constant: the lower half of rt is kept.
LduiKeepsLow ==
    [][\A i \in NextInsn :
        i.op = "LDUI" /\ i.rt # 0 /\ ExecOp(i)
        => cup_iregs'[i.rt] = i.imm * HalfRange + (cup_iregs[i.rt] % HalfRange)]_vars

\* cup.md: DIVR is "R[rt] = ep:R[ra] / R[rb]; ep = ep:R[ra] % R[rb]", where MULR
\* leaves its product: whenever the quotient fits, it is exact.
DivIsExact ==
    [][\A i \in NextInsn :
        i.op = "DIVR" /\ i.rt # 0 /\ cup_epr < cup_iregs[i.rb] /\ ExecOp(i)
        => /\ cup_iregs'[i.rt] * cup_iregs[i.rb] + cup_epr'
               = cup_epr * WordRange + cup_iregs[i.ra]
           /\ cup_epr' < cup_iregs[i.rb]]_vars
=============================================================================
