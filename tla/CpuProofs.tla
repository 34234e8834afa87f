----------------------------- MODULE CpuProofs -----------------------------
(***************************************************************************)
(* Proofs about the execution of instructions, for registers and a RAM of  *)
(* any size, and for any program; and, at the end, that what the monitor   *)
(* shows of an instruction tells what it does.                             *)
(***************************************************************************)
EXTENDS Disassembler, BytesProofs

Inv == TypeOK /\ FetchNeverFails
-----------------------------------------------------------------------------
(* The accessors.                                                          *)

LEMMA WordType ==
    /\ 0 \in Word
    /\ Word \subseteq Nat
    /\ \A a, n \in Int : Plus(a, n) \in Word
    /\ \A v \in Int : v % WordRange \in Word
<1> DEFINE W == WordRange
<1>1. W \in Nat \ {0}
  BY Widths
<1> HIDE DEF W
<1>2. \A v \in Int : v % W \in 0 .. W - 1
  BY <1>1
<1> QED BY <1>1, <1>2 DEF Word, Plus, W

\* An address that CuSetProgCtr accepts has the four bytes of a word after it.
LEMMA ProgCtrIsFetchable ==
    ASSUME NEW a \in Word, IsProgCtr(a)
    PROVE  CanAccess(a, 4) /\ a % 4 = 0
<1>1. a \in Nat /\ MemSize \in Nat /\ MemSize + 3 <= WordRange
      /\ MemSize % 4 = 0 /\ a % 4 = 0 /\ a < MemSize
  BY SizeAssumption, RamAssumption, WordType DEF IsProgCtr, IsValidPhyMemAddr
<1>2. a + 3 < MemSize
  BY <1>1
<1>3. WordRange \in Nat
  BY Widths
<1>4. a + 3 < WordRange
  BY <1>1, <1>2, <1>3
<1>5. Plus(a, 4 - 1) = a + 3
  BY <1>1, <1>4, PlusInRange
<1> QED BY <1>1, <1>2, <1>5 DEF CanAccess, IsValidPhyMemAddr

\* What is left of Inv once the part that SetProgCtr decides is known.
Rest == /\ cuss_mem' \in [Ram -> Byte]
        /\ cup_iregs' \in [RegNum -> Word]
        /\ cup_iregs'[0] = 0
        /\ cup_epr' \in Word
        /\ cup_psr' \subseteq Flag

LEMMA SetProgCtrInv ==
    ASSUME Inv, NEW a \in Word, SetProgCtr(a), Rest
    PROVE  Inv'
<1>1. CASE IsProgCtr(a) /\ cup_pc' = a /\ result' = "ok"
  BY <1>1, ProgCtrIsFetchable DEF Inv, TypeOK, FetchNeverFails, Rest
<1>2. CASE UNCHANGED cup_pc /\ result' = "error"
  BY <1>2 DEF Inv, TypeOK, FetchNeverFails, Rest
<1> QED BY <1>1, <1>2 DEF SetProgCtr

LEMMA FaultInv ==
    ASSUME Inv, Fault
    PROVE  Inv'
BY DEF Inv, TypeOK, FetchNeverFails, Fault

LEMMA SetIntRegType ==
    ASSUME TypeOK, NEW r \in RegNum, NEW v \in Word, SetIntReg(r, v)
    PROVE  cup_iregs' \in [RegNum -> Word] /\ cup_iregs'[0] = 0
BY DEF TypeOK, SetIntReg

LEMMA InsnType ==
    ASSUME TypeOK, NEW i \in Insn
    PROVE  /\ i.op \in Op /\ i.f \in BOOLEAN
           /\ i.rt \in RegNum /\ i.ra \in RegNum /\ i.rb \in RegNum
           /\ i.imm \in Nat /\ i.imm < ImmRange(i.op)
           /\ cup_iregs[i.rt] \in Word /\ cup_iregs[i.ra] \in Word
           /\ cup_iregs[i.rb] \in Word
           /\ cup_iregs[i.rt] \in Nat /\ cup_iregs[i.ra] \in Nat
           /\ cup_iregs[i.rb] \in Nat
BY WordType DEF Insn, TypeOK

LEMMA NextPcType ==
    ASSUME TypeOK
    PROVE  NextPc \in Word
BY WordType DEF TypeOK, NextPc

LEMMA PutRest ==
    ASSUME Inv, NEW i \in Insn, NEW res \in Nat, Put(i, res), cup_epr' \in Word
    PROVE  Inv'
<1>1. res % WordRange \in Word
  BY WordType
<1>2. cup_iregs' \in [RegNum -> Word] /\ cup_iregs'[0] = 0
  BY <1>1, InsnType, SetIntRegType DEF Put, Inv
<1>3. cup_psr' \subseteq Flag
  BY DEF Put, SetCpuIntFlags, IntFlags, Flag, Inv, TypeOK
<1>4. Rest
  BY <1>2, <1>3 DEF Rest, Put, Inv, TypeOK
<1>5. NextPc \in Word /\ SetProgCtr(NextPc)
  BY NextPcType DEF Inv, Put
<1> QED BY <1>4, <1>5, SetProgCtrInv
-----------------------------------------------------------------------------
(* Every handler preserves the invariant.                                  *)

LEMMA ShiftedType ==
    ASSUME NEW op \in RegShift \cup ImmShift, NEW v \in Word, NEW n \in 0 .. WordBits - 1
    PROVE  Shifted(op, v, n) \in Nat
<1> DEFINE p == 2 ^ n
           r == 2 ^ (WordBits - n)
           W == WordRange
<1>1. W \in Nat \ {0} /\ v \in Nat /\ p \in 1 .. W /\ r \in 1 .. W
  <2>1. n \in 0 .. WordBits /\ WordBits - n \in 0 .. WordBits
    BY WidthAssumption
  <2> QED BY <2>1, WidthAssumption, WordType, Widths
<1> HIDE DEF p, r, W
<1>2. (v * p) % W \in Nat
  <2>1. v * p \in Int
    BY <1>1
  <2> QED BY <1>1, <2>1
<1>3. v \div p \in Nat
  <2>1. p \in Nat \ {0}
    BY <1>1
  <2> QED BY <1>1, <2>1, DivMod
<1>4. W - r \in Nat
  BY <1>1
<1>5. v \div p + (IF v >= W \div 2 THEN W - r ELSE 0) \in Nat
  BY <1>3, <1>4
<1>6. CASE op \in {"SLLR", "SLLI"}
  BY <1>2, <1>6 DEF Shifted, p, W
<1>7. CASE op \in {"SRLR", "SRLI"}
  BY <1>3, <1>7 DEF Shifted, p, W
<1>8. CASE op \in {"SRAR", "SRAI"}
  BY <1>5, <1>8 DEF Shifted, p, r, W
<1> QED BY <1>6, <1>7, <1>8 DEF RegShift, ImmShift

LEMMA ShiftInv ==
    ASSUME Inv, NEW i \in Insn, Shift(i)
    PROVE  Inv'
<1>1. cup_epr' \in Word
  BY DEF Shift, Inv, TypeOK
<1>2. cup_iregs[i.ra] \in Word /\ cup_iregs[i.rb] \in Nat
      /\ i.imm \in Nat /\ i.imm < ImmRange(i.op)
  BY InsnType DEF Inv
<1>3. WordBits \in Nat \ {0}
  BY WidthAssumption
<1>4. CASE i.op \in RegShift
            /\ Put(i, Shifted(i.op, cup_iregs[i.ra], cup_iregs[i.rb] % WordBits))
  <2>1. cup_iregs[i.rb] % WordBits \in 0 .. WordBits - 1
    BY <1>2, <1>3
  <2>2. Shifted(i.op, cup_iregs[i.ra], cup_iregs[i.rb] % WordBits) \in Nat
    BY <1>2, <1>4, <2>1, ShiftedType
  <2> QED BY <1>1, <1>4, <2>2, PutRest
<1>5. CASE i.op \in ImmShift /\ Put(i, Shifted(i.op, cup_iregs[i.ra], i.imm))
  <2>1. ImmRange(i.op) = WordBits
    BY <1>5 DEF ImmRange, ImmShift, FlagBranch
  <2>2. i.imm \in 0 .. WordBits - 1
    BY <1>2, <1>3, <2>1
  <2>3. Shifted(i.op, cup_iregs[i.ra], i.imm) \in Nat
    BY <1>2, <1>5, <2>2, ShiftedType
  <2> QED BY <1>1, <1>5, <2>3, PutRest
<1> QED BY <1>4, <1>5 DEF Shift

LEMMA LogicInv ==
    ASSUME Inv, NEW i \in Insn, Logic(i)
    PROVE  Inv'
<1> DEFINE a == cup_iregs[i.ra]
           b == cup_iregs[i.rb]
<1>1. cup_epr' \in Word
  BY DEF Logic, Inv, TypeOK
<1>2. a \in Word /\ b \in Word
  BY InsnType DEF Inv
<1>3. \/ Put(i, BitAnd(a, b)) \/ Put(i, BitOr(a, b))
      \/ Put(i, WordRange - 1 - a) \/ Put(i, BitXor(a, b))
  BY DEF Logic
<1> HIDE DEF a, b
<1>4. BitAnd(a, b) \in Nat /\ BitOr(a, b) \in Nat /\ BitXor(a, b) \in Nat
  BY <1>2, BitAssumption, WordType
<1>5. WordRange - 1 - a \in Nat
  BY <1>2, Widths DEF Word
<1> QED BY <1>1, <1>3, <1>4, <1>5, PutRest

LEMMA AddSubInv ==
    ASSUME Inv, NEW i \in Insn, AddSub(i)
    PROVE  Inv'
<1> DEFINE a == cup_iregs[i.ra]
           b == cup_iregs[i.rb]
<1>1. cup_epr' \in Word
  BY DEF AddSub, Inv, TypeOK
<1>2. a \in Nat /\ b \in Nat
  BY InsnType DEF Inv
<1>3. Put(i, a + b) \/ Put(i, (a - b) % LongRange)
  BY DEF AddSub
<1> HIDE DEF a, b
<1>4. LongRange \in Nat \ {0}
  BY Widths DEF LongRange
<1>5. a + b \in Nat /\ (a - b) % LongRange \in Nat
  BY <1>2, <1>4
<1> QED BY <1>1, <1>3, <1>5, PutRest

LEMMA MulInv ==
    ASSUME Inv, NEW i \in Insn, Mul(i)
    PROVE  Inv'
<1> DEFINE a == cup_iregs[i.ra]
           b == cup_iregs[i.rb]
           p == a * b
           W == WordRange
<1>1. Put(i, p) /\ cup_epr' = p \div W
  BY DEF Mul
<1>2. a \in 0 .. W - 1 /\ b \in 0 .. W - 1 /\ W \in Nat \ {0}
  BY InsnType, Widths DEF Inv, Word
<1> HIDE DEF a, b, W
<1>3. p \in Nat /\ p < W * W
  <2>1. a * b <= a * W /\ W * a <= W * (W - 1)
    BY <1>2, ProductGrows
  <2>2. a * W = W * a /\ W * (W - 1) = W * W - W
    BY <1>2
  <2>3. a * b \in Nat /\ W * W \in Nat /\ W * a \in Nat
    BY <1>2
  <2> QED BY <1>2, <2>1, <2>2, <2>3
<1> HIDE DEF p
<1>4. p \div W \in Nat /\ p \div W < W
  BY <1>2, <1>3, DivMod, DivBound
<1>5. cup_epr' \in Word
  BY <1>1, <1>2, <1>4 DEF Word, W
<1> QED BY <1>1, <1>3, <1>5, PutRest

LEMMA DivInv ==
    ASSUME Inv, NEW i \in Insn, Div(i)
    PROVE  Inv'
<1> DEFINE n == Dividend(i)
           d == cup_iregs[i.rb]
           q == Quotient(n, d)
<1>1. Put(i, q % LongRange) /\ cup_epr' = (n - q * d) % WordRange /\ d # 0
  BY DEF Div
<1>2. d \in Nat \ {0}
  BY <1>1, InsnType DEF Inv
<1>3. LongRange \in Nat \ {0}
  BY Widths DEF LongRange
<1>4. n \in Int
  <2>1. cup_epr \in Nat /\ cup_iregs[i.ra] \in Nat /\ WordRange \in Nat
    BY InsnType, WordType, Widths DEF Inv, TypeOK
  <2>2. cup_epr * WordRange \in Nat
    BY <2>1
  <2>3. cup_epr * WordRange + cup_iregs[i.ra] \in Nat
    BY <2>1, <2>2
  <2> QED BY <1>3, <2>3 DEF Dividend
<1> HIDE DEF n, d
<1>5. q \in Int
  <2>1. CASE n >= 0
    <3>1. n \in Nat
      BY <1>4, <2>1
    <3> QED BY <1>2, <2>1, <3>1, DivMod DEF Quotient
  <2>2. CASE ~(n >= 0)
    <3>1. -n \in Nat
      BY <1>4, <2>2
    <3>2. (-n) \div d \in Nat
      BY <1>2, <3>1, DivMod
    <3> QED BY <2>2, <3>2 DEF Quotient
  <2> QED BY <2>1, <2>2
<1> HIDE DEF q
<1>6. q % LongRange \in Nat
  BY <1>3, <1>5
<1>7. cup_epr' \in Word
  <2>1. q * d \in Int
    BY <1>2, <1>5
  <2>2. n - q * d \in Int
    BY <1>4, <2>1
  <2> QED BY <1>1, <2>2, WordType
<1> QED BY <1>1, <1>6, <1>7, PutRest

LEMMA MoveEpInv ==
    ASSUME Inv, NEW i \in Insn, MoveEp(i)
    PROVE  Inv'
<1>1. SetProgCtr(NextPc) /\ NextPc \in Word /\ UNCHANGED <<cuss_mem, cup_psr>>
  BY NextPcType DEF MoveEp, Inv
<1>2. CASE SetIntReg(i.rt, cup_epr) /\ UNCHANGED cup_epr
  <2>1. cup_epr \in Word /\ i.rt \in RegNum
    BY InsnType DEF Inv, TypeOK
  <2>2. Rest
    BY <1>1, <1>2, <2>1, SetIntRegType DEF Rest, Inv, TypeOK
  <2> QED BY <1>1, <2>2, SetProgCtrInv
<1>3. CASE cup_epr' = cup_iregs[i.ra] /\ UNCHANGED cup_iregs
  <2>1. Rest
    BY <1>1, <1>3, InsnType DEF Rest, Inv, TypeOK
  <2> QED BY <1>1, <2>1, SetProgCtrInv
<1> QED BY <1>2, <1>3 DEF MoveEp

LEMMA SignExtType ==
    ASSUME NEW range \in 1 .. WordRange, NEW v \in Nat, v < range
    PROVE  SignExt(v, range) \in Word /\ SignExt(v, range) \in Nat
BY Widths DEF SignExt, Word

LEMMA HalfFits == HalfRange \in 1 .. WordRange /\ ByteRange \in 1 .. WordRange
<1> DEFINE B == ByteRange
           h == B * B
<1>1. B \in Nat \ {0}
  BY ByteAssumption
<1>2. HalfRange = h /\ WordRange = h * h
  BY DEF HalfRange, WordRange
<1> HIDE DEF B
<1>3. h \in Nat \ {0} /\ B <= h
  BY <1>1
<1> HIDE DEF h
<1>4. h * h \in Nat /\ h <= h * h
  BY <1>3
<1> QED BY <1>1, <1>2, <1>3, <1>4 DEF B

LEMMA WordsFromType ==
    ASSUME NEW base \in Word, NEW range \in 1 .. WordRange, NEW v \in Nat, v < range
    PROVE  WordsFrom(base, v, range) \in Word
<1>1. 4 * SignExt(v, range) \in Int /\ base \in Int
  BY SignExtType, WordType
<1> QED BY <1>1, WordType DEF WordsFrom

\* The link register takes the address of the next instruction.
LEMMA LinkType ==
    ASSUME Inv, SetIntReg(LinkReg, NextPc)
    PROVE  cup_iregs' \in [RegNum -> Word] /\ cup_iregs'[0] = 0
BY NextPcType, RegAssumption, SetIntRegType DEF Inv

LEMMA JmpRegInv ==
    ASSUME Inv, NEW i \in Insn, JmpReg(i)
    PROVE  Inv'
<1> DEFINE s == cup_iregs[i.rb] * 2 ^ i.imm
           a == Plus(s, cup_iregs[i.ra])
<1>1. SetProgCtr(a) /\ UNCHANGED <<cuss_mem, cup_epr, cup_psr>>
      /\ (UNCHANGED cup_iregs \/ SetIntReg(LinkReg, NextPc))
      /\ i.op \in {"JMPR", "JALR"}
  BY DEF JmpReg
<1>2. i.imm \in 0 .. WordBits
  <2>1. ImmRange(i.op) = WordBits
    BY <1>1 DEF ImmRange, ImmShift, FlagBranch
  <2> QED BY <2>1, InsnType, WidthAssumption DEF Inv
<1>3. 2 ^ i.imm \in 1 .. WordRange
  BY <1>2, WidthAssumption
<1>4. s \in Int /\ cup_iregs[i.ra] \in Int
  <2> DEFINE p == 2 ^ i.imm
             b == cup_iregs[i.rb]
  <2>1. p \in Int /\ b \in Int
    BY <1>3, Widths, InsnType DEF Inv
  <2> HIDE DEF p, b
  <2>2. b * p \in Int
    BY <2>1
  <2> QED BY <2>2, InsnType DEF Inv, p, b
<1> HIDE DEF s
<1>5. a \in Word
  BY <1>4, WordType
<1>6. Rest
  BY <1>1, LinkType DEF Rest, Inv, TypeOK
<1> HIDE DEF a
<1> QED BY <1>1, <1>5, <1>6, SetProgCtrInv

LEMMA PutFlagsInv ==
    ASSUME Inv, NEW i \in Insn, NEW res \in Nat, PutFlags(i, res), UNCHANGED cup_epr
    PROVE  Inv'
<1> DEFINE k == [i EXCEPT !.f = TRUE]
<1>1. k \in Insn
  BY DEF Insn
<1>2. Put(k, res)
  BY DEF PutFlags
<1> HIDE DEF k
<1>3. cup_epr' \in Word
  BY DEF Inv, TypeOK
<1> QED BY <1>1, <1>2, <1>3, PutRest

LEMMA BoolImmInv ==
    ASSUME Inv, NEW i \in Insn, BoolImmOps(i)
    PROVE  Inv'
<1> DEFINE a == cup_iregs[i.ra]
<1>1. /\ UNCHANGED cup_epr
      /\ i.op \in BoolImm
      /\ \/ PutFlags(i, BitAnd(i.imm, a)) \/ PutFlags(i, BitOr(i.imm, a))
         \/ PutFlags(i, BitXor(i.imm, a))
  BY DEF BoolImmOps, BoolImm
<1>2. i.imm \in Word /\ a \in Word
  <2>1. ImmRange(i.op) = HalfRange
    BY <1>1 DEF ImmRange, BoolImm, ImmShift, FlagBranch
  <2>2. i.imm \in Nat /\ i.imm < HalfRange
    BY <2>1, InsnType DEF Inv
  <2> QED BY <2>2, HalfFits, InsnType, Widths DEF Inv, Word
<1> HIDE DEF a
<1>3. BitAnd(i.imm, a) \in Nat /\ BitOr(i.imm, a) \in Nat /\ BitXor(i.imm, a) \in Nat
  BY <1>2, BitAssumption, WordType
<1> QED BY <1>1, <1>3, PutFlagsInv

LEMMA AddImmInv ==
    ASSUME Inv, NEW i \in Insn, AddImmOp(i)
    PROVE  Inv'
<1> DEFINE v == SignExt(i.imm, HalfRange)
<1>1. PutFlags(i, v + cup_iregs[i.ra]) /\ UNCHANGED cup_epr /\ i.op = "ADDI"
  BY DEF AddImmOp
<1>2. ImmRange(i.op) = HalfRange
  BY <1>1 DEF ImmRange, ImmShift, FlagBranch
<1>3. v \in Nat
  BY <1>2, InsnType, HalfFits, SignExtType DEF Inv
<1> HIDE DEF v
<1>4. v + cup_iregs[i.ra] \in Nat
  BY <1>3, InsnType DEF Inv
<1> QED BY <1>1, <1>4, PutFlagsInv

LEMMA JmpInv ==
    ASSUME Inv, NEW i \in Insn, JmpOps(i)
    PROVE  Inv'
<1> DEFINE a == WordsFrom(cup_pc, i.imm, Imm26Range)
<1>1. SetProgCtr(a) /\ UNCHANGED <<cuss_mem, cup_epr, cup_psr>>
      /\ (UNCHANGED cup_iregs \/ SetIntReg(LinkReg, NextPc))
      /\ i.op \in {"JMPI", "JALI"}
  BY DEF JmpOps
<1>2. ImmRange(i.op) = Imm26Range
  BY <1>1 DEF ImmRange, ImmShift, FlagBranch
<1>3. a \in Word
  BY <1>2, InsnType, ImmAssumption, WordsFromType DEF Inv, TypeOK
<1>4. Rest
  BY <1>1, LinkType DEF Rest, Inv, TypeOK
<1> HIDE DEF a
<1> QED BY <1>1, <1>3, <1>4, SetProgCtrInv

LEMMA FlagBranchInv ==
    ASSUME Inv, NEW i \in Insn, FlagBranchOps(i)
    PROVE  Inv'
<1> DEFINE a == WordsFrom(cup_iregs[i.rt], i.imm, Imm21Range)
<1>1. /\ UNCHANGED <<cuss_mem, cup_iregs, cup_epr, cup_psr>>
      /\ SetProgCtr(a) \/ SetProgCtr(NextPc)
      /\ i.op \in FlagBranch
  BY DEF FlagBranchOps
<1>2. ImmRange(i.op) = Imm21Range
  BY <1>1 DEF ImmRange, ImmShift, FlagBranch
<1>3. a \in Word /\ NextPc \in Word
  BY <1>2, InsnType, ImmAssumption, WordsFromType, NextPcType DEF Inv
<1>4. Rest
  BY <1>1 DEF Rest, Inv, TypeOK
<1> HIDE DEF a
<1> QED BY <1>1, <1>3, <1>4, SetProgCtrInv

LEMMA CmpBranchInv ==
    ASSUME Inv, NEW i \in Insn, CmpBranchOps(i)
    PROVE  Inv'
<1> DEFINE a == WordsFrom(cup_pc, i.imm, HalfRange)
<1>1. /\ UNCHANGED <<cuss_mem, cup_iregs, cup_epr, cup_psr>>
      /\ SetProgCtr(a) \/ SetProgCtr(NextPc)
      /\ i.op \in CmpBranch
  BY DEF CmpBranchOps
<1>2. ImmRange(i.op) = HalfRange
  BY <1>1 DEF ImmRange, ImmShift, FlagBranch, CmpBranch
<1>3. a \in Word /\ NextPc \in Word
  BY <1>2, InsnType, HalfFits, WordsFromType, NextPcType DEF Inv, TypeOK
<1>4. Rest
  BY <1>1 DEF Rest, Inv, TypeOK
<1> HIDE DEF a
<1> QED BY <1>1, <1>3, <1>4, SetProgCtrInv

LEMMA LoadUpInv ==
    ASSUME Inv, NEW i \in Insn, LoadUpImmOp(i)
    PROVE  Inv'
<1> DEFINE H == HalfRange
<1>1. /\ UNCHANGED <<cuss_mem, cup_epr, cup_psr>>
      /\ SetProgCtr(NextPc)
      /\ SetIntReg(i.rt, i.imm * H)
      /\ i.op = "LDUI"
  BY DEF LoadUpImmOp
<1>2. ImmRange(i.op) = H
  BY <1>1 DEF ImmRange, ImmShift, FlagBranch
<1>3. i.imm \in Nat /\ i.imm < H /\ H \in Nat \ {0} /\ WordRange = H * H
  BY <1>2, InsnType, Widths DEF Inv, WordRange
<1> HIDE DEF H
<1>4. i.imm * H \in Nat /\ i.imm * H < H * H
  <2>1. H * i.imm <= H * (H - 1)
    BY <1>3, ProductGrows
  <2>2. H * (H - 1) = H * H - H /\ i.imm * H = H * i.imm
    BY <1>3
  <2>3. H * i.imm \in Nat /\ H * H \in Nat
    BY <1>3
  <2> QED BY <1>3, <2>1, <2>2, <2>3
<1>5. i.imm * H \in Word
  BY <1>3, <1>4 DEF Word
<1>6. Rest
  BY <1>1, <1>5, SetIntRegType, InsnType DEF Rest, Inv, TypeOK
<1> QED BY <1>1, <1>6, NextPcType, SetProgCtrInv DEF Inv

LEMMA AddressType ==
    ASSUME Inv, NEW i \in Insn, i.op \in Load \cup StoreOp
    PROVE  Address(i) \in Word /\ Size(i.op) \in {1, 2, 4}
<1>1. ImmRange(i.op) = HalfRange
  BY DEF ImmRange, ImmShift, FlagBranch, Load, StoreOp
<1>2. SignExt(i.imm, HalfRange) \in Int /\ cup_iregs[i.ra] \in Int
  BY <1>1, InsnType, HalfFits, SignExtType DEF Inv
<1> QED BY <1>2, WordType DEF Address, Size, Load, StoreOp

LEMMA LoadMemInv ==
    ASSUME Inv, NEW i \in Insn, LoadMemOps(i)
    PROVE  Inv'
<1> DEFINE a == Address(i)
           n == Size(i.op)
           v == LoadBytes(cuss_mem, a, n)
<1>1. i.op \in Load /\ a \in Word /\ n \in {1, 2, 4}
  BY AddressType DEF LoadMemOps
<1>2. CASE /\ CanAccess(a, n) /\ SetIntReg(i.rt, Loaded(i)) /\ SetProgCtr(NextPc)
           /\ UNCHANGED <<cuss_mem, cup_epr, cup_psr>>
  <2>1. Loaded(i) = CASE i.op = "LDHS" -> SignExt(v, HalfRange)
                      [] i.op = "LDBS" -> SignExt(v, ByteRange)
                      [] OTHER -> v
    BY DEF Loaded
  <2>2. i.op = "LDHS" => n = 2
    BY DEF Size
  <2>3. i.op = "LDBS" => n = 1
    BY DEF Size
  <2>4. cuss_mem \in [Ram -> Byte]
    BY DEF Inv, TypeOK
  <2> HIDE DEF n, a
  <2>5. /\ v \in Nat /\ v \in Word
        /\ n = 1 => v < ByteRange
        /\ n = 2 => v < HalfRange
    BY <1>1, <1>2, <2>4, LoadBytesType
  <2> HIDE DEF v
  <2>6. Loaded(i) \in Word
    BY <2>1, <2>2, <2>3, <2>5, HalfFits, SignExtType
  <2>7. Rest
    BY <1>2, <2>6, InsnType, SetIntRegType DEF Rest, Inv, TypeOK
  <2> QED BY <1>2, <2>7, NextPcType, SetProgCtrInv DEF Inv
<1>3. CASE Fault
  BY <1>3, FaultInv
<1> QED BY <1>2, <1>3 DEF LoadMemOps

LEMMA StoreMemInv ==
    ASSUME Inv, NEW i \in Insn, StoreMemOps(i)
    PROVE  Inv'
<1> DEFINE a == Address(i)
           n == Size(i.op)
<1>1. a \in Word /\ n \in {1, 2, 4}
  BY AddressType DEF StoreMemOps
<1>2. CASE /\ CanAccess(a, n)
           /\ cuss_mem' = StoreBytes(cuss_mem, a, n, cup_iregs[i.rt])
           /\ SetProgCtr(NextPc)
           /\ UNCHANGED <<cup_iregs, cup_epr, cup_psr>>
  <2> HIDE DEF a, n
  <2>1. cuss_mem' \in [Ram -> Byte]
    BY <1>1, <1>2, InsnType, StoreBytesType DEF Inv, TypeOK
  <2>2. Rest
    BY <1>2, <2>1 DEF Rest, Inv, TypeOK
  <2> QED BY <1>2, <2>2, NextPcType, SetProgCtrInv DEF Inv
<1>3. CASE Fault
  BY <1>3, FaultInv
<1> QED BY <1>2, <1>3 DEF StoreMemOps
-----------------------------------------------------------------------------
(* The properties.                                                         *)

LEMMA NextInsnType ==
    ASSUME Inv, NEW i \in NextInsn
    PROVE  i \in Insn
<1>1. LoadBytes(cuss_mem, cup_pc, 4) \in Word
  BY LoadBytesType DEF Inv, TypeOK, FetchNeverFails
<1> QED BY <1>1, DecodeAssumption DEF NextInsn

LEMMA ExecInv ==
    ASSUME Inv, NEW i \in Insn, ExecOp(i)
    PROVE  Inv'
<1>1. CASE DivByZero(i)
  BY <1>1 DEF DivByZero, Inv, TypeOK, FetchNeverFails
<1>2. CASE BadInsn(i)
  BY <1>2, FaultInv DEF BadInsn
<1>3. CASE ExecOp0x00(i)
  BY <1>1, <1>3, ShiftInv, LogicInv, AddSubInv, MulInv, DivInv, MoveEpInv, JmpRegInv
     DEF ExecOp0x00
<1> QED BY <1>2, <1>3, BoolImmInv, AddImmInv, JmpInv, FlagBranchInv, CmpBranchInv,
           LoadUpInv, LoadMemInv, StoreMemInv DEF ExecOp

LEMMA InitInv == Init => Inv
<1> SUFFICES ASSUME Init PROVE Inv
  OBVIOUS
<1>1. ResetVector \in Word /\ IsProgCtr(ResetVector)
  BY RamAssumption, SizeAssumption, Widths DEF Ram, Word, IsProgCtr, IsValidPhyMemAddr
<1>2. FetchNeverFails
  BY <1>1, ProgCtrIsFetchable DEF Init, FetchNeverFails
<1>3. cup_iregs \in [RegNum -> Word] /\ cup_iregs[0] = 0
  <2>1. 0 \in RegNum
    BY RegAssumption DEF RegNum
  <2> QED BY <2>1, RegAssumption, WordType DEF Init
<1>4. TypeOK
  BY <1>1, <1>3, RamImageAssumption, WordType DEF Init, TypeOK
<1> QED BY <1>2, <1>4 DEF Inv

LEMMA NextInv == Inv /\ [Next]_vars => Inv'
<1> SUFFICES ASSUME Inv, [Next]_vars PROVE Inv'
  OBVIOUS
<1>1. CASE Next
  BY <1>1, NextInsnType, ExecInv DEF Next, ExecOneInsn
<1>2. CASE UNCHANGED vars
  BY <1>2 DEF vars, Inv, TypeOK, FetchNeverFails
<1> QED BY <1>1, <1>2

LEMMA CpuInvariant == Spec => []Inv
BY InitInv, NextInv, PTL DEF Spec

\* Registers hold words, r0 holds zero, and RAM holds bytes, whatever is run.
THEOREM TypeCorrect == Spec => []TypeOK
<1>1. Inv => TypeOK
  BY DEF Inv
<1> QED BY <1>1, CpuInvariant, PTL

\* The fetch of an instruction cannot fail, and is always aligned, in any
\* program, however it jumps.
THEOREM FetchAlwaysSucceeds == Spec => []FetchNeverFails
<1>1. Inv => FetchNeverFails
  BY DEF Inv
<1> QED BY <1>1, CpuInvariant, PTL

LEMMA LastWord ==
    ASSUME Inv, ~IsProgCtr(NextPc)
    PROVE  cup_pc = MemSize - 4
<1>1. /\ cup_pc \in Nat /\ cup_pc % 4 = 0 /\ cup_pc + 4 <= MemSize
      /\ MemSize \in Nat /\ MemSize % 4 = 0 /\ MemSize + 3 <= WordRange
      /\ WordRange \in Nat
  BY AccessFits, WordType, SizeAssumption, RamAssumption, Widths
     DEF Inv, TypeOK, FetchNeverFails
<1>2. SUFFICES ASSUME cup_pc + 4 < MemSize PROVE FALSE
  BY <1>1
<1>3. cup_pc + 4 < WordRange
  BY <1>1, <1>2
<1>4. NextPc = cup_pc + 4
  BY <1>1, <1>3, PlusInRange DEF NextPc
<1>5. (cup_pc + 4) % 4 = 0
  BY <1>1
<1> QED BY <1>2, <1>4, <1>5 DEF IsProgCtr, IsValidPhyMemAddr

\* A handler that ends with the next instruction fails only at the last word.
LEMMA FailureAtEnd ==
    ASSUME Inv, SetProgCtr(NextPc), result' = "error"
    PROVE  cup_pc' = cup_pc /\ cup_pc = MemSize - 4
BY LastWord DEF SetProgCtr

Contained ==
    /\ cup_pc' = cup_pc
    /\ \/ UNCHANGED <<cuss_mem, cup_iregs, cup_epr, cup_psr>>
       \/ cup_pc = MemSize - 4
       \/ /\ cup_iregs' = [cup_iregs EXCEPT ![LinkReg] = NextPc]
          /\ UNCHANGED <<cuss_mem, cup_epr, cup_psr>>

LEMMA ExecContained ==
    ASSUME Inv, NEW i \in Insn, ExecOp(i), result' = "error"
    PROVE  Contained
<1>1. CASE SetProgCtr(NextPc)
  BY <1>1, FailureAtEnd DEF Contained
<1>2. CASE Fault
  BY <1>2 DEF Fault, Contained
<1>3. CASE JmpReg(i) \/ JmpOps(i)
  BY <1>3, RegAssumption DEF JmpReg, JmpOps, SetIntReg, SetProgCtr, Contained
<1>4. CASE FlagBranchOps(i) \/ CmpBranchOps(i)
  BY <1>4 DEF FlagBranchOps, CmpBranchOps, SetProgCtr, Contained
<1>5. CASE Shift(i) \/ Logic(i) \/ AddSub(i) \/ Mul(i) \/ Div(i) \/ MoveEp(i)
  BY <1>1, <1>5 DEF Shift, Logic, AddSub, Mul, Div, MoveEp, Put
<1>6. CASE BoolImmOps(i) \/ AddImmOp(i) \/ LoadUpImmOp(i)
  BY <1>1, <1>6 DEF BoolImmOps, AddImmOp, LoadUpImmOp, PutFlags, Put
<1>7. CASE LoadMemOps(i) \/ StoreMemOps(i) \/ BadInsn(i)
  BY <1>1, <1>2, <1>7 DEF LoadMemOps, StoreMemOps, BadInsn
<1>8. CASE DivByZero(i)
  BY <1>8 DEF DivByZero
<1> QED BY <1>3, <1>4, <1>5, <1>6, <1>7, <1>8 DEF ExecOp, ExecOp0x00

\* An instruction that fails changes nothing but what FailureIsContained allows.
THEOREM FailureAlwaysContained == Spec => FailureIsContained
<1>1. ASSUME Inv, [Next]_vars
      PROVE  [result' = "error" => Contained]_vars
  <2>1. SUFFICES ASSUME Next, result' = "error" PROVE Contained
    BY <1>1
  <2> QED BY <1>1, <2>1, NextInsnType, ExecContained DEF Next, ExecOneInsn
<1> QED BY <1>1, CpuInvariant, PTL DEF Spec, FailureIsContained, Contained

\* The opcode decides on the handler.
LEMMA Dispatch ==
    ASSUME NEW i \in Insn, ExecOp(i)
    PROVE  /\ i.op = "MULR" => Mul(i)
           /\ i.op = "DIVR" => Div(i) \/ DivByZero(i)
BY DEF ExecOp, ExecOp0x00, Shift, Logic, AddSub, Mul, Div, DivByZero, MoveEp, JmpReg,
       BadInsn, BoolImmOps, AddImmOp, JmpOps, FlagBranchOps, CmpBranchOps, LoadUpImmOp,
       LoadMemOps, StoreMemOps, RegShift, ImmShift, Bad, FlagBranch, CmpBranch, Load, StoreOp

LEMMA PutResult ==
    ASSUME Inv, NEW i \in Insn, NEW res \in Nat, Put(i, res), i.rt # 0
    PROVE  cup_iregs'[i.rt] = res % WordRange
BY InsnType DEF Put, SetIntReg, Inv, TypeOK

LEMMA ExactMul ==
    ASSUME Inv, NEW i \in Insn, Mul(i), i.rt # 0
    PROVE  cup_epr' * WordRange + cup_iregs'[i.rt] = cup_iregs[i.ra] * cup_iregs[i.rb]
<1> DEFINE p == cup_iregs[i.ra] * cup_iregs[i.rb]
           W == WordRange
<1>1. p \in Nat
  <2> DEFINE a == cup_iregs[i.ra]
             b == cup_iregs[i.rb]
  <2>1. a \in Nat /\ b \in Nat
    BY InsnType DEF Inv
  <2> HIDE DEF a, b
  <2>2. a * b \in Nat
    BY <2>1
  <2> QED BY <2>2 DEF a, b
<1>2. Put(i, p) /\ cup_epr' = p \div W
  BY DEF Mul
<1> HIDE DEF p, W
<1>3. cup_iregs'[i.rt] = p % W
  BY <1>1, <1>2, PutResult DEF W
<1>4. W \in Nat \ {0}
  BY Widths DEF W
<1>5. p = W * (p \div W) + (p % W) /\ p \div W \in Nat
  BY <1>1, <1>4, DivMod
<1>6. W * (p \div W) = (p \div W) * W
  BY <1>4, <1>5
<1> QED BY <1>2, <1>3, <1>5, <1>6 DEF p, W

LEMMA HalfProduct ==
    ASSUME NEW w \in Nat
    PROVE  (w \div 2) * w <= (w * w) \div 2
<1> DEFINE h == w \div 2
           s == w * w
<1>1. h \in Nat /\ 2 * h <= w
  OBVIOUS
<1> HIDE DEF h
<1>2. w * (2 * h) <= s
  BY <1>1, ProductGrows
<1>3. w * (2 * h) = 2 * (h * w) /\ h * w \in Nat /\ s \in Nat
  BY <1>1
<1> HIDE DEF s
<1>4. h * w <= s \div 2
  BY <1>2, <1>3
<1> QED BY <1>4 DEF h, s

\* The dividend is not negative as an int64_t when its upper bit is clear.
LEMMA PlainDividend ==
    ASSUME Inv, NEW i \in Insn, cup_epr < WordRange \div 2
    PROVE  /\ Dividend(i) = cup_epr * WordRange + cup_iregs[i.ra]
           /\ Dividend(i) \in Nat
<1> DEFINE W == WordRange
           e == cup_epr
           a == cup_iregs[i.ra]
           h == W \div 2
<1>1. W \in Nat \ {0} /\ e \in Nat /\ a \in 0 .. W - 1 /\ e < h
  BY InsnType, Widths DEF Inv, TypeOK, Word
<1>2. h \in Nat
  BY <1>1
<1>3. h * W <= (W * W) \div 2
  BY <1>1, HalfProduct
<1> HIDE DEF W, e, a, h
<1>4. e * W + a \in Nat
  <2>1. e * W \in Nat
    BY <1>1
  <2> QED BY <1>1, <2>1
<1>5. e * W + a < h * W
  <2>1. W * (e + 1) <= W * h
    BY <1>1, <1>2, ProductGrows
  <2>2. W * (e + 1) = e * W + W /\ W * h = h * W
    BY <1>1, <1>2
  <2>3. e * W \in Nat /\ h * W \in Nat
    BY <1>1, <1>2
  <2> QED BY <1>1, <2>1, <2>2, <2>3
<1>6. (W * W) \div 2 \in Int /\ h * W \in Int
  BY <1>1, <1>2
<1>7. ~(e * W + a >= (W * W) \div 2)
  BY <1>3, <1>4, <1>5, <1>6
<1> QED BY <1>4, <1>7 DEF Dividend, LongRange, W, e, a

LEMMA ExactDiv ==
    ASSUME Inv, NEW i \in Insn, Div(i), i.rt # 0,
           cup_epr < cup_iregs[i.rb], cup_epr < WordRange \div 2
    PROVE  /\ cup_iregs'[i.rt] * cup_iregs[i.rb] + cup_epr'
                = cup_epr * WordRange + cup_iregs[i.ra]
           /\ cup_epr' < cup_iregs[i.rb]
<1> DEFINE W == WordRange
           L == LongRange
           n == Dividend(i)
           d == cup_iregs[i.rb]
           q == n \div d
<1>1. n \in Nat /\ n = cup_epr * W + cup_iregs[i.ra]
  BY PlainDividend
<1>2. d \in Nat \ {0} /\ W \in Nat \ {0} /\ d < W /\ cup_iregs[i.ra] \in 0 .. W - 1
      /\ cup_epr \in Nat /\ cup_epr < d
  <2>1. cup_epr \in Word /\ d \in Word /\ cup_iregs[i.ra] \in Word /\ d # 0
    BY InsnType DEF Div, Inv, TypeOK
  <2>2. Word = 0 .. W - 1 /\ W \in Nat \ {0}
    BY Widths DEF Word
  <2> HIDE DEF d, W
  <2>3. cup_epr < d
    BY DEF d
  <2> QED BY <2>1, <2>2, <2>3
<1>3. Quotient(n, d) = q
  BY <1>1 DEF Quotient
<1>4. Put(i, q % L) /\ cup_epr' = (n - q * d) % W
  BY <1>3 DEF Div
<1>5. L = W * W
  BY DEF LongRange
<1> HIDE DEF W, L, n, d
<1>6. q \in Nat /\ n = d * q + (n % d) /\ n % d \in 0 .. d - 1
  BY <1>1, <1>2, DivMod
<1>7. q < W
  <2>1. W * (cup_epr + 1) <= W * d
    BY <1>2, ProductGrows
  <2>2. W * (cup_epr + 1) = cup_epr * W + W /\ W * d = d * W
    BY <1>2
  <2>3. cup_epr * W \in Nat /\ d * W \in Nat
    BY <1>2
  <2>4. n < d * W
    BY <1>1, <1>2, <2>1, <2>2, <2>3
  <2> QED BY <1>1, <1>2, <2>4, DivBound
<1> HIDE DEF q
<1>8. W <= L /\ L \in Nat \ {0}
  BY <1>2, <1>5
<1>9. q % L = q /\ q % W = q
  <2>1. q \in 0 .. L - 1 /\ q \in 0 .. W - 1
    BY <1>2, <1>6, <1>7, <1>8
  <2> QED BY <1>2, <1>8, <2>1, SmallMod
<1>10. cup_iregs'[i.rt] = q
  BY <1>4, <1>6, <1>9, PutResult DEF W
<1>11. n - q * d = n % d
  <2>1. d * q = q * d /\ d * q \in Int
    BY <1>2, <1>6
  <2> QED BY <1>1, <1>6, <2>1
<1>12. (n % d) % W = n % d
  <2> DEFINE m == n % d
  <2>1. m \in 0 .. d - 1
    BY <1>6
  <2> HIDE DEF m
  <2>2. m \in 0 .. W - 1
    BY <1>2, <2>1
  <2>3. m % W = m
    BY <1>2, <2>2, SmallMod
  <2> QED BY <2>3 DEF m
<1>13. cup_epr' = n % d
  BY <1>4, <1>11, <1>12
<1>14. q * d + (n % d) = n
  BY <1>2, <1>6
<1> QED BY <1>1, <1>6, <1>10, <1>13, <1>14, <1>2 DEF d, W

\* The host's 64-bit arithmetic loses nothing of a product, and of a quotient
\* nothing as long as the dividend is not negative as an int64_t.
THEOREM ArithmeticIsExact == Spec => ExactArithmetic
<1> DEFINE A == \A i \in NextInsn :
                    i.op \in Arithmetic /\ i.rt # 0 /\ result' = "ok" /\ ExecOp(i)
                    => ExactResult(i)
<1>1. ASSUME Inv PROVE A
  <2>1. SUFFICES ASSUME NEW i \in NextInsn, i.op \in Arithmetic, i.rt # 0,
                        result' = "ok", ExecOp(i)
                 PROVE  ExactResult(i)
    OBVIOUS
  <2>2. i \in Insn
    BY <1>1, NextInsnType
  <2>3. CASE i.op = "MULR"
    BY <1>1, <2>1, <2>2, <2>3, Dispatch, ExactMul DEF ExactResult
  <2>4. CASE i.op = "DIVR"
    <3>1. Div(i)
      BY <2>1, <2>2, <2>4, Dispatch DEF DivByZero
    <3> QED BY <1>1, <2>1, <2>2, <2>4, <3>1, ExactDiv DEF ExactResult
  <2> QED BY <2>1, <2>3, <2>4 DEF Arithmetic
<1>2. Inv /\ [Next]_vars => [A]_vars
  BY <1>1
<1> QED BY <1>2, CpuInvariant, PTL DEF Spec, ExactArithmetic
-----------------------------------------------------------------------------
(***************************************************************************)
(* The disassembler.                                                       *)
(***************************************************************************)
Shown(i) == CuDecodeOp(i).operands

LEMMA InsnFields ==
    ASSUME NEW i \in Insn
    PROVE  /\ i \in [op : Op, f : BOOLEAN, rt : RegNum, ra : RegNum, rb : RegNum, imm : Nat]
           /\ i.op \in Op /\ i.f \in BOOLEAN /\ i.imm \in Nat
           /\ i.rt \in RegNum /\ i.ra \in RegNum /\ i.rb \in RegNum
           /\ i.imm < ImmRange(i.op)
BY DEF Insn

\* The names of the flag-setting opcodes are names of nothing else.
LEMMA FlagMnemonics ==
    /\ "????" \notin Op
    /\ \A o \in DOMAIN FlagMnemonic : FlagMnemonic[o] \notin Op \cup {"????"}
    /\ \A o, p \in DOMAIN FlagMnemonic : FlagMnemonic[o] = FlagMnemonic[p] => o = p
BY DEF FlagMnemonic, Op, RegShift, ImmShift, BoolImm, FlagBranch, CmpBranch, Load,
       StoreOp, Bad

\* A mnemonic stands for one operation, and tells whether it sets the flags.
LEMMA MnemonicTellsOp ==
    ASSUME NEW i \in Insn, NEW j \in Insn, Mnemonic(i) = Mnemonic(j)
    PROVE  \/ i.op \in Bad /\ j.op \in Bad
           \/ i.op = j.op /\ i.op \notin Bad
              /\ (i.op \in DOMAIN FlagMnemonic => i.f = j.f)
<1>1. i.op \in Op /\ j.op \in Op /\ i.f \in BOOLEAN /\ j.f \in BOOLEAN
  BY InsnFields
<1>2. CASE i.op \in Bad
  BY <1>1, <1>2, FlagMnemonics DEF Mnemonic
<1>3. CASE j.op \in Bad
  BY <1>1, <1>3, FlagMnemonics DEF Mnemonic
<1>4. CASE i.op \notin Bad /\ j.op \notin Bad
  <2> DEFINE flagged(k) == k.op \in DOMAIN FlagMnemonic /\ k.f
  <2>1. /\ Mnemonic(i) = IF flagged(i) THEN FlagMnemonic[i.op] ELSE i.op
        /\ Mnemonic(j) = IF flagged(j) THEN FlagMnemonic[j.op] ELSE j.op
    BY <1>4 DEF Mnemonic
  <2> QED BY <1>1, <1>4, <2>1, FlagMnemonics
<1> QED BY <1>2, <1>3, <1>4
-----------------------------------------------------------------------------
LEMMA PutShown ==
    ASSUME NEW i, NEW j, NEW res, i.rt = j.rt, i.f = j.f
    PROVE  Put(i, res) => Put(j, res)
BY DEF Put

LEMMA PutFlagsShown ==
    ASSUME NEW i \in Insn, NEW j \in Insn, NEW res, i.rt = j.rt
    PROVE  PutFlags(i, res) => PutFlags(j, res)
<1>1. \A k \in Insn : LET m == [k EXCEPT !.f = TRUE] IN m.rt = k.rt /\ m.f = TRUE
  BY InsnFields
<1> QED BY <1>1, PutShown DEF PutFlags
-----------------------------------------------------------------------------
(***************************************************************************)
(* Two instructions i and j with the same operation and the same operands. *)
(***************************************************************************)
\* The operands of the register instructions.
LEMMA Operands0x00Tell ==
    ASSUME NEW i \in Insn, NEW j \in Insn, i.op = j.op, i.op \in Op0x00, Shown(i) = Shown(j)
    PROVE  /\ i.op \in RegShift \cup {"ANDR", "ORRR", "XORR", "ADDR", "SUBR", "MULR", "DIVR"}
                  => i.rt = j.rt /\ i.ra = j.ra /\ i.rb = j.rb
           /\ i.op \in ImmShift => i.rt = j.rt /\ i.ra = j.ra /\ i.imm = j.imm
           /\ i.op = "NOTR" => i.rt = j.rt /\ i.ra = j.ra
           /\ i.op = "RDEP" => i.rt = j.rt
           /\ i.op = "WREP" => i.ra = j.ra
           /\ i.op \in {"JMPR", "JALR"} => i.ra = j.ra /\ i.rb = j.rb /\ i.imm = j.imm
<1>1. i.op \notin Bad
  BY DEF Op0x00, Bad, RegShift, ImmShift, FlagMnemonic
<1>2. Operands0x00(i) = Operands0x00(j)
  BY <1>1 DEF Shown, CuDecodeOp
<1> USE DEF Operands0x00, RegShift, ImmShift
<1>3. CASE i.op \in RegShift \cup {"ANDR", "ORRR", "XORR", "ADDR", "SUBR", "MULR", "DIVR"}
  BY <1>2, <1>3
<1>4. CASE i.op \in ImmShift
  BY <1>2, <1>4
<1>5. CASE i.op \in {"NOTR", "RDEP", "WREP"}
  BY <1>2, <1>5
<1>6. CASE i.op \in {"JMPR", "JALR"}
  BY <1>2, <1>6
<1> QED BY <1>3, <1>4, <1>5, <1>6

\* The 21 bits that are shown of a comparing branch hold its register and its offset.
LEMMA Imm21Tells ==
    ASSUME NEW i \in Insn, NEW j \in Insn, i.op \in CmpBranch, j.op \in CmpBranch,
           Imm21(i) = Imm21(j)
    PROVE  i.ra = j.ra /\ i.imm = j.imm
<1>1. /\ i.imm \in Nat /\ i.imm < HalfRange /\ j.imm \in Nat /\ j.imm < HalfRange
      /\ i.ra \in Nat /\ j.ra \in Nat /\ HalfRange \in Nat
  <2>1. ImmRange(i.op) = HalfRange /\ ImmRange(j.op) = HalfRange
    BY DEF ImmRange, CmpBranch, ImmShift, FlagBranch
  <2> QED BY <2>1, InsnFields, RegAssumption, ByteAssumption DEF RegNum, HalfRange
<1>2. ASSUME NEW a \in Nat, NEW b \in Nat, NEW x \in Nat, NEW y \in Nat, NEW h \in Nat,
             x < h, y < h, a * h + x = b * h + y
      PROVE  a <= b
  <2>1. SUFFICES ASSUME a >= b + 1 PROVE FALSE
    OBVIOUS
  <2>2. a * h >= (b + 1) * h /\ (b + 1) * h = b * h + h
    BY <2>1
  <2> QED BY <1>2, <2>2
<1>3. i.ra <= j.ra /\ j.ra <= i.ra
  BY <1>1, <1>2 DEF Imm21
<1> QED BY <1>1, <1>3 DEF Imm21

\* The operands of the other instructions.
LEMMA OperandsOtherTell ==
    ASSUME NEW i \in Insn, NEW j \in Insn, i.op = j.op, i.op \notin Op0x00 \cup Bad,
           Shown(i) = Shown(j)
    PROVE  /\ i.op \in BoolImm \cup {"ADDI"} \cup Load \cup StoreOp
                  => i.rt = j.rt /\ i.ra = j.ra /\ i.imm = j.imm
           /\ i.op \in {"JMPI", "JALI"} => i.imm = j.imm
           /\ i.op \in FlagBranch \cup {"LDUI"} => i.rt = j.rt /\ i.imm = j.imm
           /\ i.op \in CmpBranch => i.rt = j.rt /\ i.ra = j.ra /\ i.imm = j.imm
<1>1. OperandsOther(i) = OperandsOther(j)
  BY DEF Shown, CuDecodeOp
<1> USE DEF OperandsOther, BoolImm, Load, StoreOp, FlagBranch, CmpBranch
<1>2. CASE i.op \in BoolImm \cup {"ADDI"} \cup Load \cup StoreOp
  BY <1>1, <1>2
<1>3. CASE i.op \in {"JMPI", "JALI"}
  BY <1>1, <1>3
<1>4. CASE i.op \in FlagBranch \cup {"LDUI"}
  BY <1>1, <1>4
<1>5. CASE i.op \in CmpBranch
  <2>1. i.rt = j.rt /\ Imm21(i) = Imm21(j)
    BY <1>1, <1>5
  <2> QED BY <1>5, <2>1, Imm21Tells
<1> QED BY <1>2, <1>3, <1>4, <1>5
-----------------------------------------------------------------------------
(***************************************************************************)
(* The handlers look at nothing but the operation and the operands.        *)
(***************************************************************************)
LEMMA ExecOp0x00Tells ==
    ASSUME NEW i \in Insn, NEW j \in Insn, i.op = j.op, i.op \in Op0x00,
           i.op \in DOMAIN FlagMnemonic => i.f = j.f,
           Shown(i) = Shown(j), ExecOp0x00(i)
    PROVE  ExecOp0x00(j)
<1>a. /\ i.op \in RegShift \cup {"ANDR", "ORRR", "XORR", "ADDR", "SUBR", "MULR", "DIVR"}
             => i.rt = j.rt /\ i.ra = j.ra /\ i.rb = j.rb
      /\ i.op \in ImmShift => i.rt = j.rt /\ i.ra = j.ra /\ i.imm = j.imm
      /\ i.op = "NOTR" => i.rt = j.rt /\ i.ra = j.ra
      /\ i.op = "RDEP" => i.rt = j.rt
      /\ i.op = "WREP" => i.ra = j.ra
      /\ i.op \in {"JMPR", "JALR"} => i.ra = j.ra /\ i.rb = j.rb /\ i.imm = j.imm
  BY Operands0x00Tell
<1>b. RegShift \cup ImmShift
      \cup {"ANDR", "ORRR", "NOTR", "XORR", "ADDR", "SUBR", "MULR", "DIVR"}
      \subseteq DOMAIN FlagMnemonic
  BY DEF RegShift, ImmShift, FlagMnemonic
<1>1. CASE Shift(i)
  <2>1. i.f = j.f /\ i.rt = j.rt /\ i.ra = j.ra
    BY <1>1, <1>a, <1>b DEF Shift
  <2>2. Shift(j)
    <3>1. CASE i.op \in RegShift
      BY <1>1, <1>a, <2>1, <3>1, PutShown DEF Shift, RegShift, ImmShift
    <3>2. CASE i.op \in ImmShift
      BY <1>1, <1>a, <2>1, <3>2, PutShown DEF Shift, RegShift, ImmShift
    <3> QED BY <1>1, <3>1, <3>2 DEF Shift
  <2> QED BY <2>2 DEF ExecOp0x00
<1>2. CASE Logic(i)
  <2>1. i.f = j.f /\ i.rt = j.rt /\ i.ra = j.ra /\ (i.op # "NOTR" => i.rb = j.rb)
    BY <1>2, <1>a, <1>b DEF Logic
  <2>2. Logic(j)
    BY <1>2, <2>1, PutShown DEF Logic
  <2> QED BY <2>2 DEF ExecOp0x00
<1>3. CASE AddSub(i)
  <2>1. i.f = j.f /\ i.rt = j.rt /\ i.ra = j.ra /\ i.rb = j.rb
    BY <1>3, <1>a, <1>b DEF AddSub
  <2>2. AddSub(j)
    BY <1>3, <2>1, PutShown DEF AddSub
  <2> QED BY <2>2 DEF ExecOp0x00
<1>4. CASE Mul(i)
  <2>1. i.f = j.f /\ i.rt = j.rt /\ i.ra = j.ra /\ i.rb = j.rb
    BY <1>4, <1>a, <1>b DEF Mul
  <2>2. Mul(j)
    BY <1>4, <2>1, PutShown DEF Mul
  <2> QED BY <2>2 DEF ExecOp0x00
<1>5. CASE Div(i) \/ DivByZero(i)
  <2>1. i.f = j.f /\ i.rt = j.rt /\ i.ra = j.ra /\ i.rb = j.rb
    BY <1>5, <1>a, <1>b DEF Div, DivByZero
  <2>2. Dividend(i) = Dividend(j)
    BY <2>1 DEF Dividend
  <2>3. Div(i) => Div(j)
    BY <2>1, <2>2, PutShown DEF Div
  <2>4. DivByZero(i) => DivByZero(j)
    BY <2>1 DEF DivByZero
  <2> QED BY <1>5, <2>3, <2>4 DEF ExecOp0x00
<1>6. CASE MoveEp(i)
  <2>1. MoveEp(j)
    BY <1>6, <1>a DEF MoveEp
  <2> QED BY <2>1 DEF ExecOp0x00
<1>7. CASE JmpReg(i)
  <2>1. JmpReg(j)
    BY <1>7, <1>a DEF JmpReg
  <2> QED BY <2>1 DEF ExecOp0x00
<1> QED BY <1>1, <1>2, <1>3, <1>4, <1>5, <1>6, <1>7 DEF ExecOp0x00

LEMMA ExecOtherTells ==
    ASSUME NEW i \in Insn, NEW j \in Insn, i.op = j.op, i.op \notin Op0x00 \cup Bad,
           Shown(i) = Shown(j), ExecOp(i)
    PROVE  ExecOp(j)
<1>a. /\ i.op \in BoolImm \cup {"ADDI"} \cup Load \cup StoreOp
             => i.rt = j.rt /\ i.ra = j.ra /\ i.imm = j.imm
      /\ i.op \in {"JMPI", "JALI"} => i.imm = j.imm
      /\ i.op \in FlagBranch \cup {"LDUI"} => i.rt = j.rt /\ i.imm = j.imm
      /\ i.op \in CmpBranch => i.rt = j.rt /\ i.ra = j.ra /\ i.imm = j.imm
  BY OperandsOtherTell
<1>1. CASE BoolImmOps(i)
  <2>1. i.rt = j.rt /\ i.ra = j.ra /\ i.imm = j.imm
    BY <1>1, <1>a DEF BoolImmOps, BoolImm
  <2>2. BoolImmOps(j)
    BY <1>1, <2>1, PutFlagsShown DEF BoolImmOps
  <2> QED BY <2>2 DEF ExecOp
<1>2. CASE AddImmOp(i)
  <2>1. i.rt = j.rt /\ i.ra = j.ra /\ i.imm = j.imm
    BY <1>2, <1>a DEF AddImmOp
  <2>2. AddImmOp(j)
    BY <1>2, <2>1, PutFlagsShown DEF AddImmOp
  <2> QED BY <2>2 DEF ExecOp
<1>3. CASE JmpOps(i)
  <2>1. JmpOps(j)
    BY <1>3, <1>a DEF JmpOps
  <2> QED BY <2>1 DEF ExecOp
<1>4. CASE FlagBranchOps(i)
  <2>1. FlagBranchOps(j)
    BY <1>4, <1>a DEF FlagBranchOps
  <2> QED BY <2>1 DEF ExecOp
<1>5. CASE CmpBranchOps(i)
  <2>1. CmpBranchOps(j)
    BY <1>5, <1>a DEF CmpBranchOps
  <2> QED BY <2>1 DEF ExecOp
<1>6. CASE LoadUpImmOp(i)
  <2>1. LoadUpImmOp(j)
    BY <1>6, <1>a DEF LoadUpImmOp
  <2> QED BY <2>1 DEF ExecOp
<1>7. CASE LoadMemOps(i)
  <2>1. i.rt = j.rt /\ Address(i) = Address(j) /\ Loaded(i) = Loaded(j)
    BY <1>7, <1>a DEF LoadMemOps, Address, Loaded
  <2>2. LoadMemOps(j)
    BY <1>7, <2>1 DEF LoadMemOps
  <2> QED BY <2>2 DEF ExecOp
<1>8. CASE StoreMemOps(i)
  <2>1. i.rt = j.rt /\ Address(i) = Address(j)
    BY <1>8, <1>a DEF StoreMemOps, Address
  <2>2. StoreMemOps(j)
    BY <1>8, <2>1 DEF StoreMemOps
  <2> QED BY <2>2 DEF ExecOp
<1>9. ~ExecOp0x00(i) /\ ~BadInsn(i)
  BY DEF ExecOp0x00, BadInsn, Op0x00, Shift, Logic, AddSub, Mul, Div, DivByZero, MoveEp,
         JmpReg, FlagMnemonic
<1> QED BY <1>1, <1>2, <1>3, <1>4, <1>5, <1>6, <1>7, <1>8, <1>9 DEF ExecOp

\* A register instruction is executed by no other handler.
LEMMA Op0x00Only ==
    ASSUME NEW i \in Insn, i.op \in Op0x00, ExecOp(i)
    PROVE  ExecOp0x00(i)
BY DEF ExecOp, BadInsn, Bad, Op0x00, RegShift, ImmShift, FlagMnemonic, BoolImmOps,
       AddImmOp, JmpOps, FlagBranchOps, FlagBranch, CmpBranchOps, CmpBranch,
       LoadUpImmOp, LoadMemOps, Load, StoreMemOps, StoreOp

\* An opcode that does not exist is refused, however it is spelled.
LEMMA BadOnly ==
    ASSUME NEW i \in Insn, NEW j \in Insn, i.op \in Bad, j.op \in Bad, ExecOp(i)
    PROVE  ExecOp(j)
<1>1. BadInsn(i)
  BY DEF ExecOp, ExecOp0x00, Bad, Shift, RegShift, ImmShift, Logic, AddSub, Mul, Div,
         DivByZero, MoveEp, JmpReg, BoolImmOps, AddImmOp, JmpOps, FlagBranchOps,
         FlagBranch, CmpBranchOps, CmpBranch, LoadUpImmOp, LoadMemOps, Load, StoreMemOps,
         StoreOp
<1> QED BY <1>1 DEF BadInsn, ExecOp

\* Two instructions, of any registers, immediates and opcodes, that CuDecodeOp
\* shows alike are executed alike in every state.
THEOREM ShownAlikeDoAlike ==
    ASSUME NEW i \in Insn, NEW j \in Insn, CuDecodeOp(i) = CuDecodeOp(j), ExecOp(i)
    PROVE  ExecOp(j)
<1>1. Mnemonic(i) = Mnemonic(j) /\ Shown(i) = Shown(j)
  BY DEF CuDecodeOp, Shown
<1>2. CASE i.op \in Bad /\ j.op \in Bad
  BY <1>2, BadOnly
<1>3. CASE /\ i.op = j.op /\ i.op \notin Bad
           /\ i.op \in DOMAIN FlagMnemonic => i.f = j.f
  <2>1. CASE i.op \in Op0x00
    BY <1>1, <1>3, <2>1, Op0x00Only, ExecOp0x00Tells DEF ExecOp
  <2>2. CASE i.op \notin Op0x00
    BY <1>1, <1>3, <2>2, ExecOtherTells
  <2> QED BY <2>1, <2>2
<1> QED BY <1>1, <1>2, <1>3, MnemonicTellsOp

\* The same of the instructions that a program meets: what the monitor shows
\* after a step is enough to know what the next step does.
THEOREM TextAlwaysTellsAction == Spec => TextTellsAction
<1>1. ASSUME NEW p \in LookAlikes, ExecOp(p[1]) PROVE ExecOp(p[2])
  <2>1. Decodable \subseteq Insn
    BY DecodeAssumption DEF Decodable
  <2>2. p[1] \in Decodable /\ p[2] \in Decodable /\ CuDecodeOp(p[2]) = CuDecodeOp(p[1])
    BY <1>1 DEF LookAlikes, ShownLike
  <2> QED BY <1>1, <2>1, <2>2, ShownAlikeDoAlike
<1>2. [Next]_vars => [\A p \in LookAlikes :
                         p[1] \in NextInsn /\ ExecOp(p[1]) => ExecOp(p[2])]_vars
  BY <1>1
<1> QED BY <1>2, PTL DEF Spec, TextTellsAction
=============================================================================
