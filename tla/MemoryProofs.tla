---------------------------- MODULE MemoryProofs ----------------------------
(***************************************************************************)
(* Proofs about RAM and its loader, for bytes and a RAM of any size and    *)
(* for any memory images.                                                  *)
(***************************************************************************)
EXTENDS Memory, BytesProofs

-----------------------------------------------------------------------------
(* The loader.                                                             *)

Inv == TypeOK /\ LoadInv

LEMMA SectionType ==
    ASSUME TypeOK, HasSection
    PROVE  LET s == image.sections[next]
           IN  /\ s.base \in Word /\ s.nbytes \in Word /\ s.data \in Seq(Byte)
               /\ Len(s.data) \in Nat /\ Len(s.data) <= s.nbytes
               /\ next \in 1 .. Len(image.sections)
<1>1. image.sections \in Seq(Section) /\ next \in 1 .. Len(image.sections)
  BY ImagesAssumption DEF TypeOK, HasSection
<1>2. image.sections[next] \in Section
  BY <1>1
<1>3. Len(image.sections[next].data) <= image.sections[next].nbytes
  BY <1>1, ImagesAssumption DEF TypeOK
<1> QED BY <1>1, <1>2, <1>3 DEF Section

LEMMA InitInv == Init => Inv
<1> SUFFICES ASSUME Init PROVE Inv
  OBVIOUS
<1>1. image.sections \in Seq(Section)
  BY ImagesAssumption DEF Init
<1>2. TypeOK
  <2>1. 0 \in Byte
    BY ByteAssumption DEF Byte
  <2>2. next \in 1 .. Len(image.sections) + 1
    <3>1. Len(image.sections) \in Nat
      BY <1>1
    <3> QED BY <3>1 DEF Init
  <2> QED BY <2>1, <2>2 DEF Init, TypeOK, LoadState
<1>3. LoadInv
  BY DEF Init, LoadInv, WholeUpTo, Holds
<1> QED BY <1>2, <1>3 DEF Inv

\* Copying a section keeps what the loader has done right.
LEMMA CopyHolds ==
    ASSUME TypeOK, HasSection,
           Holds(cuss_mem, image.sections, next - 1)
    PROVE  Holds(Copy(cuss_mem, image.sections[next]), image.sections, next)
<1> DEFINE S == image.sections
           s == S[next]
           m == Copy(cuss_mem, s)
<1>1. next \in Nat \ {0} /\ next - 1 \in Nat
  BY SectionType
<1> SUFFICES ASSUME NEW x \in Ram
             PROVE  /\ (\A k \in 1 .. next : ~Covers(S[k], x)) => m[x] = 0
                    /\ \A k \in 1 .. next :
                         Covers(S[k], x) /\ (\A j \in k + 1 .. next : ~Covers(S[j], x))
                         => m[x] = S[k].data[x - S[k].base + 1]
  BY DEF Holds
<1>2. m[x] = IF Covers(s, x) THEN s.data[x - s.base + 1] ELSE cuss_mem[x]
  BY DEF Copy, Covers
<1>3. /\ (\A k \in 1 .. next - 1 : ~Covers(S[k], x)) => cuss_mem[x] = 0
      /\ \A k \in 1 .. next - 1 :
           Covers(S[k], x) /\ (\A j \in k + 1 .. next - 1 : ~Covers(S[j], x))
           => cuss_mem[x] = S[k].data[x - S[k].base + 1]
  BY DEF Holds
<1> HIDE DEF m, S
<1>4. (\A k \in 1 .. next : ~Covers(S[k], x)) => m[x] = 0
  BY <1>1, <1>2, <1>3
<1>5. ASSUME NEW k \in 1 .. next,
             Covers(S[k], x), \A j \in k + 1 .. next : ~Covers(S[j], x)
      PROVE  m[x] = S[k].data[x - S[k].base + 1]
  <2>1. CASE k = next
    BY <1>2, <1>5, <2>1
  <2>2. CASE k < next
    <3>1. k \in 1 .. next - 1 /\ next \in k + 1 .. next
      BY <1>1, <2>2
    <3>2. ~Covers(s, x)
      BY <1>5, <3>1
    <3>3. \A j \in k + 1 .. next - 1 : ~Covers(S[j], x)
      BY <1>1, <1>5
    <3> QED BY <1>2, <1>3, <1>5, <3>1, <3>2, <3>3
  <2> QED BY <1>1, <2>1, <2>2
<1> QED BY <1>4, <1>5

LEMMA ReadSectionInv ==
    ASSUME Inv, ReadSection
    PROVE  Inv'
<1> DEFINE s == image.sections[next]
<1>1. /\ load = "loading" /\ HasSection
      /\ cuss_mem' = Copy(cuss_mem, s) /\ next' = next + 1
      /\ s.base + Len(s.data) <= MemSize
      /\ load' = IF Len(s.data) < s.nbytes THEN "false" ELSE "loading"
      /\ image' = image /\ ferror' = ferror
  BY DEF ReadSection
<1>2. /\ s.base \in Word /\ s.nbytes \in Word /\ s.data \in Seq(Byte)
      /\ Len(s.data) \in Nat /\ Len(s.data) <= s.nbytes
      /\ next \in 1 .. Len(image.sections)
  BY <1>1, SectionType DEF Inv
<1>3. s.base \in Nat /\ s.nbytes \in Nat
  BY <1>2 DEF Word
<1>4. Len(image.sections) \in Nat
  BY ImagesAssumption DEF Inv, TypeOK
<1> HIDE DEF s
<1>5. cuss_mem' \in [Ram -> Byte]
  <2>1. ASSUME NEW x \in Ram, x \in s.base .. s.base + Len(s.data) - 1
        PROVE  s.data[x - s.base + 1] \in Byte
    <3>1. x - s.base + 1 \in 1 .. Len(s.data)
      BY <1>2, <1>3, <2>1 DEF Ram
    <3> QED BY <1>2, <3>1
  <2> QED BY <1>1, <2>1 DEF Copy, Inv, TypeOK
<1>6. TypeOK'
  BY <1>1, <1>2, <1>4, <1>5 DEF Inv, TypeOK, LoadState
<1>7. load' = "loading" =>
        /\ WholeUpTo(image.sections, next)
        /\ Holds(cuss_mem', image.sections, next)
  <2>1. Holds(cuss_mem', image.sections, next)
    BY <1>1, CopyHolds DEF Inv, LoadInv, s
  <2>2. ASSUME load' = "loading"
        PROVE  WholeUpTo(image.sections, next)
    <3>1. Len(s.data) = s.nbytes
      BY <1>1, <1>2, <1>3, <2>2
    <3>2. WholeUpTo(image.sections, next - 1)
      BY <1>1 DEF Inv, LoadInv
    <3>3. \A k \in 1 .. next : k = next \/ k \in 1 .. next - 1
      BY <1>2
    <3> QED BY <3>1, <3>2, <3>3 DEF WholeUpTo, s
  <2> QED BY <2>1, <2>2
<1>8. next' - 1 = next
  BY <1>1, <1>2
<1>9. LoadInv'
  BY <1>1, <1>7, <1>8 DEF LoadInv
<1> QED BY <1>6, <1>9 DEF Inv

\* A section that passes the check and yet does not fit ends beyond the
\* address space.
LEMMA BeyondInv ==
    ASSUME Inv, ReadBeyondRam
    PROVE  Inv'
<1> DEFINE s == image.sections[next]
<1>1. /\ HasSection /\ SectionFits(s) /\ s.base + Len(s.data) > MemSize
      /\ load' = "undefined" /\ UNCHANGED <<cuss_mem, image, next, ferror>>
  BY DEF ReadBeyondRam, Return
<1>2. s.base \in Nat /\ s.nbytes \in Nat /\ Len(s.data) \in Nat /\ Len(s.data) <= s.nbytes
  BY <1>1, SectionType DEF Inv, Word
<1>3. s.base + s.nbytes >= WordRange
  <2>1. SUFFICES ASSUME s.base + s.nbytes < WordRange PROVE FALSE
    BY <1>2, Widths
  <2>2. s.base + s.nbytes < MemSize
    BY <1>1, <1>2, <2>1, PlusInRange DEF SectionFits, IsValidPhyMemAddr
  <2> QED BY <1>1, <1>2, <2>2, SizeAssumption
<1> HIDE DEF s
<1>4. StaysInRam'
  BY <1>1, <1>3 DEF StaysInRam, s
<1>5. HasSection'
  BY <1>1 DEF HasSection
<1> QED BY <1>1, <1>4, <1>5 DEF Inv, TypeOK, LoadState, LoadInv

LEMMA NextInv == Inv /\ [Next]_vars => Inv'
<1> SUFFICES ASSUME Inv, [Next]_vars PROVE Inv'
  OBVIOUS
<1> USE DEF Inv
<1>1. CASE OpenFile
  BY <1>1 DEF OpenFile, Return, TypeOK, LoadState, LoadInv, WholeUpTo
<1>2. CASE EndOfFile
  <2>1. next = Len(image.sections) + 1
    <3>1. Len(image.sections) \in Nat
      BY ImagesAssumption DEF TypeOK
    <3> QED BY <1>2, <3>1 DEF EndOfFile, HasSection, TypeOK
  <2> QED BY <1>2, <2>1 DEF EndOfFile, Return, TypeOK, LoadState, LoadInv
<1>3. CASE ReadError
  BY <1>3 DEF ReadError, Return, TypeOK, LoadState, LoadInv
<1>4. CASE OutOfBounds
  BY <1>4 DEF OutOfBounds, Return, TypeOK, LoadState, LoadInv
<1>5. CASE ReadSection
  BY <1>5, ReadSectionInv
<1>6. CASE ReadBeyondRam
  BY <1>6, BeyondInv
<1>7. ASSUME NEW a \in Word, NEW n \in {1, 2, 4}, NEW v \in Word, Store(a, n, v)
      PROVE  Inv'
  <2>1. cuss_mem' \in [Ram -> Byte]
    BY <1>7, StoreBytesType DEF Store, TypeOK
  <2> QED BY <1>7, <2>1 DEF Store, TypeOK, LoadState, LoadInv
<1>8. CASE UNCHANGED vars
  BY <1>8 DEF vars, TypeOK, LoadInv, HasSection, StaysInRam
<1> QED BY <1>1, <1>2, <1>3, <1>4, <1>5, <1>6, <1>7, <1>8 DEF Next

-----------------------------------------------------------------------------
(* The properties.                                                         *)

\* In every reachable state the loader has done what LoadInv says.
THEOREM LoaderInvariant == Spec => []Inv
BY InitInv, NextInv, PTL DEF Spec

\* RAM only ever holds bytes, and the loader never leaves the file.
THEOREM TypeCorrect == Spec => []TypeOK
<1>1. Inv => TypeOK
  BY DEF Inv
<1> QED BY <1>1, LoaderInvariant, PTL

\* Whatever the image, a loader that succeeds without a read error has put all
\* of it into RAM, later sections over earlier ones.
THEOREM LoadIsComplete == Spec => []ImageIsLoaded
<1>1. Inv => ImageIsLoaded
  <2> SUFFICES ASSUME Inv, load = "true", ~ferror
               PROVE  /\ image.tail = 0
                      /\ WholeUpTo(image.sections, Len(image.sections))
                      /\ Holds(cuss_mem, image.sections, Len(image.sections))
    BY DEF ImageIsLoaded
  <2>1. Len(image.sections) \in Nat
    BY ImagesAssumption DEF Inv, TypeOK
  <2>2. image.tail = 0 /\ next - 1 = Len(image.sections)
    BY <2>1 DEF Inv, LoadInv
  <2> QED BY <2>2 DEF Inv, LoadInv
<1> QED BY <1>1, LoaderInvariant, PTL

\* The loader writes beyond RAM only for a section whose end wraps around.
THEOREM LoaderStaysInRam == Spec => []StaysInRam
<1>1. Inv => StaysInRam
  BY DEF Inv, LoadInv, StaysInRam
<1> QED BY <1>1, LoaderInvariant, PTL

\* No access that the check lets through reaches beyond RAM, whatever its size.
THEOREM EveryAccessIsInRam == Spec => []AccessIsInRam
<1>1. Inv => AccessIsInRam
  <2> SUFFICES ASSUME Inv, NEW a \in Word, NEW n \in {1, 2, 4}, CanAccess(a, n)
               PROVE  a .. a + n - 1 \subseteq DOMAIN cuss_mem
    BY DEF AccessIsInRam
  <2>1. a + n <= MemSize
    BY AccessFits
  <2>2. a \in Nat
    BY Widths DEF Word
  <2>3. DOMAIN cuss_mem = 0 .. MemSize - 1
    BY DEF Inv, TypeOK, Ram
  <2> QED BY <2>1, <2>2, <2>3, SizeAssumption
<1> QED BY <1>1, LoaderInvariant, PTL

\* A word that is stored is read back, whole and in part, and nothing around it
\* is disturbed.
THEOREM EveryStoreIsReadBack == Spec => []StoreIsReadBack
<1>1. ASSUME NEW a \in Ram, NEW v \in Word, CanAccess(a, 4)
      PROVE  LET m == StoreBytes(cuss_mem, a, 4, v)
             IN  /\ LoadBytes(m, a, 4) = v
                 /\ LoadBytes(m, a, 2) = v % HalfRange
                 /\ LoadBytes(m, a, 1) = v % ByteRange
                 /\ \A x \in Ram : x \notin a .. a + 3 => m[x] = cuss_mem[x]
  <2> DEFINE m == StoreBytes(cuss_mem, a, 4, v)
             b == BytesOf(v)
  <2>1. a \in Word /\ a \in Nat
    BY SizeAssumption, Widths DEF Ram, Word
  <2>2. a + 4 <= MemSize
    BY <1>1, <2>1, AccessFits
  <2>3. \A x \in Ram : m[x] = IF x \in a .. a + 3 THEN b[x - a + 1] ELSE cuss_mem[x]
    BY <2>1 DEF StoreBytes
  <2> HIDE DEF m, b
  <2>4. m[a] = b[1] /\ m[a + 1] = b[2] /\ m[a + 2] = b[3] /\ m[a + 3] = b[4]
    BY <2>1, <2>2, <2>3, SizeAssumption DEF Ram
  <2>5. LoadBytes(m, a, 4) = v
    BY <2>4, Split DEF LoadBytes, LeQuadBytesToUint32, b
  <2>6. LoadBytes(m, a, 2) = v % HalfRange
    BY <2>4, LowHalf DEF LoadBytes, LeTwinBytesToUint16, b
  <2>7. LoadBytes(m, a, 1) = v % ByteRange
    BY <2>4, LowHalf DEF LoadBytes, b
  <2> QED BY <2>3, <2>5, <2>6, <2>7 DEF m
<1>2. StoreIsReadBack
  BY <1>1 DEF StoreIsReadBack
<1> QED BY <1>2, PTL
=============================================================================
