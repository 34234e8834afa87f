---------------------------- MODULE BytesProofs ----------------------------
(***************************************************************************)
(* Facts about bytes, words and checked accesses to RAM, for bytes and a   *)
(* RAM of any size.  The proofs of the modules that use RAM rest on them.  *)
(***************************************************************************)
EXTENDS Bytes, TLAPS

-----------------------------------------------------------------------------
(* Arithmetic.                                                             *)

LEMMA DivMod ==
    ASSUME NEW v \in Nat, NEW b \in Nat \ {0}
    PROVE  /\ v \div b \in Nat
           /\ v % b \in 0 .. b - 1
           /\ v = b * (v \div b) + (v % b)
OBVIOUS

\* What is in range already is its own remainder.
LEMMA SmallMod ==
    ASSUME NEW w \in Nat \ {0}, NEW v \in 0 .. w - 1
    PROVE  v % w = v
OBVIOUS

LEMMA ProductGrows ==
    ASSUME NEW b \in Nat, NEW p \in Int, NEW q \in Int, p <= q
    PROVE  b * p <= b * q
OBVIOUS

\* A quotient is bounded by the bound of the dividend.
LEMMA DivBound ==
    ASSUME NEW v \in Nat, NEW b \in Nat \ {0}, NEW k \in Nat, v < b * k
    PROVE  v \div b < k
<1> DEFINE q == v \div b
<1>1. q \in Nat /\ v >= b * q
  BY DivMod
<1> HIDE DEF q
<1>2. SUFFICES ASSUME k <= q PROVE FALSE
  BY <1>1 DEF q
<1>3. b * k <= b * q
  BY <1>1, <1>2, ProductGrows
<1> QED BY <1>1, <1>3

\* A remainder is determined by the equation that it satisfies.
LEMMA ModUnique ==
    ASSUME NEW d \in Nat \ {0}, NEW q \in Nat, NEW r \in 0 .. d - 1
    PROVE  (d * q + r) % d = r
<1> DEFINE v == d * q + r
           p == v \div d
           s == v % d
<1>1. v \in Nat
  OBVIOUS
<1>2. p \in Nat /\ s \in 0 .. d - 1 /\ d * q + r = d * p + s
  BY <1>1, DivMod
<1> HIDE DEF p, s
<1>3. CASE p = q
  BY <1>2, <1>3 DEF s
<1>4. CASE p >= q + 1
  <2>1. d * (q + 1) <= d * p
    BY <1>2, <1>4, ProductGrows
  <2>2. d * (q + 1) = d * q + d
    OBVIOUS
  <2> QED BY <1>2, <2>1, <2>2
<1>5. CASE q >= p + 1
  <2>1. d * (p + 1) <= d * q
    BY <1>2, <1>5, ProductGrows
  <2>2. d * (p + 1) = d * p + d
    BY <1>2
  <2> QED BY <1>2, <2>1, <2>2
<1> QED BY <1>2, <1>3, <1>4, <1>5
-----------------------------------------------------------------------------
(* Bytes and words.                                                        *)

LEMMA Widths ==
    /\ HalfRange \in Nat \ {0}
    /\ WordRange \in Nat \ {0}
    /\ WordRange = ByteRange * (ByteRange * (ByteRange * ByteRange))
<1> DEFINE B == ByteRange
<1>1. B \in Nat \ {0}
  BY ByteAssumption
<1> HIDE DEF B
<1>2. B * B \in Nat \ {0}
  BY <1>1
<1>3. B * (B * B) \in Nat \ {0}
  BY <1>1, <1>2
<1>4. B * (B * (B * B)) \in Nat \ {0}
  BY <1>1, <1>3
<1>5. (B * B) * (B * B) = B * (B * (B * B))
  BY <1>1
<1> QED BY <1>2, <1>4, <1>5 DEF HalfRange, WordRange, B

\* CuSetWordAt splits a word into four bytes of which nothing is lost.
LEMMA Split ==
    ASSUME NEW v \in Word
    PROVE  LET b == BytesOf(v)
           IN  /\ b[1] \in Byte /\ b[2] \in Byte /\ b[3] \in Byte /\ b[4] \in Byte
               /\ v = b[1] + ByteRange * (b[2] + ByteRange * (b[3] + ByteRange * b[4]))
<1> DEFINE B == ByteRange
           v1 == v \div B
           v2 == v1 \div B
           v3 == v2 \div B
<1>1. B \in Nat \ {0}
  BY ByteAssumption
<1>2. v \in Nat /\ v < B * (B * (B * B))
  <2>1. v \in Nat /\ v < WordRange
    BY Widths DEF Word
  <2> QED BY <2>1, Widths
<1> HIDE DEF B
<1>3. v1 \in Nat /\ v = B * v1 + (v % B) /\ v % B \in 0 .. B - 1 /\ v1 < B * (B * B)
  <2>1. B * (B * B) \in Nat
    BY <1>1
  <2> QED BY <1>1, <1>2, <2>1, DivMod, DivBound
<1> HIDE DEF v1
<1>4. v2 \in Nat /\ v1 = B * v2 + (v1 % B) /\ v1 % B \in 0 .. B - 1 /\ v2 < B * B
  <2>1. B * B \in Nat
    BY <1>1
  <2> QED BY <1>1, <1>3, <2>1, DivMod, DivBound
<1> HIDE DEF v2
<1>5. v3 \in Nat /\ v2 = B * v3 + (v2 % B) /\ v2 % B \in 0 .. B - 1 /\ v3 < B
  BY <1>1, <1>4, DivMod, DivBound
<1> HIDE DEF v3
<1>6. BytesOf(v) = <<v % B, v1 % B, v2 % B, v3>>
  BY DEF BytesOf, Shift8, B, v1, v2, v3
<1>7. v = (v % B) + B * ((v1 % B) + B * ((v2 % B) + B * v3))
  BY <1>1, <1>3, <1>4, <1>5
<1>8. v % B \in Byte /\ v1 % B \in Byte /\ v2 % B \in Byte /\ v3 \in Byte
  BY <1>1, <1>3, <1>4, <1>5 DEF Byte, B
<1>9. DEFINE c == BytesOf(v)
<1>10. c[1] = v % B /\ c[2] = v1 % B /\ c[3] = v2 % B /\ c[4] = v3
  BY <1>6
<1> HIDE DEF c
<1> QED BY <1>7, <1>8, <1>10 DEF c, B

LEMMA PlusInRange ==
    ASSUME NEW a \in Nat, NEW n \in Nat, a + n < WordRange
    PROVE  Plus(a, n) = a + n
BY Widths DEF Plus

\* An access of up to four bytes that the check lets through does not wrap
\* around: RAM ends well below the end of the address space.
LEMMA AccessFits ==
    ASSUME NEW a \in Word, NEW n \in 1 .. 4, CanAccess(a, n)
    PROVE  a + n <= MemSize
<1> DEFINE W == WordRange
<1>1. a \in Nat /\ a < MemSize /\ MemSize \in Nat /\ MemSize + 3 <= W
  BY SizeAssumption, ByteAssumption DEF CanAccess, IsValidPhyMemAddr, Word
<1>2. W \in Nat
  BY Widths
<1>3. Plus(a, n - 1) < MemSize
  BY DEF CanAccess, IsValidPhyMemAddr
<1> HIDE DEF W
<1>4. n \in Nat /\ n - 1 \in Nat /\ a + (n - 1) < W
  BY <1>1, <1>2
<1>5. Plus(a, n - 1) = a + (n - 1)
  BY <1>1, <1>4, PlusInRange DEF W
<1> QED BY <1>1, <1>3, <1>4, <1>5

\* The two lower bytes of a word are its remainder modulo a half-word's range.
LEMMA LowHalf ==
    ASSUME NEW v \in Word
    PROVE  /\ BytesOf(v)[1] = v % ByteRange
           /\ BytesOf(v)[1] + ByteRange * BytesOf(v)[2] = v % HalfRange
<1> DEFINE B == ByteRange
           b == BytesOf(v)
           h == b[1] + B * b[2]
           q == b[3] + B * b[4]
<1>1. B \in Nat \ {0}
  BY ByteAssumption
<1>2. /\ b[1] \in 0 .. B - 1 /\ b[2] \in 0 .. B - 1 /\ b[3] \in Nat /\ b[4] \in Nat
      /\ v = b[1] + B * (b[2] + B * q)
  BY Split, ByteAssumption DEF Byte
<1>3. b[1] = v % B
  BY DEF BytesOf
<1> HIDE DEF B, b
<1>4. q \in Nat
  BY <1>1, <1>2
<1>5. h \in 0 .. (B * B) - 1
  <2>1. B * b[2] <= B * (B - 1)
    BY <1>1, <1>2, ProductGrows
  <2>2. B * (B - 1) = B * B - B
    BY <1>1
  <2>3. B * b[2] \in Nat /\ B * B \in Nat
    BY <1>1, <1>2
  <2> HIDE DEF q
  <2> QED BY <1>1, <1>2, <2>1, <2>2, <2>3
<1>6. v = (B * B) * q + h
  <2> HIDE DEF q
  <2> QED BY <1>1, <1>2, <1>4
<1>7. B * B \in Nat \ {0}
  BY <1>1
<1> HIDE DEF q, h
<1>8. ((B * B) * q + h) % (B * B) = h
  BY <1>4, <1>5, <1>7, ModUnique
<1> QED BY <1>3, <1>6, <1>8 DEF B, b, h, HalfRange

LEMMA StoreBytesType ==
    ASSUME NEW m \in [Ram -> Byte], NEW a \in Word, NEW n \in {1, 2, 4}, NEW v \in Word,
           CanAccess(a, n)
    PROVE  StoreBytes(m, a, n, v) \in [Ram -> Byte]
<1> DEFINE b == BytesOf(v)
<1>1. b[1] \in Byte /\ b[2] \in Byte /\ b[3] \in Byte /\ b[4] \in Byte
  BY Split
<1>2. \A i \in 1 .. 4 : b[i] \in Byte
  BY <1>1
<1> HIDE DEF b
<1>3. a \in Int
  BY ByteAssumption DEF Word
<1>4. ASSUME NEW x \in Ram, x \in a .. a + n - 1
      PROVE  b[x - a + 1] \in Byte
  <2>1. x - a + 1 \in 1 .. 4
    BY <1>3, <1>4 DEF Ram
  <2> QED BY <1>2, <2>1
<1> QED BY <1>4 DEF StoreBytes, b

\* A low digit and the digits above it make a number.
LEMMA Digits ==
    ASSUME NEW b \in Nat \ {0}, NEW r \in Nat \ {0},
           NEW x \in 0 .. b - 1, NEW y \in 0 .. r - 1
    PROVE  x + b * y \in 0 .. (b * r) - 1
<1>1. b * y <= b * (r - 1)
  BY ProductGrows
<1>2. b * (r - 1) = b * r - b
  OBVIOUS
<1>3. b * y \in Nat /\ b * r \in Nat
  OBVIOUS
<1> QED BY <1>1, <1>2, <1>3

LEMMA LoadBytesType ==
    ASSUME NEW m \in [Ram -> Byte], NEW a \in Word, NEW n \in {1, 2, 4}, CanAccess(a, n)
    PROVE  /\ LoadBytes(m, a, n) \in Nat
           /\ n = 1 => LoadBytes(m, a, n) < ByteRange
           /\ n = 2 => LoadBytes(m, a, n) < HalfRange
           /\ LoadBytes(m, a, n) \in Word
<1> DEFINE B == ByteRange
<1>1. B \in Nat \ {0}
  BY ByteAssumption
<1>2. a \in Nat /\ a + n <= MemSize /\ MemSize \in Nat
  <2>1. n \in 1 .. 4
    OBVIOUS
  <2> QED BY <2>1, AccessFits, SizeAssumption, Widths DEF Word
<1>3. \A k \in 0 .. n - 1 : m[a + k] \in 0 .. B - 1
  BY <1>2 DEF Ram, Byte
<1>4. HalfRange = B * B /\ WordRange = B * (B * (B * B))
  BY Widths DEF HalfRange
<1>5. B * B \in Nat \ {0} /\ B <= B * B
  BY <1>1
<1>6. B * (B * B) \in Nat \ {0} /\ B * B <= B * (B * B)
  BY <1>1, <1>5
<1>7. B * (B * (B * B)) \in Nat \ {0} /\ B * (B * B) <= B * (B * (B * B))
  <2> DEFINE c == B * (B * B)
  <2>1. c \in Nat \ {0}
    BY <1>6
  <2> HIDE DEF c
  <2>2. B * c \in Nat \ {0} /\ c <= B * c
    BY <1>1, <2>1
  <2> QED BY <2>2 DEF c
<1> HIDE DEF B
<1>8. CASE n = 1
  <2>1. m[a] \in 0 .. B - 1
    BY <1>2, <1>3, <1>8
  <2>2. LoadBytes(m, a, n) = m[a]
    BY <1>8 DEF LoadBytes
  <2> QED BY <1>1, <1>4, <1>5, <1>6, <1>7, <1>8, <2>1, <2>2 DEF B, Word
<1>9. CASE n = 2
  <2>1. m[a] \in 0 .. B - 1 /\ m[a + 1] \in 0 .. B - 1
    BY <1>2, <1>3, <1>9
  <2>2. m[a] + B * m[a + 1] \in 0 .. (B * B) - 1
    BY <1>1, <2>1, Digits
  <2>3. LoadBytes(m, a, n) = m[a] + B * m[a + 1]
    BY <1>9 DEF LoadBytes, LeTwinBytesToUint16, B
  <2> QED BY <1>4, <1>5, <1>6, <1>7, <1>9, <2>2, <2>3 DEF Word
<1>10. CASE n = 4
  <2>1. m[a] \in 0 .. B - 1 /\ m[a + 1] \in 0 .. B - 1
        /\ m[a + 2] \in 0 .. B - 1 /\ m[a + 3] \in 0 .. B - 1
    BY <1>2, <1>3, <1>10
  <2> DEFINE y2 == m[a + 2] + B * m[a + 3]
             y1 == m[a + 1] + B * y2
             y0 == m[a] + B * y1
  <2>2. y2 \in 0 .. (B * B) - 1
    BY <1>1, <2>1, Digits
  <2> HIDE DEF y2
  <2>3. y1 \in 0 .. (B * (B * B)) - 1
    BY <1>1, <1>5, <2>1, <2>2, Digits
  <2> HIDE DEF y1
  <2>4. y0 \in 0 .. (B * (B * (B * B))) - 1
    BY <1>1, <1>6, <2>1, <2>3, Digits
  <2>5. LoadBytes(m, a, n) = y0
    BY <1>10 DEF LoadBytes, LeQuadBytesToUint32, B, y0, y1, y2
  <2> HIDE DEF y0
  <2> QED BY <1>4, <1>7, <1>10, <2>4, <2>5 DEF Word
<1> QED BY <1>8, <1>9, <1>10
=============================================================================
