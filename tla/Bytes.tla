------------------------------- MODULE Bytes -------------------------------
(***************************************************************************)
(* How memory.c addresses RAM: 32-bit addresses that wrap around, the      *)
(* check of an access, and the split of words and half-words into bytes,   *)
(* little end first.  The widths are constants, so that small ones can be  *)
(* checked: a byte has ByteRange values, a word ByteRange^4.               *)
(***************************************************************************)
EXTENDS Integers

CONSTANTS
    ByteRange,      \* 256
    MemSize         \* CUSS_MEMSIZE

HalfRange == ByteRange * ByteRange
WordRange == HalfRange * HalfRange
Byte == 0 .. ByteRange - 1
Word == 0 .. WordRange - 1
Ram == 0 .. MemSize - 1

ASSUME ByteAssumption == ByteRange \in Nat \ {0, 1}
ASSUME SizeAssumption == MemSize \in Nat /\ MemSize + 3 <= WordRange

IsValidPhyMemAddr(a) == a < MemSize

\* uint32_t addition.
Plus(a, n) == (a + n) % WordRange

\* Mutant: only the first byte is checked.
CanAccessFirst(a, n) == IsValidPhyMemAddr(a)

\* The check of an access to n bytes: its first and its last address.
CanAccess(a, n) == IsValidPhyMemAddr(a) /\ IsValidPhyMemAddr(Plus(a, n - 1))

LeTwinBytesToUint16(m, a) == m[a] + ByteRange * m[a + 1]

LeQuadBytesToUint32(m, a) ==
    m[a] + ByteRange * (m[a + 1] + ByteRange * (m[a + 2] + ByteRange * m[a + 3]))

Shift8(v) == v \div ByteRange

\* Mutant: the second byte goes where the third belongs.
BytesOfSwapped(v) == <<v % ByteRange, Shift8(Shift8(v)) % ByteRange,
                       Shift8(v) % ByteRange, Shift8(Shift8(Shift8(v)))>>

\* Mutant: the third byte is not masked.
BytesOfUnmasked(v) == <<v % ByteRange, Shift8(v) % ByteRange,
                        Shift8(Shift8(v)), Shift8(Shift8(Shift8(v)))>>

\* The four bytes of a word, as CuSetWordAt splits it.
BytesOf(v) == <<v % ByteRange, Shift8(v) % ByteRange,
                Shift8(Shift8(v)) % ByteRange, Shift8(Shift8(Shift8(v)))>>

\* CuSetByteAt, CuSetHalfWordAt, CuSetWordAt: the n low bytes of v at address a.
StoreBytes(m, a, n, v) ==
    [x \in Ram |-> IF x \in a .. a + n - 1 THEN BytesOf(v)[x - a + 1] ELSE m[x]]

\* CuGetByteAt, CuGetHalfWordAt, CuGetWordAt.
LoadBytes(m, a, n) ==
    CASE n = 1 -> m[a]
      [] n = 2 -> LeTwinBytesToUint16(m, a)
      [] n = 4 -> LeQuadBytesToUint32(m, a)
=============================================================================
