------------------------------- MODULE Memory -------------------------------
(***************************************************************************)
(* The RAM of CUSS (memory.c): the loader that fills it from a memory      *)
(* image at start-up, and the stores and loads of running instructions.    *)
(***************************************************************************)
EXTENDS Bytes, Sequences

CONSTANTS
    Images,         \* the memory-image files: their sections, and how many
                    \* bytes of a cut-off section header end the file
    ReadFails       \* may the operating system fail to read the file?

\* A section announces nbytes bytes; only the last one of a file may have fewer.
Section == [base : Word, nbytes : Word, data : Seq(Byte)]
WholeUpTo(s, n) == \A k \in 1 .. n : Len(s[k].data) = s[k].nbytes

ASSUME ImagesAssumption ==
    \A f \in Images :
        /\ f.sections \in Seq(Section)
        /\ f.tail \in 0 .. 7
        /\ WholeUpTo(f.sections, Len(f.sections) - 1)
        /\ \A k \in DOMAIN f.sections : Len(f.sections[k].data) <= f.sections[k].nbytes
        /\ f.tail > 0 => WholeUpTo(f.sections, Len(f.sections))
ASSUME ReadAssumption == ReadFails \in BOOLEAN

VARIABLES
    cuss_mem,
    image,      \* the file that is loaded
    next,       \* its next section
    ferror,     \* the error flag of the stream
    load        \* the loader: running, returned true or false, or beyond
                \* what C defines; "in_use" when instructions have stored

vars == <<cuss_mem, image, next, ferror, load>>
-----------------------------------------------------------------------------
(***************************************************************************)
(* CuInitMemFromFile.                                                      *)
(***************************************************************************)
\* MemorySetUp: the image that the command line names is loaded into a RAM that
\* is zero, as a static array is.
Init ==
    /\ cuss_mem = [x \in Ram |-> 0]
    /\ image \in Images
    /\ next = 1
    /\ ferror = FALSE
    /\ load = "closed"

Return(r) == load' = r /\ UNCHANGED <<cuss_mem, image, next>>

OpenFile == /\ load = "closed"
            /\ \E r \in {"loading", "false"} : Return(r)
            /\ UNCHANGED ferror

HasSection == next <= Len(image.sections)

EndOfFile == /\ load = "loading" /\ ~HasSection
             /\ Return(IF image.tail = 0 THEN "true" ELSE "false")
             /\ UNCHANGED ferror

\* A header that cannot be read at all is taken for the end of the file; one
\* that is cut off, or data that is, for a truncated file.
ReadError == /\ ReadFails
             /\ load = "loading"
             /\ \E r \in {"true", "false"} : Return(r)
             /\ ferror' = TRUE

\* The bytes of a section, copied over RAM.
Copy(m, s) ==
    [x \in Ram |-> IF x \in s.base .. s.base + Len(s.data) - 1
                   THEN s.data[x - s.base + 1] ELSE m[x]]

\* Mutant: the end of the section is not checked.
SectionFitsBase(s) == IsValidPhyMemAddr(s.base)

\* The check of a section: base + nbytes is computed in 32 bits.
SectionFits(s) == IsValidPhyMemAddr(Plus(s.base, s.nbytes))

OutOfBounds == /\ load = "loading" /\ HasSection
               /\ ~SectionFits(image.sections[next])
               /\ Return("false")
               /\ UNCHANGED ferror

\* Mutant: data that is cut off is not noticed.
ReadSectionShort ==
    /\ load = "loading" /\ HasSection
    /\ LET s == image.sections[next] IN
        /\ SectionFits(s)
        /\ s.base + Len(s.data) <= MemSize
        /\ cuss_mem' = Copy(cuss_mem, s)
        /\ next' = next + 1
    /\ UNCHANGED <<load, image, ferror>>

\* fread into cuss_mem + base.
ReadSection ==
    /\ load = "loading" /\ HasSection
    /\ LET s == image.sections[next] IN
        /\ SectionFits(s)
        /\ s.base + Len(s.data) <= MemSize
        /\ cuss_mem' = Copy(cuss_mem, s)
        /\ next' = next + 1
        /\ load' = IF Len(s.data) < s.nbytes THEN "false" ELSE "loading"
    /\ UNCHANGED <<image, ferror>>

\* The same call when the bytes do not fit: what follows is undefined.
ReadBeyondRam ==
    /\ load = "loading" /\ HasSection
    /\ LET s == image.sections[next] IN
        /\ SectionFits(s)
        /\ s.base + Len(s.data) > MemSize
    /\ Return("undefined")
    /\ UNCHANGED ferror

\* An instruction stores n bytes; a store that is refused changes nothing.
Store(a, n, v) ==
    /\ load \in {"true", "in_use"}
    /\ CanAccess(a, n)
    /\ cuss_mem' = StoreBytes(cuss_mem, a, n, v)
    /\ load' = "in_use"
    /\ UNCHANGED <<image, next, ferror>>

Next ==
    \/ OpenFile \/ EndOfFile \/ ReadError \/ OutOfBounds
    \/ ReadSection \/ ReadBeyondRam
    \/ \E a \in Word, n \in {1, 2, 4}, v \in Word : Store(a, n, v)

Spec == Init /\ [][Next]_vars
-----------------------------------------------------------------------------
LoadState == {"closed", "loading", "true", "false", "undefined", "in_use"}

TypeOK ==
    /\ cuss_mem \in [Ram -> Byte]
    /\ image \in Images
    /\ next \in 1 .. Len(image.sections) + 1
    /\ ferror \in BOOLEAN
    /\ load \in LoadState

Covers(s, x) == x \in s.base .. s.base + Len(s.data) - 1

\* The RAM m holds the first n of the sections s: each address has the byte of
\* the last section that covers it, and 0 if there is none.
Holds(m, s, n) ==
    \A x \in Ram :
        /\ (\A k \in 1 .. n : ~Covers(s[k], x)) => m[x] = 0
        /\ \A k \in 1 .. n :
             Covers(s[k], x) /\ (\A j \in k + 1 .. n : ~Covers(s[j], x))
             => m[x] = s[k].data[x - s[k].base + 1]

\* When the loader returns true and no read failed, the file was whole and RAM
\* holds all of it, later sections over earlier ones.
ImageIsLoaded ==
    load = "true" /\ ~ferror =>
        /\ image.tail = 0
        /\ WholeUpTo(image.sections, Len(image.sections))
        /\ Holds(cuss_mem, image.sections, Len(image.sections))

\* The loader goes beyond RAM only for a section whose end passes the end of
\* the 32-bit address space, the case the TODO in CuInitMemFromFile is about.
StaysInRam ==
    load = "undefined" =>
        image.sections[next].base + image.sections[next].nbytes >= WordRange

\* An access that the check lets through lies in RAM: no address wraps around
\* between the first byte and the last.
AccessIsInRam ==
    \A a \in Word, n \in {1, 2, 4} :
        CanAccess(a, n) => a .. a + n - 1 \subseteq DOMAIN cuss_mem

\* A word that is stored is read back, whole and in part, and nothing around
\* it is disturbed.
StoreIsReadBack ==
    \A a \in Ram, v \in Word :
        CanAccess(a, 4) =>
            LET m == StoreBytes(cuss_mem, a, 4, v)
            IN  /\ LoadBytes(m, a, 4) = v
                /\ LoadBytes(m, a, 2) = v % HalfRange
                /\ LoadBytes(m, a, 1) = v % ByteRange
                /\ \A x \in Ram : x \notin a .. a + 3 => m[x] = cuss_mem[x]
-----------------------------------------------------------------------------
\* What the loader has done so far, for the proofs in MemoryProofs.
LoadInv ==
    /\ load \in {"closed", "loading", "true"} =>
         /\ WholeUpTo(image.sections, next - 1)
         /\ Holds(cuss_mem, image.sections, next - 1)
    /\ load = "true" /\ ~ferror =>
         image.tail = 0 /\ next = Len(image.sections) + 1
    /\ load = "undefined" => HasSection /\ StaysInRam
=============================================================================
