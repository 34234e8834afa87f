--------------------------- MODULE MonTextProofs ---------------------------
(***************************************************************************)
(* What the functions on the ring of rows do to the text written to it,    *)
(* for every size of the window.  The proofs about Terminal rest on them.  *)
(*                                                                         *)
(* The width of a row is a search; that it finds something is the          *)
(* least-number principle, which follows from the fact that < is well      *)
(* founded.                                                                *)
(***************************************************************************)
EXTENDS MonText, SequenceTheorems, WellFoundedInduction, TLAPS

\* The text that the user sees; which one is no matter to its operators.
Page == INSTANCE Screen WITH MaxRows <- Rows, MaxCols <- Cols, rows <- <<>>

Cell == Glyph \cup {NIL}

Row == 0 .. Rows - 1
Col == 0 .. Cols - 1

-----------------------------------------------------------------------------
(***************************************************************************)
(* Arithmetic.                                                             *)
(***************************************************************************)
LEMMA LeastNat ==
    ASSUME NEW S \in SUBSET Nat, S # {}
    PROVE  \E m \in S : \A k \in S : m <= k
<1> DEFINE R == {ss \in Nat \X Nat : ss[1] < ss[2]}
<1>1. IsWellFoundedOn(R, Nat)
  BY NatLessThanWellFounded DEF OpToRel
<1> HIDE DEF R
<1>2. PICK m \in S : \A k \in S : <<k, m>> \notin R
  BY <1>1, WFMin
<1>3. \A k \in S : ~(k < m)
  BY <1>2 DEF R
<1> QED BY <1>3

LEMMA ProductGrows ==
    ASSUME NEW a \in Int, NEW b \in Int, NEW c \in Nat, a <= b
    PROVE  a * c <= b * c
OBVIOUS

\* A remainder is determined by the equation that it satisfies.
LEMMA ModUnique ==
    ASSUME NEW d \in Nat \ {0}, NEW a \in 0 .. d - 1
    PROVE  a % d = a /\ (a - d) % d = a /\ (a + d) % d = a
<1>1. a % d = a
  OBVIOUS
<1>2. (a - d) % d = a
  OBVIOUS
<1>3. (a + d) % d = a
  OBVIOUS
<1> QED BY <1>1, <1>2, <1>3

\* Where the characters of a row are.
LEMMA Places ==
    /\ Rows * Cols \in Nat
    /\ \A r \in Row : /\ r * Cols \in Nat
                      /\ r * Cols + Cols <= Rows * Cols
                      /\ (r + 1) * Cols = r * Cols + Cols
                      /\ (r - 1) * Cols = r * Cols - Cols
                      /\ \A c \in Col : At(r, c) \in Position
    /\ \A r, q \in Row : r < q => r * Cols + Cols <= q * Cols
<1>0. Rows \in Nat \ {0, 1} /\ Cols \in Nat \ {0, 1}
  BY TextSizeAssumption
<1>1. Rows * Cols \in Nat
  BY <1>0
<1>2. ASSUME NEW r \in Row
      PROVE  /\ r * Cols \in Nat
             /\ (r + 1) * Cols = r * Cols + Cols
             /\ (r - 1) * Cols = r * Cols - Cols
             /\ (r + 1) * Cols <= Rows * Cols
  <2>1. r \in Nat /\ r + 1 <= Rows
    BY <1>0 DEF Row
  <2>2. (r + 1) * Cols <= Rows * Cols
    BY <1>0, <2>1, ProductGrows
  <2>3. r * Cols \in Nat
    BY <1>0, <2>1
  <2>4. (r + 1) * Cols = r * Cols + Cols
    BY <1>0, <2>1
  <2>5. (r - 1) * Cols = r * Cols - Cols
    BY <1>0, <2>1
  <2> QED BY <2>2, <2>3, <2>4, <2>5
<1>3. ASSUME NEW r \in Row, NEW c \in Col PROVE At(r, c) \in Position
  BY <1>0, <1>1, <1>2 DEF At, Position, Col
<1>4. ASSUME NEW r \in Row, NEW q \in Row, r < q PROVE r * Cols + Cols <= q * Cols
  <2>1. r + 1 <= q /\ r \in Int /\ q \in Int
    BY <1>0, <1>4 DEF Row
  <2>2. (r + 1) * Cols <= q * Cols
    BY <1>0, <2>1, ProductGrows
  <2> QED BY <1>2, <2>2
<1> QED BY <1>1, <1>2, <1>3, <1>4

\* No two characters of the ring share a place.
LEMMA PlacesDiffer ==
    ASSUME NEW r \in Row, NEW q \in Row, NEW c \in Col, NEW d \in Col,
           At(r, c) = At(q, d)
    PROVE  r = q /\ c = d
<1>1. r \in Nat /\ q \in Nat /\ c \in 0 .. Cols - 1 /\ d \in 0 .. Cols - 1 /\ Cols \in Nat
  BY TextSizeAssumption DEF Row, Col
<1>2. r * Cols \in Nat /\ q * Cols \in Nat
  BY Places
<1>3. ~(r < q) /\ ~(q < r)
  BY <1>1, <1>2, Places DEF At
<1>4. r = q
  BY <1>1, <1>3
<1> QED BY <1>1, <1>2, <1>4 DEF At
-----------------------------------------------------------------------------
(***************************************************************************)
(* The width of a row.                                                     *)
(***************************************************************************)
LEMMA WidthUnique ==
    ASSUME NEW s \in Texts, NEW r \in Row, NEW w \in 0 .. Cols, IsWidth(s, r, w),
           NEW v \in 0 .. Cols, IsWidth(s, r, v)
    PROVE  v = w
BY TextSizeAssumption DEF IsWidth

LEMMA WidthIs ==
    ASSUME NEW s \in Texts, NEW r \in Row
    PROVE  Width(s, r) \in 0 .. Cols /\ IsWidth(s, r, Width(s, r))
<1> DEFINE S == {w \in 0 .. Cols : w < Cols => s.buf[At(r, w)] = NIL}
<1>1. S \in SUBSET Nat /\ Cols \in S
  BY TextSizeAssumption
<1>2. PICK m \in S : \A k \in S : m <= k
  BY <1>1, LeastNat
<1>3. m \in 0 .. Cols /\ (m < Cols => s.buf[At(r, m)] = NIL)
  OBVIOUS
<1>4. \A c \in 0 .. m - 1 : c \notin S /\ c \in 0 .. Cols /\ c < Cols
  BY <1>1, <1>2, <1>3, TextSizeAssumption
<1>5. IsWidth(s, r, m)
  BY <1>3, <1>4 DEF IsWidth
<1> QED BY <1>3, <1>5 DEF Width

LEMMA WidthOf ==
    ASSUME NEW s \in Texts, NEW r \in Row, NEW w \in 0 .. Cols, IsWidth(s, r, w)
    PROVE  Width(s, r) = w
BY WidthIs, WidthUnique

\* The width of a row depends on its characters only.
LEMMA WidthSame ==
    ASSUME NEW s \in Texts, NEW z \in Texts, NEW r \in Row,
           \A c \in Col : z.buf[At(r, c)] = s.buf[At(r, c)]
    PROVE  Width(z, r) = Width(s, r)
<1> DEFINE w == Width(s, r)
<1>1. w \in 0 .. Cols /\ IsWidth(s, r, w)
  BY WidthIs
<1> HIDE DEF w
<1>2. IsWidth(z, r, w)
  BY <1>1, TextSizeAssumption DEF IsWidth, Col
<1>3. Width(z, r) = w
  BY <1>1, <1>2, WidthOf
<1> QED BY <1>3 DEF w
-----------------------------------------------------------------------------
(***************************************************************************)
(* The functions that write to the window keep its indices in their        *)
(* ranges.                                                                 *)
(***************************************************************************)
Char == Glyph \cup {NL}

LEMMA PokeType ==
    ASSUME NEW s \in Texts, NEW c, NEW x \in Glyph \cup {NIL}
    PROVE  Poke(s, c, x) \in Texts /\ Poke(s, c, x).row = s.row
           /\ Poke(s, c, x).col = s.col /\ Poke(s, c, x).init = s.init
BY DEF Poke, Texts

LEMMA NextRowType ==
    ASSUME NEW s \in Texts
    PROVE  NextMonRowData(s) \in Texts /\ NextMonRowData(s).col = 0
<1>1. \A r \in 0 .. Rows - 1 : (r + 1) % Rows \in 0 .. Rows - 1
  BY TextSizeAssumption
<1>2. s.init \in 0 .. Rows - 1 /\ s.row \in 0 .. Rows - 1 /\ 0 \in 0 .. Cols
  BY TextSizeAssumption DEF Texts
<1>3. (IF NumMonRows(s) = Rows THEN (s.init + 1) % Rows ELSE s.init) \in 0 .. Rows - 1
  BY <1>1, <1>2
<1>4. (s.row + 1) % Rows \in 0 .. Rows - 1
  BY <1>1, <1>2
<1> QED BY <1>2, <1>3, <1>4 DEF NextMonRowData, Texts

LEMMA EmitCharType ==
    ASSUME NEW s \in Texts, NEW x \in Char
    PROVE  EmitChar(s, x) \in Texts
<1> DEFINE ended == IF x = NL /\ s.col < Cols THEN Poke(s, s.col, NIL) ELSE s
           room == IF x = NL \/ s.col = Cols THEN NextMonRowData(ended) ELSE ended
<1>1. ended \in Texts /\ ended.col = s.col
  BY PokeType
<1>2. room \in Texts /\ (x # NL => room.col \in 0 .. Cols - 1)
  <2>1. s.col \in 0 .. Cols
    BY DEF Texts
  <2> QED BY <1>1, <2>1, NextRowType, TextSizeAssumption
<1>3. CASE x = NL
  BY <1>2, <1>3 DEF EmitChar
<1>4. CASE x # NL
  <2>1. x \in Glyph
    BY <1>4 DEF Char
  <2>2. Poke(room, room.col, x) \in Texts
    BY <1>2, <2>1, PokeType
  <2>3. EmitChar(s, x) = [Poke(room, room.col, x) EXCEPT !.col = room.col + 1]
    BY <1>4 DEF EmitChar
  <2>4. room.col + 1 \in 0 .. Cols
    BY <1>2, <1>4, TextSizeAssumption
  <2> HIDE DEF room
  <2> QED BY <2>2, <2>3, <2>4 DEF Texts
<1> QED BY <1>3, <1>4

LEMMA EmitGlyphType ==
    ASSUME NEW s \in Texts, NEW x \in Char
    PROVE  EmitGlyph(s, x) \in Texts
BY EmitCharType, PokeType DEF EmitGlyph, EndEmit

LEMMA UnemitType ==
    ASSUME NEW s \in Texts
    PROVE  UnemitOne(s) \in Texts
<1>1. s.col \in 0 .. Cols /\ s.row \in 0 .. Rows - 1
  BY DEF Texts
<1>2. CASE s.col > 0
  <2>1. UnemitOne(s) = [Poke(s, s.col - 1, NIL) EXCEPT !.col = s.col - 1]
    BY <1>1, <1>2, TextSizeAssumption DEF UnemitOne, CannotUnemit
  <2>2. Poke(s, s.col - 1, NIL) \in Texts /\ s.col - 1 \in 0 .. Cols
    BY <1>1, <1>2, PokeType, TextSizeAssumption
  <2> QED BY <2>1, <2>2 DEF Texts
<1>3. CASE s.col = 0 /\ s.row > 0
  <2>1. UnemitOne(s) = [s EXCEPT !.buf[At(s.row - 1, Cols - 1)] = NIL,
                                 !.row = s.row - 1,
                                 !.col = Cols - 1]
    BY <1>1, <1>3, TextSizeAssumption DEF UnemitOne, CannotUnemit
  <2>2. s.row - 1 \in 0 .. Rows - 1 /\ Cols - 1 \in 0 .. Cols
    BY <1>1, <1>3, TextSizeAssumption
  <2>3. [s.buf EXCEPT ![At(s.row - 1, Cols - 1)] = NIL] \in [Position -> Glyph \cup {NIL}]
    BY DEF Texts
  <2> QED BY <2>1, <2>2, <2>3 DEF Texts
<1>4. CASE CannotUnemit(s)
  BY <1>1, <1>4, TextSizeAssumption DEF UnemitOne, CannotUnemit
<1> QED BY <1>1, <1>2, <1>3, <1>4, TextSizeAssumption DEF CannotUnemit

LEMMA RenderType ==
    ASSUME NEW s \in Texts, NEW x \in Glyph
    PROVE  RenderCursor(s, x) \in Texts
BY PokeType DEF RenderCursor

LEMMA BlankType == Blank \in Texts
BY TextSizeAssumption DEF Blank, Texts
-----------------------------------------------------------------------------
(***************************************************************************)
(* The rows of the ring, from the oldest to the current one.               *)
(***************************************************************************)
RowAt(s, i) == (s.init + i - 1) % Rows

LEMMA RowAtIs ==
    ASSUME NEW s \in Texts, NEW i \in 1 .. Rows
    PROVE  /\ RowAt(s, i) \in Row
           /\ RowAt(s, i) = IF s.init + i - 1 < Rows THEN s.init + i - 1
                            ELSE s.init + i - 1 - Rows
<1>1. s.init \in 0 .. Rows - 1 /\ Rows \in Nat \ {0}
  BY TextSizeAssumption DEF Texts
<1>2. CASE s.init + i - 1 < Rows
  BY <1>1, <1>2, ModUnique DEF RowAt, Row
<1>3. CASE s.init + i - 1 >= Rows
  <2> DEFINE a == s.init + i - 1 - Rows
  <2>1. a \in 0 .. Rows - 1 /\ a + Rows = s.init + i - 1
    BY <1>1, <1>3
  <2>2. (a + Rows) % Rows = a
    BY <1>1, <2>1, ModUnique
  <2> HIDE DEF a
  <2>3. RowAt(s, i) = a
    BY <2>1, <2>2 DEF RowAt
  <2> QED BY <1>1, <1>3, <2>1, <2>3 DEF a, Row
<1> QED BY <1>1, <1>2, <1>3

LEMMA RingIs ==
    ASSUME NEW s \in Texts
    PROVE  /\ NumMonRows(s) \in 1 .. Rows
           /\ s.row \in Row /\ s.init \in Row /\ s.col \in 0 .. Cols
           /\ RowAt(s, NumMonRows(s)) = s.row
           /\ \A i, j \in 1 .. NumMonRows(s) : RowAt(s, i) = RowAt(s, j) => i = j
<1>1. s.init \in 0 .. Rows - 1 /\ s.row \in 0 .. Rows - 1 /\ s.col \in 0 .. Cols
      /\ Rows \in Nat \ {0}
  BY TextSizeAssumption DEF Texts
<1>2. NumMonRows(s) \in 1 .. Rows
  BY <1>1 DEF NumMonRows
<1>3. RowAt(s, NumMonRows(s)) = s.row
  BY <1>1, <1>2, RowAtIs DEF NumMonRows
<1>4. \A i, j \in 1 .. NumMonRows(s) : RowAt(s, i) = RowAt(s, j) => i = j
  BY <1>1, <1>2, RowAtIs
<1> QED BY <1>1, <1>2, <1>3, <1>4 DEF Row

\* The rows written to the ring.
Shown == Seq(Seq(Cell))

LEMMA RowWrittenIs ==
    ASSUME NEW s \in Texts, NEW r \in Row
    PROVE  /\ WrittenWidth(s, r) \in 0 .. Cols
           /\ RowWritten(s, r) \in Seq(Cell)
           /\ Len(RowWritten(s, r)) = WrittenWidth(s, r)
           /\ \A c \in 1 .. WrittenWidth(s, r) : RowWritten(s, r)[c] = s.buf[At(r, c - 1)]
<1> DEFINE w == WrittenWidth(s, r)
<1>1. w \in 0 .. Cols
  BY WidthIs, RingIs DEF WrittenWidth
<1> HIDE DEF w
<1>2. \A c \in 1 .. w : At(r, c - 1) \in Position
  <2>1. \A c \in 1 .. w : c - 1 \in Col
    BY <1>1, TextSizeAssumption DEF Col
  <2> QED BY <2>1, Places
<1>3. \A c \in 1 .. w : s.buf[At(r, c - 1)] \in Cell
  BY <1>2 DEF Texts, Cell
<1>4. [c \in 1 .. w |-> s.buf[At(r, c - 1)]] \in Seq(Cell)
  BY <1>1, <1>3
<1>5. RowWritten(s, r) = [c \in 1 .. w |-> s.buf[At(r, c - 1)]]
  BY DEF RowWritten, w
<1> QED BY <1>1, <1>4, <1>5 DEF w

LEMMA ShownIs ==
    ASSUME NEW s \in Texts
    PROVE  /\ RowsWritten(s) \in Shown
           /\ RowsWritten(s) # <<>>
           /\ Len(RowsWritten(s)) = NumMonRows(s)
           /\ \A i \in 1 .. NumMonRows(s) : RowsWritten(s)[i] = RowWritten(s, RowAt(s, i))
<1> DEFINE n == NumMonRows(s)
<1>1. n \in 1 .. Rows /\ Rows \in Nat
  BY RingIs, TextSizeAssumption
<1>2. \A i \in 1 .. n : RowWritten(s, RowAt(s, i)) \in Seq(Cell)
  BY <1>1, RowAtIs, RowWrittenIs
<1>3. RowsWritten(s) = [i \in 1 .. n |-> RowWritten(s, RowAt(s, i))]
  BY DEF RowsWritten, RowAt
<1> HIDE DEF n
<1>4. [i \in 1 .. n |-> RowWritten(s, RowAt(s, i))] \in Shown
  BY <1>1, <1>2 DEF Shown
<1>5. RowsWritten(s) \in Shown /\ Len(RowsWritten(s)) = n
      /\ \A i \in 1 .. n : RowsWritten(s)[i] = RowWritten(s, RowAt(s, i))
  BY <1>1, <1>3, <1>4
<1>6. RowsWritten(s) # <<>>
  BY <1>1, <1>5
<1> QED BY <1>5, <1>6 DEF n
-----------------------------------------------------------------------------
(***************************************************************************)
(* The operators of Screen, element by element.                            *)
(***************************************************************************)
LEMMA ButLastIs ==
    ASSUME NEW T, NEW t \in Seq(T), t # <<>>
    PROVE  /\ Page!ButLast(t) \in Seq(T)
           /\ Len(Page!ButLast(t)) = Len(t) - 1
           /\ \A i \in 1 .. Len(t) - 1 : Page!ButLast(t)[i] = t[i]
           /\ Page!LastOf(t) = t[Len(t)] /\ Page!LastOf(t) \in T
           /\ Len(t) \in Nat \ {0}
<1> DEFINE n == Len(t)
           b == SubSeq(t, 1, n - 1)
<1>1. n \in Nat /\ n # 0
  BY EmptySeq
<1>2. \A i \in 1 .. n : t[i] \in T
  BY ElementOfSeq
<1>3. Page!ButLast(t) = b /\ Page!LastOf(t) = t[n]
  BY DEF Page!ButLast, Page!LastOf
<1> HIDE DEF n
<1>4. n - 1 \in Int /\ 1 \in Int /\ \A i \in 1 .. n - 1 : t[i] \in T
  BY <1>1, <1>2
<1>5. /\ b \in Seq(T)
      /\ Len(b) = IF 1 <= n - 1 THEN (n - 1) - 1 + 1 ELSE 0
      /\ \A i \in 1 .. (n - 1) - 1 + 1 : b[i] = t[1 + i - 1]
  BY <1>4, SubSeqProperties
<1> HIDE DEF b
<1>6. Len(b) = n - 1
  BY <1>1, <1>5
<1>7. ASSUME NEW i \in 1 .. n - 1 PROVE b[i] = t[i]
  <2>1. i \in 1 .. (n - 1) - 1 + 1 /\ 1 + i - 1 = i
    BY <1>1
  <2> QED BY <1>5, <2>1
<1>8. t[n] \in T
  BY <1>1, <1>2
<1> QED BY <1>1, <1>3, <1>5, <1>6, <1>7, <1>8 DEF n

LEMMA ReplaceIs ==
    ASSUME NEW T, NEW t \in Seq(T), t # <<>>, NEW r \in T
    PROVE  LET u == Page!ButLast(t) \o <<r>>
           IN  /\ u \in Seq(T) /\ u # <<>>
               /\ Len(u) = Len(t)
               /\ \A i \in 1 .. Len(t) : u[i] = IF i = Len(t) THEN r ELSE t[i]
<1> DEFINE b == Page!ButLast(t)
           u == b \o <<r>>
<1>1. /\ b \in Seq(T) /\ Len(b) = Len(t) - 1 /\ \A i \in 1 .. Len(t) - 1 : b[i] = t[i]
      /\ Len(t) \in Nat \ {0}
  BY ButLastIs
<1>2. <<r>> \in Seq(T) /\ Len(<<r>>) = 1 /\ <<r>>[1] = r
  OBVIOUS
<1> HIDE DEF b
<1>3. /\ u \in Seq(T) /\ Len(u) = Len(b) + 1
      /\ \A i \in 1 .. Len(b) + 1 : u[i] = IF i <= Len(b) THEN b[i] ELSE <<r>>[i - Len(b)]
  BY <1>1, <1>2, ConcatProperties
<1>4. \A i \in 1 .. Len(t) : u[i] = IF i = Len(t) THEN r ELSE t[i]
  BY <1>1, <1>2, <1>3
<1>5. u # <<>>
  BY <1>1, <1>3
<1> QED BY <1>1, <1>3, <1>4, <1>5 DEF b

LEMMA AppendIs ==
    ASSUME NEW T, NEW t \in Seq(T), NEW x \in T
    PROVE  /\ t \o <<x>> \in Seq(T)
           /\ Len(t \o <<x>>) = Len(t) + 1
           /\ \A i \in 1 .. Len(t) + 1 : (t \o <<x>>)[i] = IF i = Len(t) + 1 THEN x ELSE t[i]
<1>1. <<x>> \in Seq(T) /\ Len(<<x>>) = 1 /\ <<x>>[1] = x /\ Len(t) \in Nat
  OBVIOUS
<1>2. /\ t \o <<x>> \in Seq(T) /\ Len(t \o <<x>>) = Len(t) + 1
      /\ \A i \in 1 .. Len(t) + 1 :
            (t \o <<x>>)[i] = IF i <= Len(t) THEN t[i] ELSE <<x>>[i - Len(t)]
  BY <1>1, ConcatProperties
<1> QED BY <1>1, <1>2

LEMMA SplitLast ==
    ASSUME NEW T, NEW t \in Seq(T), t # <<>>
    PROVE  t = Page!ButLast(t) \o <<Page!LastOf(t)>>
<1> DEFINE u == Page!ButLast(t) \o <<Page!LastOf(t)>>
<1>1. Page!LastOf(t) = t[Len(t)] /\ Page!LastOf(t) \in T
  BY ButLastIs
<1>2. /\ u \in Seq(T) /\ Len(u) = Len(t)
      /\ \A i \in 1 .. Len(t) : u[i] = IF i = Len(t) THEN Page!LastOf(t) ELSE t[i]
  BY <1>1, ReplaceIs
<1> HIDE DEF u
<1>3. \A i \in 1 .. Len(t) : t[i] = u[i]
  BY <1>1, <1>2
<1>4. t = u
  BY <1>2, <1>3, SeqEqual
<1> QED BY <1>4 DEF u

\* The other way round.
LEMMA JoinLast ==
    ASSUME NEW T, NEW b \in Seq(T), NEW x \in T
    PROVE  /\ b \o <<x>> \in Seq(T) /\ b \o <<x>> # <<>>
           /\ Page!ButLast(b \o <<x>>) = b
           /\ Page!LastOf(b \o <<x>>) = x
<1> DEFINE u == b \o <<x>>
<1>1. /\ u \in Seq(T) /\ Len(u) = Len(b) + 1 /\ Len(b) \in Nat
      /\ \A i \in 1 .. Len(b) + 1 : u[i] = IF i = Len(b) + 1 THEN x ELSE b[i]
  BY AppendIs
<1> HIDE DEF u
<1>2. u # <<>> /\ Len(u) - 1 = Len(b) /\ Len(u) \in 1 .. Len(b) + 1
  BY <1>1, EmptySeq
<1>3. /\ Page!ButLast(u) \in Seq(T) /\ Len(Page!ButLast(u)) = Len(u) - 1
      /\ \A i \in 1 .. Len(u) - 1 : Page!ButLast(u)[i] = u[i]
      /\ Page!LastOf(u) = u[Len(u)]
  BY <1>1, <1>2, ButLastIs
<1>4. \A i \in 1 .. Len(b) : i \in 1 .. Len(b) + 1 /\ i # Len(b) + 1
  BY <1>1
<1>5. \A i \in 1 .. Len(b) : b[i] = Page!ButLast(u)[i]
  BY <1>1, <1>2, <1>3, <1>4
<1>6. b = Page!ButLast(u)
  BY <1>2, <1>3, <1>5, SeqEqual
<1>7. Page!LastOf(u) = x
  BY <1>1, <1>2, <1>3
<1> QED BY <1>1, <1>2, <1>6, <1>7 DEF u

LEMMA AddRowIs ==
    ASSUME NEW T, NEW t \in Seq(T), t # <<>>, Len(t) <= Rows, NEW r \in T
    PROVE  LET u == Page!AddRow(t, r)
               n == IF Len(t) = Rows THEN Rows ELSE Len(t) + 1
           IN  /\ u \in Seq(T) /\ u # <<>>
               /\ Len(u) = n
               /\ \A i \in 1 .. n : u[i] = IF i = n THEN r
                                           ELSE IF Len(t) = Rows THEN t[i + 1] ELSE t[i]
<1> DEFINE b == IF Len(t) = Rows THEN Tail(t) ELSE t
           u == b \o <<r>>
<1>1. Len(t) \in Nat \ {0} /\ Rows \in Nat
  BY EmptySeq, TextSizeAssumption
<1>2. /\ Tail(t) \in Seq(T) /\ Len(Tail(t)) = Len(t) - 1
      /\ \A i \in 1 .. Len(t) - 1 : Tail(t)[i] = t[i + 1]
  BY HeadTailProperties
<1>3. /\ b \in Seq(T) /\ Len(b) = IF Len(t) = Rows THEN Rows - 1 ELSE Len(t)
      /\ \A i \in 1 .. Len(b) : b[i] = IF Len(t) = Rows THEN t[i + 1] ELSE t[i]
  BY <1>1, <1>2
<1>4. <<r>> \in Seq(T) /\ Len(<<r>>) = 1 /\ <<r>>[1] = r
  OBVIOUS
<1>5. Page!AddRow(t, r) = u
  BY DEF Page!AddRow
<1> HIDE DEF b
<1>6. /\ u \in Seq(T) /\ Len(u) = Len(b) + 1
      /\ \A i \in 1 .. Len(b) + 1 : u[i] = IF i <= Len(b) THEN b[i] ELSE <<r>>[i - Len(b)]
  BY <1>3, <1>4, ConcatProperties
<1>7. u # <<>>
  BY <1>1, <1>3, <1>6
<1> QED BY <1>1, <1>3, <1>4, <1>5, <1>6, <1>7

\* Sequences of rows are equal when they have the same rows.
LEMMA SameRows ==
    ASSUME NEW T, NEW t \in Seq(T), NEW u \in Seq(T), Len(t) = Len(u),
           \A i \in 1 .. Len(t) : t[i] = u[i]
    PROVE  t = u
BY SeqEqual
-----------------------------------------------------------------------------
(***************************************************************************)
(* The functions that write to the ring, field by field.                   *)
(***************************************************************************)
\* One cell of the ring is written.
Written(f, r, c, x) == [f EXCEPT ![At(r, c)] = x]

LEMMA WrittenIs ==
    ASSUME NEW s \in Texts, NEW r \in Row, NEW c \in Col, NEW x \in Cell
    PROVE  /\ Written(s.buf, r, c, x)[At(r, c)] = x
           /\ \A p \in Position : p # At(r, c) => Written(s.buf, r, c, x)[p] = s.buf[p]
           /\ \A q \in Row, d \in Col :
                 q # r \/ d # c => Written(s.buf, r, c, x)[At(q, d)] = s.buf[At(q, d)]
<1>1. s.buf \in [Position -> Cell]
  BY DEF Texts, Cell
<1>2. At(r, c) \in Position /\ \A q \in Row, d \in Col : At(q, d) \in Position
  BY Places
<1>3. \A p \in Position : p # At(r, c) => Written(s.buf, r, c, x)[p] = s.buf[p]
  BY <1>1 DEF Written
<1>4. \A q \in Row, d \in Col : q # r \/ d # c => At(q, d) # At(r, c)
  BY PlacesDiffer
<1>5. Written(s.buf, r, c, x)[At(r, c)] = x
  BY <1>1, <1>2 DEF Written
<1> QED BY <1>2, <1>3, <1>4, <1>5

LEMMA PutIs ==
    ASSUME NEW s \in Texts, NEW x \in Glyph, s.col < Cols
    PROVE  LET z == EmitChar(s, x)
           IN  /\ z \in Texts
               /\ z.init = s.init /\ z.row = s.row /\ z.col = s.col + 1
               /\ z.buf = Written(s.buf, s.row, s.col, x)
<1>1. x # NL /\ s.col # Cols /\ s.col \in 0 .. Cols
  BY GlyphAssumption, RingIs, TextSizeAssumption
<1>2. EmitChar(s, x) = [Poke(s, s.col, x) EXCEPT !.col = s.col + 1]
  BY <1>1 DEF EmitChar
<1>3. EmitChar(s, x) \in Texts
  BY EmitCharType DEF Char
<1> QED BY <1>2, <1>3 DEF Poke, Texts, Written

LEMMA EndIs ==
    ASSUME NEW s \in Texts
    PROVE  LET z == EndEmit(s)
           IN  /\ z \in Texts
               /\ z.init = s.init /\ z.row = s.row /\ z.col = s.col
               /\ s.col < Cols => z.buf = Written(s.buf, s.row, s.col, NIL)
               /\ ~(s.col < Cols) => z.buf = s.buf
BY PokeType DEF EndEmit, Poke, Texts, Written

\* A newline ends the row and begins the next one; so does a character that finds
\* the row full.
LEMMA NewlineIs == \A s : EmitChar(s, NL) = NextMonRowData(EndEmit(s))
BY DEF EmitChar, EndEmit

LEMMA PutFullIs ==
    ASSUME NEW s \in Texts, NEW x \in Glyph, s.col = Cols
    PROVE  EmitChar(s, x) = EmitChar(NextMonRowData(s), x)
<1>1. x # NL /\ Cols # 0
  BY GlyphAssumption, TextSizeAssumption
<1>2. NextMonRowData(s).col = 0
  BY NextRowType
<1> HIDE DEF NextMonRowData
<1> QED BY <1>1, <1>2 DEF EmitChar

LEMMA EraseIs ==
    ASSUME NEW s \in Texts, s.col > 0
    PROVE  LET z == UnemitOne(s)
           IN  /\ z \in Texts
               /\ z.init = s.init /\ z.row = s.row /\ z.col = s.col - 1
               /\ z.buf = Written(s.buf, s.row, s.col - 1, NIL)
<1>1. UnemitOne(s) = [Poke(s, s.col - 1, NIL) EXCEPT !.col = s.col - 1]
  BY RingIs, TextSizeAssumption DEF UnemitOne, CannotUnemit
<1> QED BY <1>1, UnemitType DEF Poke, Texts, Written

LEMMA EraseBackIs ==
    ASSUME NEW s \in Texts, s.col = 0, s.row > 0
    PROVE  LET z == UnemitOne(s)
           IN  /\ z \in Texts
               /\ z.init = s.init /\ z.row = s.row - 1 /\ z.col = Cols - 1
               /\ z.buf = Written(s.buf, s.row - 1, Cols - 1, NIL)
<1>1. UnemitOne(s) = [s EXCEPT !.buf[At(s.row - 1, Cols - 1)] = NIL,
                               !.row = s.row - 1,
                               !.col = Cols - 1]
  BY RingIs, TextSizeAssumption DEF UnemitOne, CannotUnemit
<1> QED BY <1>1, UnemitType DEF Texts, Written

LEMMA EraseNothingIs ==
    ASSUME NEW s \in Texts, CannotUnemit(s)
    PROVE  UnemitOne(s) = s
BY DEF UnemitOne, CannotUnemit

LEMMA CursorIs ==
    ASSUME NEW s \in Texts, NEW x \in Glyph
    PROVE  LET z == RenderCursor(s, x)
               w == Width(s, s.row)
           IN  /\ z \in Texts
               /\ z.init = s.init /\ z.row = s.row /\ z.col = s.col
               /\ w > 0 => z.buf = Written(s.buf, s.row, w - 1, x)
               /\ ~(w > 0) => z = s
BY RenderType DEF RenderCursor, Poke, Texts, Written

\* The next row.
LEMMA NextRowIs ==
    ASSUME NEW s \in Texts
    PROVE  LET z == NextMonRowData(s)
               n == NumMonRows(s)
           IN  /\ z \in Texts
               /\ z.buf = s.buf /\ z.col = 0
               /\ z.row = IF s.row + 1 = Rows THEN 0 ELSE s.row + 1
               /\ NumMonRows(z) = IF n = Rows THEN Rows ELSE n + 1
               /\ \A i \in 1 .. NumMonRows(z) :
                     RowAt(z, i) = IF i = NumMonRows(z) THEN z.row
                                   ELSE IF n = Rows THEN RowAt(s, i + 1) ELSE RowAt(s, i)
<1> DEFINE z == NextMonRowData(s)
           n == NumMonRows(s)
<1>1. /\ s.init \in 0 .. Rows - 1 /\ s.row \in 0 .. Rows - 1 /\ Rows \in Nat \ {0, 1}
      /\ n \in 1 .. Rows
      /\ n = IF s.init > s.row THEN Rows - s.init + s.row + 1 ELSE s.row - s.init + 1
  BY RingIs, TextSizeAssumption DEF Row, NumMonRows
<1>2. \A r \in 0 .. Rows - 1 : (r + 1) % Rows = IF r + 1 = Rows THEN 0 ELSE r + 1
  <2> SUFFICES ASSUME NEW r \in 0 .. Rows - 1
               PROVE  (r + 1) % Rows = IF r + 1 = Rows THEN 0 ELSE r + 1
    OBVIOUS
  <2>1. CASE r + 1 = Rows
    <3>1. Rows % Rows = 0
      BY <1>1
    <3> QED BY <2>1, <3>1
  <2>2. CASE r + 1 # Rows
    <3>1. r + 1 \in 0 .. Rows - 1
      BY <1>1, <2>2
    <3> QED BY <1>1, <2>2, <3>1, ModUnique
  <2> QED BY <2>1, <2>2
<1>3. /\ z \in Texts /\ z.buf = s.buf /\ z.col = 0
      /\ z.row = (s.row + 1) % Rows
      /\ z.init = IF n = Rows THEN (s.init + 1) % Rows ELSE s.init
  BY NextRowType DEF NextMonRowData, Texts
<1>4. /\ z.row = IF s.row + 1 = Rows THEN 0 ELSE s.row + 1
      /\ z.init = IF n # Rows THEN s.init ELSE IF s.init + 1 = Rows THEN 0 ELSE s.init + 1
  BY <1>1, <1>2, <1>3
<1>5. NumMonRows(z) = IF z.init > z.row THEN Rows - z.init + z.row + 1
                      ELSE z.row - z.init + 1
  BY DEF NumMonRows
<1> HIDE DEF z, n
<1>6. NumMonRows(z) = IF n = Rows THEN Rows ELSE n + 1
  <2>1. CASE n = Rows
    <3>1. CASE s.init > s.row
      BY <1>1, <1>4, <1>5, <2>1, <3>1
    <3>2. CASE ~(s.init > s.row)
      <4>1. s.init = 0 /\ s.row = Rows - 1
        BY <1>1, <2>1, <3>2
      <4> QED BY <1>1, <1>4, <1>5, <2>1, <4>1
    <3> QED BY <3>1, <3>2
  <2>2. CASE n # Rows
    BY <1>1, <1>4, <1>5, <2>2
  <2> QED BY <2>1, <2>2
<1>7. ASSUME NEW i \in 1 .. NumMonRows(z)
      PROVE  RowAt(z, i) = IF i = NumMonRows(z) THEN z.row
                           ELSE IF n = Rows THEN RowAt(s, i + 1) ELSE RowAt(s, i)
  <2>1. i \in 1 .. Rows /\ (i # NumMonRows(z) => i + 1 \in 1 .. Rows)
    BY <1>1, <1>6
  <2>2. RowAt(z, i) = IF z.init + i - 1 < Rows THEN z.init + i - 1 ELSE z.init + i - 1 - Rows
    BY <1>3, <2>1, RowAtIs
  <2>3. RowAt(s, i) = IF s.init + i - 1 < Rows THEN s.init + i - 1 ELSE s.init + i - 1 - Rows
    BY <2>1, RowAtIs
  <2>4. i # NumMonRows(z)
        => RowAt(s, i + 1) = IF s.init + (i + 1) - 1 < Rows THEN s.init + (i + 1) - 1
                             ELSE s.init + (i + 1) - 1 - Rows
    BY <2>1, RowAtIs
  <2>5. CASE i = NumMonRows(z)
    BY <1>3, <2>5, RingIs
  <2>6. CASE i # NumMonRows(z)
    BY <1>1, <1>4, <1>6, <2>2, <2>3, <2>4, <2>6
  <2> QED BY <2>5, <2>6
<1> QED BY <1>3, <1>4, <1>6, <1>7 DEF z, n
-----------------------------------------------------------------------------
(***************************************************************************)
(* What the functions do to the rows that are written.                     *)
(***************************************************************************)
\* The text of a row depends on its characters and, if it is the current one, on
\* the column.
LEMMA RowWrittenSame ==
    ASSUME NEW s \in Texts, NEW z \in Texts, NEW r \in Row,
           WrittenWidth(z, r) = WrittenWidth(s, r),
           \A c \in Col : c < WrittenWidth(s, r) => z.buf[At(r, c)] = s.buf[At(r, c)]
    PROVE  RowWritten(z, r) = RowWritten(s, r)
<1> DEFINE w == WrittenWidth(s, r)
<1>1. /\ w \in 0 .. Cols
      /\ RowWritten(s, r) \in Seq(Cell) /\ Len(RowWritten(s, r)) = w
      /\ \A c \in 1 .. w : RowWritten(s, r)[c] = s.buf[At(r, c - 1)]
      /\ RowWritten(z, r) \in Seq(Cell) /\ Len(RowWritten(z, r)) = w
      /\ \A c \in 1 .. w : RowWritten(z, r)[c] = z.buf[At(r, c - 1)]
  BY RowWrittenIs
<1>2. \A c \in 1 .. w : c - 1 \in Col /\ c - 1 < w
  BY <1>1, TextSizeAssumption DEF Col
<1>3. \A c \in 1 .. w : RowWritten(z, r)[c] = RowWritten(s, r)[c]
  BY <1>1, <1>2
<1> HIDE DEF w
<1> QED BY <1>1, <1>3, SeqEqual

LEMMA OtherRowSame ==
    ASSUME NEW s \in Texts, NEW z \in Texts, NEW r \in Row, r # s.row, r # z.row,
           \A c \in Col : z.buf[At(r, c)] = s.buf[At(r, c)]
    PROVE  RowWritten(z, r) = RowWritten(s, r)
BY WidthSame, RowWrittenSame DEF WrittenWidth

\* Only the current row is written to.
LEMMA LastRowChanges ==
    ASSUME NEW s \in Texts, NEW z \in Texts, z.init = s.init, z.row = s.row,
           \A r \in Row, c \in Col : r # s.row => z.buf[At(r, c)] = s.buf[At(r, c)]
    PROVE  RowsWritten(z) = Page!ButLast(RowsWritten(s)) \o <<RowWritten(z, s.row)>>
<1> DEFINE n == NumMonRows(s)
           t == RowsWritten(s)
           r == RowWritten(z, s.row)
           u == Page!ButLast(t) \o <<r>>
<1>1. NumMonRows(z) = n /\ n \in 1 .. Rows /\ s.row \in Row
      /\ RowAt(s, n) = s.row
      /\ \A i, j \in 1 .. n : RowAt(s, i) = RowAt(s, j) => i = j
  BY RingIs DEF NumMonRows
<1>2. \A i \in 1 .. n : RowAt(z, i) = RowAt(s, i) /\ RowAt(s, i) \in Row
  <2>1. \A i \in 1 .. n : i \in 1 .. Rows
    BY <1>1, TextSizeAssumption
  <2> QED BY <2>1, RowAtIs DEF RowAt
<1>3. /\ t \in Shown /\ t # <<>> /\ Len(t) = n
      /\ \A i \in 1 .. n : t[i] = RowWritten(s, RowAt(s, i))
      /\ RowsWritten(z) \in Shown /\ Len(RowsWritten(z)) = n
      /\ \A i \in 1 .. n : RowsWritten(z)[i] = RowWritten(z, RowAt(z, i))
  BY <1>1, ShownIs
<1>4. r \in Seq(Cell)
  BY <1>1, RowWrittenIs
<1> HIDE DEF n, t, r
<1>5. /\ u \in Shown /\ Len(u) = n
      /\ \A i \in 1 .. n : u[i] = IF i = n THEN r ELSE t[i]
  BY <1>3, <1>4, ReplaceIs DEF Shown
<1>6. ASSUME NEW i \in 1 .. n PROVE RowsWritten(z)[i] = u[i]
  <2>1. RowsWritten(z)[i] = RowWritten(z, RowAt(s, i))
    BY <1>2, <1>3
  <2>2. CASE i = n
    BY <1>1, <1>5, <2>1, <2>2 DEF r
  <2>3. CASE i # n
    <3>1. RowAt(s, i) # s.row /\ RowAt(s, i) \in Row
      BY <1>1, <1>2, <2>3, TextSizeAssumption
    <3>2. RowWritten(z, RowAt(s, i)) = RowWritten(s, RowAt(s, i))
      BY <3>1, OtherRowSame
    <3> QED BY <1>3, <1>5, <2>1, <2>3, <3>2
  <2> QED BY <2>2, <2>3
<1> HIDE DEF u
<1>7. RowsWritten(z) = u
  BY <1>3, <1>5, <1>6, SameRows DEF Shown
<1> QED BY <1>7 DEF u, t, r

\* Such a step that leaves the written part of the current row alone changes nothing.
LEMMA NothingShown ==
    ASSUME NEW s \in Texts, NEW z \in Texts, z.init = s.init, z.row = s.row, z.col = s.col,
           \A r \in Row, c \in Col :
               r # s.row \/ c < s.col => z.buf[At(r, c)] = s.buf[At(r, c)]
    PROVE  RowsWritten(z) = RowsWritten(s)
<1>1. s.row \in Row
  BY RingIs
<1>2. RowWritten(z, s.row) = RowWritten(s, s.row)
  BY <1>1, RowWrittenSame DEF WrittenWidth
<1>3. RowsWritten(z) = Page!ButLast(RowsWritten(s)) \o <<RowWritten(z, s.row)>>
  BY LastRowChanges
<1>4. RowsWritten(s) = Page!ButLast(RowsWritten(s)) \o <<RowWritten(s, s.row)>>
  BY LastRowChanges
<1> QED BY <1>2, <1>3, <1>4

\* The last row that is written.
LEMMA LastRow ==
    ASSUME NEW s \in Texts
    PROVE  /\ Page!LastOf(RowsWritten(s)) = RowWritten(s, s.row)
           /\ RowWritten(s, s.row) \in Seq(Cell)
           /\ Len(RowWritten(s, s.row)) = s.col
           /\ \A c \in 1 .. s.col : RowWritten(s, s.row)[c] = s.buf[At(s.row, c - 1)]
           /\ RowWritten(s, s.row) = <<>> <=> s.col = 0
<1>1. /\ Page!LastOf(RowsWritten(s)) = RowWritten(s, s.row)
      /\ s.row \in Row /\ s.col \in 0 .. Cols
  BY RingIs, ShownIs DEF Page!LastOf
<1>2. /\ RowWritten(s, s.row) \in Seq(Cell)
      /\ Len(RowWritten(s, s.row)) = s.col
      /\ \A c \in 1 .. s.col : RowWritten(s, s.row)[c] = s.buf[At(s.row, c - 1)]
  BY <1>1, RowWrittenIs DEF WrittenWidth
<1>3. RowWritten(s, s.row) = <<>> <=> s.col = 0
  BY <1>2, EmptySeq
<1> QED BY <1>1, <1>2, <1>3

LEMMA EndEmitShows ==
    ASSUME NEW s \in Texts
    PROVE  RowsWritten(EndEmit(s)) = RowsWritten(s)
<1> DEFINE z == EndEmit(s)
<1>1. /\ z \in Texts /\ z.init = s.init /\ z.row = s.row /\ z.col = s.col
      /\ s.col < Cols => z.buf = Written(s.buf, s.row, s.col, NIL)
      /\ ~(s.col < Cols) => z.buf = s.buf
  BY EndIs
<1>2. s.row \in Row /\ (s.col < Cols => s.col \in Col)
  BY RingIs, TextSizeAssumption DEF Col
<1>3. ASSUME NEW r \in Row, NEW c \in Col, r # s.row \/ c < s.col
      PROVE  z.buf[At(r, c)] = s.buf[At(r, c)]
  <2>1. r # s.row \/ c # s.col
    BY <1>3, RingIs DEF Col
  <2>2. CASE s.col < Cols
    <3>1. s.row \in Row /\ s.col \in Col /\ NIL \in Cell
      BY <1>2, <2>2 DEF Cell
    <3>2. Written(s.buf, s.row, s.col, NIL)[At(r, c)] = s.buf[At(r, c)]
      BY <2>1, <3>1, WrittenIs
    <3> QED BY <1>1, <2>2, <3>2
  <2>3. CASE ~(s.col < Cols)
    BY <1>1, <2>3
  <2> QED BY <2>2, <2>3
<1> HIDE DEF z
<1>4. RowsWritten(z) = RowsWritten(s)
  BY <1>1, <1>3, NothingShown
<1> QED BY <1>4 DEF z

\* A write to one place of the current row, which has the width w now.
LEMMA WriteShows ==
    ASSUME NEW s \in Texts, NEW z \in Texts, NEW c \in Col, NEW x \in Cell,
           z.init = s.init, z.row = s.row, z.buf = Written(s.buf, s.row, c, x)
    PROVE  /\ RowsWritten(z) = Page!ButLast(RowsWritten(s)) \o <<RowWritten(z, s.row)>>
           /\ RowWritten(z, s.row) \in Seq(Cell)
           /\ Len(RowWritten(z, s.row)) = z.col
           /\ \A d \in 1 .. z.col :
                 RowWritten(z, s.row)[d] = IF d - 1 = c THEN x ELSE s.buf[At(s.row, d - 1)]
<1>1. s.row \in Row /\ z.col \in 0 .. Cols
  BY RingIs
<1>2. /\ Written(s.buf, s.row, c, x)[At(s.row, c)] = x
      /\ \A q \in Row, d \in Col :
            q # s.row \/ d # c => Written(s.buf, s.row, c, x)[At(q, d)] = s.buf[At(q, d)]
  BY <1>1, WrittenIs
<1>3. RowsWritten(z) = Page!ButLast(RowsWritten(s)) \o <<RowWritten(z, s.row)>>
  BY <1>2, LastRowChanges
<1>4. /\ RowWritten(z, s.row) \in Seq(Cell)
      /\ Len(RowWritten(z, s.row)) = z.col
      /\ \A d \in 1 .. z.col : RowWritten(z, s.row)[d] = z.buf[At(s.row, d - 1)]
  BY LastRow
<1>5. \A d \in 1 .. z.col : d - 1 \in Col
  BY <1>1, TextSizeAssumption DEF Col
<1>6. \A d \in 1 .. z.col : z.buf[At(s.row, d - 1)] = IF d - 1 = c THEN x
                                                      ELSE s.buf[At(s.row, d - 1)]
  BY <1>1, <1>2, <1>5
<1> QED BY <1>3, <1>4, <1>6

\* A character is added to a row that has room for it.
LEMMA PutShows ==
    ASSUME NEW s \in Texts, NEW x \in Glyph, s.col < Cols
    PROVE  RowsWritten(EmitChar(s, x))
           = Page!ButLast(RowsWritten(s)) \o <<Page!LastOf(RowsWritten(s)) \o <<x>>>>
<1> DEFINE z == EmitChar(s, x)
           t == RowWritten(s, s.row)
           u == RowWritten(z, s.row)
<1>1. s.col \in Col /\ s.col \in Nat /\ x \in Cell
  BY RingIs, TextSizeAssumption DEF Col, Cell
<1>2. /\ z \in Texts /\ z.init = s.init /\ z.row = s.row /\ z.col = s.col + 1
      /\ z.buf = Written(s.buf, s.row, s.col, x)
  BY PutIs
<1> HIDE DEF z
<1>3. /\ RowsWritten(z) = Page!ButLast(RowsWritten(s)) \o <<u>>
      /\ u \in Seq(Cell) /\ Len(u) = s.col + 1
      /\ \A d \in 1 .. s.col + 1 : u[d] = IF d - 1 = s.col THEN x
                                          ELSE s.buf[At(s.row, d - 1)]
  BY <1>1, <1>2, WriteShows
<1>4. /\ Page!LastOf(RowsWritten(s)) = t
      /\ t \in Seq(Cell) /\ Len(t) = s.col
      /\ \A d \in 1 .. s.col : t[d] = s.buf[At(s.row, d - 1)]
  BY LastRow
<1> HIDE DEF t, u
<1>5. /\ t \o <<x>> \in Seq(Cell) /\ Len(t \o <<x>>) = s.col + 1
      /\ \A d \in 1 .. s.col + 1 : (t \o <<x>>)[d] = IF d = s.col + 1 THEN x ELSE t[d]
  BY <1>1, <1>4, AppendIs
<1>6. \A d \in 1 .. s.col + 1 : u[d] = (t \o <<x>>)[d]
  BY <1>1, <1>3, <1>4, <1>5
<1>7. u = t \o <<x>>
  BY <1>3, <1>5, <1>6, SeqEqual
<1> QED BY <1>3, <1>4, <1>7 DEF z

\* The next row is empty.
LEMMA NextRowShows ==
    ASSUME NEW s \in Texts, Ended(s)
    PROVE  RowsWritten(NextMonRowData(s)) = Page!AddRow(RowsWritten(s), <<>>)
<1> DEFINE z == NextMonRowData(s)
           n == NumMonRows(s)
           m == NumMonRows(z)
           t == RowsWritten(s)
           u == Page!AddRow(t, <<>>)
<1>1. /\ z \in Texts /\ z.buf = s.buf /\ z.col = 0
      /\ m = IF n = Rows THEN Rows ELSE n + 1
      /\ \A i \in 1 .. m : RowAt(z, i) = IF i = m THEN z.row
                                         ELSE IF n = Rows THEN RowAt(s, i + 1) ELSE RowAt(s, i)
  BY NextRowIs
<1>2. n \in 1 .. Rows /\ m \in 1 .. Rows /\ Rows \in Nat /\ s.row \in Row /\ z.row \in Row
      /\ RowAt(z, m) = z.row
      /\ \A i, j \in 1 .. m : RowAt(z, i) = RowAt(z, j) => i = j
  BY <1>1, RingIs, TextSizeAssumption
<1>3. /\ t \in Shown /\ t # <<>> /\ Len(t) = n
      /\ \A i \in 1 .. n : t[i] = RowWritten(s, RowAt(s, i))
      /\ RowsWritten(z) \in Shown /\ Len(RowsWritten(z)) = m
      /\ \A i \in 1 .. m : RowsWritten(z)[i] = RowWritten(z, RowAt(z, i))
  BY <1>1, ShownIs
<1>4. ASSUME NEW r \in Row, r # z.row
      PROVE  RowWritten(z, r) = RowWritten(s, r)
  <2>1. Width(z, r) = Width(s, r)
    BY <1>1, WidthSame
  <2>2. s.row = r => Width(s, r) = s.col
    BY RingIs, WidthOf DEF Ended
  <2>3. WrittenWidth(z, r) = WrittenWidth(s, r)
    BY <1>4, <2>1, <2>2 DEF WrittenWidth
  <2> QED BY <1>1, <2>3, RowWrittenSame
<1>5. RowWritten(z, z.row) = <<>>
  BY <1>1, LastRow
<1> HIDE DEF z, n, m, t
<1>6. /\ u \in Shown /\ Len(u) = m
      /\ \A i \in 1 .. m : u[i] = IF i = m THEN <<>>
                                  ELSE IF n = Rows THEN t[i + 1] ELSE t[i]
  <2>1. <<>> \in Seq(Cell)
    OBVIOUS
  <2>2. t \in Seq(Seq(Cell)) /\ t # <<>> /\ Len(t) <= Rows
    BY <1>2, <1>3 DEF Shown
  <2>3. LET k == IF Len(t) = Rows THEN Rows ELSE Len(t) + 1
        IN  /\ u \in Seq(Seq(Cell)) /\ u # <<>>
            /\ Len(u) = k
            /\ \A i \in 1 .. k : u[i] = IF i = k THEN <<>>
                                        ELSE IF Len(t) = Rows THEN t[i + 1] ELSE t[i]
    BY ONLY <2>1, <2>2, AddRowIs
  <2>4. m = IF Len(t) = Rows THEN Rows ELSE Len(t) + 1
    BY <1>1, <1>3
  <2> QED BY <1>3, <2>3, <2>4 DEF Shown
<1>7. ASSUME NEW i \in 1 .. m PROVE RowsWritten(z)[i] = u[i]
  <2>1. CASE i = m
    BY <1>2, <1>3, <1>5, <1>6, <2>1
  <2>2. CASE i # m
    <3> DEFINE j == IF n = Rows THEN i + 1 ELSE i
    <3>1. j \in 1 .. n /\ j \in 1 .. Rows
      BY <1>1, <1>2, <2>2
    <3>2. RowAt(z, i) = RowAt(s, j) /\ u[i] = t[j]
      BY <1>1, <1>6, <2>2
    <3>3. RowAt(z, i) # z.row /\ m \in 1 .. m
      BY <1>2, <2>2
    <3> HIDE DEF j
    <3>4. RowAt(s, j) \in Row
      BY <3>1, RowAtIs
    <3>5. RowWritten(z, RowAt(z, i)) = RowWritten(s, RowAt(s, j))
      BY <1>4, <3>2, <3>3, <3>4
    <3> QED BY <1>3, <3>1, <3>2, <3>5
  <2> QED BY <2>1, <2>2
<1> HIDE DEF u
<1>8. RowsWritten(z) = u
  BY <1>3, <1>6, <1>7, SameRows DEF Shown
<1> QED BY <1>8 DEF z, u, t

\* A row that is filled up to the column is ended there by EndEmit, or full.
LEMMA EndEmitEnds ==
    ASSUME NEW s \in Texts, Filled(s)
    PROVE  Ended(EndEmit(s)) /\ Filled(EndEmit(s))
<1> DEFINE z == EndEmit(s)
<1>1. /\ z \in Texts /\ z.row = s.row /\ z.col = s.col
      /\ s.col < Cols => z.buf = Written(s.buf, s.row, s.col, NIL)
      /\ ~(s.col < Cols) => z.buf = s.buf
  BY EndIs
<1>2. s.row \in Row /\ s.col \in 0 .. Cols /\ Cols \in Nat /\ NIL \in Cell
  BY RingIs, TextSizeAssumption DEF Cell
<1>3. \A c \in 0 .. s.col - 1 : s.buf[At(s.row, c)] # NIL
  BY DEF Filled
<1> HIDE DEF z
<1>4. CASE s.col < Cols
  <2>1. s.col \in Col
    BY <1>2, <1>4 DEF Col
  <2>2. /\ Written(s.buf, s.row, s.col, NIL)[At(s.row, s.col)] = NIL
        /\ \A q \in Row, d \in Col :
              q # s.row \/ d # s.col
              => Written(s.buf, s.row, s.col, NIL)[At(q, d)] = s.buf[At(q, d)]
    BY <1>2, <2>1, WrittenIs
  <2>3. \A c \in 0 .. s.col - 1 : c \in Col /\ c # s.col
    BY <1>2 DEF Col
  <2>4. \A c \in 0 .. s.col - 1 : z.buf[At(s.row, c)] # NIL
    BY <1>1, <1>2, <1>3, <1>4, <2>2, <2>3
  <2>5. z.buf[At(s.row, s.col)] = NIL
    BY <1>1, <1>4, <2>2
  <2> QED BY <1>1, <2>4, <2>5 DEF Ended, IsWidth, Filled, z
<1>5. CASE ~(s.col < Cols)
  BY <1>1, <1>2, <1>3, <1>5 DEF Ended, IsWidth, Filled, z
<1> QED BY <1>4, <1>5

LEMMA EndedIsFilled == \A s \in Texts : Ended(s) => Filled(s)
BY DEF Ended, Filled, IsWidth

\* A full row is ended.
LEMMA FullEnds ==
    ASSUME NEW s \in Texts, Filled(s), s.col = Cols
    PROVE  Ended(s)
BY TextSizeAssumption DEF Filled, Ended, IsWidth

LEMMA NextRowFills ==
    ASSUME NEW s \in Texts
    PROVE  Filled(NextMonRowData(s))
BY NextRowType DEF Filled

LEMMA EmitNewlineShows ==
    ASSUME NEW s \in Texts, Filled(s)
    PROVE  /\ RowsWritten(EmitChar(s, NL)) = Page!AddRow(RowsWritten(s), <<>>)
           /\ EmitChar(s, NL) \in Texts
           /\ EmitChar(s, NL).col = 0
           /\ Filled(EmitChar(s, NL))
<1>1. EmitChar(s, NL) = NextMonRowData(EndEmit(s)) /\ EndEmit(s) \in Texts
  BY NewlineIs, EndIs
<1>2. RowsWritten(EndEmit(s)) = RowsWritten(s) /\ Ended(EndEmit(s))
  BY EndEmitShows, EndEmitEnds
<1> QED BY <1>1, <1>2, NextRowShows, NextRowType, NextRowFills

\* Room for one more character, on the current row or on the next one.
Room(s) == IF s.col = Cols THEN NextMonRowData(s) ELSE s

LEMMA RoomIs ==
    ASSUME NEW s \in Texts, NEW x \in Glyph, Filled(s)
    PROVE  /\ Room(s) \in Texts /\ Filled(Room(s)) /\ Room(s).col < Cols
           /\ EmitChar(s, x) = EmitChar(Room(s), x)
           /\ RowsWritten(Room(s)) = IF s.col = Cols THEN Page!AddRow(RowsWritten(s), <<>>)
                                   ELSE RowsWritten(s)
<1>1. s.col \in 0 .. Cols /\ Cols \in Nat \ {0}
  BY RingIs, TextSizeAssumption
<1>2. CASE s.col = Cols
  <2>1. Room(s) = NextMonRowData(s)
    BY <1>2 DEF Room
  <2>2. NextMonRowData(s) \in Texts /\ NextMonRowData(s).col = 0
    BY NextRowType
  <2> QED BY <1>1, <1>2, <2>1, <2>2, FullEnds, NextRowFills, NextRowShows, PutFullIs
<1>3. CASE s.col # Cols
  <2>1. Room(s) = s
    BY <1>3 DEF Room
  <2> QED BY <1>1, <1>3, <2>1
<1> QED BY <1>2, <1>3

LEMMA PutFills ==
    ASSUME NEW s \in Texts, NEW x \in Glyph, s.col < Cols, Filled(s)
    PROVE  Filled(EmitChar(s, x))
<1> DEFINE z == EmitChar(s, x)
<1>1. s.row \in Row /\ s.col \in Col /\ x \in Cell /\ x # NIL
  BY RingIs, GlyphAssumption, TextSizeAssumption DEF Col, Cell
<1>2. /\ z \in Texts /\ z.row = s.row /\ z.col = s.col + 1
      /\ z.buf = Written(s.buf, s.row, s.col, x)
  BY PutIs
<1>3. /\ Written(s.buf, s.row, s.col, x)[At(s.row, s.col)] = x
      /\ \A q \in Row, d \in Col :
            q # s.row \/ d # s.col
            => Written(s.buf, s.row, s.col, x)[At(q, d)] = s.buf[At(q, d)]
  BY <1>1, WrittenIs
<1> HIDE DEF z
<1>4. ASSUME NEW c \in 0 .. s.col PROVE z.buf[At(s.row, c)] # NIL
  <2>1. CASE c = s.col
    BY <1>1, <1>2, <1>3, <2>1
  <2>2. CASE c # s.col
    <3>1. c \in Col /\ c \in 0 .. s.col - 1
      BY <1>1, <2>2, TextSizeAssumption DEF Col
    <3>2. s.buf[At(s.row, c)] # NIL
      BY <3>1 DEF Filled
    <3> QED BY <1>1, <1>2, <1>3, <2>2, <3>1, <3>2
  <2> QED BY <2>1, <2>2
<1>5. \A c \in 0 .. z.col - 1 : c \in 0 .. s.col
  BY <1>1, <1>2 DEF Col
<1> QED BY <1>2, <1>4, <1>5 DEF Filled, z

LEMMA EmitCharShows ==
    ASSUME NEW s \in Texts, NEW x \in Glyph, Filled(s)
    PROVE  /\ RowsWritten(EmitChar(s, x)) = Page!Put(RowsWritten(s), x)
           /\ EmitChar(s, x) \in Texts /\ Filled(EmitChar(s, x))
           /\ EmitChar(s, x).col > 0
<1> DEFINE q == Room(s)
           t == RowsWritten(s)
<1>1. /\ q \in Texts /\ Filled(q) /\ q.col < Cols
      /\ EmitChar(s, x) = EmitChar(q, x)
      /\ RowsWritten(q) = IF s.col = Cols THEN Page!AddRow(t, <<>>) ELSE t
  BY RoomIs
<1>2. /\ EmitChar(s, x) \in Texts /\ Filled(EmitChar(s, x))
      /\ EmitChar(s, x).col > 0
      /\ RowsWritten(EmitChar(s, x))
         = Page!ButLast(RowsWritten(q)) \o <<Page!LastOf(RowsWritten(q)) \o <<x>>>>
  <2>1. Filled(EmitChar(q, x))
    BY <1>1, PutFills
  <2>2. EmitChar(q, x) \in Texts /\ EmitChar(q, x).col = q.col + 1 /\ q.col \in 0 .. Cols
    BY <1>1, PutIs, RingIs
  <2>3. EmitChar(q, x).col > 0
    BY <2>2, TextSizeAssumption
  <2>4. RowsWritten(EmitChar(q, x))
        = Page!ButLast(RowsWritten(q)) \o <<Page!LastOf(RowsWritten(q)) \o <<x>>>>
    BY <1>1, PutShows
  <2> HIDE DEF q
  <2> QED BY <1>1, <2>1, <2>2, <2>3, <2>4
<1>3. Len(Page!LastOf(t)) = s.col
  BY LastRow
<1>4. /\ t \in Seq(Seq(Cell)) /\ t # <<>> /\ Len(t) <= Rows
      /\ Rows \in Nat /\ Len(t) \in Nat
  BY ShownIs, RingIs, TextSizeAssumption DEF Shown
<1> HIDE DEF q, t
<1>5. CASE s.col # Cols
  BY <1>1, <1>2, <1>3, <1>5 DEF Page!Put, t
<1>6. CASE s.col = Cols
  <2> DEFINE u == Page!AddRow(t, <<>>)
             v == Page!AddRow(t, <<x>>)
             w == Page!ButLast(u) \o <<<<x>>>>
             n == IF Len(t) = Rows THEN Rows ELSE Len(t) + 1
  <2>1. <<>> \in Seq(Cell) /\ <<x>> \in Seq(Cell) /\ <<>> \o <<x>> = <<x>>
    BY DEF Cell
  <2>2. /\ u \in Seq(Seq(Cell)) /\ u # <<>> /\ Len(u) = n
        /\ \A i \in 1 .. n : u[i] = IF i = n THEN <<>>
                                    ELSE IF Len(t) = Rows THEN t[i + 1] ELSE t[i]
    <3> DEFINE T == Seq(Cell)
               e == <<>>
    <3>1. t \in Seq(T) /\ t # <<>> /\ Len(t) <= Rows /\ e \in T
      BY <1>4, <2>1
    <3> HIDE DEF T, e
    <3>2. LET y == Page!AddRow(t, e)
              k == IF Len(t) = Rows THEN Rows ELSE Len(t) + 1
          IN  /\ y \in Seq(T) /\ y # <<>>
              /\ Len(y) = k
              /\ \A i \in 1 .. k : y[i] = IF i = k THEN e
                                          ELSE IF Len(t) = Rows THEN t[i + 1] ELSE t[i]
      BY ONLY <3>1, AddRowIs
    <3> QED BY <3>2 DEF T, e
  <2>3. /\ v \in Seq(Seq(Cell)) /\ Len(v) = n
        /\ \A i \in 1 .. n : v[i] = IF i = n THEN <<x>>
                                    ELSE IF Len(t) = Rows THEN t[i + 1] ELSE t[i]
    <3> DEFINE T == Seq(Cell)
               e == <<x>>
    <3>1. t \in Seq(T) /\ t # <<>> /\ Len(t) <= Rows /\ e \in T
      BY <1>4, <2>1
    <3> HIDE DEF T, e
    <3>2. LET y == Page!AddRow(t, e)
              k == IF Len(t) = Rows THEN Rows ELSE Len(t) + 1
          IN  /\ y \in Seq(T) /\ y # <<>>
              /\ Len(y) = k
              /\ \A i \in 1 .. k : y[i] = IF i = k THEN e
                                          ELSE IF Len(t) = Rows THEN t[i + 1] ELSE t[i]
      BY ONLY <3>1, AddRowIs
    <3> QED BY <3>2 DEF T, e
  <2>4. n \in Nat \ {0}
    BY <1>4, TextSizeAssumption
  <2> HIDE DEF u, v, n
  <2>5. Page!LastOf(u) \o <<x>> = <<x>>
    <3>1. n \in 1 .. n
      BY <2>4
    <3>2. u[n] = <<>>
      BY <2>2, <3>1
    <3> QED BY <2>1, <2>2, <3>2 DEF Page!LastOf
  <2>6. /\ w \in Seq(Seq(Cell)) /\ Len(w) = Len(u)
        /\ \A i \in 1 .. Len(u) : w[i] = IF i = Len(u) THEN <<x>> ELSE u[i]
    <3> DEFINE T == Seq(Cell)
               e == <<x>>
    <3>1. u \in Seq(T) /\ u # <<>> /\ e \in T
      BY <2>1, <2>2
    <3> HIDE DEF T, e
    <3>2. LET y == Page!ButLast(u) \o <<e>>
          IN  /\ y \in Seq(T) /\ y # <<>>
              /\ Len(y) = Len(u)
              /\ \A i \in 1 .. Len(u) : y[i] = IF i = Len(u) THEN e ELSE u[i]
      BY ONLY <3>1, ReplaceIs
    <3> QED BY <3>2 DEF T, e
  <2>7. \A i \in 1 .. n : w[i] = v[i]
    BY <2>2, <2>3, <2>6
  <2> HIDE DEF w
  <2>8. w = v
    BY <2>2, <2>3, <2>6, <2>7, SameRows
  <2>9. RowsWritten(EmitChar(s, x)) = w
    BY <1>1, <1>2, <1>6, <2>5 DEF u, w
  <2>10. Page!Put(t, x) = v
    BY <1>3, <1>6 DEF Page!Put, v, t
  <2>11. RowsWritten(EmitChar(s, x)) = Page!Put(t, x)
    BY <2>8, <2>9, <2>10
  <2> QED BY <1>2, <2>11 DEF t
<1> QED BY <1>2, <1>5, <1>6 DEF t

\* CuSdlMonIoPutMsg for one character.
LEMMA EmitGlyphShows ==
    ASSUME NEW s \in Texts, NEW x \in Glyph, Filled(s)
    PROVE  /\ RowsWritten(EmitGlyph(s, x)) = Page!Put(RowsWritten(s), x)
           /\ EmitGlyph(s, x) \in Texts
           /\ Filled(EmitGlyph(s, x)) /\ Ended(EmitGlyph(s, x))
           /\ EmitGlyph(s, x).col > 0
BY EmitCharShows, EndEmitShows, EndEmitEnds, EndIs DEF EmitGlyph

\* The last character is erased from the current row.
LEMMA EraseShows ==
    ASSUME NEW s \in Texts, s.col > 0, Filled(s)
    PROVE  /\ RowsWritten(UnemitOne(s)) = Page!Erase(RowsWritten(s))
           /\ Page!LastOf(RowsWritten(s)) # <<>>
           /\ UnemitOne(s) \in Texts /\ Ended(UnemitOne(s))
<1> DEFINE z == UnemitOne(s)
           t == RowWritten(s, s.row)
           u == RowWritten(z, s.row)
           k == s.col - 1
<1>1. k \in Col /\ k \in Nat /\ NIL \in Cell /\ s.row \in Row /\ s.col = k + 1
  BY RingIs, TextSizeAssumption DEF Col, Cell
<1>2. /\ z \in Texts /\ z.init = s.init /\ z.row = s.row /\ z.col = k
      /\ z.buf = Written(s.buf, s.row, k, NIL)
  BY EraseIs
<1> HIDE DEF z, k
<1>3. /\ RowsWritten(z) = Page!ButLast(RowsWritten(s)) \o <<u>>
      /\ u \in Seq(Cell) /\ Len(u) = k
      /\ \A d \in 1 .. k : u[d] = IF d - 1 = k THEN NIL ELSE s.buf[At(s.row, d - 1)]
  BY <1>1, <1>2, WriteShows
<1>4. /\ Page!LastOf(RowsWritten(s)) = t /\ t # <<>>
      /\ t \in Seq(Cell) /\ Len(t) = k + 1
      /\ \A d \in 1 .. k + 1 : t[d] = s.buf[At(s.row, d - 1)]
  BY <1>1, LastRow
<1> HIDE DEF t, u
<1>5. /\ Page!ButLast(t) \in Seq(Cell) /\ Len(Page!ButLast(t)) = k
      /\ \A d \in 1 .. k : Page!ButLast(t)[d] = t[d]
  <2>1. /\ Page!ButLast(t) \in Seq(Cell) /\ Len(Page!ButLast(t)) = Len(t) - 1
        /\ \A d \in 1 .. Len(t) - 1 : Page!ButLast(t)[d] = t[d]
    BY ONLY <1>4, ButLastIs
  <2>2. Len(t) - 1 = k
    BY <1>1, <1>4
  <2> QED BY <2>1, <2>2
<1>6. \A d \in 1 .. k : u[d] = Page!ButLast(t)[d]
  <2>1. \A d \in 1 .. k : d - 1 # k /\ d \in 1 .. k + 1
    BY <1>1
  <2> QED BY <1>3, <1>4, <1>5, <2>1
<1>7. u = Page!ButLast(t)
  BY <1>3, <1>5, <1>6, SeqEqual
<1>8. RowsWritten(z) = Page!Erase(RowsWritten(s))
  BY <1>3, <1>4, <1>7 DEF Page!Erase
<1>9. Ended(z)
  <2>1. /\ Written(s.buf, s.row, k, NIL)[At(s.row, k)] = NIL
        /\ \A q \in Row, d \in Col :
              q # s.row \/ d # k
              => Written(s.buf, s.row, k, NIL)[At(q, d)] = s.buf[At(q, d)]
    BY <1>1, WrittenIs
  <2>2. \A c \in 0 .. k - 1 : c \in Col /\ c # k /\ c \in 0 .. s.col - 1
    BY <1>1, TextSizeAssumption DEF Col
  <2>3. \A c \in 0 .. k - 1 : z.buf[At(s.row, c)] # NIL
    BY <1>1, <1>2, <2>1, <2>2 DEF Filled
  <2>4. z.buf[At(s.row, k)] = NIL
    BY <1>2, <2>1
  <2> QED BY <1>2, <2>3, <2>4 DEF Ended, IsWidth
<1> QED BY <1>2, <1>4, <1>8, <1>9 DEF z

\* When the row is empty, the full one before it loses its last character.
LEMMA EraseBackShows ==
    ASSUME NEW s \in Texts, s.col = 0, s.row > 0, NumMonRows(s) > 1,
           IsWidth(s, s.row - 1, Cols)
    PROVE  /\ RowsWritten(UnemitOne(s)) = Page!Erase(RowsWritten(s))
           /\ Page!CanErase(RowsWritten(s))
           /\ UnemitOne(s) \in Texts /\ Ended(UnemitOne(s))
           /\ NumMonRows(UnemitOne(s)) = NumMonRows(s) - 1
<1> DEFINE z == UnemitOne(s)
           n == NumMonRows(s)
           p == s.row - 1
           k == Cols - 1
           t == RowsWritten(s)
           b == Page!ButLast(t)
           r == RowWritten(s, p)
           u == RowWritten(z, p)
<1>1. /\ s.row \in Row /\ p \in Row /\ s.row = p + 1 /\ p # s.row
      /\ k \in Col /\ k \in Nat /\ Cols = k + 1 /\ k < Cols
      /\ NIL \in Cell /\ Rows \in Nat /\ n \in 1 .. Rows /\ n - 1 \in 1 .. Rows /\ n # 1
  BY RingIs, TextSizeAssumption DEF Col, Cell, Row
<1>2. /\ z \in Texts /\ z.init = s.init /\ z.row = p /\ z.col = k
      /\ z.buf = Written(s.buf, p, k, NIL)
  BY EraseBackIs
<1>3. NumMonRows(z) = n - 1
  BY <1>1, <1>2, RingIs DEF NumMonRows, Row
<1>4. /\ Written(s.buf, p, k, NIL)[At(p, k)] = NIL
      /\ \A q \in Row, d \in Col :
            q # p \/ d # k => Written(s.buf, p, k, NIL)[At(q, d)] = s.buf[At(q, d)]
  BY <1>1, WrittenIs
<1>5. WrittenWidth(s, p) = Cols
  <2>1. Width(s, p) = Cols
    BY <1>1, WidthOf
  <2> QED BY <1>1, <2>1 DEF WrittenWidth
<1>6. /\ r \in Seq(Cell) /\ Len(r) = k + 1
      /\ \A d \in 1 .. k + 1 : r[d] = s.buf[At(p, d - 1)]
  BY <1>1, <1>5, RowWrittenIs
<1>7. /\ u \in Seq(Cell) /\ Len(u) = k
      /\ \A d \in 1 .. k : u[d] = z.buf[At(p, d - 1)]
  BY <1>2, LastRow
<1>8. /\ t \in Seq(Seq(Cell)) /\ t # <<>> /\ Len(t) = n
      /\ \A i \in 1 .. n : t[i] = RowWritten(s, RowAt(s, i))
      /\ RowsWritten(z) \in Seq(Seq(Cell)) /\ Len(RowsWritten(z)) = n - 1
      /\ \A i \in 1 .. n - 1 : RowsWritten(z)[i] = RowWritten(z, RowAt(z, i))
  BY <1>2, <1>3, ShownIs DEF Shown
<1>9. Page!LastOf(t) = <<>>
  BY LastRow
<1>10. /\ RowAt(s, n - 1) = p
       /\ \A i \in 1 .. n - 1 : /\ RowAt(z, i) = RowAt(s, i) /\ RowAt(s, i) \in Row
                                /\ RowAt(s, i) # s.row
                                /\ i # n - 1 => RowAt(s, i) # p
  <2>1. \A i \in 1 .. n - 1 : i \in 1 .. Rows /\ i \in 1 .. n /\ i # n
    BY <1>1
  <2>2. \A i \in 1 .. n - 1 : RowAt(z, i) = RowAt(s, i) /\ RowAt(s, i) \in Row
    BY <1>2, <2>1, RowAtIs DEF RowAt
  <2>3. /\ RowAt(z, n - 1) = p /\ n - 1 \in 1 .. n - 1
        /\ \A i, j \in 1 .. n - 1 : RowAt(z, i) = RowAt(z, j) => i = j
    BY <1>1, <1>2, <1>3, RingIs
  <2>4. /\ RowAt(s, n) = s.row /\ n \in 1 .. n
        /\ \A i, j \in 1 .. n : RowAt(s, i) = RowAt(s, j) => i = j
    BY <1>1, RingIs
  <2>5. \A i \in 1 .. n - 1 : RowAt(s, i) # s.row
    BY <2>1, <2>4
  <2>6. \A i \in 1 .. n - 1 : i # n - 1 => RowAt(s, i) # p
    BY <2>2, <2>3
  <2> QED BY <2>2, <2>3, <2>5, <2>6
<1> HIDE DEF z, n, p, k, t, r, u
<1>11. u = Page!ButLast(r)
  <2>1. r # <<>>
    BY <1>1, <1>6, EmptySeq
  <2>2. /\ Page!ButLast(r) \in Seq(Cell) /\ Len(Page!ButLast(r)) = Len(r) - 1
        /\ \A d \in 1 .. Len(r) - 1 : Page!ButLast(r)[d] = r[d]
    BY ONLY <1>6, <2>1, ButLastIs
  <2>3. Len(r) - 1 = k
    BY <1>1, <1>6
  <2>4. \A d \in 1 .. k : d - 1 \in Col /\ d - 1 # k /\ d \in 1 .. k + 1
    BY <1>1, TextSizeAssumption DEF Col
  <2>5. \A d \in 1 .. k : u[d] = Page!ButLast(r)[d]
    BY <1>1, <1>2, <1>4, <1>6, <1>7, <2>2, <2>3, <2>4
  <2> QED BY <1>7, <2>2, <2>3, <2>5, SeqEqual
<1>12. /\ b \in Seq(Seq(Cell)) /\ b # <<>> /\ Len(b) = n - 1
       /\ \A i \in 1 .. n - 1 : b[i] = t[i]
       /\ Page!LastOf(b) = r
  <2>1. /\ b \in Seq(Seq(Cell)) /\ Len(b) = n - 1 /\ \A i \in 1 .. n - 1 : b[i] = t[i]
    BY <1>8, ButLastIs
  <2>2. b # <<>>
    BY <1>1, <2>1, EmptySeq
  <2>3. n - 1 \in 1 .. n - 1 /\ n - 1 \in 1 .. n
    BY <1>1
  <2>4. b[n - 1] = r
    BY <1>8, <1>10, <2>1, <2>3 DEF r
  <2> QED BY <2>1, <2>2, <2>4 DEF Page!LastOf
<1> HIDE DEF b
<1> DEFINE v == Page!ButLast(b) \o <<u>>
<1>13. /\ v \in Seq(Seq(Cell)) /\ Len(v) = n - 1
       /\ \A i \in 1 .. n - 1 : v[i] = IF i = n - 1 THEN u ELSE b[i]
  BY <1>7, <1>12, ReplaceIs
<1> HIDE DEF v
<1>14. ASSUME NEW i \in 1 .. n - 1 PROVE RowsWritten(z)[i] = v[i]
  <2>1. CASE i = n - 1
    BY <1>8, <1>10, <1>13, <2>1 DEF u
  <2>2. CASE i # n - 1
    <3>1. RowAt(s, i) \in Row /\ RowAt(s, i) # p /\ RowAt(s, i) # s.row
      BY <1>10, <2>2
    <3>2. RowWritten(z, RowAt(s, i)) = RowWritten(s, RowAt(s, i))
      BY <1>2, <1>4, <3>1, OtherRowSame
    <3>3. i \in 1 .. n
      BY <1>1
    <3> QED BY <1>8, <1>10, <1>12, <1>13, <2>2, <3>2, <3>3
  <2> QED BY <2>1, <2>2
<1>15. RowsWritten(z) = v
  BY <1>8, <1>13, <1>14, SameRows
<1>16. v = Page!Erase(t)
  BY <1>9, <1>11, <1>12 DEF Page!Erase, v, b
<1>17. Page!CanErase(t)
  <2>1. Len(r) = Cols /\ Len(t) > 1
    BY <1>1, <1>6, <1>8
  <2> QED BY <1>12, <2>1 DEF Page!CanErase, b
<1>18. Ended(z)
  <2>1. \A c \in 0 .. k - 1 : c \in Col /\ c # k /\ c \in 0 .. Cols - 1
    BY <1>1, TextSizeAssumption DEF Col
  <2>2. \A c \in 0 .. k - 1 : z.buf[At(p, c)] # NIL
    BY <1>1, <1>2, <1>4, <2>1 DEF IsWidth, p
  <2>3. z.buf[At(p, k)] = NIL
    BY <1>2, <1>4
  <2> QED BY <1>2, <2>2, <2>3 DEF Ended, IsWidth
<1> QED BY <1>2, <1>3, <1>15, <1>16, <1>17, <1>18 DEF z, n, t

\* A frame: the last character of the current row becomes the cursor.  A row that
\* is still empty is as yet not cleared, and nothing is written there.
LEMMA CursorShows ==
    ASSUME NEW s \in Texts, NEW x \in Glyph, Ended(s), s.col > 0
    PROVE  /\ RowsWritten(RenderCursor(s, x))
              = Page!ButLast(RowsWritten(s))
                \o <<Page!ButLast(Page!LastOf(RowsWritten(s))) \o <<x>>>>
           /\ Page!LastOf(RowsWritten(s)) # <<>>
           /\ RenderCursor(s, x).buf = Written(s.buf, s.row, s.col - 1, x)
           /\ Ended(RenderCursor(s, x))
<1> DEFINE z == RenderCursor(s, x)
           t == RowWritten(s, s.row)
           u == RowWritten(z, s.row)
           k == s.col - 1
           v == Page!ButLast(t) \o <<x>>
<1>1. /\ k \in Col /\ k \in Nat /\ x \in Cell /\ s.row \in Row /\ s.col = k + 1
      /\ s.col \in 0 .. Cols
  BY RingIs, TextSizeAssumption DEF Col, Cell
<1>2. Width(s, s.row) = s.col
  BY <1>1, WidthOf DEF Ended
<1>3. /\ z \in Texts /\ z.init = s.init /\ z.row = s.row /\ z.col = k + 1
      /\ z.buf = Written(s.buf, s.row, k, x)
  BY <1>1, <1>2, CursorIs
<1> HIDE DEF z, k
<1>4. /\ RowsWritten(z) = Page!ButLast(RowsWritten(s)) \o <<u>>
      /\ u \in Seq(Cell) /\ Len(u) = k + 1
      /\ \A d \in 1 .. k + 1 : u[d] = IF d - 1 = k THEN x ELSE s.buf[At(s.row, d - 1)]
  <2>1. /\ RowsWritten(z) = Page!ButLast(RowsWritten(s)) \o <<u>>
        /\ u \in Seq(Cell) /\ Len(u) = z.col
        /\ \A d \in 1 .. z.col : u[d] = IF d - 1 = k THEN x ELSE s.buf[At(s.row, d - 1)]
    <3>1. /\ z \in Texts /\ z.init = s.init /\ z.row = s.row
          /\ z.buf = Written(s.buf, s.row, k, x)
          /\ k \in Col /\ x \in Cell
      BY <1>1, <1>3
    <3> QED BY <3>1, WriteShows
  <2> QED BY <1>3, <2>1
<1>5. /\ Page!LastOf(RowsWritten(s)) = t /\ t # <<>>
      /\ t \in Seq(Cell) /\ Len(t) = k + 1
      /\ \A d \in 1 .. k + 1 : t[d] = s.buf[At(s.row, d - 1)]
  BY <1>1, LastRow
<1> HIDE DEF t, u
<1>6. /\ v \in Seq(Cell) /\ Len(v) = Len(t)
      /\ \A d \in 1 .. Len(t) : v[d] = IF d = Len(t) THEN x ELSE t[d]
  BY <1>1, <1>5, ReplaceIs
<1> HIDE DEF v
<1>7. \A d \in 1 .. k + 1 : d - 1 = k <=> d = k + 1
  BY <1>1
<1>8. \A d \in 1 .. k + 1 : u[d] = v[d]
  BY <1>4, <1>5, <1>6, <1>7
<1>9. u = v
  BY <1>4, <1>5, <1>6, <1>8, SeqEqual
<1>10. RowsWritten(z) = Page!ButLast(RowsWritten(s))
                      \o <<Page!ButLast(Page!LastOf(RowsWritten(s))) \o <<x>>>>
  BY <1>4, <1>5, <1>9 DEF v
<1>11. Ended(z)
  <2>1. /\ Written(s.buf, s.row, k, x)[At(s.row, k)] = x
        /\ \A q \in Row, d \in Col :
              q # s.row \/ d # k
              => Written(s.buf, s.row, k, x)[At(q, d)] = s.buf[At(q, d)]
    BY <1>1, WrittenIs
  <2>2. x # NIL
    BY GlyphAssumption
  <2>3. ASSUME NEW c \in 0 .. s.col - 1 PROVE z.buf[At(s.row, c)] # NIL
    <3>1. c \in Col
      BY <1>1, TextSizeAssumption DEF Col
    <3>2. s.buf[At(s.row, c)] # NIL
      BY DEF Ended, IsWidth
    <3>3. CASE c = k
      BY <1>3, <2>1, <2>2, <3>3
    <3>4. CASE c # k
      BY <1>1, <1>3, <2>1, <3>1, <3>2, <3>4
    <3> QED BY <3>3, <3>4
  <2>4. s.col < Cols => z.buf[At(s.row, s.col)] = NIL
    <3>1. s.col # k /\ (s.col < Cols => s.col \in Col)
      BY <1>1, TextSizeAssumption DEF Col
    <3> QED BY <1>1, <1>3, <2>1, <3>1 DEF Ended, IsWidth
  <2> QED BY <1>1, <1>3, <2>3, <2>4 DEF Ended, IsWidth
<1> QED BY <1>1, <1>3, <1>5, <1>10, <1>11 DEF z, k

LEMMA CursorHides ==
    ASSUME NEW s \in Texts, NEW x \in Glyph, s.col = 0
    PROVE  RowsWritten(RenderCursor(s, x)) = RowsWritten(s)
<1> DEFINE z == RenderCursor(s, x)
           w == Width(s, s.row)
<1>1. /\ z \in Texts /\ z.init = s.init /\ z.row = s.row /\ z.col = s.col
      /\ w > 0 => z.buf = Written(s.buf, s.row, w - 1, x)
      /\ ~(w > 0) => z = s
  BY CursorIs
<1>2. s.row \in Row /\ w \in 0 .. Cols /\ x \in Cell
  BY RingIs, WidthIs DEF Cell
<1> HIDE DEF z, w
<1>3. ASSUME NEW r \in Row, NEW c \in Col, r # s.row
      PROVE  z.buf[At(r, c)] = s.buf[At(r, c)]
  <2>1. CASE w > 0
    <3>1. w - 1 \in Col
      BY <1>2, <2>1, TextSizeAssumption DEF Col
    <3>2. Written(s.buf, s.row, w - 1, x)[At(r, c)] = s.buf[At(r, c)]
      BY <1>2, <1>3, <3>1, WrittenIs
    <3> QED BY <1>1, <2>1, <3>2
  <2>2. CASE ~(w > 0)
    BY <1>1, <2>2
  <2> QED BY <2>1, <2>2
<1>4. \A c \in Col : ~(c < s.col)
  BY TextSizeAssumption DEF Col
<1>5. RowsWritten(z) = RowsWritten(s)
  BY <1>1, <1>3, <1>4, NothingShown
<1> QED BY <1>5 DEF z
-----------------------------------------------------------------------------
(***************************************************************************)
(* What the functions do to a text that stands at the end.                 *)
(***************************************************************************)
\* The place of the k-th character before the place a.
Slot(a, k) == IF k <= a THEN a - k ELSE a - k + Rows * Cols

Here(s) == At(s.row, s.col)

LEMMA HereIs ==
    ASSUME NEW s \in Texts
    PROVE  /\ Here(s) \in 0 .. Rows * Cols
           /\ s.col < Cols => Here(s) < Rows * Cols
           /\ Here(s) = s.row * Cols + s.col
           /\ Rows * Cols \in Nat
<1>1. s.row \in Row /\ s.col \in 0 .. Cols /\ Cols \in Nat
  BY RingIs, TextSizeAssumption
<1>2. /\ Rows * Cols \in Nat /\ s.row * Cols \in Nat
      /\ s.row * Cols + Cols <= Rows * Cols
  BY <1>1, Places
<1> QED BY <1>1, <1>2 DEF Here, At

LEMMA BeforeIs ==
    ASSUME NEW s \in Texts, NEW k \in 1 .. Rows * Cols
    PROVE  Slot(Here(s), k) \in Position /\ Before(s, k) = s.buf[Slot(Here(s), k)]
<1> DEFINE M == Rows * Cols
           a == Here(s)
<1>1. a \in 0 .. M /\ M \in Nat /\ k \in 1 .. M
  BY HereIs
<1>2. Before(s, k) = s.buf[(a - k) % M]
  BY DEF Before, Here
<1>3. Slot(a, k) = IF k <= a THEN a - k ELSE a - k + M
  BY DEF Slot
<1>4. Position = 0 .. M - 1
  BY DEF Position
<1> HIDE DEF M, a
<1>5. M \in Nat \ {0}
  BY <1>1
<1>6. CASE k <= a
  <2>1. a - k \in 0 .. M - 1
    BY <1>1, <1>6
  <2>2. (a - k) % M = a - k
    BY <1>5, <2>1, ModUnique
  <2> QED BY <1>2, <1>3, <1>4, <1>6, <2>1, <2>2 DEF a
<1>7. CASE ~(k <= a)
  <2>1. a - k + M \in 0 .. M - 1 /\ (a - k + M) - M = a - k
    BY <1>1, <1>7
  <2>2. (a - k) % M = a - k + M
    BY <1>5, <2>1, ModUnique
  <2> QED BY <1>2, <1>3, <1>4, <1>7, <2>1, <2>2 DEF a
<1> QED BY <1>6, <1>7

\* A text that stands at the end has the size of the window at most.
LEMMA EndsFits ==
    ASSUME NEW s \in Texts, NEW t \in Seq(Glyph), EndsWith(s, t)
    PROVE  /\ Len(t) \in Nat /\ Len(t) <= Rows * Cols
           /\ s.col < Cols => Len(t) < Rows * Cols
           /\ s.col <= Len(t)
           /\ \A k \in 1 .. Len(t) : k \in 1 .. Rows * Cols
<1>1. PICK b \in 1 .. NumMonRows(s) : Len(t) = (b - 1) * Cols + s.col
  BY DEF EndsWith
<1>2. NumMonRows(s) \in 1 .. Rows /\ s.col \in 0 .. Cols /\ Cols \in Nat /\ Rows \in Nat
  BY RingIs, TextSizeAssumption
<1>3. b - 1 \in Row
  BY <1>2 DEF Row
<1>4. /\ (b - 1) * Cols \in Nat /\ (b - 1) * Cols + Cols <= Rows * Cols /\ Rows * Cols \in Nat
  BY <1>3, Places
<1> DEFINE q == (b - 1) * Cols
           M == Rows * Cols
<1>5. /\ Len(t) = q + s.col /\ q \in Nat /\ M \in Nat /\ q + Cols <= M
      /\ s.col \in 0 .. Cols /\ Cols \in Nat
  BY <1>1, <1>2, <1>4
<1> HIDE DEF q, M
<1>6. /\ Len(t) \in Nat /\ Len(t) <= M
      /\ s.col < Cols => Len(t) < M
      /\ s.col <= Len(t)
  BY <1>5
<1>7. \A k \in 1 .. Len(t) : k \in 1 .. M
  BY <1>5, <1>6
<1> QED BY <1>6, <1>7 DEF M

LEMMA LooksLikeGlyph ==
    ASSUME NEW x, NEW y \in Glyph, Looks(x, y)
    PROVE  x \in Glyph /\ x # NIL
BY GlyphAssumption DEF Looks

\* Nothing stands at the end of an empty row.
LEMMA EndsWithNothing ==
    ASSUME NEW s \in Texts, s.col = 0
    PROVE  EndsWith(s, <<>>)
<1>1. 1 \in 1 .. NumMonRows(s) /\ 0 = (1 - 1) * Cols + s.col
  BY RingIs, TextSizeAssumption
<1> QED BY <1>1 DEF EndsWith

\* EndEmit writes where the next character will go.
LEMMA EndsEndEmit ==
    ASSUME NEW s \in Texts, NEW t \in Seq(Glyph), EndsWith(s, t)
    PROVE  EndsWith(EndEmit(s), t)
<1> DEFINE z == EndEmit(s)
           a == Here(s)
           M == Rows * Cols
<1>1. /\ z \in Texts /\ z.init = s.init /\ z.row = s.row /\ z.col = s.col
      /\ s.col < Cols => z.buf = Written(s.buf, s.row, s.col, NIL)
      /\ ~(s.col < Cols) => z.buf = s.buf
  BY EndIs
<1>2. /\ Len(t) \in Nat /\ (s.col < Cols => Len(t) < M)
      /\ \A k \in 1 .. Len(t) : k \in 1 .. M
      /\ a \in 0 .. M /\ M \in Nat
  BY EndsFits, HereIs
<1>3. Here(z) = a /\ NumMonRows(z) = NumMonRows(s) /\ a = At(s.row, s.col)
  BY <1>1 DEF Here, NumMonRows
<1>4. s.row \in Row /\ (s.col < Cols => s.col \in Col) /\ NIL \in Cell
  BY RingIs, TextSizeAssumption DEF Col, Cell
<1> HIDE DEF z, a
<1>5. ASSUME NEW k \in 1 .. Len(t) PROVE Before(z, k) = Before(s, k)
  <2>1. /\ Slot(a, k) \in Position /\ Before(s, k) = s.buf[Slot(a, k)]
        /\ Before(z, k) = z.buf[Slot(a, k)]
    BY <1>1, <1>2, <1>3, BeforeIs DEF a
  <2>2. CASE s.col < Cols
    <3>1. Slot(a, k) # a
      <4> HIDE DEF M
      <4> QED BY <1>2, <2>2 DEF Slot, M
    <3>2. Written(s.buf, s.row, s.col, NIL)[Slot(a, k)] = s.buf[Slot(a, k)]
      BY <1>3, <1>4, <2>1, <2>2, <3>1, WrittenIs
    <3> QED BY <1>1, <2>1, <2>2, <3>2
  <2>3. CASE ~(s.col < Cols)
    BY <1>1, <2>1, <2>3
  <2> QED BY <2>2, <2>3
<1>6. EndsWith(z, t)
  BY <1>1, <1>3, <1>5 DEF EndsWith
<1> QED BY <1>6 DEF z

\* A character is written after the text.
LEMMA EndsPut ==
    ASSUME NEW s \in Texts, NEW t \in Seq(Glyph), NEW x \in Glyph,
           EndsWith(s, t), s.col < Cols
    PROVE  EndsWith(EmitChar(s, x), t \o <<x>>)
<1> DEFINE z == EmitChar(s, x)
           a == Here(s)
           M == Rows * Cols
           u == t \o <<x>>
<1>1. /\ z \in Texts /\ z.init = s.init /\ z.row = s.row /\ z.col = s.col + 1
      /\ z.buf = Written(s.buf, s.row, s.col, x)
  BY PutIs
<1>2. /\ Len(t) \in Nat /\ Len(t) < M /\ a \in 0 .. M - 1 /\ M \in Nat
      /\ \A k \in 1 .. Len(t) : k \in 1 .. M
  BY EndsFits, HereIs
<1>3. /\ Here(z) = a + 1 /\ NumMonRows(z) = NumMonRows(s) /\ a = At(s.row, s.col)
  <2>1. Here(z) = s.row * Cols + (s.col + 1) /\ a = s.row * Cols + s.col
    BY <1>1, HereIs
  <2>2. s.row * Cols \in Nat /\ s.col \in 0 .. Cols /\ Cols \in Nat
    BY RingIs, Places, TextSizeAssumption
  <2>3. Here(z) = a + 1
    BY <2>1, <2>2
  <2> QED BY <1>1, <2>3 DEF Here, NumMonRows
<1>4. s.row \in Row /\ s.col \in Col /\ x \in Cell
  BY RingIs, TextSizeAssumption DEF Col, Cell
<1>5. /\ u \in Seq(Glyph) /\ Len(u) = Len(t) + 1
      /\ \A i \in 1 .. Len(t) + 1 : u[i] = IF i = Len(t) + 1 THEN x ELSE t[i]
  BY AppendIs
<1> HIDE DEF z, a, u, M
<1>6. ASSUME NEW k \in 1 .. Len(u)
      PROVE  Looks(Before(z, k), u[Len(u) + 1 - k])
  <2>1. k \in 1 .. M /\ a + 1 \in 0 .. M
    BY <1>2, <1>5
  <2>2. Slot(a + 1, k) \in Position /\ Before(z, k) = z.buf[Slot(a + 1, k)]
    BY <1>1, <1>3, <2>1, BeforeIs DEF M
  <2>3. CASE k = 1
    <3>1. Slot(a + 1, k) = a
      BY <1>2, <2>3 DEF Slot
    <3>2. Written(s.buf, s.row, s.col, x)[a] = x
      BY <1>3, <1>4, WrittenIs
    <3>3. Len(u) + 1 - k = Len(t) + 1 /\ Len(t) + 1 \in 1 .. Len(t) + 1
      BY <1>2, <1>5, <2>3
    <3> QED BY <1>1, <1>5, <2>2, <3>1, <3>2, <3>3 DEF Looks
  <2>4. CASE k # 1
    <3>1. k - 1 \in 1 .. Len(t) /\ Len(u) + 1 - k = Len(t) + 1 - (k - 1)
          /\ Len(u) + 1 - k \in 1 .. Len(t) /\ Len(u) + 1 - k # Len(t) + 1
          /\ Len(u) + 1 - k \in 1 .. Len(t) + 1
      BY <1>2, <1>5, <2>4
    <3>2. Slot(a + 1, k) = Slot(a, k - 1) /\ Slot(a, k - 1) # a
      BY <1>2, <2>1, <2>4 DEF Slot, M
    <3>3. Before(s, k - 1) = s.buf[Slot(a, k - 1)]
      BY <1>2, <3>1, BeforeIs DEF a, M
    <3>4. Written(s.buf, s.row, s.col, x)[Slot(a + 1, k)] = s.buf[Slot(a + 1, k)]
      BY <1>3, <1>4, <2>2, <3>2, WrittenIs
    <3>5. Looks(Before(s, k - 1), t[Len(t) + 1 - (k - 1)])
      BY <3>1 DEF EndsWith
    <3>6. u[Len(u) + 1 - k] = t[Len(t) + 1 - (k - 1)]
      BY <1>5, <3>1
    <3> QED BY <1>1, <2>2, <3>2, <3>3, <3>4, <3>5, <3>6
  <2> QED BY <2>3, <2>4
<1>7. \E b \in 1 .. NumMonRows(z) : Len(u) = (b - 1) * Cols + z.col
  <2>1. PICK b \in 1 .. NumMonRows(s) : Len(t) = (b - 1) * Cols + s.col
    BY DEF EndsWith
  <2> DEFINE q == (b - 1) * Cols
  <2>2. q \in Int
    BY RingIs, TextSizeAssumption
  <2>3. Len(t) = q + s.col /\ s.col \in 0 .. Cols /\ Cols \in Nat
    BY <2>1, RingIs, TextSizeAssumption
  <2> HIDE DEF q
  <2>4. Len(u) = q + z.col
    BY <1>1, <1>5, <2>2, <2>3
  <2> QED BY <1>3, <2>4 DEF q
<1>8. EndsWith(z, u)
  BY <1>6, <1>7 DEF EndsWith
<1> QED BY <1>8 DEF z, u

\* The next row is begun after a text that fills its last one.
LEMMA EndsNextRow ==
    ASSUME NEW s \in Texts, NEW t \in Seq(Glyph), EndsWith(s, t), s.col = Cols,
           Len(t) < Rows * Cols
    PROVE  EndsWith(NextMonRowData(s), t)
<1> DEFINE z == NextMonRowData(s)
           a == Here(s)
           M == Rows * Cols
<1>1. /\ z \in Texts /\ z.buf = s.buf /\ z.col = 0
      /\ z.row = IF s.row + 1 = Rows THEN 0 ELSE s.row + 1
      /\ NumMonRows(z) = IF NumMonRows(s) = Rows THEN Rows ELSE NumMonRows(s) + 1
  BY NextRowIs
<1>2. /\ Len(t) \in Nat /\ Len(t) < M /\ a \in 0 .. M /\ M \in Nat
      /\ \A k \in 1 .. Len(t) : k \in 1 .. M
  BY EndsFits, HereIs
<1>3. /\ NumMonRows(s) \in 1 .. Rows /\ s.row \in Row /\ Rows \in Nat /\ Cols \in Nat
  BY RingIs, TextSizeAssumption
<1>4. Here(z) = IF s.row + 1 = Rows THEN 0 ELSE a
  <2>1. Here(z) = z.row * Cols + 0 /\ a = s.row * Cols + Cols
    BY <1>1, HereIs
  <2>2. s.row * Cols \in Nat /\ (s.row + 1) * Cols = s.row * Cols + Cols
    BY <1>3, Places
  <2>3. CASE s.row + 1 = Rows
    <3>1. Here(z) = 0 * Cols + 0
      BY <1>1, <2>1, <2>3
    <3> QED BY <1>3, <2>3, <3>1
  <2>4. CASE s.row + 1 # Rows
    <3>1. z.row * Cols = s.row * Cols + Cols
      BY <1>1, <2>2, <2>4
    <3>2. s.row * Cols + Cols \in Int
      BY <1>3, <2>2
    <3> QED BY <2>1, <2>4, <3>1, <3>2
  <2> QED BY <2>3, <2>4
<1>5. s.row + 1 = Rows => a = M
  <2>1. a = s.row * Cols + Cols
    BY HereIs
  <2>2. (s.row + 1) * Cols = s.row * Cols + Cols
    BY <1>3, Places
  <2> QED BY <2>1, <2>2
<1> HIDE DEF z, a, M
<1>6. ASSUME NEW k \in 1 .. Len(t) PROVE Before(z, k) = Before(s, k)
  <2>1. k \in 1 .. M
    BY <1>2
  <2>2. Slot(Here(z), k) = Slot(a, k)
    <3>1. CASE s.row + 1 = Rows
      BY <1>2, <1>4, <1>5, <2>1, <3>1 DEF Slot, M
    <3>2. CASE s.row + 1 # Rows
      BY <1>4, <3>2
    <3> QED BY <3>1, <3>2
  <2> QED BY <1>1, <2>1, <2>2, BeforeIs DEF a, M
<1>7. \E b \in 1 .. NumMonRows(z) : Len(t) = (b - 1) * Cols + z.col
  <2>1. PICK b \in 1 .. NumMonRows(s) : Len(t) = (b - 1) * Cols + Cols
    BY DEF EndsWith
  <2>2. b - 1 \in Row
    BY <1>3 DEF Row
  <2>3. /\ (b - 1) * Cols \in Nat
        /\ ((b - 1) + 1) * Cols = (b - 1) * Cols + Cols
    BY <2>2, Places
  <2>4. ((b - 1) + 1) * Cols = Len(t)
    BY <2>1, <2>3
  <2>5. b # Rows
    <3>1. b = Rows => ((b - 1) + 1) * Cols = M
      BY <1>3 DEF M
    <3> QED BY <1>2, <2>4, <3>1
  <2>6. b + 1 \in 1 .. NumMonRows(z)
    BY <1>1, <1>3, <2>5
  <2>7. (b + 1) - 1 = (b - 1) + 1
    BY <1>3
  <2>8. Len(t) = ((b + 1) - 1) * Cols + z.col
    BY <1>1, <1>2, <2>4, <2>7
  <2> QED BY <2>6, <2>8
<1>8. EndsWith(z, t)
  BY <1>6, <1>7 DEF EndsWith
<1> QED BY <1>8 DEF z

\* EmitMonTxt for one character that fits the window.
LEMMA EndsEmitChar ==
    ASSUME NEW s \in Texts, NEW t \in Seq(Glyph), NEW x \in Glyph,
           EndsWith(s, t), Len(t) < Rows * Cols
    PROVE  EndsWith(EmitChar(s, x), t \o <<x>>)
<1>1. CASE s.col < Cols
  BY <1>1, EndsPut
<1>2. CASE s.col = Cols
  <2>1. EmitChar(s, x) = EmitChar(NextMonRowData(s), x)
    BY <1>2, PutFullIs
  <2>2. EndsWith(NextMonRowData(s), t)
    BY <1>2, EndsNextRow
  <2>3. NextMonRowData(s) \in Texts /\ NextMonRowData(s).col < Cols
    BY NextRowType, TextSizeAssumption
  <2> QED BY <2>1, <2>2, <2>3, EndsPut
<1> QED BY <1>1, <1>2, RingIs, TextSizeAssumption

LEMMA EndsEmitGlyph ==
    ASSUME NEW s \in Texts, NEW t \in Seq(Glyph), NEW x \in Glyph,
           EndsWith(s, t), Len(t) < Rows * Cols
    PROVE  EndsWith(EmitGlyph(s, x), t \o <<x>>)
<1>1. EndsWith(EmitChar(s, x), t \o <<x>>) /\ EmitChar(s, x) \in Texts
  BY EndsEmitChar, EmitCharType DEF Char
<1>2. t \o <<x>> \in Seq(Glyph)
  OBVIOUS
<1> QED BY <1>1, <1>2, EndsEndEmit DEF EmitGlyph

\* A text that is not empty and ends before an empty row fills the row before.
LEMMA FullBefore ==
    ASSUME NEW s \in Texts, NEW t \in Seq(Glyph), EndsWith(s, t), t # <<>>,
           s.col = 0, s.row > 0
    PROVE  NumMonRows(s) > 1 /\ IsWidth(s, s.row - 1, Cols) /\ Cols <= Len(t)
<1> DEFINE a == Here(s)
           M == Rows * Cols
           p == s.row - 1
<1>1. /\ NumMonRows(s) \in 1 .. Rows /\ s.row \in Row /\ Rows \in Nat /\ Cols \in Nat \ {0}
  BY RingIs, TextSizeAssumption
<1>2. /\ Len(t) \in Nat \ {0} /\ \A k \in 1 .. Len(t) : k \in 1 .. M
  BY EndsFits, EmptySeq
<1>3. NumMonRows(s) > 1 /\ Cols <= Len(t)
  <2>1. PICK b \in 1 .. NumMonRows(s) : Len(t) = (b - 1) * Cols + 0
    BY DEF EndsWith
  <2>2. b # 1
    <3>1. b = 1 => (b - 1) * Cols + 0 = 0
      BY <1>1
    <3> QED BY <1>2, <2>1, <3>1
  <2>3. 1 * Cols <= (b - 1) * Cols
    BY <1>1, <2>2, ProductGrows
  <2>4. (b - 1) * Cols \in Int /\ 1 * Cols = Cols
    BY <1>1
  <2> QED BY <1>1, <2>1, <2>2, <2>3, <2>4
<1>4. a = s.row * Cols /\ s.row * Cols = p * Cols + Cols /\ p * Cols \in Nat
  <2>1. a = s.row * Cols + 0 /\ s.row * Cols \in Nat
    BY <1>1, HereIs, Places
  <2>2. p \in Row /\ p + 1 = s.row
    BY <1>1 DEF Row
  <2>3. p * Cols \in Nat /\ (p + 1) * Cols = p * Cols + Cols
    BY <2>2, Places
  <2> QED BY <2>1, <2>2, <2>3
<1>5. ASSUME NEW c \in 0 .. Cols - 1 PROVE s.buf[At(p, c)] # NIL
  <2> DEFINE k == Cols - c
  <2>1. k \in 1 .. Len(t) /\ k \in 1 .. M
    BY <1>1, <1>2, <1>3
  <2>2. a - k = At(p, c) /\ k <= a
    <3>1. At(p, c) = p * Cols + c
      BY DEF At
    <3> DEFINE q == p * Cols
    <3>2. a = q + Cols /\ q \in Nat /\ At(p, c) = q + c
      BY <1>4, <3>1
    <3> HIDE DEF q, a, p
    <3> QED BY <1>1, <3>2
  <2>3. Before(s, k) = s.buf[At(p, c)]
    <3>1. Slot(a, k) = a - k
      BY <2>2 DEF Slot
    <3> QED BY <2>1, <2>2, <3>1, BeforeIs
  <2> HIDE DEF k
  <2>4. Looks(Before(s, k), t[Len(t) + 1 - k]) /\ t[Len(t) + 1 - k] \in Glyph
    <3>1. Len(t) + 1 - k \in 1 .. Len(t)
      BY <1>2, <2>1
    <3> QED BY <2>1, <3>1, ElementOfSeq DEF EndsWith
  <2> QED BY <2>3, <2>4, LooksLikeGlyph
<1>6. IsWidth(s, p, Cols)
  BY <1>1, <1>5 DEF IsWidth
<1> QED BY <1>3, <1>6

\* The last character of the text is erased: the place is what the text lost.
LEMMA EndsLess ==
    ASSUME NEW s \in Texts, NEW t \in Seq(Glyph), NEW x \in Glyph,
           EndsWith(s, t \o <<x>>), NEW z \in Texts, NEW r \in Row, NEW c \in Col,
           z.buf = Written(s.buf, r, c, NIL),
           Here(s) > 0, Here(z) = Here(s) - 1, Here(z) = At(r, c)
    PROVE  \A k \in 1 .. Len(t) : Looks(Before(z, k), t[Len(t) + 1 - k])
<1> DEFINE a == Here(s)
           M == Rows * Cols
           u == t \o <<x>>
<1>1. /\ u \in Seq(Glyph) /\ Len(u) = Len(t) + 1 /\ Len(t) \in Nat
      /\ \A i \in 1 .. Len(t) + 1 : u[i] = IF i = Len(t) + 1 THEN x ELSE t[i]
  BY AppendIs
<1> HIDE DEF u
<1>2. /\ \A k \in 1 .. Len(u) : k \in 1 .. M
      /\ \A k \in 1 .. Len(u) : Looks(Before(s, k), u[Len(u) + 1 - k])
  BY <1>1, EndsFits DEF u, EndsWith
<1>3. a \in 1 .. M /\ M \in Nat /\ NIL \in Cell
  BY HereIs DEF Cell
<1>4. Here(z) = a - 1 /\ a - 1 = At(r, c)
  OBVIOUS
<1> HIDE DEF a, M
<1> SUFFICES ASSUME NEW k \in 1 .. Len(t)
             PROVE  Looks(Before(z, k), t[Len(t) + 1 - k])
  OBVIOUS
<1>5. /\ k + 1 \in 1 .. Len(u) /\ k \in 1 .. Len(u)
      /\ Len(u) + 1 - (k + 1) = Len(t) + 1 - k
      /\ Len(t) + 1 - k \in 1 .. Len(t) + 1 /\ Len(t) + 1 - k # Len(t) + 1
  BY <1>1
<1>6. k \in 1 .. M /\ k + 1 \in 1 .. M
  BY <1>2, <1>5
<1>7. /\ Slot(a - 1, k) \in Position /\ Before(z, k) = z.buf[Slot(a - 1, k)]
      /\ Before(s, k + 1) = s.buf[Slot(a, k + 1)]
  BY <1>4, <1>6, BeforeIs DEF M, a
<1>8. Slot(a - 1, k) = Slot(a, k + 1) /\ Slot(a - 1, k) # a - 1
  BY <1>3, <1>6 DEF Slot, M
<1>9. Written(s.buf, r, c, NIL)[Slot(a - 1, k)] = s.buf[Slot(a - 1, k)]
  <2>1. Slot(a - 1, k) \in Position /\ Slot(a - 1, k) # At(r, c)
    BY <1>4, <1>7, <1>8
  <2>2. \A q \in Position : q # At(r, c) => Written(s.buf, r, c, NIL)[q] = s.buf[q]
    BY <1>3, WrittenIs
  <2> QED BY ONLY <2>1, <2>2
<1>10. Looks(Before(s, k + 1), u[Len(t) + 1 - k])
  BY <1>2, <1>5
<1>11. u[Len(t) + 1 - k] = t[Len(t) + 1 - k]
  BY <1>1, <1>5
<1> QED BY <1>7, <1>8, <1>9, <1>10, <1>11

LEMMA EndsErase ==
    ASSUME NEW s \in Texts, NEW t \in Seq(Glyph), NEW x \in Glyph,
           EndsWith(s, t \o <<x>>), ~CannotUnemit(s)
    PROVE  EndsWith(UnemitOne(s), t) /\ Here(UnemitOne(s)) = Here(s) - 1
<1> DEFINE z == UnemitOne(s)
<1>1. /\ NumMonRows(s) \in 1 .. Rows /\ s.row \in Row /\ Rows \in Nat /\ Cols \in Nat \ {0, 1}
      /\ s.col \in 0 .. Cols /\ s.row * Cols \in Nat
  BY RingIs, Places, TextSizeAssumption
<1>2. /\ t \o <<x>> \in Seq(Glyph) /\ Len(t \o <<x>>) = Len(t) + 1 /\ Len(t) \in Nat
      /\ t \o <<x>> # <<>>
  <2>1. t \o <<x>> \in Seq(Glyph) /\ Len(t \o <<x>>) = Len(t) + 1 /\ Len(t) \in Nat
    BY AppendIs
  <2> QED BY <2>1, EmptySeq
<1>3. PICK b \in 1 .. NumMonRows(s) : Len(t) + 1 = (b - 1) * Cols + s.col
  BY <1>2 DEF EndsWith
<1>4. (b - 1) * Cols \in Int
  BY <1>1
<1>5. CASE s.col > 0
  <2>1. /\ z \in Texts /\ z.init = s.init /\ z.row = s.row /\ z.col = s.col - 1
        /\ z.buf = Written(s.buf, s.row, s.col - 1, NIL)
    BY <1>5, EraseIs
  <2>2. s.col - 1 \in Col
    BY <1>1, <1>5 DEF Col
  <2>3. Here(z) = s.row * Cols + (s.col - 1) /\ Here(s) = s.row * Cols + s.col
    BY <2>1, HereIs
  <2>4. Here(z) = At(s.row, s.col - 1) /\ Here(z) = Here(s) - 1 /\ Here(s) > 0
    BY <1>1, <1>5, <2>3 DEF At
  <2> HIDE DEF z
  <2>5. \A k \in 1 .. Len(t) : Looks(Before(z, k), t[Len(t) + 1 - k])
    BY <1>1, <2>1, <2>2, <2>4, EndsLess
  <2>6. Len(t) = (b - 1) * Cols + z.col
    BY <1>1, <1>2, <1>3, <1>4, <2>1
  <2>7. NumMonRows(z) = NumMonRows(s)
    BY <2>1 DEF NumMonRows
  <2> QED BY <2>4, <2>5, <2>6, <2>7 DEF EndsWith, z
<1>6. CASE s.col = 0
  <2> DEFINE p == s.row - 1
  <2>0. s.row > 0
    BY <1>1, <1>6 DEF CannotUnemit, Row
  <2>1. /\ z \in Texts /\ z.init = s.init /\ z.row = p /\ z.col = Cols - 1
        /\ z.buf = Written(s.buf, p, Cols - 1, NIL)
    BY <1>6, <2>0, EraseBackIs
  <2>2. p \in Row /\ Cols - 1 \in Col /\ p + 1 = s.row
    BY <1>1, <2>0 DEF Row, Col
  <2>3. /\ NumMonRows(s) > 1 /\ IsWidth(s, p, Cols)
    BY <1>2, <1>6, <2>0, FullBefore
  <2>4. NumMonRows(z) = NumMonRows(s) - 1
    BY <1>6, <2>0, <2>3, EraseBackShows
  <2>5. /\ Here(z) = p * Cols + (Cols - 1) /\ Here(s) = s.row * Cols + 0
        /\ p * Cols \in Nat /\ (p + 1) * Cols = p * Cols + Cols
    BY <1>6, <2>1, <2>2, HereIs, Places
  <2>6. Here(z) = At(p, Cols - 1) /\ Here(z) = Here(s) - 1 /\ Here(s) > 0
    <3> DEFINE q == p * Cols
    <3>1. /\ Here(z) = q + (Cols - 1) /\ Here(s) = q + Cols + 0 /\ q \in Nat
          /\ At(p, Cols - 1) = q + (Cols - 1)
      BY <2>2, <2>5 DEF At
    <3> HIDE DEF q, z, p
    <3> QED BY <1>1, <3>1
  <2> HIDE DEF z, p
  <2>7. \A k \in 1 .. Len(t) : Looks(Before(z, k), t[Len(t) + 1 - k])
    BY <2>1, <2>2, <2>6, EndsLess
  <2>8. b # 1
    <3>1. b = 1 => (b - 1) * Cols = 0
      BY <1>1
    <3> QED BY <1>2, <1>3, <1>6, <3>1
  <2>9. ((b - 1) - 1) * Cols = (b - 1) * Cols - Cols
    <3>1. b - 1 \in Row
      BY <1>1 DEF Row
    <3> QED BY <3>1, Places
  <2>10. Len(t) = ((b - 1) - 1) * Cols + z.col
    BY <1>1, <1>2, <1>3, <1>4, <1>6, <2>1, <2>9
  <2>11. b - 1 \in 1 .. NumMonRows(z)
    BY <1>1, <2>4, <2>8
  <2> QED BY <2>6, <2>7, <2>10, <2>11 DEF EndsWith, z
<1> QED BY <1>1, <1>5, <1>6

\* A frame shows or hides the cursor at the end of the text.
LEMMA EndsCursor ==
    ASSUME NEW s \in Texts, NEW t \in Seq(Glyph), NEW u \in Seq(Glyph), NEW x \in Glyph,
           EndsWith(s, t), Ended(s), s.col > 0,
           Len(u) = Len(t), \A i \in 1 .. Len(t) - 1 : u[i] = t[i], Looks(x, u[Len(t)])
    PROVE  EndsWith(RenderCursor(s, x), u) /\ Here(RenderCursor(s, x)) = Here(s)
<1> DEFINE z == RenderCursor(s, x)
           a == Here(s)
           M == Rows * Cols
           c == s.col - 1
<1>1. /\ z \in Texts /\ z.init = s.init /\ z.row = s.row /\ z.col = s.col
      /\ z.buf = Written(s.buf, s.row, c, x)
  BY CursorIs, CursorShows
<1>2. /\ Len(t) \in Nat /\ a \in 0 .. M /\ M \in Nat
      /\ \A k \in 1 .. Len(t) : k \in 1 .. M
  BY EndsFits, HereIs
<1>3. Here(z) = a /\ NumMonRows(z) = NumMonRows(s)
  BY <1>1 DEF Here, NumMonRows
<1>4. s.row \in Row /\ c \in Col /\ x \in Cell
  BY RingIs, TextSizeAssumption DEF Col, Cell
<1>5. At(s.row, c) = a - 1 /\ a > 0
  <2>1. a = s.row * Cols + s.col /\ s.row * Cols \in Nat /\ s.col \in 0 .. Cols /\ Cols \in Nat
    BY RingIs, HereIs, Places, TextSizeAssumption
  <2> QED BY <2>1 DEF At
<1>6. /\ Written(s.buf, s.row, c, x)[At(s.row, c)] = x
      /\ \A q \in Position :
            q # At(s.row, c) => Written(s.buf, s.row, c, x)[q] = s.buf[q]
  BY <1>4, WrittenIs
<1> HIDE DEF z, a, M, c
<1>7. ASSUME NEW k \in 1 .. Len(t)
      PROVE  Looks(Before(z, k), u[Len(u) + 1 - k])
  <2>1. k \in 1 .. M
    BY <1>2
  <2>2. /\ Slot(a, k) \in Position /\ Before(z, k) = z.buf[Slot(a, k)]
        /\ Before(s, k) = s.buf[Slot(a, k)]
    BY <1>1, <1>3, <2>1, BeforeIs DEF M, a
  <2>3. CASE k = 1
    <3>1. Slot(a, k) = a - 1
      BY <1>2, <1>5, <2>3 DEF Slot
    <3>2. Len(u) + 1 - k = Len(t)
      BY <1>2, <2>3
    <3> QED BY <1>1, <1>5, <1>6, <2>2, <3>1, <3>2
  <2>4. CASE k # 1
    <3>1. Slot(a, k) # a - 1
      BY <1>2, <1>5, <2>1, <2>4 DEF Slot, M
    <3>2. Len(u) + 1 - k = Len(t) + 1 - k /\ Len(t) + 1 - k \in 1 .. Len(t) - 1
      BY <1>2, <2>4
    <3>3. Looks(Before(s, k), t[Len(t) + 1 - k])
      BY DEF EndsWith
    <3> QED BY <1>1, <1>5, <1>6, <2>2, <3>1, <3>2, <3>3
  <2> QED BY <2>3, <2>4
<1>8. EndsWith(z, u)
  BY <1>1, <1>3, <1>7 DEF EndsWith
<1> QED BY <1>3, <1>8 DEF z, a

\* A text that reaches from row 0 to the end is what stands from there on.
LEMMA FromStartIs ==
    ASSUME NEW s \in Texts, NEW t \in Seq(Glyph), EndsWith(s, t), Len(t) = Here(s)
    PROVE  /\ FromStart(s) \in Seq(Glyph)
           /\ EndsWith(s, FromStart(s))
           /\ Len(FromStart(s)) = Here(s)
<1> DEFINE a == Here(s)
           f == FromStart(s)
           M == Rows * Cols
<1>1. a \in 0 .. M /\ M \in Nat /\ a \in Nat
  BY HereIs
<1>2. f = [j \in 1 .. a |-> s.buf[j - 1]]
  BY DEF FromStart, Here
<1> HIDE DEF a, f, M
<1>3. ASSUME NEW k \in 1 .. a PROVE Before(s, k) = s.buf[a - k]
  <2>1. k \in 1 .. M /\ Slot(a, k) = a - k
    BY <1>1 DEF Slot
  <2> QED BY <2>1, BeforeIs DEF a, M
<1>4. ASSUME NEW j \in 1 .. a PROVE s.buf[j - 1] \in Glyph
  <2>1. a + 1 - j \in 1 .. a /\ a - (a + 1 - j) = j - 1 /\ Len(t) + 1 - (a + 1 - j) = j
    BY <1>1 DEF a
  <2>2. Before(s, a + 1 - j) = s.buf[a - (a + 1 - j)]
    BY <1>3, <2>1
  <2>3. a + 1 - j \in 1 .. Len(t) /\ j \in 1 .. Len(t)
    BY <2>1 DEF a
  <2>4. Looks(Before(s, a + 1 - j), t[Len(t) + 1 - (a + 1 - j)])
    BY <2>3 DEF EndsWith
  <2>5. Looks(s.buf[j - 1], t[j]) /\ t[j] \in Glyph
    BY <2>1, <2>2, <2>3, <2>4, ElementOfSeq
  <2> QED BY <2>5, LooksLikeGlyph
<1>5. /\ f \in Seq(Glyph) /\ Len(f) = a
      /\ \A j \in 1 .. a : f[j] = s.buf[j - 1]
  BY <1>1, <1>2, <1>4
<1>6. ASSUME NEW k \in 1 .. Len(f) PROVE Looks(Before(s, k), f[Len(f) + 1 - k])
  <2>1. k \in 1 .. a /\ Len(f) + 1 - k \in 1 .. a /\ (Len(f) + 1 - k) - 1 = a - k
    BY <1>1, <1>5
  <2>2. f[Len(f) + 1 - k] = s.buf[a - k]
    BY <1>5, <2>1
  <2>3. Before(s, k) = s.buf[a - k]
    BY <1>3, <2>1
  <2> QED BY <2>2, <2>3 DEF Looks
<1>7. \E b \in 1 .. NumMonRows(s) : Len(f) = (b - 1) * Cols + s.col
  BY <1>5 DEF EndsWith, a
<1>8. EndsWith(s, f)
  BY <1>6, <1>7 DEF EndsWith
<1> QED BY <1>5, <1>8 DEF a, f
-----------------------------------------------------------------------------
(***************************************************************************)
(* Both at once.                                                           *)
(***************************************************************************)
\* A character that is added goes one place further.
LEMMA HereEmitGlyph ==
    ASSUME NEW s \in Texts, NEW x \in Glyph, Filled(s), Here(s) < Rows * Cols
    PROVE  Here(EmitGlyph(s, x)) = Here(s) + 1
<1> DEFINE q == Room(s)
           y == EmitChar(s, x)
           z == EmitGlyph(s, x)
<1>1. q \in Texts /\ q.col < Cols /\ y = EmitChar(q, x)
  BY RoomIs
<1>2. y \in Texts /\ y.row = q.row /\ y.col = q.col + 1
  BY <1>1, PutIs
<1>3. z \in Texts /\ z.row = y.row /\ z.col = y.col
  BY <1>2, EndIs DEF EmitGlyph
<1>4. /\ q.row \in Row /\ s.row \in Row /\ q.row * Cols \in Nat /\ s.row * Cols \in Nat
      /\ q.col \in 0 .. Cols /\ s.col \in 0 .. Cols /\ Cols \in Nat
  BY <1>1, RingIs, Places, TextSizeAssumption
<1>5. Here(q) = Here(s)
  <2>1. CASE s.col = Cols
    <3>1. q.col = 0 /\ q.row = IF s.row + 1 = Rows THEN 0 ELSE s.row + 1
      BY <2>1, NextRowIs DEF Room
    <3>2. Here(s) = s.row * Cols + Cols /\ (s.row + 1) * Cols = s.row * Cols + Cols
      BY <1>4, <2>1, HereIs, Places
    <3>3. s.row + 1 # Rows
      BY <3>2, HereIs
    <3>4. Here(q) = (s.row + 1) * Cols + 0
      BY <1>1, <3>1, <3>3, HereIs
    <3> QED BY <1>4, <3>2, <3>4
  <2>2. CASE s.col # Cols
    BY <2>2 DEF Room
  <2> QED BY <2>1, <2>2
<1>6. Here(z) = q.row * Cols + (q.col + 1) /\ Here(q) = q.row * Cols + q.col
  BY <1>1, <1>2, <1>3, HereIs
<1> HIDE DEF q, y, z
<1>7. Here(z) = Here(q) + 1
  BY <1>4, <1>6
<1> QED BY <1>5, <1>7 DEF z

\* A character of a text that stands at the end is erased.
LEMMA UnemitShows ==
    ASSUME NEW s \in Texts, NEW t \in Seq(Glyph), Filled(s), EndsWith(s, t), t # <<>>,
           ~CannotUnemit(s)
    PROVE  /\ RowsWritten(UnemitOne(s)) = Page!Erase(RowsWritten(s))
           /\ Page!CanErase(RowsWritten(s))
           /\ UnemitOne(s) \in Texts /\ Ended(UnemitOne(s))
<1>1. s.col \in Nat /\ s.row \in Nat
  BY RingIs, TextSizeAssumption DEF Row
<1>2. CASE s.col > 0
  BY <1>2, EraseShows DEF Page!CanErase
<1>3. CASE s.col = 0 /\ s.row > 0
  <2>1. NumMonRows(s) > 1 /\ IsWidth(s, s.row - 1, Cols)
    BY <1>3, FullBefore
  <2> QED BY <1>3, <2>1, EraseBackShows
<1> QED BY <1>1, <1>2, <1>3 DEF CannotUnemit

\* What is erased from a row and added again stands on that row.
LEMMA PutErased ==
    ASSUME NEW s \in Texts, NEW x \in Glyph, s.col > 0
    PROVE  Page!Put(Page!Erase(RowsWritten(s)), x)
           = Page!ButLast(RowsWritten(s))
             \o <<Page!ButLast(Page!LastOf(RowsWritten(s))) \o <<x>>>>
<1> DEFINE t == RowsWritten(s)
           l == Page!LastOf(t)
           b == Page!ButLast(t)
           r == Page!ButLast(l)
           u == Page!Erase(t)
<1>1. t \in Seq(Seq(Cell)) /\ t # <<>>
  BY ShownIs DEF Shown
<1>2. l \in Seq(Cell) /\ l # <<>> /\ Len(l) = s.col
  BY LastRow, RingIs, TextSizeAssumption
<1>3. b \in Seq(Seq(Cell))
  BY <1>1, ButLastIs
<1>4. r \in Seq(Cell) /\ Len(r) = Len(l) - 1
  BY <1>2, ButLastIs
<1>5. u = b \o <<r>>
  BY <1>2 DEF Page!Erase
<1> HIDE DEF u, r, b, l, t
<1>6. Page!ButLast(u) = b /\ Page!LastOf(u) = r
  BY <1>3, <1>4, <1>5, JoinLast
<1>7. Len(r) # Cols
  BY <1>2, <1>4, RingIs, TextSizeAssumption
<1>8. Page!Put(u, x) = b \o <<r \o <<x>>>>
  BY <1>6, <1>7 DEF Page!Put
<1> QED BY <1>8 DEF u, r, b, l, t
-----------------------------------------------------------------------------
(***************************************************************************)
(* The rows that are not in use.                                           *)
(***************************************************************************)
\* A write leaves them alone, on the current row or after the start of a row.
LEMMA UnusedKept ==
    ASSUME NEW s \in Texts, NEW z \in Texts, Unused(s), z.init = s.init, z.row = s.row,
           \A r \in Row : r # s.row => z.buf[At(r, 0)] = s.buf[At(r, 0)]
    PROVE  Unused(z)
<1>1. s.row \in Row /\ s.init \in Row /\ Row = 0 .. Rows - 1 /\ Rows \in Nat
  BY RingIs, TextSizeAssumption DEF Row
<1> QED BY <1>1 DEF Unused

LEMMA UnusedWritten ==
    ASSUME NEW s \in Texts, NEW z \in Texts, Unused(s), z.init = s.init, z.row = s.row,
           NEW c \in Col, NEW x \in Cell, z.buf = Written(s.buf, s.row, c, x)
    PROVE  Unused(z)
<1>1. s.row \in Row /\ 0 \in Col
  BY RingIs, TextSizeAssumption DEF Col
<1>2. \A r \in Row : r # s.row => z.buf[At(r, 0)] = s.buf[At(r, 0)]
  BY <1>1, WrittenIs
<1> QED BY <1>2, UnusedKept

LEMMA UnusedBlank == Unused(Blank)
<1>1. \A r \in Row : At(r, 0) \in Position
  BY Places, TextSizeAssumption DEF Col
<1> QED BY <1>1 DEF Unused, Blank, Row

\* The next row is one of them, unless all are in use.
LEMMA UnusedNextRow ==
    ASSUME NEW s \in Texts, Unused(s)
    PROVE  /\ Unused(NextMonRowData(s))
           /\ NumMonRows(s) # Rows => Ended(NextMonRowData(s))
<1> DEFINE z == NextMonRowData(s)
           n == NumMonRows(s)
<1>1. /\ s.init \in 0 .. Rows - 1 /\ s.row \in 0 .. Rows - 1 /\ Rows \in Nat \ {0, 1}
      /\ n = IF s.init > s.row THEN Rows - s.init + s.row + 1 ELSE s.row - s.init + 1
  BY RingIs, TextSizeAssumption DEF Row, NumMonRows
<1>2. /\ z \in Texts /\ z.buf = s.buf /\ z.col = 0
      /\ z.row = IF s.row + 1 = Rows THEN 0 ELSE s.row + 1
  BY NextRowIs
<1>3. /\ n # Rows => z.init = s.init
      /\ n = Rows => z.init = (s.init + 1) % Rows
  BY DEF NextMonRowData, Texts
<1>4. n = Rows => z.init = IF s.init + 1 = Rows THEN 0 ELSE s.init + 1
  <2>1. CASE s.init + 1 = Rows
    <3>1. Rows % Rows = 0
      BY <1>1
    <3> QED BY <1>3, <2>1, <3>1
  <2>2. CASE s.init + 1 # Rows
    <3>1. s.init + 1 \in 0 .. Rows - 1
      BY <1>1, <2>2
    <3> QED BY <1>1, <1>3, <2>2, <3>1, ModUnique
  <2> QED BY <2>1, <2>2
<1> HIDE DEF z, n
<1>5. CASE n = Rows
  <2>1. ASSUME NEW r \in 0 .. Rows - 1
        PROVE  ~IF z.init > z.row THEN z.row < r /\ r < z.init ELSE r < z.init \/ z.row < r
    BY <1>1, <1>2, <1>4, <1>5
  <2> QED BY <1>5, <2>1 DEF Unused, z, n
<1>6. CASE n # Rows
  <2>1. ASSUME NEW r \in 0 .. Rows - 1,
               IF z.init > z.row THEN z.row < r /\ r < z.init ELSE r < z.init \/ z.row < r
        PROVE  IF s.init > s.row THEN s.row < r /\ r < s.init ELSE r < s.init \/ s.row < r
    BY <1>1, <1>2, <1>3, <1>6, <2>1
  <2>2. IF s.init > s.row THEN s.row < z.row /\ z.row < s.init
        ELSE z.row < s.init \/ s.row < z.row
    BY <1>1, <1>2, <1>6
  <2>3. z.row \in 0 .. Rows - 1
    BY <1>1, <1>2
  <2>4. z.buf[At(z.row, 0)] = NIL
    BY <1>2, <2>2, <2>3 DEF Unused
  <2>5. Ended(z)
    BY <1>2, <2>4, TextSizeAssumption DEF Ended, IsWidth
  <2>6. Unused(z)
    BY <1>2, <2>1 DEF Unused
  <2> QED BY <2>5, <2>6 DEF z
<1> QED BY <1>5, <1>6

LEMMA UnusedEndEmit ==
    ASSUME NEW s \in Texts, Unused(s)
    PROVE  EndEmit(s) \in Texts /\ Unused(EndEmit(s))
<1>1. s.col \in 0 .. Cols /\ Cols \in Nat /\ NIL \in Cell
  BY RingIs, TextSizeAssumption DEF Cell
<1>2. CASE s.col < Cols
  <2>1. s.col \in Col
    BY <1>1, <1>2 DEF Col
  <2> QED BY <1>1, <1>2, <2>1, EndIs, UnusedWritten
<1>3. CASE ~(s.col < Cols)
  BY <1>3, EndIs, UnusedKept
<1> QED BY <1>2, <1>3

LEMMA UnusedEmitChar ==
    ASSUME NEW s \in Texts, NEW x \in Char, Unused(s)
    PROVE  EmitChar(s, x) \in Texts /\ Unused(EmitChar(s, x))
<1>1. EmitChar(s, x) \in Texts
  BY EmitCharType
<1>2. CASE x = NL
  <2>1. EmitChar(s, x) = NextMonRowData(EndEmit(s))
    BY <1>2, NewlineIs
  <2> QED BY <1>1, <2>1, UnusedEndEmit, UnusedNextRow
<1>3. ASSUME NEW y \in Texts, y.col < Cols, Unused(y), x \in Glyph
      PROVE  Unused(EmitChar(y, x))
  <2>1. y.col \in Col /\ x \in Cell
    BY <1>3, RingIs, TextSizeAssumption DEF Col, Cell
  <2> QED BY <1>3, <2>1, PutIs, UnusedWritten
<1>4. CASE x # NL /\ s.col = Cols
  <2> DEFINE y == NextMonRowData(s)
  <2>1. y \in Texts /\ y.col = 0 /\ Unused(y)
    BY NextRowType, UnusedNextRow
  <2>2. EmitChar(s, x) = EmitChar(y, x) /\ x \in Glyph
    BY <1>4, PutFullIs DEF Char
  <2> HIDE DEF y
  <2> QED BY <1>1, <1>3, <2>1, <2>2, TextSizeAssumption
<1>5. CASE x # NL /\ s.col # Cols
  <2>1. s.col < Cols /\ x \in Glyph
    BY <1>5, RingIs, TextSizeAssumption DEF Char
  <2> QED BY <1>1, <1>3, <2>1
<1> QED BY <1>2, <1>4, <1>5

LEMMA UnusedEmitGlyph ==
    ASSUME NEW s \in Texts, NEW x \in Char, Unused(s)
    PROVE  EmitGlyph(s, x) \in Texts /\ Unused(EmitGlyph(s, x))
BY UnusedEmitChar, UnusedEndEmit DEF EmitGlyph

\* An empty row that is given back is one of them again.
LEMMA UnusedUnemit ==
    ASSUME NEW s \in Texts, Unused(s), Ended(s)
    PROVE  UnemitOne(s) \in Texts /\ Unused(UnemitOne(s))
<1> DEFINE z == UnemitOne(s)
<1>1. /\ s.row \in 0 .. Rows - 1 /\ s.init \in 0 .. Rows - 1 /\ s.col \in 0 .. Cols
      /\ Rows \in Nat \ {0, 1} /\ Cols \in Nat \ {0, 1} /\ NIL \in Cell
      /\ z \in Texts /\ Row = 0 .. Rows - 1
  BY RingIs, UnemitType, TextSizeAssumption DEF Row, Cell
<1>2. CASE s.col > 0
  <2>1. s.col - 1 \in Col
    BY <1>1, <1>2 DEF Col
  <2> QED BY <1>1, <1>2, <2>1, EraseIs, UnusedWritten
<1>3. CASE s.col = 0 /\ s.row > 0
  <2>1. /\ z.init = s.init /\ z.row = s.row - 1
        /\ z.buf = Written(s.buf, s.row - 1, Cols - 1, NIL)
    BY <1>3, EraseBackIs
  <2> HIDE DEF z
  <2>2. Cols - 1 \in Col /\ 0 \in Col /\ 0 # Cols - 1 /\ s.row - 1 \in Row
    BY <1>1, <1>3 DEF Col
  <2>3. \A r \in Row : z.buf[At(r, 0)] = s.buf[At(r, 0)]
    BY <1>1, <2>1, <2>2, WrittenIs
  <2>4. s.buf[At(s.row, 0)] = NIL
    BY <1>1, <1>3 DEF Ended, IsWidth
  <2>5. ASSUME NEW r \in 0 .. Rows - 1,
               IF z.init > z.row THEN z.row < r /\ r < z.init ELSE r < z.init \/ z.row < r
        PROVE  \/ r = s.row
               \/ IF s.init > s.row THEN s.row < r /\ r < s.init
                  ELSE r < s.init \/ s.row < r
    BY <1>1, <1>3, <2>1, <2>5
  <2>6. Unused(z)
    BY <1>1, <2>3, <2>4, <2>5 DEF Unused
  <2> QED BY <1>1, <2>6 DEF z
<1>4. CASE s.col = 0 /\ ~(s.row > 0)
  BY <1>1, <1>4, EraseNothingIs DEF CannotUnemit
<1> QED BY <1>1, <1>2, <1>3, <1>4

LEMMA UnusedCursor ==
    ASSUME NEW s \in Texts, NEW x \in Glyph, Unused(s)
    PROVE  Unused(RenderCursor(s, x))
<1> DEFINE w == Width(s, s.row)
<1>1. w \in 0 .. Cols /\ Cols \in Nat /\ x \in Cell
  BY WidthIs, RingIs, TextSizeAssumption DEF Cell
<1> HIDE DEF w
<1>2. CASE w > 0
  <2>1. w - 1 \in Col
    BY <1>1, <1>2 DEF Col
  <2> QED BY <1>1, <1>2, <2>1, CursorIs, UnusedWritten DEF w
<1>3. CASE ~(w > 0)
  BY <1>3, CursorIs DEF w
<1> QED BY <1>2, <1>3
-----------------------------------------------------------------------------
(***************************************************************************)
(* What is drawn is what is written, where the current row is ended.       *)
(***************************************************************************)
LEMMA DrawnIs ==
    ASSUME NEW s \in Texts
    PROVE  /\ RowsShown(s) = [i \in 1 .. NumMonRows(s) |-> RowText(s, RowAt(s, i))]
           /\ RowsWritten(s) = [i \in 1 .. NumMonRows(s) |-> RowWritten(s, RowAt(s, i))]
           /\ \A r \in Row : r # s.row \/ Ended(s) => RowText(s, r) = RowWritten(s, r)
<1>1. /\ RowsShown(s) = [i \in 1 .. NumMonRows(s) |-> RowText(s, RowAt(s, i))]
      /\ RowsWritten(s) = [i \in 1 .. NumMonRows(s) |-> RowWritten(s, RowAt(s, i))]
  BY DEF RowsShown, RowsWritten, RowAt
<1>2. ASSUME NEW r \in Row, r # s.row \/ Ended(s)
      PROVE  RowText(s, r) = RowWritten(s, r)
  <2>1. s.col \in 0 .. Cols
    BY RingIs
  <2>2. WrittenWidth(s, r) = Width(s, r)
    BY <1>2, <2>1, WidthOf DEF WrittenWidth, Ended
  <2> QED BY <2>2 DEF RowText, RowWritten
<1> QED BY <1>1, <1>2

LEMMA EndedShows ==
    ASSUME NEW s \in Texts, Ended(s)
    PROVE  RowsShown(s) = RowsWritten(s)
<1>1. \A i \in 1 .. NumMonRows(s) : RowAt(s, i) \in Row
  <2>1. \A i \in 1 .. NumMonRows(s) : i \in 1 .. Rows
    BY RingIs, TextSizeAssumption
  <2> QED BY <2>1, RowAtIs
<1>2. \A i \in 1 .. NumMonRows(s) : RowText(s, RowAt(s, i)) = RowWritten(s, RowAt(s, i))
  BY <1>1, DrawnIs
<1>3. [i \in 1 .. NumMonRows(s) |-> RowText(s, RowAt(s, i))]
      = [i \in 1 .. NumMonRows(s) |-> RowWritten(s, RowAt(s, i))]
  BY <1>2
<1> QED BY <1>3, DrawnIs

LEMMA FilledCovers ==
    ASSUME NEW s \in Texts, Filled(s)
    PROVE  Covers(RowsShown(s), RowsWritten(s))
<1> DEFINE n == NumMonRows(s)
           d == RowsShown(s)
           t == RowsWritten(s)
           w == Width(s, s.row)
           f == RowText(s, s.row)
           g == RowWritten(s, s.row)
<1>1. n \in 1 .. Rows /\ Rows \in Nat /\ s.row \in Row /\ RowAt(s, n) = s.row
      /\ \A i, j \in 1 .. n : RowAt(s, i) = RowAt(s, j) => i = j
  BY RingIs, TextSizeAssumption
<1>2. /\ d = [i \in 1 .. n |-> RowText(s, RowAt(s, i))]
      /\ t = [i \in 1 .. n |-> RowWritten(s, RowAt(s, i))]
  BY DrawnIs
<1>3. w \in 0 .. Cols /\ IsWidth(s, s.row, w) /\ s.col \in 0 .. Cols /\ Cols \in Nat
  BY <1>1, WidthIs, RingIs, TextSizeAssumption
<1>4. f = [c \in 1 .. w |-> s.buf[At(s.row, c - 1)]]
      /\ g = [c \in 1 .. s.col |-> s.buf[At(s.row, c - 1)]]
  BY DEF RowText, RowWritten, WrittenWidth
<1> HIDE DEF n, d, t, w, f, g
<1>5. s.col <= w
  BY <1>3 DEF Filled, IsWidth
<1>6. ASSUME NEW i \in 1 .. n - 1 PROVE d[i] = t[i]
  <2>1. i \in 1 .. n /\ n \in 1 .. n /\ i # n /\ i \in 1 .. Rows
    BY <1>1
  <2>2. RowAt(s, i) \in Row /\ RowAt(s, i) # s.row
    BY <1>1, <2>1, RowAtIs
  <2>3. RowText(s, RowAt(s, i)) = RowWritten(s, RowAt(s, i))
    BY <2>2, DrawnIs
  <2> QED BY <1>2, <2>1, <2>3
<1>7. d[n] = f /\ t[n] = g
  BY <1>1, <1>2 DEF f, g
<1>8. Len(d) = n /\ Len(t) = n
  BY <1>1, <1>2
<1>9. Len(f) = w /\ s.col \in 0 .. Len(f) /\ g = SubSeq(f, 1, s.col)
  BY <1>3, <1>4, <1>5
<1> QED BY <1>6, <1>7, <1>8, <1>9 DEF Covers, d, t
=============================================================================
