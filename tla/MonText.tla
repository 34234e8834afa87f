------------------------------- MODULE MonText -------------------------------
(***************************************************************************)
(* The text of the monitor's window: mon_out_buf of sdlmonio.c, a ring of  *)
(* rows of characters in one array, and the functions that write to it.    *)
(* The four static variables are the fields of a record s.                 *)
(*                                                                         *)
(* A row ends at its first NIL, or is full.  What stands after the NIL is  *)
(* left from an earlier use of the row.                                    *)
(***************************************************************************)
EXTENDS Integers, Sequences

CONSTANTS
    Rows,           \* mon_max_rows
    Cols,           \* mon_max_cols
    Glyph,          \* the characters that can be printed, without '\n'
    Space,          \* ' ', also the cursor when it is not shown
    Block,          \* 0xdb, the cursor when it is shown
    NIL,            \* 0x00
    NL              \* '\n'

ASSUME TextSizeAssumption == Rows \in Nat \ {0, 1} /\ Cols \in Nat \ {0, 1}
ASSUME GlyphAssumption ==
    /\ {Space, Block} \subseteq Glyph
    /\ NIL \notin Glyph /\ NL \notin Glyph /\ NIL # NL

Position == 0 .. Rows * Cols - 1

Texts == [buf : [Position -> Glyph \cup {NIL}],  \* mon_out_buf
          init : 0 .. Rows - 1,                  \* mon_init_row
          row : 0 .. Rows - 1,                   \* mon_curr_row
          col : 0 .. Cols]                       \* mon_curr_col

\* What calloc and CuSdlMonIoSetUp leave.
Blank == [buf |-> [p \in Position |-> NIL], init |-> 0, row |-> 0, col |-> 0]

\* Where the column c of the row r is.
At(r, c) == r * Cols + c

Poke(s, c, x) == [s EXCEPT !.buf[At(s.row, c)] = x]

\* Mutant: the row at which the ring ends is not counted.
NumMonRowsShort(s) == IF s.init > s.row THEN Rows - s.init + s.row
                      ELSE s.row - s.init + 1

NumMonRows(s) == IF s.init > s.row THEN Rows - s.init + s.row + 1
                 ELSE s.row - s.init + 1

\* Mutant: the rows do not wrap around.
NextMonRowDataFlat(s) == [s EXCEPT !.row = s.row + 1, !.col = 0]

\* The oldest row is given up when all are in use.  The new one is not cleared.
NextMonRowData(s) ==
    [s EXCEPT !.init = IF NumMonRows(s) = Rows THEN (s.init + 1) % Rows ELSE s.init,
              !.row = (s.row + 1) % Rows,
              !.col = 0]

\* The loop of EmitMonTxt for one character...
EmitChar(s, x) ==
    LET ended == IF x = NL /\ s.col < Cols THEN Poke(s, s.col, NIL) ELSE s
        room == IF x = NL \/ s.col = Cols THEN NextMonRowData(ended) ELSE ended
    IN  IF x = NL THEN room ELSE [Poke(room, room.col, x) EXCEPT !.col = room.col + 1]

\* Mutant: no NIL is written at the end.
EndEmitNot(s) == s

\* ...and what follows the loop.
EndEmit(s) == IF s.col < Cols THEN Poke(s, s.col, NIL) ELSE s

EmitGlyph(s, x) == EndEmit(EmitChar(s, x))

\* There is nothing before row 0 for UnemitMonTxt, not even when the ring has
\* wrapped around and the last row is the one before.
CannotUnemit(s) == s.col = 0 /\ s.row = 0

\* One iteration of UnemitMonTxt; its early return leaves nothing to iterate on.
UnemitOne(s) ==
    CASE s.col > 0 -> [Poke(s, s.col - 1, NIL) EXCEPT !.col = s.col - 1]
      [] s.col = 0 /\ s.row > 0 ->
            [s EXCEPT !.buf[At(s.row - 1, Cols - 1)] = NIL,
                      !.row = s.row - 1,
                      !.col = Cols - 1]
      [] CannotUnemit(s) -> s

\* How many characters of the row r are drawn: memchr.
IsWidth(s, r, w) == /\ w < Cols => s.buf[At(r, w)] = NIL
                    /\ \A c \in 0 .. w - 1 : s.buf[At(r, c)] # NIL

Width(s, r) == CHOOSE w \in 0 .. Cols : IsWidth(s, r, w)

\* CuSdlMonIoRender, while input is active: the last character of the current
\* row becomes the cursor.
RenderCursor(s, x) == LET w == Width(s, s.row)
                      IN  IF w > 0 THEN Poke(s, w - 1, x) ELSE s
-----------------------------------------------------------------------------
\* What CuSdlMonIoRender draws: the rows from the oldest to the current one, each
\* up to its first NIL.
RowText(s, r) == [c \in 1 .. Width(s, r) |-> s.buf[At(r, c - 1)]]

RowsShown(s) == [i \in 1 .. NumMonRows(s) |-> RowText(s, (s.init + i - 1) % Rows)]

\* What was written: the current row goes no further than the place where the
\* next character will go, whatever stands there from an earlier use of the row.
WrittenWidth(s, r) == IF r = s.row THEN s.col ELSE Width(s, r)

RowWritten(s, r) == [c \in 1 .. WrittenWidth(s, r) |-> s.buf[At(r, c - 1)]]

RowsWritten(s) == [i \in 1 .. NumMonRows(s) |-> RowWritten(s, (s.init + i - 1) % Rows)]

\* The rows d are the rows t, but that the last one may go on.
Covers(d, t) ==
    /\ Len(d) = Len(t)
    /\ \A i \in 1 .. Len(t) - 1 : d[i] = t[i]
    /\ \E k \in 0 .. Len(d[Len(d)]) : t[Len(t)] = SubSeq(d[Len(d)], 1, k)

\* The k-th character before the place where the next one will go, on the same
\* line, which may have begun on an earlier row.
Before(s, k) == s.buf[(At(s.row, s.col) - k) % (Rows * Cols)]

\* The cursor may be shown or not.
Looks(x, y) == x = y \/ {x, y} = {Space, Block}

\* The text t stands at the end, from the start of a row on.
EndsWith(s, t) ==
    /\ \E b \in 1 .. NumMonRows(s) : Len(t) = (b - 1) * Cols + s.col
    /\ \A k \in 1 .. Len(t) : Looks(Before(s, k), t[Len(t) + 1 - k])

\* There is no NIL before the place where the next character will go...
Filled(s) == \A c \in 0 .. s.col - 1 : s.buf[At(s.row, c)] # NIL

\* ...and one in that place, if it is on the row.
Ended(s) == IsWidth(s, s.row, s.col)

\* The rows that are not in use are empty.
Unused(s) ==
    \A r \in 0 .. Rows - 1 :
        (IF s.init > s.row THEN s.row < r /\ r < s.init ELSE r < s.init \/ s.row < r)
        => s.buf[At(r, 0)] = NIL

\* What stands from row 0 on.
FromStart(s) == [j \in 1 .. At(s.row, s.col) |-> s.buf[j - 1]]
=============================================================================
