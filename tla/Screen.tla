------------------------------- MODULE Screen -------------------------------
(***************************************************************************)
(* The text of the monitor's window, with nothing said of the ring that it *)
(* is kept in, nor of what is drawn while it changes: the last rows of a   *)
(* text to whose end characters are added, from whose end they are erased, *)
(* and whose last character may be a cursor.                               *)
(***************************************************************************)
EXTENDS Naturals, Sequences

CONSTANTS MaxRows, MaxCols, Glyph, Space, Block

VARIABLE rows

\* The rows t with one more below it, and only the last MaxRows of them.
AddRow(t, r) == IF Len(t) = MaxRows THEN Tail(t) \o <<r>> ELSE t \o <<r>>

LastOf(t) == t[Len(t)]
ButLast(t) == SubSeq(t, 1, Len(t) - 1)

Put(t, x) == IF Len(LastOf(t)) = MaxCols THEN AddRow(t, <<x>>)
             ELSE ButLast(t) \o <<LastOf(t) \o <<x>>>>

\* The last character is erased: from the last row or, when that is empty, from
\* the full row that it continues.
Erase(t) == IF LastOf(t) # <<>> THEN ButLast(t) \o <<ButLast(LastOf(t))>>
            ELSE ButLast(ButLast(t)) \o <<ButLast(LastOf(ButLast(t)))>>

CanErase(t) == \/ LastOf(t) # <<>>
               \/ Len(t) > 1 /\ Len(LastOf(ButLast(t))) = MaxCols

Init == rows = <<<<>>>>

\* The program prints a character, or goes to the next row.
Show(x) == rows' = Put(rows, x)
NewLine == rows' = AddRow(rows, <<>>)

\* The user types a character: it takes the place of the cursor.
Type(x) == /\ CanErase(rows)
           /\ rows' = Put(Put(Erase(rows), x), Space)

\* BACKSPACE: the cursor takes the place of the character before it.
Backspace == /\ CanErase(rows) /\ CanErase(Erase(rows))
             /\ rows' = Put(Erase(Erase(rows)), Space)

\* RETURN: the cursor goes, and the line is over.
Return == /\ CanErase(rows)
          /\ rows' = AddRow(Erase(rows), <<>>)

\* The cursor blinks.
Blink == /\ LastOf(rows) # <<>>
         /\ \E x \in {Space, Block} :
                rows' = ButLast(rows) \o <<ButLast(LastOf(rows)) \o <<x>>>>

Next == \/ \E x \in Glyph : Show(x) \/ Type(x)
        \/ NewLine \/ Backspace \/ Return \/ Blink

Spec == Init /\ [][Next]_rows
=============================================================================
