------------------------------ MODULE Terminal ------------------------------
(***************************************************************************)
(* The user, the monitor's loop (CuRunMon in monitor.c) and what lies      *)
(* between them: stdin and stdout (CliGetInp and CliPutMsg in cuss.c) or   *)
(* the window (sdlmonio.c), as opts.sdl_ui says.                           *)
(*                                                                         *)
(* The user of the window types while the monitor waits, so that one event *)
(* is one step; what happens when they do not is in SdlConsole.  A frame   *)
(* may be rendered, and the cursor blink, between any two steps.  What is  *)
(* printed is kept in todo and written one character at a time.  Of a      *)
(* command only that it prints something, or fails, is modelled; the model *)
(* of what it does to the CPU is RunControl.                               *)
(***************************************************************************)
EXTENDS MonText

CONSTANTS
    Key,            \* the characters that can be typed
    Dot,            \* '.'
    QuitLines,      \* "exit" and "quit"
    Prompt,         \* "CUSS > ", as a sequence
    Output,         \* what a command prints
    MaxMonInp,      \* MAX_MON_INP
    MaxUserInput,   \* MAX_USER_INPUT_SIZE
    MaxLine,        \* how many characters are typed before a RETURN
    Uis             \* the values that opts.sdl_ui may have

ASSUME KeyAssumption == Key \subseteq Glyph /\ Dot \in Key /\ NL \notin Key
ASSUME InpAssumption ==
    {MaxMonInp, MaxUserInput} \subseteq Nat \ {0, 1} /\ MaxLine \in Nat
ASSUME PrintAssumption ==
    /\ Prompt \in Seq(Glyph) \ {<<>>} /\ Output \in Seq(Glyph \cup {NL}) \ {<<>>}
    /\ Prompt[Len(Prompt)] \in {Space, Block}
\* What a command prints ends its line.
ASSUME OutputAssumption == Output[Len(Output)] = NL
ASSUME LineAssumption == QuitLines \subseteq Seq(Key) \ {<<>>, <<Dot>>}
ASSUME UiAssumption == Uis \subseteq BOOLEAN
\* The prompt, the longest line and the cursor fit the window.
ASSUME FitAssumption == Len(Prompt) + MaxMonInp <= Rows * Cols

VARIABLES
    sdl_ui,         \* opts.sdl_ui, which no step changes
    mon,            \* the text of the window
    mon_inp_buf,    \* the line that is being typed in the window
    mon_inp_active,
    mon_inp_eof,
    mon_show_cursor,
    stdin,          \* the rest of a line that CliGetInp has not yet read
    closed,         \* is that the last one?
    pc,             \* the label at which the monitor is
    todo,           \* what it has yet to write before it goes on
    inp, prev_cmd, rep_cmd, eof,    \* the locals of CuRunMon
    typed,          \* history: the last line that the user entered
    stuck,          \* history: has UnemitMonTxt found nothing before this line?
    reused          \* history: has RETURN taken the oldest row for the next line, and
                    \* is nothing written to it yet?

repl == <<inp, prev_cmd, rep_cmd>>
window == <<mon_inp_buf, mon_inp_active, mon_inp_eof, mon_show_cursor>>
pipe == <<stdin, closed>>
history == <<typed, stuck, reused>>
vars == <<sdl_ui, mon, window, pipe, pc, todo, repl, eof, history>>

Label == {"loop", "get", "place", "wait", "woken", "obey", "quit", "done"}

Init ==
    /\ sdl_ui \in Uis
    /\ mon = Blank
    /\ mon_inp_buf = <<>>
    /\ mon_inp_active = FALSE /\ mon_inp_eof = FALSE /\ mon_show_cursor = FALSE
    /\ stdin = <<>> /\ closed = FALSE
    /\ pc = "loop" /\ todo = Output
    /\ inp = <<>> /\ prev_cmd = <<>> /\ rep_cmd = FALSE /\ eof = FALSE
    /\ typed = <<>> /\ stuck = FALSE /\ reused = FALSE

StartsWithDot(l) == l # <<>> /\ l[1] = Dot

FirstOf(s, k) == SubSeq(s, 1, IF Len(s) < k THEN Len(s) ELSE k)

WithoutNewline(s) == IF s # <<>> /\ s[Len(s)] = NL THEN FirstOf(s, Len(s) - 1) ELSE s

\* The monitor goes on when everything is written.
Goto(here, there) == todo = <<>> /\ pc = here /\ pc' = there
-----------------------------------------------------------------------------
(***************************************************************************)
(* Output.                                                                 *)
(***************************************************************************)
\* CuSdlMonIoPutMsg, or the place-holder for the cursor.
SdlEmit ==
    /\ sdl_ui /\ todo # <<>>
    /\ mon' = IF Len(todo) = 1 THEN EmitGlyph(mon, Head(todo)) ELSE EmitChar(mon, Head(todo))
    /\ todo' = Tail(todo)
    /\ reused' = FALSE
    /\ UNCHANGED <<sdl_ui, window, pipe, pc, repl, eof, typed, stuck>>

\* CliPutMsg; a write to stdout that fails ends the monitor.
CliPutMsg ==
    /\ ~sdl_ui /\ todo # <<>>
    /\ todo' = <<>>
    /\ pc' \in {pc, "done"}
    /\ UNCHANGED <<sdl_ui, mon, window, pipe, repl, eof, history>>
-----------------------------------------------------------------------------
(***************************************************************************)
(* CuRunMon.                                                               *)
(***************************************************************************)
\* A command that is to be repeated needs no input.
TakePrevious ==
    /\ rep_cmd
    /\ Goto("loop", "obey")
    /\ inp' = prev_cmd /\ rep_cmd' = FALSE
    /\ UNCHANGED <<sdl_ui, mon, window, pipe, todo, prev_cmd, eof, history>>

\* Mutant: a line that starts with a dot is kept like any other.
AskKeepingAll ==
    /\ ~rep_cmd
    /\ Goto("loop", "get")
    /\ prev_cmd' = inp
    /\ todo' = Prompt
    /\ eof' = FALSE
    /\ UNCHANGED <<sdl_ui, mon, window, pipe, inp, rep_cmd, history>>

\* Otherwise the last line is kept for a repetition, and the next one asked for.
Ask ==
    /\ ~rep_cmd
    /\ Goto("loop", "get")
    /\ prev_cmd' = IF StartsWithDot(inp) THEN prev_cmd ELSE inp
    /\ todo' = Prompt
    /\ eof' = FALSE
    /\ UNCHANGED <<sdl_ui, mon, window, pipe, inp, rep_cmd, history>>

\* The end of the input quits, and so do two commands.
ObeyEof ==
    /\ eof
    /\ Goto("obey", "quit")
    /\ todo' = Output
    /\ UNCHANGED <<sdl_ui, mon, window, pipe, repl, eof, history>>

ObeyDot ==
    /\ ~eof /\ inp = <<Dot>>
    /\ Goto("obey", "loop")
    /\ \/ prev_cmd = <<>> /\ todo' = Output /\ UNCHANGED rep_cmd
       \/ prev_cmd # <<>> /\ todo' = prev_cmd \o <<NL>> /\ rep_cmd' = TRUE
    /\ UNCHANGED <<sdl_ui, mon, window, pipe, inp, prev_cmd, eof, history>>

ObeyQuit ==
    /\ ~eof /\ inp \in QuitLines
    /\ Goto("obey", "quit")
    /\ UNCHANGED <<sdl_ui, mon, window, pipe, todo, repl, eof, history>>

\* Any other line prints something, be it that it is not known, and nothing when
\* it is empty; a step or a disassembly may fail.
ObeyOther ==
    /\ ~eof /\ inp \notin QuitLines \cup {<<Dot>>}
    /\ \/ /\ Goto("obey", "loop")
          /\ todo' = IF inp = <<>> THEN <<>> ELSE Output
       \/ inp # <<>> /\ Goto("obey", "done") /\ UNCHANGED todo
    /\ UNCHANGED <<sdl_ui, mon, window, pipe, repl, eof, history>>

Quit ==
    /\ Goto("quit", "done")
    /\ UNCHANGED <<sdl_ui, mon, window, pipe, todo, repl, eof, history>>
-----------------------------------------------------------------------------
(***************************************************************************)
(* The command line: stdin hands over what is typed line by line.          *)
(***************************************************************************)
Lines == UNION {[1 .. k -> Key] : k \in 0 .. MaxLine}

\* The user types a line, or a last one that is cut off by the end of the input.
TypeLine ==
    /\ ~sdl_ui /\ ~closed /\ stdin = <<>> /\ pc = "get" /\ todo = <<>>
    /\ \E l \in Lines :
           /\ typed' = l
           /\ \/ stdin' = l \o <<NL>> /\ UNCHANGED closed
              \/ stdin' = l /\ closed' = TRUE
    /\ UNCHANGED <<sdl_ui, mon, window, pc, todo, repl, eof, stuck, reused>>

\* Mutant: what does not fit is thrown away.
CliGetInpCut ==
    /\ ~sdl_ui /\ (stdin # <<>> \/ closed)
    /\ Goto("get", "obey")
    /\ eof' = (stdin = <<>>)
    /\ inp' = IF stdin = <<>> THEN inp
              ELSE WithoutNewline(FirstOf(stdin, MaxUserInput - 1))
    /\ stdin' = <<>>
    /\ UNCHANGED <<sdl_ui, mon, window, closed, todo, prev_cmd, rep_cmd, history>>

\* fgets reads what fits and leaves the rest of a long line for the next time; at
\* the end of the input it leaves the buffer alone.  A newline is cut off.
CliGetInp ==
    /\ ~sdl_ui /\ (stdin # <<>> \/ closed)
    /\ Goto("get", "obey")
    /\ eof' = (stdin = <<>>)
    /\ inp' = IF stdin = <<>> THEN inp
              ELSE WithoutNewline(FirstOf(stdin, MaxUserInput - 1))
    /\ stdin' = SubSeq(stdin, MaxUserInput, Len(stdin))
    /\ UNCHANGED <<sdl_ui, mon, window, closed, todo, prev_cmd, rep_cmd, history>>
-----------------------------------------------------------------------------
(***************************************************************************)
(* The window.                                                             *)
(***************************************************************************)
\* CuSdlMonIoGetInp up to its wait: a frame may be rendered before the
\* place-holder for the cursor is there.
SdlActivate ==
    /\ sdl_ui
    /\ Goto("get", "place")
    /\ mon_inp_buf' = <<>> /\ mon_inp_active' = TRUE /\ mon_show_cursor' = TRUE
    /\ stuck' = FALSE
    /\ UNCHANGED <<sdl_ui, mon, mon_inp_eof, pipe, todo, repl, eof, typed, reused>>

SdlPlace ==
    /\ Goto("place", "wait")
    /\ todo' = <<Space>>
    /\ UNCHANGED <<sdl_ui, mon, window, pipe, repl, eof, history>>

Waiting == pc = "wait" /\ todo = <<>>

\* A character takes the place of the place-holder, which comes after it.
Erased == UnemitOne(mon)
TypeKey ==
    /\ Waiting
    /\ Len(mon_inp_buf) < MaxMonInp - 1 /\ Len(mon_inp_buf) < MaxLine
    /\ \E k \in Key :
           /\ mon_inp_buf' = Append(mon_inp_buf, k)
           /\ mon' = EmitGlyph(EmitGlyph(Erased, k), Space)
    /\ UNCHANGED <<sdl_ui, mon_inp_active, mon_inp_eof, mon_show_cursor, pipe, pc, todo,
                   repl, eof, history>>

\* Mutant: only the place-holder is erased.
BackspaceOnce ==
    /\ Waiting
    /\ mon_inp_buf # <<>>
    /\ mon_inp_buf' = FirstOf(mon_inp_buf, Len(mon_inp_buf) - 1)
    /\ mon' = EmitGlyph(Erased, Space)
    /\ UNCHANGED <<sdl_ui, mon_inp_active, mon_inp_eof, mon_show_cursor, pipe, pc, todo,
                   repl, eof, history>>

\* Two characters are erased, as far as there is something before the first.
Backspace ==
    /\ Waiting
    /\ mon_inp_buf # <<>>
    /\ mon_inp_buf' = FirstOf(mon_inp_buf, Len(mon_inp_buf) - 1)
    /\ mon' = EmitGlyph(UnemitOne(Erased), Space)
    /\ stuck' = (stuck \/ CannotUnemit(Erased))
    /\ UNCHANGED <<sdl_ui, mon_inp_active, mon_inp_eof, mon_show_cursor, pipe, pc, todo,
                   repl, eof, typed, reused>>

\* RETURN and control-D end the wait.
EndLine ==
    /\ Waiting
    /\ pc' = "woken"
    /\ mon' = NextMonRowData(Erased)
    /\ mon_inp_eof' \in {mon_inp_eof, TRUE}
    /\ typed' = mon_inp_buf
    /\ reused' = (NumMonRows(Erased) = Rows)
    /\ UNCHANGED <<sdl_ui, mon_inp_buf, mon_inp_active, mon_show_cursor, pipe, todo, repl,
                   eof, stuck>>

\* The end of CuSdlMonIoGetInp.
SdlGetInp ==
    /\ Goto("woken", "obey")
    /\ inp' = FirstOf(mon_inp_buf, MaxUserInput - 1)
    /\ mon_show_cursor' = FALSE /\ mon_inp_active' = FALSE
    /\ eof' = mon_inp_eof
    /\ UNCHANGED <<sdl_ui, mon, mon_inp_buf, mon_inp_eof, pipe, todo, prev_cmd, rep_cmd,
                   history>>

\* The timer.
FlipCursorBlink ==
    /\ mon_inp_active
    /\ mon_show_cursor' = ~mon_show_cursor
    /\ UNCHANGED <<sdl_ui, mon, mon_inp_buf, mon_inp_active, mon_inp_eof, pipe, pc, todo,
                   repl, eof, history>>

\* A frame is rendered: it changes the text while input is active.
Render ==
    /\ mon_inp_active
    /\ mon' = RenderCursor(mon, IF mon_show_cursor THEN Block ELSE Space)
    /\ UNCHANGED <<sdl_ui, window, pipe, pc, todo, repl, eof, history>>
-----------------------------------------------------------------------------
CuRunMon == TakePrevious \/ Ask \/ ObeyEof \/ ObeyDot \/ ObeyQuit \/ ObeyOther \/ Quit

Cli == CliPutMsg \/ TypeLine \/ CliGetInp

Sdl == \/ SdlEmit \/ SdlActivate \/ SdlPlace \/ TypeKey \/ Backspace \/ EndLine
       \/ SdlGetInp \/ FlipCursorBlink \/ Render

Next == CuRunMon \/ Cli \/ Sdl

Spec == Init /\ [][Next]_vars
-----------------------------------------------------------------------------
(***************************************************************************)
(* Properties.                                                             *)
(***************************************************************************)
TypeOK ==
    /\ {sdl_ui, mon_inp_active, mon_inp_eof, mon_show_cursor, closed, rep_cmd, eof,
        stuck, reused} \subseteq BOOLEAN
    /\ mon \in Texts
    /\ mon_inp_buf \in Seq(Key) /\ Len(mon_inp_buf) < MaxMonInp
    /\ stdin \in Seq(Key \cup {NL})
    /\ pc \in Label
    /\ todo \in Seq(Glyph \cup {NL})
    /\ inp \in Seq(Key) /\ Len(inp) < MaxUserInput
    /\ prev_cmd \in Seq(Key) /\ Len(prev_cmd) < MaxUserInput
    /\ typed \in Seq(Key)

\* A line that fits inp reaches the monitor as it was typed, in the window or on
\* the command line, where its newline must fit too.  Of a longer one the window
\* hands over the beginning, and the command line piece after piece.
ReadsLine ==
    IF sdl_ui THEN inp = FirstOf(typed, MaxUserInput - 1)
    ELSE LET rest == inp \o WithoutNewline(stdin)
             read == Len(typed) - Len(rest)
         IN  /\ rest = SubSeq(typed, read + 1, Len(typed))
             /\ read % (MaxUserInput - 1) = 0
             /\ Len(typed) < MaxUserInput - 1 => read = 0

LineIsRead ==
    [][(pc \in {"get", "woken"} /\ pc' = "obey" /\ ~eof' => ReadsLine')]_vars

\* While the monitor waits, the user sees the prompt, the line that RETURN would
\* enter, and the cursor, in this order at the end of the text, whichever rows
\* they are on and whatever was typed and erased before.
ShowsLine ==
    LET shown == Prompt \o mon_inp_buf \o <<Space>>
    IN  \A k \in 1 .. Len(shown) : Looks(Before(mon, k), shown[Len(shown) + 1 - k])

ScreenShowsLine == Waiting /\ ~stuck => ShowsLine

\* What is written to the ring is the plain text of Screen; what of it is drawn is
\* the next property's.
Window == INSTANCE Screen WITH
    MaxRows <- Rows,
    MaxCols <- Cols,
    rows    <- RowsWritten(mon)

ImplementsScreen == Window!Spec

\* When a message is complete, and while the user types, the window shows that text
\* and nothing else, though no row is ever cleared for its next use.  It shows too
\* much in two cases: while a message is being written, what the current row held
\* before may follow what is written of it; and when RETURN has taken the oldest
\* row for the next line, that row is drawn again, at the bottom, until something
\* is written to it, which after `quit` never happens.
DrawsText ==
    sdl_ui => IF todo = <<>> /\ ~reused THEN RowsShown(mon) = RowsWritten(mon)
              ELSE Covers(RowsShown(mon), RowsWritten(mon))

\* The loop implements the promise about `.`.
Commands == UNION {[1 .. k -> Key] : k \in 0 .. MaxUserInput - 1}

Memory == INSTANCE Repl WITH
    Line <- Commands,
    last <- IF StartsWithDot(inp) THEN prev_cmd ELSE inp,
    now  <- IF pc = "obey" THEN {inp} ELSE IF rep_cmd THEN {<<Dot>>} ELSE {}

ImplementsRepl == Memory!Spec
-----------------------------------------------------------------------------
(***************************************************************************)
(* What a comment says and the code does not do.                           *)
(***************************************************************************)
\* The comment in the BACKSPACE case: "Remove the place-holder for the cursor as
\* well", the character before it being what is removed in the first place.
BackspaceErases == Waiting => ShowsLine
-----------------------------------------------------------------------------
(***************************************************************************)
(* Inductive invariants, for the proofs in TerminalProofs.                 *)
(***************************************************************************)
\* A newline ends what is left of a line, and there is none in the middle.
StdinInv == \A i \in 1 .. Len(stdin) - 1 : stdin[i] \in Key

\* A repetition is pending from the `.` that was obeyed to the next round of the
\* loop; while a line is read, prev_cmd is what `.` would repeat.
LoopInv ==
    /\ pc = "obey" => todo = <<>>
    /\ rep_cmd => pc \in {"loop", "done"} /\ inp = <<Dot>> /\ prev_cmd # <<>>
    /\ pc \in {"get", "place", "wait", "woken"} /\ ~StartsWithDot(inp) => prev_cmd = inp

\* What is left of a line is its end, without a whole number of pieces.
PipeInv ==
    /\ pc \in {"place", "wait", "woken"} => sdl_ui
    /\ pc = "woken" => typed = mon_inp_buf
    /\ sdl_ui => stdin = <<>>
    /\ stdin # <<>> =>
         LET rest == WithoutNewline(stdin)
             read == Len(typed) - Len(rest)
         IN  /\ read >= 0
             /\ rest = SubSeq(typed, read + 1, Len(typed))
             /\ \E q \in Nat : read = q * (MaxUserInput - 1)

\* While the user types: once an erasure has met the start of row 0, the line is
\* what stands from there on, and no longer than what was typed.
LineInv ==
    /\ mon.col > 0
    /\ IF stuck THEN /\ EndsWith(mon, FromStart(mon))
                     /\ FromStart(mon) \in Seq(Glyph)
                     /\ At(mon.row, mon.col) \in 1 .. Len(mon_inp_buf) + 1
       ELSE EndsWith(mon, Prompt \o mon_inp_buf \o <<Space>>)

\* A prompt starts a row, and what follows it stays on the rows after it.
WindowInv ==
    /\ Filled(mon)
    /\ mon_inp_active => pc \in {"place", "wait", "woken"}
    /\ pc \in {"place", "wait", "woken"} => sdl_ui
    /\ pc \in {"place", "woken", "obey"} => todo = <<>>
    /\ sdl_ui /\ pc \in {"loop", "woken", "obey"}
           => IF todo = <<>> THEN mon.col = 0 ELSE todo[Len(todo)] = NL
    /\ sdl_ui /\ pc = "get"
           => \E m \in 0 .. Len(Prompt) :
                 /\ todo = SubSeq(Prompt, m + 1, Len(Prompt))
                 /\ EndsWith(mon, SubSeq(Prompt, 1, m))
                 /\ m = Len(Prompt) => Ended(mon)
    /\ pc \in {"place", "wait"} => Ended(mon)
    /\ pc = "place" \/ (pc = "wait" /\ todo # <<>>)
           => EndsWith(mon, Prompt) /\ mon_inp_buf = <<>> /\ ~stuck
    /\ pc = "wait" => IF todo = <<>> THEN LineInv ELSE todo = <<Space>>

\* The rows that are not in use are empty, so that RETURN, like a message, leaves a
\* current row that is ended, unless it has taken the oldest one.
DrawnInv ==
    /\ Unused(mon)
    /\ sdl_ui /\ todo = <<>> /\ ~reused => Ended(mon)
=============================================================================
