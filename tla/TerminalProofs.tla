--------------------------- MODULE TerminalProofs ---------------------------
(***************************************************************************)
(* Proofs about the monitor's loop and what it reads, for every window,    *)
(* every size of the buffers and both user interfaces.                     *)
(***************************************************************************)
EXTENDS Terminal, MonTextProofs

Inv == TypeOK /\ StdinInv

\* What the assumptions say of the characters.
LEMMA Characters ==
    /\ Key \subseteq Glyph /\ Key \subseteq Char /\ Glyph \subseteq Char
    /\ Space \in Glyph /\ Block \in Glyph /\ NL \in Char /\ NL \notin Key
    /\ Dot \in Key
    /\ Prompt \in Seq(Char) /\ Prompt # <<>>
    /\ Output \in Seq(Char) /\ Output # <<>>
BY KeyAssumption, GlyphAssumption, PrintAssumption DEF Char

\* The first k elements of a sequence are a sequence of at most k.
LEMMA FirstOfType ==
    ASSUME NEW S, NEW s \in Seq(S), NEW k \in Nat
    PROVE  /\ FirstOf(s, k) \in Seq(S)
           /\ Len(FirstOf(s, k)) = IF Len(s) < k THEN Len(s) ELSE k
           /\ \A i \in 1 .. Len(FirstOf(s, k)) : FirstOf(s, k)[i] = s[i]
BY DEF FirstOf

\* All but the last one.
LEMMA AllButLast ==
    ASSUME NEW S, NEW s \in Seq(S), Len(s) # 0
    PROVE  /\ FirstOf(s, Len(s) - 1) \in Seq(S)
           /\ Len(FirstOf(s, Len(s) - 1)) = Len(s) - 1
           /\ \A i \in 1 .. Len(s) - 1 : FirstOf(s, Len(s) - 1)[i] = s[i]
<1> DEFINE k == Len(s) - 1
<1>1. k \in Nat /\ ~(Len(s) < k)
  OBVIOUS
<1> HIDE DEF k
<1>2. /\ FirstOf(s, k) \in Seq(S)
      /\ Len(FirstOf(s, k)) = k
      /\ \A i \in 1 .. Len(FirstOf(s, k)) : FirstOf(s, k)[i] = s[i]
  BY <1>1, FirstOfType
<1> QED BY <1>2 DEF k
-----------------------------------------------------------------------------
(***************************************************************************)
(* Types.                                                                  *)
(***************************************************************************)
LEMMA InvInit == Init => Inv
<1> SUFFICES ASSUME Init PROVE Inv
  OBVIOUS
<1>1. /\ <<>> \in Seq(Key) /\ <<>> \in Seq(Key \cup {NL}) /\ Len(<<>>) = 0
      /\ 0 < MaxMonInp /\ 0 < MaxUserInput
  BY InpAssumption
<1>2. sdl_ui \in BOOLEAN
  BY UiAssumption DEF Init
<1>3. TypeOK
  BY <1>1, <1>2, BlankType, Characters DEF Init, TypeOK, Label, Char
<1>4. StdinInv
  BY <1>1 DEF Init, StdinInv
<1> QED BY <1>3, <1>4 DEF Inv

LEMMA CuRunMonInv == Inv /\ CuRunMon => Inv'
<1> SUFFICES ASSUME Inv, CuRunMon PROVE Inv'
  OBVIOUS
<1> USE DEF Inv, TypeOK, StdinInv, Goto, Label, window, pipe, repl, history
<1>0. <<>> \in Seq(Char) /\ Prompt \in Seq(Glyph \cup {NL}) /\ Output \in Seq(Glyph \cup {NL})
  BY PrintAssumption
<1>1. CASE TakePrevious
  BY <1>1 DEF TakePrevious
<1>2. CASE Ask
  BY <1>0, <1>2 DEF Ask
<1>3. CASE ObeyEof
  BY <1>0, <1>3 DEF ObeyEof
<1>4. CASE ObeyDot
  <2>1. prev_cmd \o <<NL>> \in Seq(Glyph \cup {NL})
    BY KeyAssumption
  <2> QED BY <1>0, <1>4, <2>1 DEF ObeyDot
<1>5. CASE ObeyQuit
  BY <1>5 DEF ObeyQuit
<1>6. CASE ObeyOther
  <2>1. todo' \in Seq(Glyph \cup {NL})
    BY <1>0, <1>6 DEF ObeyOther
  <2> QED BY <1>6, <2>1 DEF ObeyOther
<1>7. CASE Quit
  BY <1>7 DEF Quit
<1> QED BY <1>1, <1>2, <1>3, <1>4, <1>5, <1>6, <1>7 DEF CuRunMon

\* A line is a sequence of keys.
LEMMA LineType ==
    ASSUME NEW l \in Lines
    PROVE  l \in Seq(Key) /\ Len(l) <= MaxLine
<1>1. PICK k \in 0 .. MaxLine : l \in [1 .. k -> Key]
  BY DEF Lines
<1>2. k \in Nat
  BY InpAssumption
<1> QED BY <1>1, <1>2, InpAssumption

\* What fgets takes from stdin is, without its newline, a sequence of keys.
LEMMA PieceType ==
    ASSUME TypeOK, StdinInv, stdin # <<>>
    PROVE  /\ WithoutNewline(FirstOf(stdin, MaxUserInput - 1)) \in Seq(Key)
           /\ Len(WithoutNewline(FirstOf(stdin, MaxUserInput - 1))) < MaxUserInput
<1> DEFINE piece == FirstOf(stdin, MaxUserInput - 1)
<1>1. stdin \in Seq(Key \cup {NL}) /\ Len(stdin) \in Nat \ {0}
      /\ MaxUserInput \in Nat /\ MaxUserInput > 1
  BY InpAssumption DEF TypeOK
<1>2. /\ piece \in Seq(Key \cup {NL})
      /\ Len(piece) = IF Len(stdin) < MaxUserInput - 1 THEN Len(stdin) ELSE MaxUserInput - 1
      /\ \A i \in 1 .. Len(piece) : piece[i] = stdin[i]
  BY <1>1, FirstOfType
<1>3. Len(piece) \in 1 .. MaxUserInput - 1 /\ Len(piece) <= Len(stdin)
  BY <1>1, <1>2
<1>4. \A i \in 1 .. Len(piece) - 1 : piece[i] \in Key
  BY <1>1, <1>2, <1>3 DEF StdinInv
<1> HIDE DEF piece
<1>5. CASE piece[Len(piece)] = NL
  <2>1. WithoutNewline(piece) = FirstOf(piece, Len(piece) - 1)
    BY <1>3, <1>5 DEF WithoutNewline
  <2>2. /\ FirstOf(piece, Len(piece) - 1) \in Seq(Key \cup {NL})
        /\ Len(FirstOf(piece, Len(piece) - 1)) = Len(piece) - 1
        /\ \A i \in 1 .. Len(piece) - 1 : FirstOf(piece, Len(piece) - 1)[i] = piece[i]
    <3>1. piece \in Seq(Key \cup {NL}) /\ Len(piece) # 0
      BY <1>1, <1>2, <1>3
    <3> QED BY ONLY <3>1, AllButLast
  <2>3. FirstOf(piece, Len(piece) - 1) \in Seq(Key)
    BY <1>4, <2>2
  <2> QED BY <1>1, <1>3, <2>1, <2>2, <2>3 DEF piece
<1>6. CASE piece[Len(piece)] # NL
  <2>1. WithoutNewline(piece) = piece
    BY <1>6 DEF WithoutNewline
  <2>2. \A i \in 1 .. Len(piece) : piece[i] \in Key
    BY <1>2, <1>3, <1>4, <1>6
  <2>3. piece \in Seq(Key)
    BY <1>2, <2>2
  <2> QED BY <1>1, <1>3, <2>1, <2>3 DEF piece
<1> QED BY <1>5, <1>6

LEMMA CliInv == Inv /\ Cli => Inv'
<1> SUFFICES ASSUME Inv, Cli PROVE Inv'
  OBVIOUS
<1> USE DEF Inv, TypeOK, StdinInv, Goto, Label, window, pipe, repl, history
<1>1. CASE CliPutMsg
  BY <1>1 DEF CliPutMsg
<1>2. CASE TypeLine
  <2>1. PICK l \in Lines : /\ typed' = l
                           /\ \/ stdin' = l \o <<NL>> /\ UNCHANGED closed
                              \/ stdin' = l /\ closed' = TRUE
    BY <1>2 DEF TypeLine
  <2>2. l \in Seq(Key)
    BY LineType
  <2>3. stdin' \in Seq(Key \cup {NL}) /\ \A i \in 1 .. Len(stdin') - 1 : stdin'[i] \in Key
    <3>1. CASE stdin' = l \o <<NL>>
      BY <2>2, <3>1
    <3>2. CASE stdin' = l
      BY <2>2, <3>2
    <3> QED BY <2>1, <3>1, <3>2
  <2> QED BY <1>2, <2>1, <2>2, <2>3 DEF TypeLine
<1>3. CASE CliGetInp
  <2>1. inp' \in Seq(Key) /\ Len(inp') < MaxUserInput
    BY <1>3, PieceType DEF CliGetInp
  <2>2. /\ stdin' \in Seq(Key \cup {NL})
        /\ \A i \in 1 .. Len(stdin') - 1 : stdin'[i] \in Key
    <3>1. stdin' = SubSeq(stdin, MaxUserInput, Len(stdin))
      BY <1>3 DEF CliGetInp
    <3>2. MaxUserInput \in Nat \ {0}
      BY InpAssumption
    <3> QED BY <3>1, <3>2
  <2>3. eof' \in BOOLEAN
    BY <1>3 DEF CliGetInp
  <2> QED BY <1>3, <2>1, <2>2, <2>3 DEF CliGetInp
<1> QED BY <1>1, <1>2, <1>3 DEF Cli

LEMMA SdlInv == Inv /\ Sdl => Inv'
<1> SUFFICES ASSUME Inv, Sdl PROVE Inv'
  OBVIOUS
<1>0. UnemitOne(mon) \in Texts
  BY UnemitType DEF Inv, TypeOK
<1> USE DEF Inv, TypeOK, StdinInv, Goto, Label, window, pipe, repl, history
<1>1. CASE SdlEmit
  <2>1. Head(todo) \in Char /\ Tail(todo) \in Seq(Glyph \cup {NL})
    BY <1>1 DEF SdlEmit, Char
  <2>2. mon' \in Texts
    BY <1>1, <2>1, EmitCharType, EmitGlyphType DEF SdlEmit
  <2> QED BY <1>1, <2>1, <2>2 DEF SdlEmit
<1>2. CASE SdlActivate
  <2>1. <<>> \in Seq(Key) /\ Len(<<>>) < MaxMonInp
    BY InpAssumption
  <2> QED BY <1>2, <2>1 DEF SdlActivate
<1>3. CASE SdlPlace
  <2>1. <<Space>> \in Seq(Glyph \cup {NL})
    BY GlyphAssumption
  <2> QED BY <1>3, <2>1 DEF SdlPlace
<1>4. CASE TypeKey
  <2>1. PICK k \in Key : /\ mon_inp_buf' = Append(mon_inp_buf, k)
                         /\ mon' = EmitGlyph(EmitGlyph(Erased, k), Space)
    BY <1>4 DEF TypeKey
  <2>2. mon' \in Texts
    BY <1>0, <2>1, EmitGlyphType, Characters DEF Erased
  <2>3. mon_inp_buf' \in Seq(Key) /\ Len(mon_inp_buf') < MaxMonInp
    BY <1>4, <2>1, InpAssumption DEF TypeKey
  <2> QED BY <1>4, <2>2, <2>3 DEF TypeKey
<1>5. CASE Backspace
  <2>1. mon' \in Texts
    BY <1>0, <1>5, UnemitType, EmitGlyphType, Characters DEF Backspace, Erased
  <2>2. mon_inp_buf' \in Seq(Key) /\ Len(mon_inp_buf') < MaxMonInp
    <3>1. mon_inp_buf' = FirstOf(mon_inp_buf, Len(mon_inp_buf) - 1) /\ mon_inp_buf # <<>>
      BY <1>5 DEF Backspace
    <3>2. Len(mon_inp_buf) - 1 \in Nat
      BY <3>1
    <3>3. /\ FirstOf(mon_inp_buf, Len(mon_inp_buf) - 1) \in Seq(Key)
          /\ Len(FirstOf(mon_inp_buf, Len(mon_inp_buf) - 1)) = Len(mon_inp_buf) - 1
      <4>1. mon_inp_buf \in Seq(Key) /\ Len(mon_inp_buf) # 0
        BY <3>2
      <4> QED BY ONLY <4>1, AllButLast
    <3>4. MaxMonInp \in Nat /\ Len(mon_inp_buf) < MaxMonInp
      BY InpAssumption
    <3> QED BY <3>1, <3>2, <3>3, <3>4
  <2>3. stuck' \in BOOLEAN
    BY <1>5 DEF Backspace, CannotUnemit
  <2> QED BY <1>5, <2>1, <2>2, <2>3 DEF Backspace
<1>6. CASE EndLine
  <2>1. mon' \in Texts
    BY <1>0, <1>6, NextRowType DEF EndLine, Erased
  <2> QED BY <1>6, <2>1 DEF EndLine
<1>7. CASE SdlGetInp
  <2>1. inp' \in Seq(Key) /\ Len(inp') < MaxUserInput
    BY <1>7, FirstOfType, InpAssumption DEF SdlGetInp
  <2> QED BY <1>7, <2>1 DEF SdlGetInp
<1>8. CASE FlipCursorBlink
  BY <1>8 DEF FlipCursorBlink
<1>9. CASE Render
  <2>1. mon' \in Texts
    BY <1>9, RenderType, Characters DEF Render
  <2> QED BY <1>9, <2>1 DEF Render
<1> QED BY <1>1, <1>2, <1>3, <1>4, <1>5, <1>6, <1>7, <1>8, <1>9 DEF Sdl

LEMMA InvStep == Inv /\ [Next]_vars => Inv'
<1>1. Inv /\ UNCHANGED vars => Inv'
  BY DEF Inv, TypeOK, StdinInv, vars, window, pipe, repl, history
<1> QED BY <1>1, CuRunMonInv, CliInv, SdlInv DEF Next

LEMMA InvAlways == Spec => []Inv
BY InvInit, InvStep, PTL DEF Spec

\* Every variable keeps its range: the indices of the window's ring, the columns
\* included, and the lengths of both line buffers with their terminators.
THEOREM TypeCorrect == Spec => []TypeOK
BY InvAlways, PTL DEF Inv
-----------------------------------------------------------------------------
(***************************************************************************)
(* What `.` repeats.                                                       *)
(***************************************************************************)
LEMMA LoopInit == Init => LoopInv
BY DEF Init, LoopInv, StartsWithDot

LEMMA LoopStep == TypeOK /\ LoopInv /\ [Next]_vars => LoopInv'
<1> SUFFICES ASSUME TypeOK, LoopInv, [Next]_vars PROVE LoopInv'
  OBVIOUS
<1>0. <<Dot>> # <<>> /\ StartsWithDot(<<Dot>>)
  BY DEF StartsWithDot
<1> USE DEF LoopInv, Goto, window, pipe, repl, history
<1>1. CASE TakePrevious
  BY <1>1 DEF TakePrevious
<1>2. CASE Ask
  BY <1>2 DEF Ask
<1>3. CASE ObeyEof \/ ObeyQuit \/ ObeyOther \/ Quit
  BY <1>3 DEF ObeyEof, ObeyQuit, ObeyOther, Quit
<1>4. CASE ObeyDot
  BY <1>4 DEF ObeyDot
<1>5. CASE CliPutMsg \/ TypeLine
  BY <1>5 DEF CliPutMsg, TypeLine
<1>6. CASE CliGetInp
  BY <1>6 DEF CliGetInp
<1>7. CASE SdlActivate \/ SdlPlace \/ SdlGetInp
  BY <1>7 DEF SdlActivate, SdlPlace, SdlGetInp
<1>8. CASE SdlEmit
  BY <1>8 DEF SdlEmit
<1>9. CASE TypeKey \/ Backspace
  BY <1>9 DEF TypeKey, Backspace
<1>10. CASE EndLine
  BY <1>10 DEF EndLine, Waiting
<1>11. CASE FlipCursorBlink \/ Render
  BY <1>11 DEF FlipCursorBlink, Render
<1>12. CASE UNCHANGED vars
  BY <1>12 DEF vars
<1> QED BY <1>1, <1>2, <1>3, <1>4, <1>5, <1>6, <1>7, <1>8, <1>9, <1>10, <1>11, <1>12
        DEF Next, CuRunMon, Cli, Sdl

\* What fits inp is a command of the abstract specification.
LEMMA LineIsCommand ==
    ASSUME NEW l \in Seq(Key), Len(l) < MaxUserInput
    PROVE  l \in Commands
<1>1. MaxUserInput \in Nat /\ Len(l) \in Nat /\ l \in [1 .. Len(l) -> Key]
  BY InpAssumption
<1>2. Len(l) \in 0 .. MaxUserInput - 1
  BY <1>1
<1> QED BY <1>1, <1>2 DEF Commands

Last == IF StartsWithDot(inp) THEN prev_cmd ELSE inp
Now == IF pc = "obey" THEN {inp} ELSE IF rep_cmd THEN {<<Dot>>} ELSE {}

\* A step of the loop as the abstract specification sees it.
ReplNext ==
    \/ /\ Now = {}
       /\ \E l \in Commands : /\ Now' = {l}
                              /\ Last' = IF StartsWithDot(l) THEN Last ELSE l
    \/ Now = {<<Dot>>} /\ Last # <<>> /\ Now' = {Last} /\ Last' = Last
    \/ Now' = {} /\ Last' = Last
    \/ Now' = Now /\ Last' = Last

LEMMA ReplStep == TypeOK /\ TypeOK' /\ LoopInv /\ [Next]_vars => ReplNext
<1> SUFFICES ASSUME TypeOK, TypeOK', LoopInv, [Next]_vars PROVE ReplNext
  OBVIOUS
<1>0. <<Dot>> # <<>> /\ StartsWithDot(<<Dot>>)
  BY DEF StartsWithDot
<1> USE DEF LoopInv, Goto, window, pipe, repl, history, Last, Now, ReplNext
<1>1. CASE TakePrevious
  BY <1>0, <1>1 DEF TakePrevious
<1>2. CASE Ask
  BY <1>2 DEF Ask
<1>3. CASE ObeyEof \/ ObeyQuit \/ ObeyOther \/ Quit
  BY <1>3 DEF ObeyEof, ObeyQuit, ObeyOther, Quit
<1>4. CASE ObeyDot
  BY <1>4 DEF ObeyDot
<1>5. CASE CliGetInp \/ SdlGetInp
  <2>1. /\ pc \in {"get", "woken"} /\ pc' = "obey" /\ ~rep_cmd
        /\ UNCHANGED <<prev_cmd, rep_cmd>>
    BY <1>5 DEF CliGetInp, SdlGetInp
  <2>2. inp' \in Commands
    BY LineIsCommand DEF TypeOK
  <2> QED BY <2>1, <2>2
<1>6. CASE CliPutMsg \/ TypeLine \/ SdlEmit
  BY <1>6 DEF CliPutMsg, TypeLine, SdlEmit
<1>7. CASE SdlActivate \/ SdlPlace
  BY <1>7 DEF SdlActivate, SdlPlace
<1>8. CASE EndLine
  BY <1>8 DEF EndLine, Waiting
<1>9. CASE TypeKey \/ Backspace
  <2>1. UNCHANGED <<pc, inp, prev_cmd, rep_cmd>>
    BY <1>9 DEF TypeKey, Backspace
  <2> QED BY <2>1
<1>10. CASE FlipCursorBlink
  BY <1>10 DEF FlipCursorBlink
<1>11. CASE Render
  BY <1>11 DEF Render
<1>12. CASE UNCHANGED vars
  BY <1>12 DEF vars
<1> QED BY <1>1, <1>2, <1>3, <1>4, <1>5, <1>6, <1>7, <1>8, <1>9, <1>10, <1>11, <1>12
        DEF Next, CuRunMon, Cli, Sdl

\* With either interface, and whatever is typed, `.` obeys the last line that did
\* not start with a dot once more, and nothing when that was an empty one.
THEOREM DotRepeats == Spec => ImplementsRepl
<1>1. Init => Memory!Init
  BY DEF Init, Memory!Init, StartsWithDot
<1>2. ReplNext => [Memory!Next]_<<Last, Now>>
  BY DEF ReplNext, Last, Now, Memory!Next, Memory!Enter, Memory!Repeat, Memory!Finish,
         Memory!StartsWithDot, StartsWithDot
<1>3. TypeOK /\ TypeOK' /\ LoopInv /\ [Next]_vars => [Memory!Next]_<<Last, Now>>
  BY <1>2, ReplStep
<1> QED BY <1>1, <1>3, LoopInit, LoopStep, TypeCorrect, PTL
        DEF Spec, ImplementsRepl, Memory!Spec, Last, Now
-----------------------------------------------------------------------------
(***************************************************************************)
(* The line that is read.                                                  *)
(***************************************************************************)
LEMMA NewlineCut ==
    ASSUME NEW S, NEW s \in Seq(S), s # <<>>
    PROVE  /\ WithoutNewline(s) \in Seq(S)
           /\ Len(WithoutNewline(s)) = IF s[Len(s)] = NL THEN Len(s) - 1 ELSE Len(s)
           /\ \A i \in 1 .. Len(WithoutNewline(s)) : WithoutNewline(s)[i] = s[i]
<1>1. Len(s) \in Nat /\ Len(s) - 1 \in Nat
  OBVIOUS
<1>2. CASE s[Len(s)] = NL
  BY <1>1, <1>2, FirstOfType DEF WithoutNewline
<1>3. CASE s[Len(s)] # NL
  BY <1>1, <1>3 DEF WithoutNewline
<1> QED BY <1>2, <1>3

Piece(s, m) == WithoutNewline(FirstOf(s, m))
LeftOver(s, m) == SubSeq(s, m + 1, Len(s))

\* fgets takes a line apart into pieces of m characters, of which the last one may
\* be shorter, and loses none.
LEMMA Pieces ==
    ASSUME NEW S, NEW s \in Seq(S), s # <<>>, NEW m \in Nat \ {0},
           \A i \in 1 .. Len(s) - 1 : s[i] # NL
    PROVE  /\ Piece(s, m) \in Seq(S) /\ LeftOver(s, m) \in Seq(S)
           /\ Piece(s, m) \o WithoutNewline(LeftOver(s, m)) = WithoutNewline(s)
           /\ LeftOver(s, m) # <<>> => Len(Piece(s, m)) = m
<1> DEFINE p == Piece(s, m)
           t == LeftOver(s, m)
<1>0. p = WithoutNewline(FirstOf(s, m)) /\ t = SubSeq(s, m + 1, Len(s))
  BY DEF Piece, LeftOver
<1> HIDE DEF p, t
<1>1. Len(s) \in Nat \ {0}
  OBVIOUS
<1>2. /\ FirstOf(s, m) \in Seq(S)
      /\ Len(FirstOf(s, m)) = IF Len(s) < m THEN Len(s) ELSE m
      /\ \A i \in 1 .. Len(FirstOf(s, m)) : FirstOf(s, m)[i] = s[i]
  BY FirstOfType
<1>3. FirstOf(s, m) # <<>>
  BY <1>1, <1>2
<1>4. p \in Seq(S) /\ t \in Seq(S)
  BY <1>0, <1>1, <1>2, <1>3, NewlineCut
<1>5. CASE Len(s) <= m
  <2>1. t = <<>>
    BY <1>0, <1>1, <1>5
  <2>2. FirstOf(s, m) = s
    BY <1>1, <1>2, <1>5, SeqEqual
  <2>3. WithoutNewline(t) = <<>>
    BY <2>1 DEF WithoutNewline
  <2>4. p = WithoutNewline(s) /\ p \o <<>> = p
    BY <1>0, <1>4, <2>2
  <2> QED BY <1>4, <2>1, <2>3, <2>4 DEF p, t
<1>6. CASE Len(s) > m
  <2> DEFINE w == WithoutNewline(t)
             v == WithoutNewline(s)
  <2>1. /\ t # <<>> /\ Len(t) = Len(s) - m
        /\ \A i \in 1 .. Len(t) : t[i] = s[m + i]
    <3>1. m + 1 \in Int /\ Len(s) \in Int /\ \A i \in m + 1 .. Len(s) : s[i] \in S
      BY <1>1
    <3>2. /\ Len(t) = Len(s) - (m + 1) + 1
          /\ \A i \in 1 .. Len(s) - (m + 1) + 1 : t[i] = s[(m + 1) + i - 1]
      BY <1>0, <1>1, <1>6, <3>1, SubSeqProperties
    <3>3. Len(t) = Len(s) - m /\ \A i \in 1 .. Len(t) : (m + 1) + i - 1 = m + i
      BY <1>1, <1>6, <3>2
    <3>4. Len(t) > 0
      BY <1>1, <1>6, <3>3
    <3>5. t # <<>>
      <4>1. Len(<<>>) = 0
        OBVIOUS
      <4> QED BY ONLY <3>4, <4>1
    <3>6. ASSUME NEW i \in 1 .. Len(t) PROVE t[i] = s[m + i]
      BY <3>2, <3>3
    <3> QED BY <3>3, <3>5, <3>6
  <2>2. t[Len(t)] = s[Len(s)]
    <3>1. Len(t) \in 1 .. Len(t) /\ m + Len(t) = Len(s)
      BY <1>1, <1>6, <2>1
    <3> QED BY <2>1, <3>1
  <2>3. /\ w \in Seq(S)
        /\ Len(w) = IF s[Len(s)] = NL THEN Len(t) - 1 ELSE Len(t)
        /\ \A i \in 1 .. Len(w) : w[i] = t[i]
    BY <1>4, <2>1, <2>2, NewlineCut
  <2>4. /\ v \in Seq(S)
        /\ Len(v) = IF s[Len(s)] = NL THEN Len(s) - 1 ELSE Len(s)
        /\ \A i \in 1 .. Len(v) : v[i] = s[i]
    BY NewlineCut
  <2>5. Len(p) = m /\ \A i \in 1 .. m : p[i] = s[i]
    <3>1. Len(FirstOf(s, m)) = m
      BY <1>1, <1>2, <1>6
    <3>2. FirstOf(s, m)[m] # NL
      BY <1>1, <1>2, <1>6, <3>1
    <3> QED BY <1>0, <1>2, <1>3, <3>1, <3>2, NewlineCut
  <2> HIDE DEF w, v
  <2>6. /\ p \o w \in Seq(S)
        /\ Len(p \o w) = m + Len(w)
        /\ \A i \in 1 .. m + Len(w) : (p \o w)[i] = IF i <= m THEN p[i] ELSE w[i - m]
    <3>1. /\ p \o w \in Seq(S)
          /\ Len(p \o w) = Len(p) + Len(w)
          /\ \A i \in 1 .. Len(p) + Len(w) :
                 (p \o w)[i] = IF i <= Len(p) THEN p[i] ELSE w[i - Len(p)]
      <4>1. p \in Seq(S) /\ w \in Seq(S)
        BY <1>4, <2>3
      <4> QED BY ONLY <4>1, ConcatProperties
    <3> QED BY <2>5, <3>1
  <2>7. m + Len(w) = Len(v) /\ Len(w) <= Len(t) /\ Len(w) \in Nat
    BY <1>1, <1>6, <2>1, <2>3, <2>4
  <2>8. ASSUME NEW i \in 1 .. Len(v) PROVE (p \o w)[i] = v[i]
    <3>1. v[i] = s[i] /\ (p \o w)[i] = IF i <= m THEN p[i] ELSE w[i - m]
      BY <2>4, <2>6, <2>7
    <3>2. CASE i <= m
      BY <2>5, <2>7, <3>1, <3>2
    <3>3. CASE ~(i <= m)
      <4>1. i - m \in 1 .. Len(w) /\ i - m \in 1 .. Len(t) /\ m + (i - m) = i
        BY <1>1, <1>6, <2>1, <2>7, <3>3
      <4>2. w[i - m] = t[i - m]
        BY <2>3, <4>1
      <4>3. t[i - m] = s[i]
        BY <2>1, <4>1
      <4> QED BY <3>1, <3>3, <4>2, <4>3
    <3> QED BY <3>2, <3>3
  <2>9. p \o w = v
    BY <2>4, <2>6, <2>7, <2>8, SeqEqual
  <2> QED BY <1>4, <2>5, <2>9 DEF w, v, p, t
<1> QED BY <1>1, <1>4, <1>5, <1>6 DEF p, t

LEMMA PipeInit == Init => PipeInv
BY DEF Init, PipeInv

\* The piece that the monitor reads, and what it leaves.
LEMMA CliReads ==
    ASSUME Inv, PipeInv, CliGetInp, stdin # <<>>
    PROVE  /\ ReadsLine'
           /\ PipeInv'
<1> DEFINE M == MaxUserInput - 1
           line == WithoutNewline(stdin)
           left == WithoutNewline(stdin')
           read == Len(typed) - Len(line)
<1>1. /\ M \in Nat \ {0} /\ MaxUserInput = M + 1
      /\ stdin \in Seq(Key \cup {NL}) /\ typed \in Seq(Key) /\ typed \in Seq(Key \cup {NL})
      /\ \A i \in 1 .. Len(stdin) - 1 : stdin[i] # NL
  BY InpAssumption, KeyAssumption DEF Inv, TypeOK, StdinInv
<1>2. /\ inp' = WithoutNewline(FirstOf(stdin, M))
      /\ stdin' = SubSeq(stdin, M + 1, Len(stdin))
      /\ typed' = typed /\ sdl_ui' = sdl_ui /\ ~sdl_ui /\ pc' = "obey"
  BY <1>1 DEF CliGetInp, Goto, history
<1>3. PICK q \in Nat : read = q * M
  BY DEF PipeInv
<1>4. read >= 0 /\ line = SubSeq(typed, read + 1, Len(typed))
  BY DEF PipeInv
<1>5. /\ inp' \in Seq(Key \cup {NL}) /\ stdin' \in Seq(Key \cup {NL})
      /\ inp' \o left = line
      /\ stdin' # <<>> => Len(inp') = M
  <2> HIDE DEF M
  <2>1. /\ stdin \in Seq(Key \cup {NL}) /\ stdin # <<>> /\ M \in Nat \ {0}
        /\ \A i \in 1 .. Len(stdin) - 1 : stdin[i] # NL
    BY <1>1
  <2>2. /\ Piece(stdin, M) \in Seq(Key \cup {NL}) /\ LeftOver(stdin, M) \in Seq(Key \cup {NL})
        /\ Piece(stdin, M) \o WithoutNewline(LeftOver(stdin, M)) = WithoutNewline(stdin)
        /\ LeftOver(stdin, M) # <<>> => Len(Piece(stdin, M)) = M
    BY ONLY <2>1, Pieces
  <2>3. inp' = Piece(stdin, M) /\ stdin' = LeftOver(stdin, M)
    BY <1>2 DEF Piece, LeftOver
  <2> QED BY <2>2, <2>3
<1>6. line \in Seq(Key \cup {NL}) /\ Len(line) \in Nat /\ Len(typed) \in Nat /\ read \in Nat
  BY <1>1, <1>4, NewlineCut
<1> HIDE DEF M, line, left, read
<1>7. ReadsLine'
  <2>1. q * M % M = 0
    BY <1>1, <1>3
  <2>2. Len(typed) < M => read = 0
    <3>1. q = 0 \/ q * M >= M
      BY <1>1
    <3>2. read <= Len(typed)
      BY <1>6 DEF read
    <3>3. q = 0 => q * M = 0
      BY <1>1
    <3>4. M \in Nat /\ Len(typed) \in Nat /\ read \in Nat
      BY <1>1, <1>6
    <3> QED BY ONLY <1>3, <3>1, <3>2, <3>3, <3>4
  <2> QED BY <1>2, <1>3, <1>4, <1>5, <2>1, <2>2 DEF ReadsLine, M, line, left, read
<1>8. ASSUME stdin' # <<>>
      PROVE  /\ Len(typed) - Len(left) = read + M
             /\ left = SubSeq(typed, read + M + 1, Len(typed))
  <2>1. left \in Seq(Key \cup {NL}) /\ Len(left) \in Nat
    BY <1>5, <1>8, NewlineCut DEF left
  <2>2. Len(line) = M + Len(left)
    BY <1>5, <1>8, <2>1, ConcatProperties
  <2>3. Len(typed) - Len(left) = read + M
    BY <1>1, <1>6, <2>1, <2>2 DEF read
  <2>4. \A i \in 1 .. Len(left) : left[i] = line[M + i]
    <3>1. \A i \in 1 .. Len(inp') + Len(left) :
              (inp' \o left)[i] = IF i <= Len(inp') THEN inp'[i] ELSE left[i - Len(inp')]
      BY <1>5, <2>1, ConcatProperties
    <3>2. \A i \in 1 .. M + Len(left) : line[i] = IF i <= M THEN inp'[i] ELSE left[i - M]
      BY <1>5, <1>8, <3>1
    <3> SUFFICES ASSUME NEW i \in 1 .. Len(left) PROVE left[i] = line[M + i]
      OBVIOUS
    <3>3. M + i \in 1 .. M + Len(left) /\ ~(M + i <= M) /\ (M + i) - M = i
      BY <1>1, <2>1
    <3> QED BY <3>2, <3>3
  <2>5. \A i \in 1 .. Len(line) : line[i] = typed[read + i]
    BY <1>1, <1>4, <1>6
  <2>6. \A i \in 1 .. Len(left) : left[i] = typed[read + M + i]
    BY <1>1, <1>6, <2>1, <2>2, <2>4, <2>5
  <2>7. /\ SubSeq(typed, read + M + 1, Len(typed)) \in Seq(Key \cup {NL})
        /\ Len(SubSeq(typed, read + M + 1, Len(typed))) = Len(left)
        /\ \A i \in 1 .. Len(left) :
               SubSeq(typed, read + M + 1, Len(typed))[i] = typed[read + M + i]
    BY <1>1, <1>6, <2>1, <2>3
  <2> QED BY <2>1, <2>3, <2>6, <2>7, SeqEqual
<1>9. PipeInv'
  <2>1. read + M = (q + 1) * M /\ q + 1 \in Nat
    BY <1>1, <1>3
  <2>2. ASSUME stdin' # <<>>
        PROVE  /\ Len(typed') - Len(left) >= 0
               /\ left = SubSeq(typed', Len(typed') - Len(left) + 1, Len(typed'))
               /\ Len(typed') - Len(left) = (q + 1) * M
    <3>1. typed' = typed /\ Len(typed) - Len(left) = read + M
      BY <1>2, <1>8, <2>2
    <3>2. left = SubSeq(typed, read + M + 1, Len(typed))
      BY <1>8, <2>2
    <3>3. read + M >= 0
      BY <1>1, <1>6
    <3> QED BY <2>1, <3>1, <3>2, <3>3
  <2> QED BY <1>2, <2>1, <2>2 DEF PipeInv, left, M
<1> QED BY <1>7, <1>9

\* A line that is typed is all left to read.
LEMMA TypedLine ==
    ASSUME Inv, TypeLine PROVE PipeInv'
<1>1. PICK l \in Lines : /\ typed' = l
                         /\ \/ stdin' = l \o <<NL>>
                            \/ stdin' = l
  BY DEF TypeLine
<1>2. l \in Seq(Key) /\ l \in Seq(Key \cup {NL}) /\ Len(l) \in Nat
  BY <1>1, LineType
<1>3. ~sdl_ui' /\ pc' = "get"
  BY DEF TypeLine
<1>4. ASSUME stdin' # <<>> PROVE WithoutNewline(stdin') = l
  <2>1. CASE stdin' = l \o <<NL>>
    <3>1. /\ l \o <<NL>> \in Seq(Key \cup {NL})
          /\ Len(l \o <<NL>>) = Len(l) + 1
          /\ (l \o <<NL>>)[Len(l) + 1] = NL
          /\ \A i \in 1 .. Len(l) : (l \o <<NL>>)[i] = l[i]
      BY <1>2
    <3>2. /\ WithoutNewline(stdin') \in Seq(Key \cup {NL})
          /\ Len(WithoutNewline(stdin')) = Len(l)
          /\ \A i \in 1 .. Len(l) : WithoutNewline(stdin')[i] = l[i]
      <4>1. /\ stdin' \in Seq(Key \cup {NL}) /\ stdin' # <<>>
            /\ Len(stdin') = Len(l) + 1 /\ stdin'[Len(stdin')] = NL
        BY <1>2, <1>4, <2>1, <3>1
      <4>2. /\ WithoutNewline(stdin') \in Seq(Key \cup {NL})
            /\ Len(WithoutNewline(stdin')) = Len(stdin') - 1
            /\ \A i \in 1 .. Len(WithoutNewline(stdin')) : WithoutNewline(stdin')[i] = stdin'[i]
        BY ONLY <4>1, NewlineCut
      <4> QED BY <1>2, <2>1, <3>1, <4>1, <4>2
    <3> QED BY <1>2, <3>2, SeqEqual
  <2>2. CASE stdin' = l
    BY <1>2, <1>4, <2>2, KeyAssumption DEF WithoutNewline
  <2> QED BY <1>1, <2>1, <2>2
<1>5. SubSeq(l, 1, Len(l)) = l /\ Len(l) - Len(l) = 0
  BY <1>2
<1>6. 0 = 0 * (MaxUserInput - 1) /\ 0 \in Nat
  BY InpAssumption
<1> QED BY <1>1, <1>3, <1>4, <1>5, <1>6 DEF PipeInv

LEMMA PipeStep == Inv /\ PipeInv /\ [Next]_vars => PipeInv'
<1> SUFFICES ASSUME Inv, PipeInv, [Next]_vars PROVE PipeInv'
  OBVIOUS
<1> USE DEF Goto, window, pipe, repl, history
<1>1. ASSUME UNCHANGED <<sdl_ui, stdin, typed>>,
             pc' # pc => pc' \notin {"place", "wait", "woken"},
             pc = "woken" => mon_inp_buf' = mon_inp_buf
      PROVE  PipeInv'
  BY <1>1 DEF PipeInv
<1>2. CASE CuRunMon
  BY <1>1, <1>2
  DEF CuRunMon, TakePrevious, Ask, ObeyEof, ObeyDot, ObeyQuit, ObeyOther, Quit
<1>3. CASE CliPutMsg
  BY <1>1, <1>3 DEF CliPutMsg
<1>4. CASE TypeLine
  BY <1>4, TypedLine
<1>5. CASE CliGetInp
  <2>1. CASE stdin # <<>>
    BY <1>5, <2>1, CliReads
  <2>2. CASE stdin = <<>>
    <3>1. stdin' = <<>>
      BY <1>5, <2>2, InpAssumption DEF CliGetInp
    <3> QED BY <1>5, <3>1 DEF CliGetInp, PipeInv
  <2> QED BY <2>1, <2>2
<1>6. CASE SdlEmit \/ FlipCursorBlink \/ Render
  BY <1>1, <1>6 DEF SdlEmit, FlipCursorBlink, Render
<1>7. CASE SdlActivate \/ SdlPlace
  BY <1>7 DEF SdlActivate, SdlPlace, PipeInv
<1>8. CASE TypeKey \/ Backspace
  <2>1. pc = "wait" /\ UNCHANGED <<sdl_ui, stdin, typed, pc>>
    BY <1>8 DEF TypeKey, Backspace, Waiting
  <2> QED BY <1>1, <2>1
<1>9. CASE EndLine
  BY <1>9 DEF EndLine, Waiting, PipeInv
<1>10. CASE SdlGetInp
  BY <1>1, <1>10 DEF SdlGetInp
<1>11. CASE UNCHANGED vars
  BY <1>1, <1>11 DEF vars
<1> QED BY <1>2, <1>3, <1>4, <1>5, <1>6, <1>7, <1>8, <1>9, <1>10, <1>11 DEF Next, Cli, Sdl

\* What the monitor obeys is what was typed, with either interface: the window
\* hands over the beginning of a long line, and stdin all of it, piece by piece.
THEOREM LineIsAlwaysRead == Spec => LineIsRead
<1>1. ASSUME Inv, PipeInv, [Next]_vars, pc \in {"get", "woken"}, pc' = "obey", ~eof'
      PROVE  ReadsLine'
  <2>1. CliGetInp \/ SdlGetInp
    BY <1>1 DEF Next, CuRunMon, Cli, Sdl, TakePrevious, Ask, ObeyEof, ObeyDot, ObeyQuit,
                ObeyOther, Quit, CliPutMsg, TypeLine, SdlEmit, SdlActivate, SdlPlace,
                TypeKey, Backspace, EndLine, FlipCursorBlink, Render, Waiting, Goto, vars
  <2>2. CASE CliGetInp
    BY <1>1, <2>2, CliReads DEF CliGetInp
  <2>3. CASE SdlGetInp
    <3>1. pc = "woken" /\ inp' = FirstOf(mon_inp_buf, MaxUserInput - 1)
          /\ typed' = typed /\ sdl_ui' = sdl_ui
      BY <2>3 DEF SdlGetInp, Goto, history
    <3> QED BY <1>1, <3>1 DEF PipeInv, ReadsLine
  <2> QED BY <2>1, <2>2, <2>3
<1>2. Inv /\ PipeInv /\ [Next]_vars
      => [(pc \in {"get", "woken"} /\ pc' = "obey" /\ ~eof' => ReadsLine')]_vars
  BY <1>1
<1> QED BY <1>2, InvAlways, PipeInit, PipeStep, PTL DEF Spec, LineIsRead
-----------------------------------------------------------------------------
(***************************************************************************)
(* The line in the window, apart from the state that it is in: s is the    *)
(* ring, l the line, and st says if an erasure has met the start of row 0. *)
(***************************************************************************)
Line(l) == Prompt \o l

LEMMA LineIs ==
    ASSUME NEW l \in Seq(Key), Len(l) < MaxMonInp
    PROVE  /\ Line(l) \in Seq(Glyph) /\ Line(l) # <<>>
           /\ Len(Line(l)) = Len(Prompt) + Len(l)
           /\ Len(Line(l)) < Rows * Cols
           /\ Len(Prompt) \in Nat \ {0} /\ Len(l) \in Nat
           /\ MaxMonInp <= Rows * Cols
<1>1. Prompt \in Seq(Glyph) /\ Prompt # <<>> /\ l \in Seq(Glyph) /\ MaxMonInp \in Nat
  BY PrintAssumption, KeyAssumption, InpAssumption
<1>2. Line(l) \in Seq(Glyph) /\ Len(Line(l)) = Len(Prompt) + Len(l)
  BY <1>1, ConcatProperties DEF Line
<1>3. Len(Prompt) \in Nat /\ Len(l) \in Nat /\ Len(Prompt) # 0
  BY <1>1, EmptySeq
<1>4. Len(Line(l)) # 0
  BY <1>2, <1>3
<1>5. Rows * Cols \in Nat /\ Len(Prompt) + MaxMonInp <= Rows * Cols
  BY Places, FitAssumption
<1> DEFINE M == Rows * Cols
<1> HIDE DEF M
<1>6. M \in Nat /\ Len(Prompt) + MaxMonInp <= M
  BY <1>5 DEF M
<1>7. Len(Line(l)) < M /\ MaxMonInp <= M
  BY <1>1, <1>2, <1>3, <1>6
<1> QED BY <1>2, <1>3, <1>4, <1>7, EmptySeq DEF M

LEMMA LineAppend ==
    ASSUME NEW l \in Seq(Key), NEW k \in Key
    PROVE  Line(l \o <<k>>) = Line(l) \o <<k>>
<1>1. Prompt \in Seq(Glyph) /\ l \in Seq(Glyph) /\ <<k>> \in Seq(Glyph)
  BY PrintAssumption, KeyAssumption
<1> QED BY <1>1, ConcatAssociative DEF Line

\* The text ends with the line...
EndsLine(s, l, st) ==
    IF st THEN \E t \in Seq(Glyph) : EndsWith(s, t) /\ Len(t) = Here(s) /\ Here(s) <= Len(l)
    ELSE EndsWith(s, Line(l))

\* ...or with the line and the cursor.
EndsCursorLine(s, l, st) ==
    /\ s.col > 0
    /\ IF st THEN /\ EndsWith(s, FromStart(s))
                  /\ FromStart(s) \in Seq(Glyph)
                  /\ Here(s) \in 1 .. Len(l) + 1
       ELSE EndsWith(s, Line(l) \o <<Space>>)

LEMMA Typed ==
    ASSUME NEW s \in Texts, NEW l \in Seq(Key), NEW st \in BOOLEAN, NEW k \in Key,
           Filled(s), EndsLine(s, l, st), Len(l) < MaxMonInp
    PROVE  EndsLine(EmitGlyph(s, k), l \o <<k>>, st)
<1> DEFINE z == EmitGlyph(s, k)
<1>1. k \in Glyph
  BY KeyAssumption
<1>2. /\ Line(l) \in Seq(Glyph) /\ Len(Line(l)) < Rows * Cols /\ Len(l) \in Nat
      /\ MaxMonInp <= Rows * Cols
  BY LineIs
<1>3. CASE ~st
  BY <1>1, <1>2, <1>3, LineAppend, EndsEmitGlyph DEF EndsLine
<1>4. CASE st
  <2>1. PICK t \in Seq(Glyph) : EndsWith(s, t) /\ Len(t) = Here(s) /\ Here(s) <= Len(l)
    BY <1>4 DEF EndsLine
  <2> DEFINE M == Rows * Cols
  <2>2. Here(s) \in 0 .. M /\ M \in Nat /\ MaxMonInp \in Nat /\ MaxMonInp <= M
    BY <1>2, HereIs, InpAssumption
  <2> HIDE DEF M
  <2>3. Here(s) < M
    BY <1>2, <2>1, <2>2
  <2>4. EndsWith(z, t \o <<k>>)
    BY <1>1, <2>1, <2>3, EndsEmitGlyph DEF M
  <2>5. Here(z) = Here(s) + 1
    BY <1>1, <2>3, HereEmitGlyph DEF M
  <2>6. t \o <<k>> \in Seq(Glyph) /\ Len(t \o <<k>>) = Len(t) + 1
    BY <1>1, AppendIs
  <2>7. Len(l \o <<k>>) = Len(l) + 1
    BY AppendIs
  <2> HIDE DEF z
  <2>8. Len(t \o <<k>>) = Here(z) /\ Here(z) <= Len(l \o <<k>>)
    BY <1>2, <2>1, <2>2, <2>5, <2>6, <2>7
  <2> QED BY <1>4, <2>4, <2>6, <2>8 DEF EndsLine, z
<1> QED BY <1>3, <1>4

LEMMA Placed ==
    ASSUME NEW s \in Texts, NEW l \in Seq(Key), NEW st \in BOOLEAN,
           Filled(s), EndsLine(s, l, st), Len(l) < MaxMonInp
    PROVE  EndsCursorLine(EmitGlyph(s, Space), l, st)
<1> DEFINE z == EmitGlyph(s, Space)
<1>1. Space \in Glyph
  BY GlyphAssumption
<1>2. /\ Line(l) \in Seq(Glyph) /\ Len(Line(l)) < Rows * Cols /\ Len(l) \in Nat
      /\ MaxMonInp <= Rows * Cols
  BY LineIs
<1>3. z \in Texts /\ z.col > 0
  BY <1>1, EmitGlyphShows
<1>4. CASE ~st
  BY <1>1, <1>2, <1>3, <1>4, EndsEmitGlyph DEF EndsLine, EndsCursorLine
<1>5. CASE st
  <2>1. PICK t \in Seq(Glyph) : EndsWith(s, t) /\ Len(t) = Here(s) /\ Here(s) <= Len(l)
    BY <1>5 DEF EndsLine
  <2> DEFINE M == Rows * Cols
  <2>2. Here(s) \in 0 .. M /\ M \in Nat /\ MaxMonInp \in Nat /\ MaxMonInp <= M
    BY <1>2, HereIs, InpAssumption
  <2> HIDE DEF M
  <2>3. Here(s) < M
    BY <1>2, <2>1, <2>2
  <2>4. EndsWith(z, t \o <<Space>>)
    BY <1>1, <2>1, <2>3, EndsEmitGlyph DEF M
  <2>5. Here(z) = Here(s) + 1
    BY <1>1, <2>3, HereEmitGlyph DEF M
  <2>6. t \o <<Space>> \in Seq(Glyph) /\ Len(t \o <<Space>>) = Len(t) + 1
    BY <1>1, AppendIs
  <2> HIDE DEF z
  <2>7. Len(t \o <<Space>>) = Here(z)
    BY <2>1, <2>5, <2>6
  <2>8. FromStart(z) \in Seq(Glyph) /\ EndsWith(z, FromStart(z))
    BY <1>3, <2>4, <2>6, <2>7, FromStartIs
  <2>9. Here(z) \in 1 .. Len(l) + 1
    BY <1>2, <2>1, <2>2, <2>5
  <2> QED BY <1>3, <1>5, <2>8, <2>9 DEF EndsCursorLine, z
<1> QED BY <1>4, <1>5

\* The cursor is erased.
LEMMA Unplaced ==
    ASSUME NEW s \in Texts, NEW l \in Seq(Key), NEW st \in BOOLEAN,
           Ended(s), EndsCursorLine(s, l, st), Len(l) < MaxMonInp
    PROVE  /\ EndsLine(UnemitOne(s), l, st)
           /\ UnemitOne(s) \in Texts /\ Ended(UnemitOne(s)) /\ Filled(UnemitOne(s))
           /\ RowsWritten(UnemitOne(s)) = Page!Erase(RowsWritten(s))
           /\ Page!CanErase(RowsWritten(s)) /\ Page!LastOf(RowsWritten(s)) # <<>>
<1> DEFINE z == UnemitOne(s)
<1>1. s.col > 0 /\ Filled(s) /\ ~CannotUnemit(s) /\ Space \in Glyph
  BY EndedIsFilled, RingIs, GlyphAssumption DEF EndsCursorLine, CannotUnemit
<1>2. /\ RowsWritten(z) = Page!Erase(RowsWritten(s)) /\ Page!LastOf(RowsWritten(s)) # <<>>
      /\ z \in Texts /\ Ended(z) /\ Filled(z)
  BY <1>1, EraseShows, EndedIsFilled
<1>3. Line(l) \in Seq(Glyph) /\ Len(l) \in Nat
  BY LineIs
<1>4. CASE ~st
  <2>1. EndsWith(s, Line(l) \o <<Space>>)
    BY <1>4 DEF EndsCursorLine
  <2>2. EndsWith(z, Line(l))
    BY <1>1, <1>3, <2>1, EndsErase
  <2> HIDE DEF z
  <2>3. EndsLine(z, l, st)
    BY <1>4, <2>2 DEF EndsLine
  <2> QED BY <1>2, <2>3 DEF z, Page!CanErase
<1>5. CASE st
  <2> DEFINE f == FromStart(s)
             t == Page!ButLast(f)
             x == Page!LastOf(f)
  <2>1. f \in Seq(Glyph) /\ EndsWith(s, f) /\ Here(s) \in 1 .. Len(l) + 1
    BY <1>5 DEF EndsCursorLine
  <2>2. Len(f) = Here(s)
    BY <2>1 DEF FromStart, Here
  <2>3. f # <<>>
    BY <2>1, <2>2, EmptySeq
  <2> HIDE DEF f
  <2>4. f = t \o <<x>> /\ t \in Seq(Glyph) /\ x \in Glyph /\ Len(t) = Len(f) - 1
    BY <2>1, <2>3, SplitLast, ButLastIs
  <2> HIDE DEF t, x
  <2>5. EndsWith(z, t) /\ Here(z) = Here(s) - 1
    BY <1>1, <2>1, <2>4, EndsErase
  <2> HIDE DEF z
  <2>6. Len(t) = Here(z) /\ Here(z) <= Len(l)
    BY <1>3, <2>1, <2>2, <2>4, <2>5
  <2>7. EndsLine(z, l, st)
    BY <1>5, <2>4, <2>5, <2>6 DEF EndsLine
  <2> QED BY <1>2, <2>7 DEF z, Page!CanErase
<1> QED BY <1>4, <1>5

\* The last character of the line is erased, unless nothing stands before the
\* place: then st says so from now on.
LEMMA Untyped ==
    ASSUME NEW s \in Texts, NEW l \in Seq(Key), NEW k \in Key, NEW st \in BOOLEAN,
           Ended(s), EndsLine(s, l \o <<k>>, st), Len(l \o <<k>>) < MaxMonInp
    PROVE  LET z == UnemitOne(s)
           IN  /\ z \in Texts /\ Ended(z) /\ Filled(z)
               /\ EndsLine(z, l, st \/ CannotUnemit(s))
               /\ CannotUnemit(s) => z = s
               /\ ~CannotUnemit(s) => /\ RowsWritten(z) = Page!Erase(RowsWritten(s))
                                      /\ Page!CanErase(RowsWritten(s))
<1> DEFINE z == UnemitOne(s)
<1>1. k \in Glyph /\ Filled(s) /\ s.col \in Nat /\ s.row \in Nat
  BY KeyAssumption, EndedIsFilled, RingIs, TextSizeAssumption DEF Row
<1>2. Len(l \o <<k>>) = Len(l) + 1 /\ Len(l) \in Nat /\ MaxMonInp \in Nat
      /\ l \o <<k>> \in Seq(Key)
  BY AppendIs, InpAssumption
<1>3. Len(l) < MaxMonInp
  BY <1>2
<1>4. Line(l) \in Seq(Glyph) /\ Line(l \o <<k>>) = Line(l) \o <<k>>
      /\ Line(l \o <<k>>) \in Seq(Glyph) /\ Line(l \o <<k>>) # <<>>
  BY <1>2, <1>3, LineIs, LineAppend
<1>5. CASE CannotUnemit(s)
  <2>1. z = s
    BY <1>5, EraseNothingIs
  <2>2. EndsWith(s, <<>>) /\ <<>> \in Seq(Glyph) /\ Len(<<>>) = 0
    BY <1>5, EndsWithNothing DEF CannotUnemit
  <2>3. Here(s) = 0
    <3>1. Here(s) = 0 * Cols + 0
      BY <1>5, HereIs DEF CannotUnemit
    <3> QED BY <3>1, TextSizeAssumption
  <2>4. EndsLine(s, l, TRUE)
    <3>1. Len(<<>>) = Here(s) /\ Here(s) <= Len(l)
      BY <1>2, <2>2, <2>3
    <3>2. \E t \in Seq(Glyph) : EndsWith(s, t) /\ Len(t) = Here(s) /\ Here(s) <= Len(l)
      BY ONLY <2>2, <3>1
    <3> QED BY <3>2 DEF EndsLine
  <2> QED BY <1>1, <1>5, <2>1, <2>4
<1>6. CASE ~CannotUnemit(s) /\ ~st
  <2>1. EndsWith(s, Line(l) \o <<k>>)
    BY <1>4, <1>6 DEF EndsLine
  <2>2. EndsWith(z, Line(l))
    BY <1>1, <1>4, <1>6, <2>1, EndsErase
  <2>3. /\ RowsWritten(z) = Page!Erase(RowsWritten(s)) /\ Page!CanErase(RowsWritten(s))
        /\ z \in Texts /\ Ended(z) /\ Filled(z)
    BY <1>1, <1>4, <1>6, <2>1, UnemitShows, EndedIsFilled
  <2> HIDE DEF z
  <2> QED BY <1>6, <2>2, <2>3 DEF EndsLine, z
<1>7. CASE ~CannotUnemit(s) /\ st
  <2>1. PICK u \in Seq(Glyph) :
            EndsWith(s, u) /\ Len(u) = Here(s) /\ Here(s) <= Len(l \o <<k>>)
    BY <1>7 DEF EndsLine
  <2>2. Here(s) > 0
    <3>1. /\ Here(s) = s.row * Cols + s.col /\ Cols \in Nat \ {0}
          /\ s.row * Cols \in Nat
      BY <1>1, HereIs, TextSizeAssumption
    <3>2. CASE s.col > 0
      BY <1>1, <3>1, <3>2
    <3>3. CASE s.row > 0
      <4>1. 1 * Cols <= s.row * Cols
        BY <1>1, <3>1, <3>3, ProductGrows
      <4> QED BY <1>1, <3>1, <4>1
    <3> QED BY <1>1, <1>7, <3>2, <3>3 DEF CannotUnemit
  <2>3. u # <<>>
    BY <2>1, <2>2, EmptySeq
  <2> DEFINE t == Page!ButLast(u)
             x == Page!LastOf(u)
  <2>4. u = t \o <<x>> /\ t \in Seq(Glyph) /\ x \in Glyph /\ Len(t) = Len(u) - 1
    BY <2>1, <2>3, SplitLast, ButLastIs
  <2> HIDE DEF t, x
  <2>5. EndsWith(z, t) /\ Here(z) = Here(s) - 1
    BY <1>7, <2>1, <2>4, EndsErase
  <2>6. /\ RowsWritten(z) = Page!Erase(RowsWritten(s)) /\ Page!CanErase(RowsWritten(s))
        /\ z \in Texts /\ Ended(z) /\ Filled(z)
    BY <1>1, <1>7, <2>1, <2>3, UnemitShows, EndedIsFilled
  <2> HIDE DEF z
  <2>7. Here(s) \in Int
    BY HereIs
  <2>8. Len(t) = Here(z) /\ Here(z) <= Len(l)
    BY <1>2, <2>1, <2>4, <2>5, <2>7
  <2>9. EndsLine(z, l, st \/ CannotUnemit(s))
    BY <1>7, <2>4, <2>5, <2>8 DEF EndsLine
  <2> QED BY <1>7, <2>6, <2>9 DEF z
<1> QED BY <1>5, <1>6, <1>7

\* A frame changes the cursor only, if there is one.
LEMMA RenderedText ==
    ASSUME NEW s \in Texts, NEW t \in Seq(Glyph), NEW x \in {Space, Block},
           t # <<>>, EndsWith(s, t), Ended(s), t[Len(t)] \in {Space, Block}
    PROVE  EndsWith(RenderCursor(s, x), t) /\ Ended(RenderCursor(s, x))
<1>1. x \in Glyph /\ Looks(x, t[Len(t)])
  BY GlyphAssumption DEF Looks
<1>2. s.col \in Nat /\ s.row \in Row /\ s.col \in 0 .. Cols
  BY RingIs, TextSizeAssumption
<1>3. CASE s.col > 0
  BY <1>1, <1>3, EndsCursor, CursorShows
<1>4. CASE s.col = 0
  <2>1. Width(s, s.row) = 0
    BY <1>2, <1>4, WidthOf DEF Ended
  <2>2. RenderCursor(s, x) = s
    BY <2>1 DEF RenderCursor
  <2> QED BY <2>2
<1> QED BY <1>2, <1>3, <1>4

LEMMA RenderedLine ==
    ASSUME NEW s \in Texts, NEW l \in Seq(Key), NEW st \in BOOLEAN, NEW x \in {Space, Block},
           Ended(s), EndsCursorLine(s, l, st), Len(l) < MaxMonInp
    PROVE  EndsCursorLine(RenderCursor(s, x), l, st) /\ Ended(RenderCursor(s, x))
<1> DEFINE z == RenderCursor(s, x)
<1>1. x \in Glyph /\ Space \in Glyph /\ s.col > 0
  BY GlyphAssumption DEF EndsCursorLine
<1>2. z \in Texts /\ Ended(z) /\ z.col > 0
  BY <1>1, CursorIs, CursorShows
<1>3. CASE ~st
  <2> DEFINE t == Line(l) \o <<Space>>
  <2>1. Line(l) \in Seq(Glyph)
    BY LineIs
  <2>2. t \in Seq(Glyph) /\ t # <<>> /\ Page!LastOf(t) = Space
    BY <1>1, <2>1, JoinLast
  <2>3. EndsWith(s, t)
    BY <1>3 DEF EndsCursorLine
  <2> HIDE DEF t
  <2>4. t[Len(t)] \in {Space, Block}
    BY <2>2 DEF Page!LastOf
  <2>5. EndsWith(z, t)
    BY <2>2, <2>3, <2>4, RenderedText
  <2> QED BY <1>2, <1>3, <2>5 DEF EndsCursorLine, t
<1>4. CASE st
  <2> DEFINE t == FromStart(s)
             u == Page!ButLast(t) \o <<x>>
  <2>1. t \in Seq(Glyph) /\ EndsWith(s, t) /\ Here(s) \in 1 .. Len(l) + 1
    BY <1>4 DEF EndsCursorLine
  <2>2. Len(t) = Here(s)
    BY <2>1 DEF FromStart, Here
  <2> HIDE DEF t
  <2>3. t # <<>> /\ Len(t) \in Nat \ {0}
    BY <2>1, <2>2, EmptySeq
  <2>4. /\ u \in Seq(Glyph) /\ Len(u) = Len(t)
        /\ \A i \in 1 .. Len(t) : u[i] = IF i = Len(t) THEN x ELSE t[i]
    BY <1>1, <2>1, <2>3, ReplaceIs
  <2> HIDE DEF u
  <2>5. /\ \A i \in 1 .. Len(t) - 1 : u[i] = t[i]
        /\ u[Len(t)] = x
    BY <2>3, <2>4
  <2>6. EndsWith(z, u) /\ Here(z) = Here(s)
    BY <1>1, <2>1, <2>4, <2>5, EndsCursor DEF Looks
  <2>7. FromStart(z) \in Seq(Glyph) /\ EndsWith(z, FromStart(z))
    BY <1>2, <2>2, <2>4, <2>6, FromStartIs
  <2> QED BY <1>2, <1>4, <2>1, <2>6, <2>7 DEF EndsCursorLine
<1> QED BY <1>2, <1>3, <1>4
-----------------------------------------------------------------------------
(***************************************************************************)
(* The line in the window, as the state goes on.                           *)
(***************************************************************************)
\* WindowInv is kept by a step that writes nothing to the window.
OtherStep ==
    \/ CuRunMon \/ Cli \/ SdlActivate \/ SdlPlace \/ SdlGetInp \/ FlipCursorBlink
    \/ UNCHANGED vars

LEMMA LineInvIs == LineInv <=> EndsCursorLine(mon, mon_inp_buf, stuck)
BY DEF LineInv, EndsCursorLine, Here, Line

LEMMA LineInvIsNext == LineInv' <=> EndsCursorLine(mon', mon_inp_buf', stuck')
BY DEF LineInv, EndsCursorLine, Here, Line

LEMMA WindowInit == Init => WindowInv
<1> SUFFICES ASSUME Init PROVE WindowInv
  OBVIOUS
<1>1. Filled(mon)
  BY DEF Init, Blank, Filled
<1>2. pc = "loop" /\ todo = Output /\ todo # <<>> /\ mon_inp_active = FALSE
  BY Characters DEF Init
<1> QED BY <1>1, <1>2, OutputAssumption DEF WindowInv

LEMMA OtherKeepsWindow ==
    ASSUME Inv, LoopInv, WindowInv, OtherStep
    PROVE  WindowInv'
<1>0. /\ Output # <<>> /\ Output[Len(Output)] = NL
      /\ Prompt \in Seq(Glyph) /\ Prompt # <<>> /\ Len(Prompt) \in Nat \ {0}
      /\ mon \in Texts
  BY OutputAssumption, PrintAssumption, EmptySeq DEF Inv, TypeOK
<1>1. CASE TakePrevious
  BY <1>1 DEF TakePrevious, Goto, WindowInv, window, pipe, history
<1>2. CASE Ask
  <2>1. pc = "loop" /\ todo = <<>> /\ pc' = "get" /\ todo' = Prompt
        /\ UNCHANGED <<sdl_ui, mon, mon_inp_active>>
    BY <1>2 DEF Ask, Goto, window
  <2>2. sdl_ui => mon.col = 0
    BY <2>1 DEF WindowInv
  <2>3. SubSeq(Prompt, 0 + 1, Len(Prompt)) = Prompt /\ SubSeq(Prompt, 1, 0) = <<>>
    BY <1>0
  <2>4. sdl_ui => EndsWith(mon, SubSeq(Prompt, 1, 0))
    BY <1>0, <2>2, <2>3, EndsWithNothing
  <2>5. sdl_ui => /\ todo' = SubSeq(Prompt, 0 + 1, Len(Prompt))
                  /\ EndsWith(mon, SubSeq(Prompt, 1, 0))
                  /\ 0 = Len(Prompt) => Ended(mon)
    BY <1>0, <2>1, <2>3, <2>4
  <2>6. 0 \in 0 .. Len(Prompt)
    BY <1>0
  <2> HIDE DEF EndsWith, Ended, Filled
  <2>7. Filled(mon) /\ (mon_inp_active => FALSE)
    BY <2>1 DEF WindowInv
  <2> QED BY <2>1, <2>5, <2>6, <2>7 DEF WindowInv
<1>3. CASE ObeyEof
  BY <1>0, <1>3 DEF ObeyEof, Goto, WindowInv, window, pipe, history
<1>4. CASE ObeyDot
  <2>1. /\ pc = "obey" /\ todo = <<>> /\ pc' = "loop"
        /\ UNCHANGED <<sdl_ui, mon, mon_inp_active>>
    BY <1>4 DEF ObeyDot, Goto, window
  <2>2. todo' # <<>> /\ todo'[Len(todo')] = NL
    <3>1. prev_cmd \in Seq(Key)
      BY DEF Inv, TypeOK
    <3>2. CASE todo' = prev_cmd \o <<NL>>
      <4>1. prev_cmd \in Seq(Key \cup {NL}) /\ NL \in Key \cup {NL}
        BY <3>1
      <4>2. prev_cmd \o <<NL>> # <<>> /\ Page!LastOf(prev_cmd \o <<NL>>) = NL
        BY <4>1, JoinLast
      <4> QED BY <3>2, <4>2 DEF Page!LastOf
    <3> QED BY <1>0, <1>4, <3>2 DEF ObeyDot
  <2> QED BY <2>1, <2>2 DEF WindowInv
<1>5. CASE ObeyQuit
  BY <1>5 DEF ObeyQuit, Goto, WindowInv, window, pipe, history
<1>6. CASE ObeyOther
  <2>1. /\ pc = "obey" /\ todo = <<>> /\ pc' \in {"loop", "done"}
        /\ todo' = <<>> \/ todo' = Output
        /\ UNCHANGED <<sdl_ui, mon, mon_inp_active>>
    BY <1>6 DEF ObeyOther, Goto, window
  <2> QED BY <1>0, <2>1 DEF WindowInv
<1>7. CASE Quit
  BY <1>7 DEF Quit, Goto, WindowInv, window, pipe, history
<1>8. CASE Cli
  <2>1. /\ ~sdl_ui /\ UNCHANGED <<sdl_ui, mon, mon_inp_active>>
        /\ pc' = pc \/ pc' \in {"done", "obey"}
        /\ pc' = "obey" => todo' = <<>>
    BY <1>8 DEF Cli, CliPutMsg, TypeLine, CliGetInp, Goto, window, LoopInv
  <2> QED BY <2>1 DEF WindowInv
<1>9. CASE SdlActivate
  <2>1. /\ sdl_ui /\ pc = "get" /\ pc' = "place" /\ todo = <<>> /\ todo' = <<>>
        /\ mon_inp_buf' = <<>> /\ stuck' = FALSE
        /\ UNCHANGED <<sdl_ui, mon>>
    BY <1>9 DEF SdlActivate, Goto
  <2>2. PICK m \in 0 .. Len(Prompt) : /\ todo = SubSeq(Prompt, m + 1, Len(Prompt))
                                      /\ EndsWith(mon, SubSeq(Prompt, 1, m))
                                      /\ m = Len(Prompt) => Ended(mon)
    BY <2>1 DEF WindowInv
  <2>3. m = Len(Prompt)
    <3>1. m < Len(Prompt) => Len(SubSeq(Prompt, m + 1, Len(Prompt))) # 0
      BY <1>0
    <3>2. Len(SubSeq(Prompt, m + 1, Len(Prompt))) = 0
      <4>1. SubSeq(Prompt, m + 1, Len(Prompt)) = <<>>
        BY <2>1, <2>2
      <4> QED BY <4>1
    <3> QED BY <1>0, <3>1, <3>2
  <2>4. SubSeq(Prompt, 1, m) = Prompt
    BY <1>0, <2>3
  <2>5. EndsWith(mon, Prompt) /\ Ended(mon) /\ Filled(mon)
    BY <2>2, <2>3, <2>4 DEF WindowInv
  <2> QED BY <2>1, <2>5 DEF WindowInv
<1>10. CASE SdlPlace
  <2>1. /\ pc = "place" /\ pc' = "wait" /\ todo' = <<Space>>
        /\ UNCHANGED <<sdl_ui, mon, mon_inp_buf, mon_inp_active, stuck>>
    BY <1>10 DEF SdlPlace, Goto, window, history
  <2> QED BY <2>1 DEF WindowInv
<1>11. CASE SdlGetInp
  BY <1>11 DEF SdlGetInp, Goto, WindowInv, window, pipe, history
<1>12. CASE FlipCursorBlink \/ UNCHANGED vars
  <2>1. UNCHANGED <<sdl_ui, mon, mon_inp_buf, mon_inp_active, pc, todo, stuck>>
    BY <1>12 DEF FlipCursorBlink, vars, window, history
  <2> QED BY <2>1 DEF WindowInv, LineInv
<1> QED BY <1>1, <1>2, <1>3, <1>4, <1>5, <1>6, <1>7, <1>8, <1>9, <1>10, <1>11, <1>12
        DEF OtherStep, CuRunMon

\* The operators of Screen do not depend on the text that it is about.
LEMMA WindowIsPage ==
    \A t, x : /\ Window!Put(t, x) = Page!Put(t, x)
              /\ Window!AddRow(t, x) = Page!AddRow(t, x)
              /\ Window!Erase(t) = Page!Erase(t)
              /\ Window!CanErase(t) <=> Page!CanErase(t)
              /\ Window!ButLast(t) = Page!ButLast(t)
              /\ Window!LastOf(t) = Page!LastOf(t)
BY DEF Window!Put, Window!AddRow, Window!Erase, Window!CanErase, Window!ButLast,
       Window!LastOf, Page!Put, Page!AddRow, Page!Erase, Page!CanErase, Page!ButLast,
       Page!LastOf

\* What is written to the window now, and after the step.
LEMMA ShowStep ==
    ASSUME NEW x \in Glyph, RowsWritten(mon') = Page!Put(RowsWritten(mon), x)
    PROVE  Window!Next
BY WindowIsPage DEF Window!Next, Window!Show

LEMMA NewLineStep ==
    ASSUME RowsWritten(mon') = Page!AddRow(RowsWritten(mon), <<>>)
    PROVE  Window!Next
BY WindowIsPage DEF Window!Next, Window!NewLine

LEMMA TypeStep ==
    ASSUME NEW x \in Glyph, Page!CanErase(RowsWritten(mon)),
           RowsWritten(mon') = Page!Put(Page!Put(Page!Erase(RowsWritten(mon)), x), Space)
    PROVE  Window!Next
BY WindowIsPage DEF Window!Next, Window!Type

LEMMA BackspaceStep ==
    ASSUME Page!CanErase(RowsWritten(mon)), Page!CanErase(Page!Erase(RowsWritten(mon))),
           RowsWritten(mon') = Page!Put(Page!Erase(Page!Erase(RowsWritten(mon))), Space)
    PROVE  Window!Next
BY WindowIsPage DEF Window!Next, Window!Backspace

LEMMA ReturnStep ==
    ASSUME Page!CanErase(RowsWritten(mon)),
           RowsWritten(mon') = Page!AddRow(Page!Erase(RowsWritten(mon)), <<>>)
    PROVE  Window!Next
BY WindowIsPage DEF Window!Next, Window!Return

LEMMA BlinkStep ==
    ASSUME NEW x \in {Space, Block}, Page!LastOf(RowsWritten(mon)) # <<>>,
           RowsWritten(mon') = Page!ButLast(RowsWritten(mon))
                             \o <<Page!ButLast(Page!LastOf(RowsWritten(mon))) \o <<x>>>>
    PROVE  Window!Next
BY WindowIsPage DEF Window!Next, Window!Blink

\* One character of a command's output, of the prompt, or the place-holder.
LEMMA SdlEmitStep ==
    ASSUME Inv, WindowInv, SdlEmit
    PROVE  WindowInv' /\ Window!Next
<1> DEFINE x == Head(todo)
<1>0. /\ sdl_ui /\ todo # <<>> /\ todo \in Seq(Char) /\ mon \in Texts /\ Filled(mon)
      /\ mon' = IF Len(todo) = 1 THEN EmitGlyph(mon, x) ELSE EmitChar(mon, x)
      /\ todo' = Tail(todo)
      /\ UNCHANGED <<sdl_ui, mon_inp_buf, mon_inp_active, pc, stuck>>
  BY DEF SdlEmit, Inv, TypeOK, Char, WindowInv, window, history
<1>1. /\ x \in Char /\ x = todo[1] /\ Tail(todo) \in Seq(Char)
      /\ Len(todo) \in Nat \ {0}
      /\ Len(Tail(todo)) = Len(todo) - 1
      /\ \A i \in 1 .. Len(Tail(todo)) : Tail(todo)[i] = todo[i + 1]
  <2>1. todo \in Seq(Char) /\ todo # <<>>
    BY <1>0
  <2>2. /\ Head(todo) \in Char /\ Tail(todo) \in Seq(Char)
        /\ Len(Tail(todo)) = Len(todo) - 1
        /\ \A i \in 1 .. Len(Tail(todo)) : Tail(todo)[i] = todo[i + 1]
    BY ONLY <2>1, HeadTailProperties
  <2>3. Len(todo) \in Nat \ {0}
    BY ONLY <2>1, EmptySeq
  <2>4. Head(todo) = todo[1]
    BY <2>1
  <2> QED BY <2>2, <2>3, <2>4
<1>2. Len(todo) = 1 <=> Tail(todo) = <<>>
  <2>1. Tail(todo) \in Seq(Char)
    BY <1>1
  <2>2. Tail(todo) = <<>> <=> Len(Tail(todo)) = 0
    BY ONLY <2>1, EmptySeq
  <2>3. Len(Tail(todo)) = Len(todo) - 1 /\ Len(todo) \in Nat
    BY <1>1
  <2> QED BY ONLY <2>2, <2>3
<1> HIDE DEF x
  \* A glyph.
<1>3. ASSUME x \in Glyph
      PROVE  /\ Window!Next /\ Filled(mon') /\ mon' \in Texts /\ mon'.col > 0
             /\ Len(todo) = 1 => Ended(mon')
             /\ \A t \in Seq(Glyph) :
                   EndsWith(mon, t) /\ Len(t) < Rows * Cols => EndsWith(mon', t \o <<x>>)
  <2>1. RowsWritten(mon') = Page!Put(RowsWritten(mon), x)
    BY <1>0, <1>3, EmitCharShows, EmitGlyphShows
  <2>2. Window!Next
    BY <1>3, <2>1, ShowStep
  <2>3. Filled(mon') /\ mon' \in Texts /\ mon'.col > 0 /\ (Len(todo) = 1 => Ended(mon'))
    BY <1>0, <1>3, EmitCharShows, EmitGlyphShows
  <2>4. ASSUME NEW t \in Seq(Glyph), EndsWith(mon, t), Len(t) < Rows * Cols
        PROVE  EndsWith(mon', t \o <<x>>)
    BY <1>0, <1>3, <2>4, EndsEmitChar, EndsEmitGlyph
  <2> QED BY <2>2, <2>3, <2>4
  \* A newline.
<1>4. ASSUME x = NL
      PROVE  Window!Next /\ Filled(mon') /\ mon'.col = 0
  <2>1. /\ RowsWritten(EmitChar(mon, NL)) = Page!AddRow(RowsWritten(mon), <<>>)
        /\ EmitChar(mon, NL) \in Texts /\ EmitChar(mon, NL).col = 0
        /\ Filled(EmitChar(mon, NL))
    BY <1>0, EmitNewlineShows
  <2>2. CASE Len(todo) = 1
    <3>1. mon' = EndEmit(EmitChar(mon, NL))
      BY <1>0, <1>4, <2>2 DEF EmitGlyph
    <3>2. RowsWritten(mon') = RowsWritten(EmitChar(mon, NL)) /\ mon'.col = 0 /\ Filled(mon')
      BY <2>1, <3>1, EndEmitShows, EndEmitEnds, EndIs
    <3> QED BY <2>1, <3>2, NewLineStep
  <2>3. CASE Len(todo) # 1
    <3>1. mon' = EmitChar(mon, NL)
      BY <1>0, <1>4, <2>3
    <3> QED BY <2>1, <3>1, NewLineStep
  <2> QED BY <2>2, <2>3
<1>5. x \in Glyph \/ x = NL
  BY <1>1 DEF Char
<1>6. Window!Next /\ Filled(mon')
  BY <1>3, <1>4, <1>5
<1>7. CASE pc = "get"
  <2>1. PICK m \in 0 .. Len(Prompt) : /\ todo = SubSeq(Prompt, m + 1, Len(Prompt))
                                      /\ EndsWith(mon, SubSeq(Prompt, 1, m))
                                      /\ m = Len(Prompt) => Ended(mon)
    BY <1>0, <1>7 DEF WindowInv
  <2>2. Prompt \in Seq(Glyph) /\ Len(Prompt) \in Nat /\ Len(Prompt) <= Rows * Cols
    <3>1. Prompt \in Seq(Glyph) /\ Len(Prompt) \in Nat /\ MaxMonInp \in Nat
          /\ Len(Prompt) + MaxMonInp <= Rows * Cols /\ Rows * Cols \in Nat
      BY PrintAssumption, InpAssumption, FitAssumption, Places
    <3> DEFINE M == Rows * Cols
    <3> HIDE DEF M
    <3>2. Len(Prompt) + MaxMonInp <= M /\ M \in Nat
      BY <3>1 DEF M
    <3>3. Len(Prompt) <= M
      BY <3>1, <3>2
    <3> QED BY <3>1, <3>3 DEF M
  <2>3. m < Len(Prompt) /\ x = Prompt[m + 1]
        /\ Tail(todo) = SubSeq(Prompt, (m + 1) + 1, Len(Prompt))
        /\ (Len(todo) = 1 <=> m + 1 = Len(Prompt))
    <3>1. m < Len(Prompt)
      <4>1. m = Len(Prompt) => SubSeq(Prompt, m + 1, Len(Prompt)) = <<>>
        BY <2>2
      <4> QED BY <1>0, <2>1, <2>2, <4>1
    <3>2. /\ Len(todo) = Len(Prompt) - m
          /\ \A i \in 1 .. Len(Prompt) - m : todo[i] = Prompt[m + i]
      BY <2>1, <2>2, <3>1
    <3>3. x = Prompt[m + 1]
      BY <1>1, <2>2, <3>1, <3>2
    <3> DEFINE r == SubSeq(Prompt, (m + 1) + 1, Len(Prompt))
    <3>4. /\ r \in Seq(Char) /\ Len(r) = Len(Prompt) - (m + 1)
          /\ \A i \in 1 .. Len(Prompt) - (m + 1) : r[i] = Prompt[m + 1 + i]
      <4>1. Prompt \in Seq(Char)
        BY Characters
      <4> QED BY <2>2, <3>1, <4>1
    <3> HIDE DEF r
    <3>5. Len(Tail(todo)) = Len(r)
      BY <1>1, <2>2, <3>2, <3>4
    <3>6. ASSUME NEW i \in 1 .. Len(r) PROVE Tail(todo)[i] = r[i]
      <4>1. i + 1 \in 1 .. Len(Prompt) - m /\ i \in 1 .. Len(Prompt) - (m + 1)
            /\ m + (i + 1) = m + 1 + i /\ i \in 1 .. Len(Tail(todo))
        BY <2>2, <3>1, <3>4, <3>5
      <4> QED BY <1>1, <3>2, <3>4, <4>1
    <3>7. Tail(todo) = r
      BY <1>1, <3>4, <3>5, <3>6, SeqEqual
    <3>8. Len(todo) = 1 <=> m + 1 = Len(Prompt)
      BY <2>2, <3>2
    <3> QED BY <3>1, <3>3, <3>7, <3>8 DEF r
  <2> DEFINE t == SubSeq(Prompt, 1, m)
             u == SubSeq(Prompt, 1, m + 1)
  <2>4. /\ t \in Seq(Glyph) /\ Len(t) = m /\ u \in Seq(Glyph) /\ Len(u) = m + 1
        /\ \A i \in 1 .. m : t[i] = Prompt[i]
        /\ \A i \in 1 .. m + 1 : u[i] = Prompt[i]
    BY <2>2, <2>3
  <2>5. x \in Glyph
    BY <2>2, <2>3
  <2> HIDE DEF t, u
  <2>6. u = t \o <<x>>
    <3>1. /\ t \o <<x>> \in Seq(Glyph) /\ Len(t \o <<x>>) = m + 1
          /\ \A i \in 1 .. m + 1 : (t \o <<x>>)[i] = IF i = m + 1 THEN x ELSE t[i]
      BY <2>4, <2>5, AppendIs
    <3>2. \A i \in 1 .. m + 1 : i # m + 1 => i \in 1 .. m
      OBVIOUS
    <3>3. \A i \in 1 .. m + 1 : u[i] = (t \o <<x>>)[i]
      BY <2>3, <2>4, <3>1, <3>2
    <3> QED BY <2>4, <3>1, <3>3, SeqEqual
  <2>7. EndsWith(mon', u)
    <3>1. EndsWith(mon, t)
      BY <2>1 DEF t
    <3>2. Len(t) < Rows * Cols
      BY <2>2, <2>3, <2>4, Places
    <3> QED BY <1>3, <2>4, <2>5, <2>6, <3>1, <3>2
  <2>8. m + 1 \in 0 .. Len(Prompt)
    BY <2>2, <2>3
  <2>9. m + 1 = Len(Prompt) => Ended(mon')
    BY <1>3, <2>3, <2>5
  <2> QED BY <1>0, <1>6, <1>7, <2>3, <2>7, <2>8, <2>9 DEF WindowInv, u
<1>8. CASE pc = "wait"
  <2>1. /\ todo = <<Space>> /\ Ended(mon) /\ EndsWith(mon, Prompt)
        /\ mon_inp_buf = <<>> /\ ~stuck
    BY <1>0, <1>8 DEF WindowInv
  <2>2. Len(todo) = 1 /\ x = Space /\ Space \in Glyph /\ Tail(todo) = <<>>
    BY <1>1, <1>2, <2>1, GlyphAssumption
  <2>3. mon' = EmitGlyph(mon, Space) /\ Ended(mon')
    BY <1>0, <1>3, <2>2
  <2>4. <<>> \in Seq(Key) /\ Len(<<>>) < MaxMonInp
    BY InpAssumption
  <2>5. Line(<<>>) = Prompt
    BY PrintAssumption DEF Line
  <2>6. EndsLine(mon, <<>>, FALSE)
    BY <2>1, <2>5 DEF EndsLine
  <2>7. EndsCursorLine(mon', <<>>, FALSE)
    <3>1. EndsCursorLine(EmitGlyph(mon, Space), <<>>, FALSE)
      BY <1>0, <2>4, <2>6, Placed
    <3> QED BY <2>3, <3>1
  <2>8. LineInv'
    <3>1. mon_inp_buf' = <<>> /\ stuck' = FALSE
      BY <1>0, <2>1 DEF Inv, TypeOK
    <3> QED BY <2>7, <3>1, LineInvIsNext
  <2> QED BY <1>0, <1>6, <1>8, <2>2, <2>3, <2>8 DEF WindowInv
<1>9. CASE pc \notin {"get", "wait"}
  <2>1. pc = "loop"
        => IF Tail(todo) = <<>> THEN mon'.col = 0 ELSE Tail(todo)[Len(Tail(todo))] = NL
    <3> SUFFICES ASSUME pc = "loop"
                 PROVE  IF Tail(todo) = <<>> THEN mon'.col = 0
                        ELSE Tail(todo)[Len(Tail(todo))] = NL
      OBVIOUS
    <3>1. todo[Len(todo)] = NL
      BY <1>0 DEF WindowInv
    <3>2. CASE Len(todo) = 1
      BY <1>1, <1>2, <1>4, <3>1, <3>2
    <3>3. CASE Len(todo) # 1
      <4>1. Len(Tail(todo)) \in 1 .. Len(Tail(todo)) /\ Len(Tail(todo)) + 1 = Len(todo)
        BY <1>1, <3>3
      <4> QED BY <1>1, <1>2, <3>1, <3>3, <4>1
    <3> QED BY <3>2, <3>3
  <2>2. pc \notin {"place", "woken", "obey"}
    BY <1>0 DEF WindowInv
  <2> QED BY <1>0, <1>6, <1>9, <2>1, <2>2 DEF WindowInv
<1> QED BY <1>6, <1>7, <1>8, <1>9

\* While the monitor waits for the user.
LEMMA WaitingIs ==
    ASSUME Inv, WindowInv, Waiting
    PROVE  /\ pc = "wait" /\ todo = <<>> /\ sdl_ui
           /\ mon \in Texts /\ Ended(mon) /\ stuck \in BOOLEAN
           /\ mon_inp_buf \in Seq(Key) /\ Len(mon_inp_buf) < MaxMonInp
           /\ EndsCursorLine(mon, mon_inp_buf, stuck)
           /\ Erased \in Texts /\ Ended(Erased) /\ Filled(Erased)
           /\ EndsLine(Erased, mon_inp_buf, stuck)
           /\ RowsWritten(Erased) = Page!Erase(RowsWritten(mon))
           /\ Page!CanErase(RowsWritten(mon)) /\ Page!LastOf(RowsWritten(mon)) # <<>>
           /\ mon.col > 0
<1>1. /\ pc = "wait" /\ todo = <<>> /\ sdl_ui
      /\ mon \in Texts /\ Ended(mon) /\ stuck \in BOOLEAN
      /\ mon_inp_buf \in Seq(Key) /\ Len(mon_inp_buf) < MaxMonInp
      /\ LineInv
  BY DEF Waiting, WindowInv, Inv, TypeOK
<1>2. EndsCursorLine(mon, mon_inp_buf, stuck)
  BY <1>1, LineInvIs
<1>3. mon.col > 0
  BY <1>2 DEF EndsCursorLine
<1> QED BY <1>1, <1>2, <1>3, Unplaced DEF Erased

\* The user goes on waiting for more keys.
LEMMA WaitsOn ==
    ASSUME Inv, WindowInv, Waiting, UNCHANGED <<sdl_ui, pc, todo>>,
           Filled(mon'), Ended(mon'), EndsCursorLine(mon', mon_inp_buf', stuck')
    PROVE  WindowInv'
<1>1. pc = "wait" /\ todo = <<>> /\ sdl_ui
  BY WaitingIs
<1>2. LineInv'
  BY LineInvIsNext
<1> QED BY <1>1, <1>2 DEF WindowInv

LEMMA TypeKeyStep ==
    ASSUME Inv, WindowInv, TypeKey
    PROVE  WindowInv' /\ Window!Next
<1>0. /\ Waiting /\ Len(mon_inp_buf) < MaxMonInp - 1
      /\ UNCHANGED <<sdl_ui, pc, todo, stuck>>
  BY DEF TypeKey, history
<1>1. PICK k \in Key : /\ mon_inp_buf' = Append(mon_inp_buf, k)
                       /\ mon' = EmitGlyph(EmitGlyph(Erased, k), Space)
  BY DEF TypeKey
<1>2. /\ mon_inp_buf \in Seq(Key) /\ stuck \in BOOLEAN /\ Len(mon_inp_buf) < MaxMonInp
      /\ Erased \in Texts /\ Filled(Erased) /\ EndsLine(Erased, mon_inp_buf, stuck)
      /\ RowsWritten(Erased) = Page!Erase(RowsWritten(mon)) /\ Page!CanErase(RowsWritten(mon))
  BY <1>0, WaitingIs
<1> DEFINE m == EmitGlyph(Erased, k)
           l == mon_inp_buf \o <<k>>
<1>3. k \in Glyph /\ Space \in Glyph
  BY Characters
<1>4. /\ m \in Texts /\ Filled(m)
      /\ RowsWritten(m) = Page!Put(Page!Erase(RowsWritten(mon)), k)
  BY <1>2, <1>3, EmitGlyphShows
<1>5. EndsLine(m, l, stuck)
  BY <1>2, Typed
<1>6. l \in Seq(Key) /\ Len(l) < MaxMonInp /\ mon_inp_buf' = l
  <2>1. Len(mon_inp_buf) \in Nat /\ MaxMonInp \in Nat
    BY <1>2, InpAssumption
  <2>2. l \in Seq(Key) /\ Len(l) = Len(mon_inp_buf) + 1
    BY <1>2, AppendIs
  <2>3. Append(mon_inp_buf, k) = l
    BY <1>2
  <2> HIDE DEF l
  <2> QED BY <1>0, <1>1, <2>1, <2>2, <2>3
<1>7. mon' = EmitGlyph(m, Space)
  BY <1>1
<1> HIDE DEF m, l
<1>8. /\ RowsWritten(mon') = Page!Put(Page!Put(Page!Erase(RowsWritten(mon)), k), Space)
      /\ Filled(mon') /\ Ended(mon')
  BY <1>3, <1>4, <1>7, EmitGlyphShows
<1>9. EndsCursorLine(mon', mon_inp_buf', stuck')
  <2>1. EndsCursorLine(EmitGlyph(m, Space), l, stuck)
    BY <1>2, <1>4, <1>5, <1>6, Placed
  <2> QED BY <1>0, <1>6, <1>7, <2>1
<1>10. WindowInv'
  BY <1>0, <1>8, <1>9, WaitsOn
<1>11. Window!Next
  BY <1>2, <1>3, <1>8, TypeStep
<1> QED BY <1>10, <1>11

LEMMA BackspaceKeyStep ==
    ASSUME Inv, WindowInv, Backspace
    PROVE  WindowInv' /\ Window!Next
<1> DEFINE b == mon_inp_buf
           l == Page!ButLast(b)
           k == Page!LastOf(b)
           z == UnemitOne(Erased)
<1>0. /\ Waiting /\ b # <<>>
      /\ mon_inp_buf' = FirstOf(b, Len(b) - 1)
      /\ mon' = EmitGlyph(z, Space)
      /\ stuck' = (stuck \/ CannotUnemit(Erased))
      /\ UNCHANGED <<sdl_ui, pc, todo>>
  BY DEF Backspace
<1>1. /\ b \in Seq(Key) /\ stuck \in BOOLEAN /\ Len(b) < MaxMonInp
      /\ mon \in Texts /\ mon.col > 0
      /\ Erased \in Texts /\ Ended(Erased) /\ EndsLine(Erased, b, stuck)
      /\ RowsWritten(Erased) = Page!Erase(RowsWritten(mon)) /\ Page!CanErase(RowsWritten(mon))
      /\ Page!LastOf(RowsWritten(mon)) # <<>>
  BY <1>0, WaitingIs
<1>2. /\ b = l \o <<k>> /\ l \in Seq(Key) /\ k \in Key
      /\ Len(l) = Len(b) - 1 /\ Len(b) \in Nat \ {0}
  BY <1>0, <1>1, SplitLast, ButLastIs
<1>3. mon_inp_buf' = l
  <2>1. Len(b) - 1 \in Nat /\ ~(Len(b) < Len(b) - 1)
    BY <1>2
  <2> QED BY <1>0, <2>1 DEF FirstOf, Page!ButLast
<1>4. Space \in Glyph /\ Len(l) < MaxMonInp
  BY <1>1, <1>2, GlyphAssumption, InpAssumption
<1> HIDE DEF b, l, k
<1>5. /\ z \in Texts /\ Filled(z)
      /\ EndsLine(z, l, stuck \/ CannotUnemit(Erased))
      /\ CannotUnemit(Erased) => z = Erased
      /\ ~CannotUnemit(Erased) => /\ RowsWritten(z) = Page!Erase(RowsWritten(Erased))
                                  /\ Page!CanErase(RowsWritten(Erased))
  <2>1. EndsLine(Erased, l \o <<k>>, stuck) /\ Len(l \o <<k>>) < MaxMonInp
    BY <1>1, <1>2
  <2> QED BY <1>1, <1>2, <2>1, Untyped
<1>6. stuck' \in BOOLEAN /\ EndsLine(z, l, stuck')
  BY <1>0, <1>5 DEF CannotUnemit
<1> HIDE DEF z
<1>7. /\ RowsWritten(mon') = Page!Put(RowsWritten(z), Space)
      /\ Filled(mon') /\ Ended(mon')
  BY <1>0, <1>4, <1>5, EmitGlyphShows
<1>8. EndsCursorLine(mon', mon_inp_buf', stuck')
  <2>1. EndsCursorLine(EmitGlyph(z, Space), l, stuck')
    BY <1>2, <1>4, <1>5, <1>6, Placed
  <2> QED BY <1>0, <1>3, <2>1
<1>9. WindowInv'
  BY <1>0, <1>7, <1>8, WaitsOn
<1>10. Window!Next
  <2>1. CASE CannotUnemit(Erased)
    <3>1. RowsWritten(mon') = Page!Put(Page!Erase(RowsWritten(mon)), Space)
      BY <1>1, <1>5, <1>7, <2>1
    <3>2. RowsWritten(mon') = Page!ButLast(RowsWritten(mon))
                            \o <<Page!ButLast(Page!LastOf(RowsWritten(mon))) \o <<Space>>>>
      BY <1>1, <1>4, <3>1, PutErased
    <3> QED BY <1>1, <3>2, BlinkStep
  <2>2. CASE ~CannotUnemit(Erased)
    <3>1. /\ RowsWritten(mon') = Page!Put(Page!Erase(Page!Erase(RowsWritten(mon))), Space)
          /\ Page!CanErase(Page!Erase(RowsWritten(mon)))
      BY <1>1, <1>5, <1>7, <2>2
    <3> QED BY <1>1, <3>1, BackspaceStep
  <2> QED BY <2>1, <2>2
<1> QED BY <1>9, <1>10

LEMMA EndLineStep ==
    ASSUME Inv, WindowInv, EndLine
    PROVE  WindowInv' /\ Window!Next
<1>0. /\ Waiting /\ pc' = "woken" /\ mon' = NextMonRowData(Erased)
      /\ UNCHANGED <<sdl_ui, todo>>
  BY DEF EndLine
<1>1. /\ pc = "wait" /\ todo = <<>> /\ sdl_ui /\ Erased \in Texts /\ Ended(Erased)
      /\ RowsWritten(Erased) = Page!Erase(RowsWritten(mon)) /\ Page!CanErase(RowsWritten(mon))
  BY <1>0, WaitingIs
<1>2. /\ RowsWritten(mon') = Page!AddRow(Page!Erase(RowsWritten(mon)), <<>>)
      /\ mon'.col = 0 /\ Filled(mon')
  BY <1>0, <1>1, NextRowShows, NextRowType, NextRowFills
<1>3. WindowInv'
  BY <1>0, <1>1, <1>2 DEF WindowInv
<1>4. Window!Next
  BY <1>1, <1>2, ReturnStep
<1> QED BY <1>3, <1>4

LEMMA RenderStep ==
    ASSUME Inv, WindowInv, Render
    PROVE  WindowInv' /\ (Window!Next \/ RowsWritten(mon') = RowsWritten(mon))
<1> DEFINE x == IF mon_show_cursor THEN Block ELSE Space
<1>0. /\ mon_inp_active /\ mon' = RenderCursor(mon, x)
      /\ UNCHANGED <<sdl_ui, mon_inp_buf, mon_inp_active, pc, todo, stuck>>
  BY DEF Render, window, history
<1>1. /\ x \in {Space, Block} /\ x \in Glyph /\ mon \in Texts
      /\ pc \in {"place", "wait", "woken"} /\ sdl_ui
  BY <1>0, GlyphAssumption DEF Inv, TypeOK, WindowInv
<1>2. /\ mon' \in Texts /\ mon'.col = mon.col
  BY <1>0, <1>1, CursorIs
<1> HIDE DEF x
<1>3. mon.col \in Nat
  BY <1>1, RingIs, TextSizeAssumption
<1>4. CASE pc = "woken"
  <2>1. todo = <<>> /\ mon.col = 0
    BY <1>1, <1>4 DEF WindowInv
  <2>2. RowsWritten(mon') = RowsWritten(mon)
    BY <1>0, <1>1, <2>1, CursorHides
  <2>3. Filled(mon')
    BY <1>2, <2>1 DEF Filled
  <2> QED BY <1>0, <1>2, <1>4, <2>1, <2>2, <2>3 DEF WindowInv
<1>5. CASE pc \in {"place", "wait"}
  <2>1. Ended(mon)
    BY <1>5 DEF WindowInv
  <2>2. Window!Next \/ RowsWritten(mon') = RowsWritten(mon)
    <3>1. CASE mon.col > 0
      BY <1>0, <1>1, <2>1, <3>1, CursorShows, BlinkStep
    <3>2. CASE mon.col = 0
      BY <1>0, <1>1, <3>2, CursorHides
    <3> QED BY <1>3, <3>1, <3>2
  <2>3. CASE pc = "place" \/ todo # <<>>
    <3>1. EndsWith(mon, Prompt) /\ mon_inp_buf = <<>> /\ ~stuck
      BY <1>5, <2>3 DEF WindowInv
    <3>2. Prompt \in Seq(Glyph) /\ Prompt # <<>> /\ Prompt[Len(Prompt)] \in {Space, Block}
      BY PrintAssumption
    <3>3. EndsWith(mon', Prompt) /\ Ended(mon')
      BY <1>0, <1>1, <2>1, <3>1, <3>2, RenderedText
    <3>4. Filled(mon')
      BY <1>2, <3>3, EndedIsFilled
    <3>5. pc = "wait" => todo = <<Space>>
      BY <2>3 DEF WindowInv
    <3>6. pc = "place" => todo = <<>>
      BY DEF WindowInv
    <3> QED BY <1>0, <1>1, <1>5, <2>2, <2>3, <3>1, <3>3, <3>4, <3>5, <3>6 DEF WindowInv
  <2>4. CASE pc = "wait" /\ todo = <<>>
    <3>1. Waiting
      BY <2>4 DEF Waiting
    <3>2. /\ EndsCursorLine(mon, mon_inp_buf, stuck) /\ stuck \in BOOLEAN
          /\ mon_inp_buf \in Seq(Key) /\ Len(mon_inp_buf) < MaxMonInp
      BY <3>1, WaitingIs
    <3>3. EndsCursorLine(mon', mon_inp_buf, stuck) /\ Ended(mon')
      BY <1>0, <1>1, <2>1, <3>2, RenderedLine
    <3>4. Filled(mon')
      BY <1>2, <3>3, EndedIsFilled
    <3>5. WindowInv'
      BY <1>0, <3>1, <3>3, <3>4, WaitsOn
    <3> QED BY <2>2, <3>5
  <2> QED BY <1>5, <2>3, <2>4
<1> QED BY <1>1, <1>4, <1>5

Rendered == RowsWritten(mon)

LEMMA WindowStep ==
    Inv /\ LoopInv /\ WindowInv /\ [Next]_vars => WindowInv' /\ [Window!Next]_Rendered
<1> SUFFICES ASSUME Inv, LoopInv, WindowInv, [Next]_vars
             PROVE  WindowInv' /\ [Window!Next]_Rendered
  OBVIOUS
<1>1. CASE OtherStep
  <2>1. mon' = mon
    BY <1>1 DEF OtherStep, CuRunMon, Cli, TakePrevious, Ask, ObeyEof, ObeyDot, ObeyQuit,
                ObeyOther, Quit, CliPutMsg, TypeLine, CliGetInp, SdlActivate, SdlPlace,
                SdlGetInp, FlipCursorBlink, vars
  <2>2. WindowInv'
    BY <1>1, OtherKeepsWindow
  <2> QED BY <2>1, <2>2 DEF Rendered
<1>2. CASE SdlEmit
  BY <1>2, SdlEmitStep
<1>3. CASE TypeKey
  BY <1>3, TypeKeyStep
<1>4. CASE Backspace
  BY <1>4, BackspaceKeyStep
<1>5. CASE EndLine
  BY <1>5, EndLineStep
<1>6. CASE Render
  BY <1>6, RenderStep DEF Rendered
<1> QED BY <1>1, <1>2, <1>3, <1>4, <1>5, <1>6 DEF Next, Sdl, OtherStep

\* What the window draws.
LEMMA DrawnInit == Init => DrawnInv
BY UnusedBlank, Characters DEF Init, DrawnInv

LEMMA DrawnStep ==
    Inv /\ WindowInv /\ WindowInv' /\ DrawnInv /\ [Next]_vars => DrawnInv'
<1> SUFFICES ASSUME Inv, WindowInv, WindowInv', DrawnInv, [Next]_vars
             PROVE  DrawnInv'
  OBVIOUS
<1>0. mon \in Texts /\ Filled(mon) /\ Unused(mon) /\ Space \in Char
      /\ \A k \in Key : k \in Char
  BY GlyphAssumption, KeyAssumption DEF Inv, TypeOK, WindowInv, DrawnInv, Char
<1>1. CASE OtherStep
  <2>1. /\ UNCHANGED <<sdl_ui, mon, reused>>
        /\ sdl_ui /\ todo' = <<>> => todo = <<>>
    BY <1>1 DEF OtherStep, CuRunMon, Cli, TakePrevious, Ask, ObeyEof, ObeyDot, ObeyQuit,
                ObeyOther, Quit, CliPutMsg, TypeLine, CliGetInp, SdlActivate, SdlPlace,
                SdlGetInp, FlipCursorBlink, Goto, vars, history
  <2> QED BY <2>1 DEF DrawnInv
<1>2. CASE SdlEmit
  <2> DEFINE x == Head(todo)
  <2>1. /\ todo \in Seq(Char) /\ todo # <<>> /\ todo' = Tail(todo)
        /\ mon' = IF Len(todo) = 1 THEN EmitGlyph(mon, x) ELSE EmitChar(mon, x)
    BY <1>2 DEF SdlEmit, Inv, TypeOK, Char
  <2>2. x \in Char /\ (Tail(todo) = <<>> => Len(todo) = 1)
    <3>1. todo \in Seq(Char) /\ todo # <<>>
      BY <2>1
    <3>2. x \in Char /\ Len(Tail(todo)) = Len(todo) - 1 /\ Len(todo) \in Nat
      BY ONLY <3>1, HeadTailProperties
    <3>3. Tail(todo) \in Seq(Char)
      BY ONLY <3>1, HeadTailProperties
    <3>4. Tail(todo) = <<>> <=> Len(Tail(todo)) = 0
      BY ONLY <3>3, EmptySeq
    <3> HIDE DEF x
    <3> QED BY ONLY <3>2, <3>4
  <2> HIDE DEF x
  <2>3. Unused(mon')
    BY <1>0, <2>1, <2>2, UnusedEmitChar, UnusedEmitGlyph
  <2>4. EmitChar(mon, x) \in Texts /\ Filled(EmitChar(mon, x))
    BY <1>0, <2>2, EmitCharShows, EmitNewlineShows DEF Char
  <2>5. todo' = <<>> => Ended(mon')
    BY <2>1, <2>2, <2>4, EndEmitEnds DEF EmitGlyph
  <2> QED BY <2>3, <2>5 DEF DrawnInv
<1>3. CASE TypeKey \/ Backspace \/ EndLine
  <2>1. Waiting
    BY <1>3 DEF TypeKey, Backspace, EndLine
  <2>2. pc = "wait" /\ Ended(mon) /\ Erased \in Texts /\ Ended(Erased)
    BY <2>1, WaitingIs
  <2>3. Unused(Erased)
    BY <1>0, <2>2, UnusedUnemit DEF Erased
  <2>4. CASE TypeKey
    <3>1. PICK k \in Key : mon' = EmitGlyph(EmitGlyph(Erased, k), Space)
      BY <2>4 DEF TypeKey
    <3>2. Unused(mon')
      BY <1>0, <2>2, <2>3, <3>1, UnusedEmitGlyph
    <3>3. pc' = "wait"
      BY <2>2, <2>4 DEF TypeKey
    <3> QED BY <3>2, <3>3 DEF DrawnInv, WindowInv
  <2>5. CASE Backspace
    <3>1. mon' = EmitGlyph(UnemitOne(Erased), Space)
      BY <2>5 DEF Backspace
    <3>2. Unused(mon')
      BY <1>0, <2>2, <2>3, <3>1, UnusedUnemit, UnusedEmitGlyph
    <3>3. pc' = "wait"
      BY <2>2, <2>5 DEF Backspace
    <3> QED BY <3>2, <3>3 DEF DrawnInv, WindowInv
  <2>6. CASE EndLine
    <3>1. mon' = NextMonRowData(Erased) /\ reused' = (NumMonRows(Erased) = Rows)
      BY <2>6 DEF EndLine
    <3> QED BY <2>2, <2>3, <3>1, UnusedNextRow DEF DrawnInv
  <2> QED BY <1>3, <2>4, <2>5, <2>6
<1>4. CASE Render
  <2> DEFINE x == IF mon_show_cursor THEN Block ELSE Space
  <2>1. /\ mon_inp_active /\ mon' = RenderCursor(mon, x)
        /\ UNCHANGED <<sdl_ui, pc, todo, reused>>
    BY <1>4 DEF Render, history
  <2>2. x \in Glyph /\ pc \in {"place", "wait", "woken"}
    BY <2>1, GlyphAssumption DEF WindowInv
  <2> HIDE DEF x
  <2>3. Unused(mon')
    BY <1>0, <2>1, <2>2, UnusedCursor
  <2>4. CASE pc \in {"place", "wait"}
    BY <2>1, <2>3, <2>4 DEF DrawnInv, WindowInv
  <2>5. CASE pc = "woken"
    <3>1. sdl_ui /\ todo = <<>> /\ mon.col = 0
      BY <2>2, <2>5 DEF WindowInv
    <3>2. ASSUME Ended(mon) PROVE mon' = mon
      <4>1. mon.row \in Row /\ 0 \in 0 .. Cols /\ IsWidth(mon, mon.row, 0)
        BY <1>0, <3>1, <3>2, RingIs DEF Ended
      <4>2. Width(mon, mon.row) = 0
        BY <1>0, <4>1, WidthOf
      <4> QED BY <1>0, <2>1, <2>2, <4>2, CursorIs
    <3> QED BY <2>1, <2>3, <3>1, <3>2 DEF DrawnInv
  <2> QED BY <2>2, <2>4, <2>5
<1> QED BY <1>1, <1>2, <1>3, <1>4 DEF Next, Sdl, OtherStep

LEMMA WindowAlways == Spec => []WindowInv
BY InvAlways, LoopInit, LoopStep, WindowInit, WindowStep, PTL DEF Spec, Inv

\* While the monitor waits, the user sees the prompt, the line that RETURN would
\* enter and the cursor, in any window that they fit, wherever the ring of rows
\* has turned to, as long as no erasure has met the start of row 0.
THEOREM ScreenAlwaysShowsLine == Spec => []ScreenShowsLine
<1>1. Inv /\ WindowInv => ScreenShowsLine
  BY WaitingIs DEF EndsCursorLine, ScreenShowsLine, ShowsLine, EndsWith, Line
<1> QED BY <1>1, InvAlways, WindowAlways, PTL

\* Whatever is printed, typed, erased and rendered, what is written to the ring of
\* rows is a plain text of which only the last rows are kept.
THEOREM WindowIsText == Spec => ImplementsScreen
<1>1. Init => Window!Init
  <2> SUFFICES ASSUME Init PROVE RowsWritten(mon) = <<<<>>>>
    BY DEF Window!Init
  <2>1. mon \in Texts /\ mon.row = 0 /\ mon.init = 0 /\ mon.col = 0
    BY BlankType DEF Init, Blank
  <2>2. NumMonRows(mon) = 1
    BY <2>1 DEF NumMonRows
  <2>3. RowsWritten(mon) \in Seq(Seq(Cell)) /\ Len(RowsWritten(mon)) = 1
    BY <2>1, <2>2, ShownIs DEF Shown
  <2>4. RowsWritten(mon)[1] = <<>>
    BY <2>1, <2>3, LastRow DEF Page!LastOf
  <2> DEFINE t == RowsWritten(mon)
  <2> HIDE DEF t
  <2>5. t \in Seq(Seq(Cell)) /\ Len(t) = 1 /\ t[1] = <<>>
    BY <2>3, <2>4 DEF t
  <2>6. t = <<<<>>>>
    BY <2>5
  <2> QED BY <2>6 DEF t
<1> QED BY <1>1, WindowStep, InvAlways, LoopInit, LoopStep, WindowAlways, PTL
        DEF Spec, ImplementsScreen, Window!Spec, Rendered, Inv

\* That text is what the window draws, each row up to its first NIL, but while a
\* message is being written, and from a RETURN that has taken the oldest row to the
\* next message: then the current row may go on with what it held before.
THEOREM WindowDrawsText == Spec => []DrawsText
<1>1. Inv /\ WindowInv /\ DrawnInv => DrawsText
  BY EndedShows, FilledCovers DEF Inv, TypeOK, WindowInv, DrawnInv, DrawsText
<1>2. Spec => []DrawnInv
  BY DrawnInit, DrawnStep, InvAlways, WindowAlways, PTL DEF Spec
<1> QED BY <1>1, <1>2, InvAlways, WindowAlways, PTL
=============================================================================
