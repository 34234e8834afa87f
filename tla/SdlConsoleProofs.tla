-------------------------- MODULE SdlConsoleProofs --------------------------
(***************************************************************************)
(* Proofs about the console with a window, for every size of its buffers,  *)
(* every number of attempts of the tear-down, and every environment.       *)
(***************************************************************************)
EXTENDS SdlConsole, SequenceTheorems, TLAPS

Inv == TypeOK /\ MeasureInv

\* What Goto and Finish do to the program counters and the exit statuses.
LEMMA GotoMoves ==
    ASSUME TypeOK, NEW t \in Thread, NEW here, NEW there, Goto(t, here, there)
    PROVE  /\ pc[t] = here
           /\ pc["main"] # "done" /\ ~undefined
           /\ pc'[t] = there
           /\ \A u \in Thread \ {t} : pc'[u] = pc[u]
BY DEF TypeOK, Goto, Alive, Thread

LEMMA GotoType ==
    ASSUME TypeOK, NEW t \in Thread, NEW here, NEW there, Goto(t, here, there),
           \/ t = "main" /\ there \in MainLabel
           \/ t = "executor" /\ there \in ExecutorLabel
           \/ t = "monitor" /\ there \in MonitorLabel
    PROVE  /\ pc' \in [Thread -> MainLabel \cup MonitorLabel \cup ExecutorLabel]
           /\ pc'["main"] \in MainLabel
           /\ pc'["monitor"] \in MonitorLabel
           /\ pc'["executor"] \in ExecutorLabel
BY DEF TypeOK, Goto, Thread

LEMMA FinishMoves ==
    ASSUME TypeOK, NEW t \in Thread, NEW here, NEW how, Finish(t, here, how)
    PROVE  /\ Goto(t, here, "done")
           /\ status'[t] = how
           /\ \A u \in Thread \ {t} : status'[u] = status[u]
BY DEF TypeOK, Finish, Thread

LEMMA FinishType ==
    ASSUME TypeOK, NEW t \in Thread, NEW here, NEW how \in Exited, Finish(t, here, how)
    PROVE  /\ pc' \in [Thread -> MainLabel \cup MonitorLabel \cup ExecutorLabel]
           /\ pc'["main"] \in MainLabel
           /\ pc'["monitor"] \in MonitorLabel
           /\ pc'["executor"] \in ExecutorLabel
           /\ status' \in [Thread -> {"none"} \cup Exited]
<1>1. Goto(t, here, "done")
  BY DEF Finish
<1>2. "done" \in MainLabel /\ "done" \in ExecutorLabel /\ "done" \in MonitorLabel
  BY DEF MainLabel, ExecutorLabel, MonitorLabel
<1>3. t \in {"main", "executor", "monitor"}
  BY DEF Thread
<1>4. status' \in [Thread -> {"none"} \cup Exited]
  BY DEF TypeOK, Finish
<1> QED BY <1>1, <1>2, <1>3, <1>4, GotoType

\* A text event brings a sequence of at least one byte.
LEMMA TextType ==
    ASSUME NEW s \in Text
    PROVE  s \in Seq(Key) /\ Len(s) \in 1 .. MaxText
<1>1. PICK k \in 1 .. MaxText : s \in [1 .. k -> Key]
  BY DEF Text
<1>2. k \in Nat /\ MaxText \in Nat
  BY SizeAssumption
<1> QED BY <1>1, <1>2

LEMMA EventTypes ==
    /\ NoEvent \in Event
    /\ \A e \in Event : /\ e.type \in {"text", "return", "ctrl_d", "backspace"}
                        /\ e.type = "text" => e.text \in Text
BY DEF Event, NoEvent

\* The first k elements of a sequence are a sequence of at most k.
LEMMA FirstOfType ==
    ASSUME NEW s \in Seq(Key), NEW k \in Nat
    PROVE  FirstOf(s, k) \in Seq(Key) /\ Len(FirstOf(s, k)) <= Len(s)
BY DEF FirstOf

-----------------------------------------------------------------------------
(***************************************************************************)
(* Types, and the bounds of the line.                                      *)
(***************************************************************************)
LEMMA InvInit == Init => Inv
<1> SUFFICES ASSUME Init PROVE Inv
  OBVIOUS
<1>1. mon_inp_buf = <<>> /\ <<>> \in Seq(Key) /\ Len(<<>>) = 0
  BY DEF Init
<1>2. 0 \in 0 .. MaxMonInp /\ 0 \in 0 .. MaxAttempts /\ 0 < MaxMonInp
  BY SizeAssumption
<1>3. /\ pc["main"] = "set_up" /\ pc["monitor"] = "unborn" /\ pc["executor"] = "unborn"
      /\ pc \in [Thread -> MainLabel \cup MonitorLabel \cup ExecutorLabel]
  BY DEF Init, Thread, MainLabel, MonitorLabel, ExecutorLabel
<1>4. TypeOK
  BY <1>1, <1>2, <1>3 DEF Init, TypeOK, MainLabel, MonitorLabel, ExecutorLabel
<1>5. MeasureInv
  BY <1>1, <1>2, <1>3 DEF MeasureInv, LineFitsBuffer
<1> QED BY <1>4, <1>5 DEF Inv

LEMMA SetUpInv ==
    Inv /\ (SetUp \/ SpawnMonitor \/ SpawnExecutor \/ EnvError) => Inv'
<1> SUFFICES ASSUME Inv, SetUp \/ SpawnMonitor \/ SpawnExecutor \/ EnvError PROVE Inv'
  OBVIOUS
<1> "main" \in Thread /\ "monitor" \in Thread /\ "executor" \in Thread
  BY DEF Thread
<1> USE DEF Inv, TypeOK, MeasureInv, LineFitsBuffer, line, objects, mainLocals,
            monLocals, history
<1>1. CASE SetUp
  <2>1. Goto("main", "set_up", "spawn_monitor")
    BY <1>1 DEF SetUp
  <2>2. pc'["main"] = "spawn_monitor"
    BY <2>1, GotoMoves
  <2> QED BY <1>1, <2>1, <2>2, GotoType DEF SetUp, MainLabel
<1>2. CASE SpawnMonitor
  BY <1>2 DEF SpawnMonitor, Thread, MainLabel, MonitorLabel
<1>3. CASE SpawnExecutor
  BY <1>3 DEF SpawnExecutor, Thread, MainLabel, ExecutorLabel
<1>4. CASE EnvError
  <2>1. PICK here : Finish("main", here, "failure")
    BY <1>4 DEF EnvError
  <2> QED BY <1>4, <2>1, FinishType, FinishMoves, GotoMoves DEF EnvError, Exited
<1> QED BY <1>1, <1>2, <1>3, <1>4

LEMMA EventInv == Inv /\ (TakeEvent \/ QuitEvent \/ ProcEvt) => Inv'
<1> SUFFICES ASSUME Inv, TakeEvent \/ QuitEvent \/ ProcEvt PROVE Inv'
  OBVIOUS
<1> "main" \in Thread /\ "monitor" \in Thread /\ "executor" \in Thread
  BY DEF Thread
<1> USE DEF Inv, TypeOK, MeasureInv, LineFitsBuffer, line, objects, mainLocals,
            monLocals, history
<1>1. CASE TakeEvent
  <2>1. PICK e \in Event :
          /\ Goto("main", "loop", CASE e.type = "return" -> "signal"
                                    [] e.type = "ctrl_d" -> "set_eof"
                                    [] OTHER -> "measure")
          /\ evt' = e
    BY <1>1 DEF TakeEvent
  <2>2. PICK there \in {"signal", "set_eof", "measure"} : Goto("main", "loop", there)
    BY <2>1, EventTypes
  <2>3. mishaps' \subseteq Mishap /\ ("wide" \notin mishaps' => "wide" \notin mishaps)
    BY <1>1 DEF TakeEvent, Note, Mishap
  <2>4. pc'["main"] = there
    BY <2>2, GotoMoves
  <2> QED BY <1>1, <2>1, <2>2, <2>3, <2>4, GotoType DEF TakeEvent, MainLabel
<1>2. CASE QuitEvent
  BY <1>2, GotoType, GotoMoves DEF QuitEvent, MainLabel
<1>3. CASE Measure
  <2>1. Len(mon_inp_buf) \in 0 .. MaxMonInp
    BY SizeAssumption
  <2>2. CASE evt.type = "text" /\ Len(mon_inp_buf) < MaxMonInp - 1
    <3>1. Goto("main", "measure", "lock") /\ mon_inp_size' = Len(mon_inp_buf) /\ evt' = evt
      BY <1>3, <2>1, <2>2, SizeAssumption DEF Measure
    <3>2. pc'["main"] = "lock"
      BY <3>1, GotoMoves
    <3> QED BY <1>3, <2>1, <2>2, <3>1, <3>2, GotoType DEF Measure, MainLabel
  <2>3. CASE evt.type = "backspace" /\ Len(mon_inp_buf) > 0
    <3>1. Goto("main", "measure", "erase") /\ mon_inp_size' = Len(mon_inp_buf) /\ evt' = evt
      BY <1>3, <2>1, <2>3, SizeAssumption DEF Measure
    <3>2. pc'["main"] = "erase"
      BY <3>1, GotoMoves
    <3> QED BY <1>3, <2>1, <2>3, <3>1, <3>2, GotoType DEF Measure, MainLabel
  <2>4. CASE Goto("main", "measure", "loop") /\ ProcEvtReturns
    <3>1. pc'["main"] = "loop"
      BY <2>4, GotoMoves
    <3> QED BY <1>3, <2>4, <3>1, GotoType, SizeAssumption DEF Measure, MainLabel, ProcEvtReturns
  <2> QED BY <1>3, <2>2, <2>3, <2>4 DEF Measure
<1>4. CASE LockText
  BY <1>4, GotoType, GotoMoves DEF LockText, MainLabel
<1>5. CASE AppendText
  <2> DEFINE room == MaxMonInp - mon_inp_size
             k == IF Len(evt.text) < room THEN Len(evt.text) ELSE room
             more == SubSeq(evt.text, 1, k)
  <2>1. /\ Goto("main", "append", "unlock")
        /\ mon_inp_buf' = mon_inp_buf \o more
        /\ Note("wide", Len(evt.text) > 1)
    BY <1>5 DEF AppendText
  <2>2. pc["main"] = "append" /\ pc'["main"] = "unlock"
    BY <2>1, GotoMoves
  <2>3. evt.text \in Seq(Key) /\ Len(evt.text) \in 1 .. MaxText
    <3>1. evt \in Event /\ evt.type = "text"
      BY <2>2, EventTypes
    <3> QED BY <3>1, EventTypes, TextType
  <2>4. k \in 0 .. Len(evt.text) /\ k <= room
    BY <2>2, <2>3, SizeAssumption
  <2>5. more \in Seq(Key) /\ Len(more) = k
    BY <2>3, <2>4
  <2>6. mon_inp_buf' \in Seq(Key) /\ Len(mon_inp_buf') = Len(mon_inp_buf) + k
    BY <2>1, <2>5
  <2>7. /\ mishaps' \subseteq Mishap
        /\ "wide" \notin mishaps' => k = 1
    <3>1. (Len(evt.text) > 1) \in BOOLEAN /\ mishaps' \subseteq Mishap
      BY <2>1 DEF Note, Mishap
    <3>2. "wide" \notin mishaps' => ~(Len(evt.text) > 1)
      BY <2>1 DEF Note
    <3>3. ~(Len(evt.text) > 1) => Len(evt.text) = 1
      <4>1. \A x \in 1 .. MaxText : ~(x > 1) => x = 1
        BY SizeAssumption
      <4> QED BY ONLY <2>3, <4>1
    <3>4. Len(evt.text) = 1 => k = 1
      BY <2>2, SizeAssumption
    <3> QED BY <3>1, <3>2, <3>3, <3>4
  <2>8. LineFitsBuffer'
    BY <2>2, <2>4, <2>6, <2>7, SizeAssumption
  <2> QED BY <1>5, <2>1, <2>2, <2>6, <2>7, <2>8, GotoType DEF AppendText, MainLabel
<1>6. CASE UnlockText
  BY <1>6, GotoType, GotoMoves, SizeAssumption DEF UnlockText, MainLabel, ProcEvtReturns
<1>7. CASE Erase
  <2>1. /\ Goto("main", "erase", "loop")
        /\ mon_inp_buf' = IF mon_inp_size <= Len(mon_inp_buf)
                          THEN SubSeq(mon_inp_buf, 1, mon_inp_size - 1) ELSE mon_inp_buf
        /\ ProcEvtReturns
    BY <1>7 DEF Erase
  <2>2. pc["main"] = "erase" /\ pc'["main"] = "loop"
    BY <2>1, GotoMoves
  <2>3. mon_inp_buf' \in Seq(Key) /\ Len(mon_inp_buf') <= Len(mon_inp_buf)
    BY <2>1, <2>2
  <2>4. LineFitsBuffer'
    BY <1>7, <2>3, SizeAssumption DEF Erase
  <2> QED BY <1>7, <2>1, <2>2, <2>3, <2>4, GotoType, SizeAssumption
          DEF Erase, MainLabel, ProcEvtReturns
<1>8. CASE SetEof
  BY <1>8, GotoType, GotoMoves DEF SetEof, MainLabel
<1>9. CASE Signal
  BY <1>9, GotoType, GotoMoves, SizeAssumption DEF Signal, MainLabel, ProcEvtReturns
<1> QED BY <1>1, <1>2, <1>3, <1>4, <1>5, <1>6, <1>7, <1>8, <1>9 DEF ProcEvt

LEMMA TearDownStepInv == Inv /\ TearDown => Inv'
<1> SUFFICES ASSUME Inv, TearDown PROVE Inv'
  OBVIOUS
<1> "main" \in Thread /\ "monitor" \in Thread /\ "executor" \in Thread
  BY DEF Thread
<1> USE DEF Inv, TypeOK, MeasureInv, LineFitsBuffer, line, objects, mainLocals,
            monLocals, history
<1>1. CASE TdEof
  BY <1>1, GotoType, GotoMoves DEF TdEof, MainLabel
<1>2. CASE TdActive
  <2>1. PICK there \in {"td_signal", "td_check"} : Goto("main", "td_active", there)
    BY <1>2 DEF TdActive
  <2>2. pc'["main"] = there
    BY <2>1, GotoMoves
  <2>3. mishaps' \subseteq Mishap /\ ("wide" \notin mishaps' => "wide" \notin mishaps)
    BY <1>2 DEF TdActive, Note, Mishap
  <2> QED BY <1>2, <2>1, <2>2, <2>3, GotoType DEF TdActive, MainLabel
<1>3. CASE TdSignal
  <2>1. Goto("main", "td_signal", "delay") /\ n' = 0
    BY <1>3 DEF TdSignal
  <2>2. pc'["main"] = "delay"
    BY <2>1, GotoMoves
  <2> QED BY <1>3, <2>1, <2>2, GotoType, SizeAssumption DEF TdSignal, MainLabel
<1>4. CASE Delay
  <2>1. Goto("main", "delay", "td_again") /\ n' = n + 1
    BY <1>4 DEF Delay
  <2>2. pc["main"] = "delay" /\ pc'["main"] = "td_again"
    BY <2>1, GotoMoves
  <2>3. mishaps' \subseteq Mishap /\ ("wide" \notin mishaps' => "wide" \notin mishaps)
    BY <1>4 DEF Delay, Note, Mishap
  <2>4. n' \in 0 .. MaxAttempts
    BY <2>1, <2>2, SizeAssumption
  <2> QED BY <1>4, <2>1, <2>2, <2>3, <2>4, GotoType DEF Delay, MainLabel
<1>5. CASE TdAgain
  <2>1. PICK there \in {"delay", "td_check"} :
          Goto("main", "td_again", there) /\ (there = "delay" => n < MaxAttempts)
    BY <1>5 DEF TdAgain
  <2>2. pc'["main"] = there
    BY <2>1, GotoMoves
  <2> QED BY <1>5, <2>1, <2>2, GotoType DEF TdAgain, MainLabel
<1>6. CASE TdCheck
  <2>1. CASE mon_inp_active
    <3>1. Finish("main", "td_check", "failure")
      BY <1>6, <2>1 DEF TdCheck
    <3>2. pc'["main"] = "done"
      BY <3>1, FinishMoves, GotoMoves
    <3> QED BY <1>6, <3>1, <3>2, FinishType DEF TdCheck, Exited
  <2>2. CASE ~mon_inp_active
    <3>1. Goto("main", "td_check", "td_lock") /\ UNCHANGED status
      BY <1>6, <2>2 DEF TdCheck
    <3> QED BY <1>6, <3>1, GotoType, GotoMoves DEF TdCheck, MainLabel
  <2> QED BY <2>1, <2>2
<1>7. CASE TdLock
  BY <1>7, GotoType, GotoMoves DEF TdLock, MainLabel
<1>8. CASE TdDestroyCv
  <2>1. Goto("main", "td_destroy_cv", "td_unlock")
    BY <1>8 DEF TdDestroyCv
  <2>2. undefined' \in BOOLEAN
    BY <1>8 DEF TdDestroyCv
  <2>3. pc'["main"] = "td_unlock"
    BY <2>1, GotoMoves
  <2> QED BY <1>8, <2>1, <2>2, <2>3, GotoType DEF TdDestroyCv, MainLabel
<1>9. CASE TdUnlock
  BY <1>9, GotoType, GotoMoves DEF TdUnlock, MainLabel
<1>10. CASE TdDestroyMut
  <2>1. Goto("main", "td_destroy_mut", "td_free")
    BY <1>10 DEF TdDestroyMut
  <2>2. undefined' \in BOOLEAN
    BY <1>10 DEF TdDestroyMut
  <2>3. pc'["main"] = "td_free"
    BY <2>1, GotoMoves
  <2> QED BY <1>10, <2>1, <2>2, <2>3, GotoType DEF TdDestroyMut, MainLabel
<1>11. CASE TdFree
  <2>1. mon_inp_buf' = <<>> /\ Goto("main", "td_free", "td_reset")
    BY <1>11 DEF TdFree
  <2>2. mon_inp_buf' \in Seq(Key) /\ LineFitsBuffer'
    BY <2>1, SizeAssumption
  <2>3. pc'["main"] = "td_reset"
    BY <2>1, GotoMoves
  <2> QED BY <1>11, <2>1, <2>2, <2>3, GotoType DEF TdFree, MainLabel
<1>12. CASE TdReset
  <2>1. Goto("main", "td_reset", "join_executor")
    BY <1>12 DEF TdReset
  <2>3. pc'["main"] = "join_executor"
    BY <2>1, GotoMoves
  <2> QED BY <1>12, <2>1, <2>3, GotoType DEF TdReset, MainLabel
<1> QED BY <1>1, <1>2, <1>3, <1>4, <1>5, <1>6, <1>7, <1>8, <1>9, <1>10, <1>11, <1>12
        DEF TearDown

LEMMA EndsInv ==
    /\ Inv
    /\ JoinExecutor \/ JoinMonitor \/ ExecutorStarts \/ ExecutorFails \/ ExecutorQuits
    => Inv'
<1> SUFFICES ASSUME Inv,
                    \/ JoinExecutor \/ JoinMonitor
                    \/ ExecutorStarts \/ ExecutorFails \/ ExecutorQuits
             PROVE  Inv'
  OBVIOUS
<1> "main" \in Thread /\ "monitor" \in Thread /\ "executor" \in Thread
  BY DEF Thread
<1> USE DEF Inv, TypeOK, MeasureInv, LineFitsBuffer, line, objects, mainLocals,
            monLocals, history
<1>1. ASSUME NEW t \in {"main", "executor"}, NEW here, NEW how \in Exited, Finish(t, here, how),
             UNCHANGED <<line, objects, cup_state, mainLocals, monLocals, undefined, history>>
      PROVE  Inv'
  <2>1. t \in Thread
    BY DEF Thread
  <2>2. Goto(t, here, "done") /\ pc'["main"] \in {pc["main"], "done"}
    BY <1>1, <2>1, FinishMoves, GotoMoves
  <2> QED BY <1>1, <2>1, <2>2, FinishType
<1>2. CASE JoinExecutor
  <2>1. CASE status["executor"] = "success"
    <3>1. Goto("main", "join_executor", "join_monitor") /\ UNCHANGED status
      BY <1>2, <2>1 DEF JoinExecutor
    <3> QED BY <1>2, <3>1, GotoType, GotoMoves DEF JoinExecutor, MainLabel
  <2>2. CASE status["executor"] # "success"
    BY <1>1, <1>2, <2>2 DEF JoinExecutor, Exited
  <2> QED BY <2>1, <2>2
<1>3. CASE JoinMonitor
  BY <1>3, GotoType, GotoMoves DEF JoinMonitor, Finish, Thread, MainLabel
<1>4. CASE ExecutorFails \/ ExecutorQuits
  BY <1>1, <1>4 DEF ExecutorFails, ExecutorQuits, Exited
<1>5. CASE ExecutorStarts
  <2>1. Goto("executor", "start", "running")
    BY <1>5 DEF ExecutorStarts
  <2>2. pc'["main"] = pc["main"]
    BY <2>1, GotoMoves
  <2> QED BY <1>5, <2>1, <2>2, GotoType DEF ExecutorStarts, ExecutorLabel
<1> QED BY <1>2, <1>3, <1>4, <1>5

LEMMA MonitorInv == Inv /\ (Monitor \/ SpuriousWakeUp) => Inv'
<1> SUFFICES ASSUME Inv, Monitor \/ SpuriousWakeUp PROVE Inv'
  OBVIOUS
<1> "main" \in Thread /\ "monitor" \in Thread /\ "executor" \in Thread
  BY DEF Thread
<1> USE DEF Inv, TypeOK, MeasureInv, LineFitsBuffer, line, objects, mainLocals,
            monLocals, history, MonitorLabel, GetInpLabel
<1>1. ASSUME NEW here, NEW how \in Exited, Finish("monitor", here, how),
             UNCHANGED <<line, mon_inp_cv, cv_alive, mon_out_buf, mainLocals, monLocals,
                         undefined, entered>>,
             mon_inp_mut' = mon_inp_mut, cup_state' \in {"RUNNING", "QUITTING"},
             mishaps' \subseteq Mishap, "wide" \in mishaps => "wide" \in mishaps'
      PROVE  Inv'
  <2>1. Goto("monitor", here, "done") /\ pc'["main"] = pc["main"]
    BY <1>1, FinishMoves, GotoMoves
  <2> QED BY <1>1, <2>1, FinishType
<1>2. ASSUME NEW here, NEW there \in MonitorLabel, Emit(here, there)
      PROVE  Inv'
  <2>1. Goto("monitor", here, there) /\ pc'["main"] = pc["main"]
    BY <1>2, GotoMoves DEF Emit
  <2>2. undefined' \in BOOLEAN
    BY <1>2 DEF Emit
  <2> QED BY <1>2, <2>1, <2>2, GotoType DEF Emit
<1>3. CASE PrintOutput \/ Place \/ PrintEof
  BY <1>2, <1>3 DEF PrintOutput, Place, PrintEof
<1>4. CASE ClearLine
  <2>1. Goto("monitor", "clear", "activate") /\ mon_inp_buf' = <<>>
    BY <1>4 DEF ClearLine
  <2>2. pc'["main"] = pc["main"]
    BY <2>1, GotoMoves
  <2>3. /\ mon_inp_buf' \in Seq(Key) /\ LineFitsBuffer'
        /\ Len(mon_inp_buf') = 0 /\ entered' \in Seq(Key)
    BY <1>4, <2>1, SizeAssumption DEF ClearLine
  <2>4. mishaps' \subseteq Mishap
    <3>1. mishaps' = mishaps \ {"haste", "wide", "spurious"} /\ mishaps \subseteq Mishap
      BY <1>4 DEF ClearLine
    <3> QED BY ONLY <3>1
  <2>5. /\ UNCHANGED <<mon_inp_active, mon_inp_eof, objects, cup_state, mainLocals,
                      inp, status, undefined>> /\ eof' = FALSE
    BY <1>4 DEF ClearLine
  <2>6. TypeOK'
    BY <2>1, <2>3, <2>4, <2>5, GotoType
  <2>7. MeasureInv'
    BY <2>2, <2>3, <2>5, SizeAssumption
  <2> QED BY <2>6, <2>7
<1>5. ASSUME NEW here, NEW there \in MonitorLabel, Goto("monitor", here, there),
             UNCHANGED <<mon_inp_buf, mainLocals, inp, status, undefined, history,
                         cv_alive, mon_out_buf, cup_state>>,
             mon_inp_active' \in BOOLEAN, mon_inp_eof' = mon_inp_eof,
             mon_inp_mut' \in {mon_inp_mut, "free", "monitor"},
             mon_inp_cv' = mon_inp_cv, eof' \in BOOLEAN
      PROVE  Inv'
  <2>1. pc'["main"] = pc["main"]
    BY <1>5, GotoMoves
  <2> QED BY <1>5, <2>1, GotoType
<1>6. CASE Activate
  BY <1>5, <1>6 DEF Activate
<1>7. CASE UnlockLine
  BY <1>5, <1>7 DEF UnlockLine
<1>8. CASE Deactivate
  BY <1>5, <1>8 DEF Deactivate
<1>9. CASE GetEof
  BY <1>5, <1>9 DEF GetEof
<1>10. CASE Woken
  BY <1>5, <1>10 DEF Woken
<1>11. CASE AddTimer
  <2>1. CASE Goto("monitor", "add_timer", "lock") /\ UNCHANGED status
    BY <1>11, <2>1, GotoType, GotoMoves DEF AddTimer
  <2>2. CASE Finish("monitor", "add_timer", "failure")
    BY <1>1, <1>11, <2>2 DEF AddTimer, Exited
  <2> QED BY <1>11, <2>1, <2>2 DEF AddTimer
<1>12. CASE LockLine
  <2>1. CASE Goto("monitor", "lock", "wait") /\ mon_inp_mut' = "monitor" /\ UNCHANGED status
    BY <1>12, <2>1, GotoType, GotoMoves DEF LockLine
  <2>2. CASE Finish("monitor", "lock", "failure") /\ UNCHANGED mon_inp_mut
    BY <1>1, <1>12, <2>2 DEF LockLine, Exited
  <2> QED BY <1>12, <2>1, <2>2 DEF LockLine
<1>13. CASE Wait
  <2>1. CASE /\ Goto("monitor", "wait", "waiting")
             /\ mon_inp_mut' = "free" /\ mon_inp_cv' = {"monitor"} /\ UNCHANGED status
    BY <1>13, <2>1, GotoType, GotoMoves DEF Wait
  <2>2. CASE Finish("monitor", "wait", "failure") /\ UNCHANGED <<mon_inp_mut, mon_inp_cv>>
    BY <1>1, <1>13, <2>2 DEF Wait, Exited
  <2> QED BY <1>13, <2>1, <2>2 DEF Wait
<1>14. CASE CopyLine
  <2>1. Goto("monitor", "copy", "unlock") /\ pc'["main"] = pc["main"]
    BY <1>14, GotoMoves DEF CopyLine
  <2>2. inp' \in Seq(Key)
    BY <1>14, FirstOfType, SizeAssumption DEF CopyLine
  <2> QED BY <1>14, <2>1, <2>2, GotoType DEF CopyLine
<1>15. CASE Obey
  <2>0. mishaps' \subseteq Mishap /\ ("wide" \in mishaps => "wide" \in mishaps')
    BY <1>15 DEF Obey, Note, Mishap
  <2>1. ASSUME NEW there \in MonitorLabel, Goto("monitor", "obey", there), UNCHANGED status
        PROVE  Inv'
    BY <1>15, <2>0, <2>1, GotoType, GotoMoves DEF Obey
  <2>2. CASE Finish("monitor", "obey", "failure")
    BY <1>1, <1>15, <2>0, <2>2 DEF Obey, Exited
  <2> QED BY <1>15, <2>1, <2>2 DEF Obey
<1>16. CASE SetQuitting
  BY <1>1, <1>16 DEF SetQuitting, Exited
<1>17. CASE SpuriousWakeUp
  BY <1>17 DEF SpuriousWakeUp, Note, Mishap
<1> QED BY <1>3, <1>4, <1>6, <1>7, <1>8, <1>9, <1>10, <1>11, <1>12, <1>13, <1>14, <1>15,
           <1>16, <1>17
        DEF Monitor, GetInp

LEMMA InvStep == Inv /\ [Next]_vars => Inv'
<1>1. Inv /\ UNCHANGED vars => Inv'
  BY DEF Inv, TypeOK, MeasureInv, LineFitsBuffer, vars, line, objects, mainLocals,
         monLocals, history
<1> QED BY <1>1, SetUpInv, EventInv, TearDownStepInv, EndsInv, MonitorInv DEF Next, MainWork

LEMMA InvAlways == Spec => []Inv
BY InvInit, InvStep, PTL DEF Spec

\* The console keeps every variable in its range, above all what was measured of
\* the line and the attempts of the tear-down.
THEOREM TypeCorrect == Spec => []TypeOK
BY InvAlways, PTL DEF Inv

\* Whatever is typed and whenever, the line fits mon_inp_buf with its terminator
\* when each text event brings one byte, and misses by the terminator otherwise.
THEOREM LineAlwaysFits == Spec => []LineFitsBuffer
<1>1. Inv => LineFitsBuffer
  BY DEF Inv, MeasureInv
<1> QED BY <1>1, InvAlways, PTL
-----------------------------------------------------------------------------
(***************************************************************************)
(* What a step does to the life of the threads: most steps take one thread *)
(* to another label, and the rest begin or end a thread.                   *)
(***************************************************************************)
Label == MainLabel \cup MonitorLabel \cup ExecutorLabel

GoesOn(t) ==
    /\ UNCHANGED <<status, cup_state>>
    /\ \E here, there \in Label \ {"unborn", "done"} :
           /\ Goto(t, here, there)
           /\ t = "main" => /\ there \notin {"set_up", "spawn_executor"}
                            /\ here \notin {"spawn_monitor", "spawn_executor"}
                            /\ there = "spawn_monitor" <=> here = "set_up"
                            /\ there = "join_monitor" => status["executor"] = "success"
           /\ t = "monitor" /\ there \in {"print_eof", "set_quitting"}
                  => here \in {"obey", "print_eof"}

Ends(t, how) == \E here \in Label \ {"unborn", "done"} : Finish(t, here, how)

LifeStep ==
    \/ UNCHANGED <<pc, status, cup_state>>
    \/ GoesOn("main") \/ GoesOn("monitor")
    \/ SpawnMonitor \/ SpawnExecutor
    \/ Ends("main", "failure") /\ UNCHANGED cup_state
    \/ JoinMonitor
    \/ ExecutorStarts \/ ExecutorFails \/ ExecutorQuits
    \/ Ends("monitor", "failure") /\ UNCHANGED cup_state
    \/ SetQuitting

LEMMA MainLives == MainWork \/ TakeEvent \/ QuitEvent \/ EnvError => LifeStep
<1> SUFFICES ASSUME MainWork \/ TakeEvent \/ QuitEvent \/ EnvError PROVE LifeStep
  OBVIOUS
<1> USE DEF Label, MainLabel, GoesOn, Ends, LifeStep
<1>1. CASE SetUp
  BY <1>1 DEF SetUp
<1>2. CASE EnvError
  BY <1>2 DEF EnvError
<1>3. CASE TakeEvent
  <2>1. PICK e \in Event :
          Goto("main", "loop", CASE e.type = "return" -> "signal"
                                 [] e.type = "ctrl_d" -> "set_eof"
                                 [] OTHER -> "measure")
    BY <1>3 DEF TakeEvent
  <2>2. PICK there \in {"signal", "set_eof", "measure"} : Goto("main", "loop", there)
    BY <2>1, EventTypes
  <2> QED BY <1>3, <2>2 DEF TakeEvent
<1>4. CASE QuitEvent
  BY <1>4 DEF QuitEvent
<1>5. CASE ProcEvt
  BY <1>5 DEF ProcEvt, Measure, LockText, AppendText, UnlockText, Erase, SetEof, Signal
<1>6. CASE TdEof \/ TdSignal \/ Delay \/ TdLock
  BY <1>6 DEF TdEof, TdSignal, Delay, TdLock
<1>7. CASE TdActive \/ TdAgain \/ TdCheck
  BY <1>7 DEF TdActive, TdAgain, TdCheck
<1>8. CASE TdDestroyCv \/ TdUnlock \/ TdDestroyMut \/ TdFree \/ TdReset
  BY <1>8 DEF TdDestroyCv, TdUnlock, TdDestroyMut, TdFree, TdReset
<1>9. CASE JoinExecutor
  BY <1>9 DEF JoinExecutor
<1> QED BY <1>1, <1>2, <1>3, <1>4, <1>5, <1>6, <1>7, <1>8, <1>9 DEF MainWork, TearDown

LEMMA MonitorLives == Monitor \/ SpuriousWakeUp => LifeStep
<1> SUFFICES ASSUME Monitor \/ SpuriousWakeUp PROVE LifeStep
  OBVIOUS
<1> USE DEF Label, MonitorLabel, GetInpLabel, GoesOn, Ends, LifeStep, Thread
<1>1. CASE PrintOutput
  BY <1>1 DEF PrintOutput, Emit
<1>8. CASE Place
  BY <1>8 DEF Place, Emit
<1>9. CASE PrintEof
  BY <1>9 DEF PrintEof, Emit
<1>2. CASE ClearLine \/ Activate \/ Woken \/ CopyLine
  <2>1. PICK here \in {"clear", "activate", "waiting", "copy"},
             there \in {"activate", "place", "copy", "unlock"} :
          Goto("monitor", here, there) /\ UNCHANGED <<status, cup_state>>
    BY <1>2 DEF ClearLine, Activate, Woken, CopyLine
  <2> QED BY <2>1
<1>3. CASE UnlockLine \/ Deactivate \/ GetEof
  BY <1>3 DEF UnlockLine, Deactivate, GetEof
<1>4. CASE AddTimer \/ LockLine \/ Wait
  BY <1>4 DEF AddTimer, LockLine, Wait
<1>5. CASE Obey
  BY <1>5 DEF Obey
<1>6. CASE SetQuitting
  BY <1>6 DEF SetQuitting
<1>7. CASE SpuriousWakeUp
  BY <1>7 DEF SpuriousWakeUp
<1> QED BY <1>1, <1>2, <1>3, <1>4, <1>5, <1>6, <1>7, <1>8, <1>9 DEF Monitor, GetInp

LEMMA StepLives == [Next]_vars => LifeStep
<1>1. UNCHANGED vars \/ ExecutorStarts \/ ExecutorFails \/ ExecutorQuits => LifeStep
  BY DEF vars, LifeStep
<1> QED BY <1>1, MainLives, MonitorLives DEF Next

LEMMA ThreadInit == Init => ThreadInv
BY DEF Init, ThreadInv, Thread

LEMMA ThreadStep == TypeOK /\ ThreadInv /\ [Next]_vars => ThreadInv'
<1> SUFFICES ASSUME TypeOK, ThreadInv, [Next]_vars PROVE ThreadInv'
  OBVIOUS
<1> "main" \in Thread /\ "monitor" \in Thread /\ "executor" \in Thread
  BY DEF Thread
<1>1. CASE UNCHANGED <<pc, status, cup_state>>
  BY <1>1 DEF ThreadInv
<1>2. ASSUME NEW t \in {"main", "monitor"}, GoesOn(t) PROVE ThreadInv'
  <2>1. PICK here, there \in Label \ {"unborn", "done"} :
          /\ Goto(t, here, there)
          /\ t = "main" => /\ there \notin {"set_up", "spawn_executor"}
                           /\ there = "spawn_monitor" => here = "set_up"
                           /\ there = "join_monitor" => status["executor"] = "success"
    BY <1>2 DEF GoesOn
  <2>2. /\ pc[t] = here /\ pc["main"] # "done" /\ pc'[t] = there
        /\ \A u \in Thread \ {t} : pc'[u] = pc[u]
    BY <2>1, GotoMoves
  <2>3. UNCHANGED <<status, cup_state>>
    BY <1>2 DEF GoesOn
  <2> QED BY <2>1, <2>2, <2>3 DEF ThreadInv, Thread
<1>3. CASE SpawnMonitor
  BY <1>3 DEF SpawnMonitor, Alive, ThreadInv, TypeOK, Thread
<1>4. CASE SpawnExecutor
  BY <1>4 DEF SpawnExecutor, Alive, ThreadInv, TypeOK, Thread
<1>5. ASSUME NEW t \in Thread, NEW how \in Exited, Ends(t, how),
             \/ UNCHANGED cup_state
             \/ t = "monitor" /\ how = "success",
             t = "executor" /\ how = "success" => cup_state = "QUITTING"
      PROVE  ThreadInv'
  <2>1. PICK here \in Label \ {"unborn", "done"} : Finish(t, here, how)
    BY <1>5 DEF Ends
  <2>2. /\ pc[t] = here /\ pc'[t] = "done" /\ status'[t] = how
        /\ \A u \in Thread \ {t} : pc'[u] = pc[u] /\ status'[u] = status[u]
    BY <2>1, FinishMoves, GotoMoves
  <2>3. status[t] = "none" /\ how # "none"
    BY <2>2 DEF ThreadInv, Exited
  <2> QED BY <1>5, <2>2, <2>3 DEF ThreadInv, Thread, Exited
<1>6. CASE Ends("main", "failure") /\ UNCHANGED cup_state
  BY <1>5, <1>6 DEF Exited
<1>7. CASE JoinMonitor
  <2>1. UNCHANGED cup_state /\ Finish("main", "join_monitor", status["monitor"])
        /\ pc["monitor"] = "done"
    BY <1>7 DEF JoinMonitor
  <2>2. status["monitor"] \in Exited
    BY <2>1 DEF ThreadInv, TypeOK
  <2>3. Ends("main", status["monitor"])
    BY <2>1 DEF Ends, Label, MainLabel
  <2> QED BY <1>5, <2>1, <2>2, <2>3
<1>8. CASE ExecutorFails
  BY <1>5, <1>8 DEF ExecutorFails, Ends, Label, ExecutorLabel, Exited
<1>9. CASE ExecutorQuits
  BY <1>5, <1>9 DEF ExecutorQuits, Ends, Label, ExecutorLabel, Exited
<1>10. CASE Ends("monitor", "failure") /\ UNCHANGED cup_state
  BY <1>5, <1>10 DEF Exited
<1>11. CASE SetQuitting
  BY <1>5, <1>11 DEF SetQuitting, Ends, Label, MonitorLabel, Exited
<1>12. CASE ExecutorStarts
  <2>1. Goto("executor", "start", "running") /\ cup_state' = "RUNNING" /\ UNCHANGED status
    BY <1>12 DEF ExecutorStarts
  <2> QED BY <2>1, GotoMoves DEF ThreadInv, Thread
<1> QED BY <1>1, <1>2, <1>3, <1>4, <1>6, <1>7, <1>8, <1>9, <1>10, <1>11, <1>12, StepLives
        DEF LifeStep

LEMMA ThreadAlways == Spec => []ThreadInv
BY ThreadInit, ThreadStep, TypeCorrect, PTL DEF Spec

\* The threads as the abstract specification sees them, when one of them ends.
LEMMA EndsAsPromised ==
    ASSUME TypeOK, ThreadInv, NEW t \in Thread, NEW how \in Exited, Ends(t, how)
    PROVE  /\ ThreadState("main") = "running"
           /\ ThreadState(t) = "running"
           /\ ThreadState(t)' = how
           /\ \A u \in Thread \ {t} : ThreadState(u)' = ThreadState(u)
<1>1. PICK here \in Label \ {"unborn", "done"} : Finish(t, here, how)
  BY DEF Ends
<1>2. "main" \in Thread
  BY DEF Thread
<1>3. /\ pc[t] = here /\ pc["main"] # "done" /\ pc'[t] = "done" /\ status'[t] = how
      /\ \A u \in Thread \ {t} : pc'[u] = pc[u] /\ status'[u] = status[u]
  BY <1>1, <1>2, FinishMoves, GotoMoves
<1>4. status[t] = "none" /\ status["main"] = "none" /\ pc["main"] # "unborn"
  BY <1>2, <1>3 DEF ThreadInv, TypeOK, MainLabel
<1> QED BY <1>3, <1>4 DEF ThreadState, Exited

LEMMA PromiseStep == TypeOK /\ ThreadInv /\ [Next]_vars => [Promise!Next]_(Promise!lvars)
<1> SUFFICES ASSUME TypeOK, ThreadInv, [Next]_vars PROVE [Promise!Next]_(Promise!lvars)
  OBVIOUS
<1> "main" \in Thread /\ "monitor" \in Thread /\ "executor" \in Thread
  BY DEF Thread
<1>1. CASE UNCHANGED <<pc, status, cup_state>>
  BY <1>1 DEF Promise!lvars, ThreadState
<1>2. ASSUME NEW t \in {"main", "monitor"}, GoesOn(t) PROVE UNCHANGED Promise!lvars
  <2>1. PICK here, there \in Label \ {"unborn", "done"} :
          Goto(t, here, there)
    BY <1>2 DEF GoesOn
  <2>2. /\ pc[t] = here /\ pc'[t] = there /\ UNCHANGED status
        /\ \A u \in Thread \ {t} : pc'[u] = pc[u]
    BY <1>2, <2>1, GotoMoves DEF GoesOn
  <2>3. \A u \in Thread : ThreadState(u)' = ThreadState(u)
    BY <2>1, <2>2 DEF ThreadState
  <2> QED BY <2>3 DEF Promise!lvars
<1>3. CASE SpawnMonitor
  <2>1. Promise!StartMonitor /\ ThreadState("main") = "running"
    BY <1>3 DEF SpawnMonitor, Alive, Promise!StartMonitor, ThreadState, TypeOK, ThreadInv,
                Thread
  <2> QED BY <2>1 DEF Promise!Next
<1>4. CASE SpawnExecutor
  <2>1. Promise!StartExecutor /\ ThreadState("main") = "running"
    BY <1>4 DEF SpawnExecutor, Alive, Promise!StartExecutor, ThreadState, TypeOK, ThreadInv,
                Thread, Exited
  <2> QED BY <2>1 DEF Promise!Next
<1>5. CASE Ends("main", "failure")
  <2>1. Promise!GiveUp /\ ThreadState("main") = "running"
    BY <1>5, EndsAsPromised DEF Promise!GiveUp, Exited, Thread
  <2> QED BY <2>1 DEF Promise!Next
<1>6. CASE JoinMonitor
  <2>1. /\ Finish("main", "join_monitor", status["monitor"])
        /\ pc["main"] = "join_monitor" /\ pc["monitor"] = "done"
    BY <1>6 DEF JoinMonitor, Finish, Goto
  <2>2. /\ status["monitor"] = "success" /\ status["executor"] = "success"
        /\ pc["executor"] = "done"
    BY <2>1 DEF ThreadInv, Thread
  <2>3. Ends("main", "success")
    BY <2>1, <2>2 DEF Ends, Label, MainLabel
  <2>4. ThreadState("executor") = "success"
    BY <2>2 DEF ThreadState
  <2>5. Promise!Exit /\ ThreadState("main") = "running"
    BY <2>3, <2>4, EndsAsPromised DEF Promise!Exit, Promise!Ended, Exited, Thread
  <2> QED BY <2>5 DEF Promise!Next
<1>7. CASE ExecutorFails
  <2>1. Ends("executor", "failure")
    BY <1>7 DEF ExecutorFails, Ends, Label, ExecutorLabel
  <2>2. Promise!ExecutorFails /\ ThreadState("main") = "running"
    BY <2>1, EndsAsPromised DEF Promise!ExecutorFails, Exited, Thread
  <2> QED BY <2>2 DEF Promise!Next
<1>8. CASE ExecutorQuits
  <2>1. Ends("executor", "success") /\ cup_state = "QUITTING"
    BY <1>8 DEF ExecutorQuits, Ends, Label, ExecutorLabel
  <2>2. ThreadState("monitor") = "success"
    BY <2>1 DEF ThreadInv, ThreadState, Thread
  <2>3. Promise!ExecutorQuits /\ ThreadState("main") = "running"
    BY <2>1, <2>2, EndsAsPromised DEF Promise!ExecutorQuits, Exited, Thread
  <2> QED BY <2>3 DEF Promise!Next
<1>9. ASSUME NEW how \in Exited, Ends("monitor", how) PROVE Promise!Next
  <2>1. Promise!MonitorEnds /\ ThreadState("main") = "running"
    BY <1>9, EndsAsPromised DEF Promise!MonitorEnds, Promise!Ended, Exited, Thread
  <2> QED BY <2>1 DEF Promise!Next
<1>10. CASE ExecutorStarts
  <2>1. Goto("executor", "start", "running") /\ UNCHANGED status
    BY <1>10 DEF ExecutorStarts
  <2>2. \A u \in Thread : ThreadState(u)' = ThreadState(u)
    BY <2>1, GotoMoves DEF ThreadState
  <2> QED BY <2>2 DEF Promise!lvars
<1>11. CASE SetQuitting
  BY <1>9, <1>11 DEF SetQuitting, Ends, Label, MonitorLabel, Exited
<1> QED BY <1>1, <1>2, <1>3, <1>4, <1>5, <1>6, <1>7, <1>8, <1>9, <1>10, <1>11, StepLives
        DEF LifeStep, Exited

\* With a window, too, whatever the user types and wherever SDL fails, main()
\* keeps what Lifecycle says: it exits with success only after the user has
\* quit and both threads have ended well.
THEOREM ImplementsLifecycle == Spec => KeepsPromise
<1>1. Init => Promise!Init
  BY DEF Init, Promise!Init, ThreadState, Thread
<1> QED BY <1>1, PromiseStep, TypeCorrect, ThreadAlways, PTL
        DEF Spec, KeepsPromise, Promise!Spec
-----------------------------------------------------------------------------
(***************************************************************************)
(* The tear-down of a console whose monitor waits for input.               *)
(***************************************************************************)
LEMMA TearDownInit == Init => TearDownInv
BY DEF Init, TearDownInv, CleanTearDown, TearDownLabel, GetInpLabel, Thread

\* main() outside of the tear-down: the monitor's input is still whole.
LEMMA OutsideKeepsOrder ==
    /\ TypeOK /\ ThreadInv /\ TearDownInv
    /\ MainWork \/ TakeEvent \/ QuitEvent \/ EnvError
    => TearDown \/ TearDownInv'
<1> SUFFICES ASSUME TypeOK, ThreadInv, TearDownInv,
                    (MainWork /\ ~TearDown) \/ TakeEvent \/ QuitEvent \/ EnvError
             PROVE  TearDownInv'
  BY DEF MainWork
<1> "main" \in Thread /\ "monitor" \in Thread /\ "executor" \in Thread
  BY DEF Thread
<1> USE DEF TearDownInv, CleanTearDown, Orderly, LeavesWait, TearDownLabel, GetInpLabel,
            line, objects, mainLocals, monLocals, history
<1>1. ASSUME NEW here, NEW there \in {"spawn_monitor", "loop", "measure", "lock", "append",
                                      "unlock", "erase", "set_eof", "signal", "td_eof"},
             Goto("main", here, there), UNCHANGED <<mon_inp_active, monLocals, undefined>>,
             mon_out_buf' \in {mon_out_buf, "live"}, mon_inp_cv' \in {mon_inp_cv, {}},
             here \notin {"td_reset", "join_executor", "join_monitor"}
      PROVE  TearDownInv'
  <2>1. /\ pc["main"] = here /\ here # "done" /\ ~undefined
        /\ pc'["main"] = there /\ pc'["monitor"] = pc["monitor"]
    BY <1>1, GotoMoves DEF Thread
  <2> QED BY <1>1, <2>1
<1>2. ASSUME NEW here, NEW how, Finish("main", here, how),
             UNCHANGED <<line, objects, cup_state, mainLocals, monLocals, undefined, history>>
      PROVE  TearDownInv'
  <2>1. pc'["main"] = "done" /\ pc'["monitor"] = pc["monitor"]
    BY <1>2, FinishMoves, GotoMoves DEF Thread
  <2> QED BY <1>2, <2>1
<1>3. CASE SetUp
  BY <1>1, <1>3 DEF SetUp
<1>4. CASE SpawnMonitor
  <2>1. /\ pc["main"] = "spawn_monitor" /\ ~undefined
        /\ pc'["main"] = "spawn_executor" /\ pc'["monitor"] = "print"
    BY <1>4 DEF SpawnMonitor, Alive, TypeOK
  <2>2. "monitor" \notin mon_inp_cv'
    BY <1>4, <2>1 DEF SpawnMonitor, ThreadInv
  <2> QED BY <1>4, <2>1, <2>2 DEF SpawnMonitor
<1>5. CASE SpawnExecutor
  BY <1>5 DEF SpawnExecutor, Alive, TypeOK
<1>6. CASE EnvError
  BY <1>2, <1>6 DEF EnvError
<1>7. CASE TakeEvent
  <2>1. PICK e \in Event :
          Goto("main", "loop", CASE e.type = "return" -> "signal"
                                 [] e.type = "ctrl_d" -> "set_eof"
                                 [] OTHER -> "measure")
    BY <1>7 DEF TakeEvent
  <2>2. PICK there \in {"signal", "set_eof", "measure"} : Goto("main", "loop", there)
    BY <2>1, EventTypes
  <2> QED BY <1>1, <1>7, <2>2 DEF TakeEvent
<1>8. CASE QuitEvent
  BY <1>1, <1>8 DEF QuitEvent
<1>9. CASE ProcEvt
  BY <1>1, <1>9
  DEF ProcEvt, Measure, LockText, AppendText, UnlockText, Erase, SetEof, Signal
<1>10. CASE JoinExecutor
  <2>1. CASE status["executor"] = "success"
    <3>1. Goto("main", "join_executor", "join_monitor")
      BY <1>10, <2>1 DEF JoinExecutor
    <3>2. /\ pc["main"] = "join_executor" /\ pc'["main"] = "join_monitor"
          /\ pc'["monitor"] = pc["monitor"]
      BY <3>1, GotoMoves DEF Thread
    <3> QED BY <1>10, <3>2 DEF JoinExecutor
  <2>2. CASE status["executor"] # "success"
    BY <1>2, <1>10, <2>2 DEF JoinExecutor
  <2> QED BY <2>1, <2>2
<1>11. CASE JoinMonitor
  BY <1>2, <1>11 DEF JoinMonitor
<1> QED BY <1>3, <1>4, <1>5, <1>6, <1>7, <1>8, <1>9, <1>10, <1>11 DEF MainWork

LEMMA TearDownKeepsOrder == TypeOK /\ TearDownInv /\ TearDown => TearDownInv'
<1> SUFFICES ASSUME TypeOK, TearDownInv, TearDown PROVE TearDownInv'
  OBVIOUS
<1> "main" \in Thread /\ "monitor" \in Thread /\ "executor" \in Thread
  BY DEF Thread
<1> USE DEF TearDownInv, CleanTearDown, Orderly, LeavesWait, MonitorRests, TearDownLabel,
            GetInpLabel, line, objects, mainLocals, monLocals, history
<1>1. ASSUME NEW here, NEW there, Goto("main", here, there)
      PROVE  /\ pc["main"] = here /\ here # "done" /\ ~undefined
             /\ pc'["main"] = there /\ pc'["monitor"] = pc["monitor"]
  BY <1>1, GotoMoves DEF Thread
<1>2. CASE TdEof
  BY <1>1, <1>2 DEF TdEof
<1>3. CASE TdActive
  <2>1. Orderly' => Orderly /\ MonitorRests
    BY <1>3 DEF TdActive, Note
  <2>2. PICK there \in {"td_signal", "td_check"} :
          /\ Goto("main", "td_active", there)
          /\ there = "td_signal" <=> mon_inp_active
    BY <1>3 DEF TdActive
  <2> QED BY <1>1, <1>3, <2>1, <2>2 DEF TdActive
<1>4. CASE TdSignal
  BY <1>1, <1>4 DEF TdSignal
<1>5. CASE Delay
  <2>1. Orderly' => Orderly /\ MonitorRests
    BY <1>5 DEF Delay, Note
  <2> QED BY <1>1, <1>5, <2>1 DEF Delay
<1>6. CASE TdAgain
  <2>1. PICK there \in {"delay", "td_check"} : Goto("main", "td_again", there)
    BY <1>6 DEF TdAgain
  <2> QED BY <1>1, <1>6, <2>1 DEF TdAgain
<1>7. CASE TdCheck
  <2>1. PICK there \in {"done", "td_lock"} : Goto("main", "td_check", there)
    BY <1>7 DEF TdCheck, Finish
  <2> QED BY <1>1, <1>7, <2>1 DEF TdCheck
<1>8. CASE TdLock
  BY <1>1, <1>8 DEF TdLock
<1>9. CASE TdDestroyCv
  <2>1. /\ Goto("main", "td_destroy_cv", "td_unlock")
        /\ undefined' => pc["monitor"] = "waiting"
    BY <1>9 DEF TdDestroyCv
  <2> QED BY <1>1, <1>9, <2>1 DEF TdDestroyCv
<1>10. CASE TdUnlock
  BY <1>1, <1>10 DEF TdUnlock
<1>11. CASE TdDestroyMut
  <2>1. /\ Goto("main", "td_destroy_mut", "td_free")
        /\ undefined' => mon_inp_mut = "monitor"
    BY <1>11 DEF TdDestroyMut
  <2> QED BY <1>1, <1>11, <2>1 DEF TdDestroyMut
<1>12. CASE TdFree
  BY <1>1, <1>12 DEF TdFree
<1>13. CASE TdReset
  BY <1>1, <1>13 DEF TdReset
<1> QED BY <1>2, <1>3, <1>4, <1>5, <1>6, <1>7, <1>8, <1>9, <1>10, <1>11, <1>12, <1>13
        DEF TearDown

LEMMA MonitorKeepsOrder ==
    TypeOK /\ TearDownInv /\ (Monitor \/ SpuriousWakeUp) => TearDownInv'
<1> SUFFICES ASSUME TypeOK, TearDownInv, Monitor \/ SpuriousWakeUp PROVE TearDownInv'
  OBVIOUS
<1> "main" \in Thread /\ "monitor" \in Thread /\ "executor" \in Thread
  BY DEF Thread
<1>a. pc["main"] \in MainLabel
  BY DEF TypeOK
<1> USE DEF TearDownInv, CleanTearDown, Orderly, LeavesWait, TearDownLabel, GetInpLabel,
            line, objects, mainLocals, monLocals, history
<1>1. ASSUME NEW here, NEW there, Goto("monitor", here, there)
      PROVE  /\ pc["monitor"] = here /\ pc["main"] # "done" /\ ~undefined
             /\ pc'["monitor"] = there /\ pc'["main"] = pc["main"]
  BY <1>1, GotoMoves DEF Thread
<1>2. ASSUME NEW here \in {"print", "place", "print_eof"},
             NEW there \in {"clear", "add_timer", "set_quitting"}, Emit(here, there),
             there = "add_timer" <=> here = "place",
             there = "set_quitting" <=> here = "print_eof"
      PROVE  TearDownInv'
  <2>1. Goto("monitor", here, there) /\ (undefined' => mon_out_buf = "freed")
    BY <1>2 DEF Emit
  <2>2. undefined' => ~Orderly
    BY <1>1, <1>2, <2>1, <1>a DEF MainLabel
  <2> QED BY <1>1, <1>2, <2>1, <2>2 DEF Emit
<1>3. CASE PrintOutput
  BY <1>2, <1>3 DEF PrintOutput
<1>4. CASE Place
  BY <1>2, <1>4 DEF Place
<1>5. CASE PrintEof
  BY <1>2, <1>5 DEF PrintEof
<1>6. CASE ClearLine
  <2>1. Orderly' => Orderly
    BY <1>6 DEF ClearLine
  <2> QED BY <1>1, <1>6, <2>1 DEF ClearLine
<1>7. CASE Activate
  BY <1>1, <1>7 DEF Activate
<1>8. CASE AddTimer
  BY <1>1, <1>8 DEF AddTimer, Finish
<1>9. CASE LockLine
  BY <1>1, <1>9 DEF LockLine, Finish
<1>10. CASE Wait
  BY <1>1, <1>10 DEF Wait, Finish
<1>11. CASE Woken
  BY <1>1, <1>11 DEF Woken
<1>12. CASE CopyLine
  BY <1>1, <1>12 DEF CopyLine
<1>13. CASE UnlockLine
  BY <1>1, <1>13 DEF UnlockLine
<1>14. CASE Deactivate
  BY <1>1, <1>14 DEF Deactivate
<1>15. CASE GetEof
  BY <1>1, <1>15 DEF GetEof
<1>16. CASE Obey
  <2>1. Orderly' => Orderly
    BY <1>16 DEF Obey, Note
  <2> QED BY <1>1, <1>16, <2>1 DEF Obey, Finish
<1>17. CASE SetQuitting
  BY <1>1, <1>17 DEF SetQuitting, Finish
<1>18. CASE SpuriousWakeUp
  BY <1>18 DEF SpuriousWakeUp, Note
<1> QED BY <1>3, <1>4, <1>5, <1>6, <1>7, <1>8, <1>9, <1>10, <1>11, <1>12, <1>13, <1>14,
           <1>15, <1>16, <1>17, <1>18 DEF Monitor, GetInp

LEMMA TearDownInvStep == TypeOK /\ ThreadInv /\ TearDownInv /\ [Next]_vars => TearDownInv'
<1> USE DEF TearDownInv, CleanTearDown, Orderly, LeavesWait, line, objects, mainLocals,
            monLocals, history
<1>1. TearDownInv /\ UNCHANGED vars => TearDownInv'
  BY DEF vars
<1>2. TypeOK /\ TearDownInv /\ (ExecutorStarts \/ ExecutorFails \/ ExecutorQuits) => TearDownInv'
  BY GotoMoves DEF ExecutorStarts, ExecutorFails, ExecutorQuits, Finish, Thread
<1> QED BY <1>1, <1>2, OutsideKeepsOrder, TearDownKeepsOrder, MonitorKeepsOrder
        DEF Next

\* The user may close the window at any time: a tear-down that finds the monitor
\* waiting, and whose delays are long enough for it to leave, destroys nothing
\* that a thread still uses, for any number of attempts and whatever was typed.
THEOREM TearDownIsClean == Spec => []CleanTearDown
<1>1. TearDownInv => CleanTearDown
  BY DEF TearDownInv
<1> QED BY <1>1, TearDownInit, TearDownInvStep, TypeCorrect, ThreadAlways, PTL DEF Spec
-----------------------------------------------------------------------------
(***************************************************************************)
(* The line between RETURN and the monitor that obeys it.                  *)
(***************************************************************************)
LEMMA LineInit == Init => LineInv
BY DEF Init, LineInv, Returned, Thread

LEMMA MainKeepsLine ==
    /\ TypeOK /\ ThreadInv /\ TearDownInv /\ LineInv
    /\ MainWork \/ TakeEvent \/ QuitEvent \/ EnvError
    => LineInv'
<1> SUFFICES ASSUME TypeOK, ThreadInv, TearDownInv, LineInv,
                    MainWork \/ TakeEvent \/ QuitEvent \/ EnvError
             PROVE  LineInv'
  OBVIOUS
<1> "main" \in Thread /\ "monitor" \in Thread /\ "executor" \in Thread
  BY DEF Thread
<1> USE DEF LineInv, Returned, ProcEvtLabel, line, objects, mainLocals, monLocals, history
<1>1. ASSUME NEW here, NEW there, Goto("main", here, there)
      PROVE  /\ pc["main"] = here /\ pc'["main"] = there
             /\ pc'["monitor"] = pc["monitor"]
  BY <1>1, GotoMoves DEF Thread
<1>2. ASSUME NEW here, NEW there, Goto("main", here, there), there \notin ProcEvtLabel,
             UNCHANGED <<mon_inp_buf, mon_inp_cv, monLocals, entered>>,
             mon_inp_eof => mon_inp_eof', mishaps \subseteq mishaps'
      PROVE  LineInv'
  BY <1>1, <1>2
<1>3. CASE SetUp
  BY <1>1, <1>3 DEF SetUp, ThreadInv
<1>4. CASE SpawnMonitor
  BY <1>4 DEF SpawnMonitor, TypeOK
<1>5. CASE SpawnExecutor
  BY <1>5 DEF SpawnExecutor, TypeOK
<1>6. CASE EnvError
  BY <1>2, <1>6 DEF EnvError, Finish
<1>7. CASE TakeEvent
  <2>1. pc'["monitor"] = pc["monitor"] /\ mon_inp_cv' = mon_inp_cv
    <3>1. PICK there : Goto("main", "loop", there)
      BY <1>7 DEF TakeEvent
    <3> QED BY <1>1, <1>7, <3>1 DEF TakeEvent
  <2>2. CASE "monitor" \in mon_inp_cv
    BY <2>1, <2>2 DEF TearDownInv
  <2>3. CASE "monitor" \notin mon_inp_cv
    BY <1>7, <2>3 DEF TakeEvent, Note
  <2> QED BY <2>2, <2>3
<1>8. CASE QuitEvent
  BY <1>2, <1>8 DEF QuitEvent
<1>9. CASE Signal
  BY <1>1, <1>9 DEF Signal
<1>10. ASSUME NEW here \in ProcEvtLabel, NEW there, Goto("main", here, there),
              UNCHANGED <<mon_inp_cv, monLocals, entered>>,
              mon_inp_eof => mon_inp_eof', mishaps \subseteq mishaps'
       PROVE  LineInv'
  BY <1>1, <1>10
<1>11. CASE Measure \/ LockText \/ AppendText \/ UnlockText \/ Erase \/ SetEof
  BY <1>10, <1>11 DEF Measure, LockText, AppendText, UnlockText, Erase, SetEof, Note
<1>12. CASE TdEof
  BY <1>2, <1>12 DEF TdEof
<1>13. CASE TdActive \/ Delay \/ TdAgain \/ TdCheck
  BY <1>2, <1>13 DEF TdActive, Delay, TdAgain, TdCheck, Note, Finish
<1>14. CASE TdSignal \/ TdFree
  <2>1. mon_inp_eof
    BY <1>1, <1>14 DEF TdSignal, TdFree, TearDownInv, TearDownLabel
  <2>2. /\ pc'["monitor"] = pc["monitor"] /\ pc'["main"] \in {"delay", "td_reset"}
        /\ UNCHANGED <<mon_inp_eof, inp, eof, mishaps, entered>>
    BY <1>1, <1>14 DEF TdSignal, TdFree
  <2>3. Returned' => Returned /\ pc["monitor"] = "obey"
    BY <2>1, <2>2
  <2> QED BY <2>2, <2>3
<1>15. CASE TdLock \/ TdDestroyCv \/ TdUnlock \/ TdDestroyMut \/ TdReset
  BY <1>2, <1>15 DEF TdLock, TdDestroyCv, TdUnlock, TdDestroyMut, TdReset
<1>16. CASE JoinExecutor
  BY <1>2, <1>16 DEF JoinExecutor, Finish
<1>17. CASE JoinMonitor
  BY <1>2, <1>17 DEF JoinMonitor, Finish
<1> QED BY <1>3, <1>4, <1>5, <1>6, <1>7, <1>8, <1>9, <1>11, <1>12, <1>13, <1>14, <1>15,
           <1>16, <1>17 DEF MainWork, ProcEvt, TearDown

LEMMA MonitorKeepsLine ==
    TypeOK /\ LineInv /\ (Monitor \/ SpuriousWakeUp) => LineInv'
<1> SUFFICES ASSUME TypeOK, LineInv, Monitor \/ SpuriousWakeUp PROVE LineInv'
  OBVIOUS
<1> "main" \in Thread /\ "monitor" \in Thread /\ "executor" \in Thread
  BY DEF Thread
<1> USE DEF LineInv, Returned, line, objects, mainLocals, monLocals, history
<1>1. ASSUME NEW here, NEW there, Goto("monitor", here, there)
      PROVE  /\ pc["monitor"] = here /\ pc'["monitor"] = there
             /\ pc'["main"] = pc["main"]
  BY <1>1, GotoMoves DEF Thread
<1>2. ASSUME NEW here, NEW there \in {"clear", "activate", "place", "add_timer", "lock", "wait",
                                      "print", "print_eof", "set_quitting", "done"},
             Goto("monitor", here, there)
      PROVE  LineInv'
  BY <1>1, <1>2
<1>3. CASE PrintOutput \/ Place \/ PrintEof
  BY <1>2, <1>3 DEF PrintOutput, Place, PrintEof, Emit
<1>4. CASE ClearLine \/ Activate
  BY <1>2, <1>4 DEF ClearLine, Activate
<1>5. CASE AddTimer \/ LockLine
  BY <1>2, <1>5 DEF AddTimer, LockLine, Finish
<1>6. CASE Wait
  BY <1>1, <1>2, <1>6 DEF Wait, Finish
<1>7. CASE Woken
  BY <1>1, <1>7 DEF Woken
<1>8. CASE CopyLine
  BY <1>1, <1>8 DEF CopyLine
<1>9. CASE UnlockLine
  BY <1>1, <1>9 DEF UnlockLine
<1>10. CASE Deactivate
  BY <1>1, <1>10 DEF Deactivate
<1>11. CASE GetEof
  BY <1>1, <1>11 DEF GetEof
<1>12. CASE Obey
  BY <1>2, <1>12 DEF Obey, Finish
<1>13. CASE SetQuitting
  BY <1>2, <1>13 DEF SetQuitting, Finish
<1>14. CASE SpuriousWakeUp
  BY <1>14 DEF SpuriousWakeUp, Note
<1> QED BY <1>3, <1>4, <1>5, <1>6, <1>7, <1>8, <1>9, <1>10, <1>11, <1>12, <1>13, <1>14
        DEF Monitor, GetInp

LEMMA LineStep ==
    TypeOK /\ ThreadInv /\ TearDownInv /\ LineInv /\ [Next]_vars => LineInv'
<1> USE DEF LineInv, Returned, line, objects, mainLocals, monLocals, history
<1>1. LineInv /\ UNCHANGED vars => LineInv'
  BY DEF vars
<1>2. TypeOK /\ LineInv /\ (ExecutorStarts \/ ExecutorFails \/ ExecutorQuits) => LineInv'
  BY GotoMoves DEF ExecutorStarts, ExecutorFails, ExecutorQuits, Finish, Thread
<1> QED BY <1>1, <1>2, MainKeepsLine, MonitorKeepsLine DEF Next

\* Although the event loop and the monitor share the line with hardly a lock, a
\* user who types while the monitor waits is obeyed to the letter: no line is
\* torn, mixed with the next one, or seen before RETURN.
THEOREM LineIsAlwaysWhole == Spec => []LineIsWhole
<1>1. LineInv => LineIsWhole
  BY DEF LineInv, LineIsWhole, Returned
<1>2. Spec => []TearDownInv
  BY TearDownInit, TearDownInvStep, TypeCorrect, ThreadAlways, PTL DEF Spec
<1> QED BY <1>1, <1>2, LineInit, LineStep, TypeCorrect, ThreadAlways, PTL DEF Spec
-----------------------------------------------------------------------------
(***************************************************************************)
(* The mutex, and a tear-down that comes to its end: what TearDownEnds and *)
(* ReturnIsHeard rest on besides fairness.                                 *)
(***************************************************************************)
LEMMA MutexInit == Init => MutexInv
BY DEF Init, MutexInv, LockedByMain, LockedByMonitor, Thread

\* What main() does outside of the tear-down and the two sections that it locks.
LEMMA OutsideKeepsMutex ==
    /\ TypeOK /\ ThreadInv /\ MutexInv
    /\ (MainWork /\ ~TearDown) \/ TakeEvent \/ QuitEvent \/ EnvError
    => MutexInv'
<1> SUFFICES ASSUME TypeOK, ThreadInv, MutexInv,
                    (MainWork /\ ~TearDown) \/ TakeEvent \/ QuitEvent \/ EnvError
             PROVE  MutexInv'
  OBVIOUS
<1> "main" \in Thread /\ "monitor" \in Thread /\ "executor" \in Thread
  BY DEF Thread
<1> USE DEF MutexInv, LockedByMain, LockedByMonitor, line, objects, mainLocals, monLocals,
            history
<1>1. ASSUME NEW here, NEW there, Goto("main", here, there)
      PROVE  /\ pc["main"] = here /\ here # "done" /\ ~undefined
             /\ pc'["main"] = there /\ pc'["monitor"] = pc["monitor"]
  BY <1>1, GotoMoves DEF Thread
<1>2. ASSUME NEW here, NEW how, Finish("main", here, how), here \notin LockedByMain,
             UNCHANGED <<line, objects, cup_state, mainLocals, monLocals, undefined, history>>
      PROVE  MutexInv'
  BY <1>1, <1>2 DEF Finish
<1>3. CASE SetUp
  <2>1. pc["monitor"] = "unborn"
    BY <1>1, <1>3 DEF SetUp, ThreadInv
  <2> QED BY <1>1, <1>3, <2>1 DEF SetUp
<1>4. CASE SpawnMonitor
  <2>1. /\ pc["main"] = "spawn_monitor" /\ ~undefined /\ pc["monitor"] = "unborn"
        /\ pc'["main"] = "spawn_executor" /\ pc'["monitor"] = "print"
    BY <1>4 DEF SpawnMonitor, Alive, TypeOK, ThreadInv
  <2> QED BY <1>4, <2>1 DEF SpawnMonitor
<1>5. CASE SpawnExecutor
  BY <1>5 DEF SpawnExecutor, Alive, TypeOK
<1>6. CASE EnvError
  BY <1>2, <1>6 DEF EnvError
<1>7. CASE TakeEvent
  <2>1. PICK e \in Event :
          Goto("main", "loop", CASE e.type = "return" -> "signal"
                                 [] e.type = "ctrl_d" -> "set_eof"
                                 [] OTHER -> "measure")
    BY <1>7 DEF TakeEvent
  <2>2. PICK there \in {"signal", "set_eof", "measure"} : Goto("main", "loop", there)
    BY <2>1, EventTypes
  <2> QED BY <1>1, <1>7, <2>2 DEF TakeEvent
<1>8. CASE QuitEvent
  BY <1>1, <1>8 DEF QuitEvent
<1>9. CASE Measure
  <2>1. PICK there \in {"lock", "erase", "loop"} : Goto("main", "measure", there)
    BY <1>9 DEF Measure
  <2> QED BY <1>1, <1>9, <2>1 DEF Measure
<1>10. CASE LockText
  BY <1>1, <1>10 DEF LockText
<1>11. CASE AppendText
  BY <1>1, <1>11 DEF AppendText
<1>12. CASE UnlockText
  BY <1>1, <1>12 DEF UnlockText
<1>13. CASE Erase \/ SetEof \/ Signal
  BY <1>1, <1>13 DEF Erase, SetEof, Signal
<1>14. CASE JoinExecutor
  <2>1. CASE status["executor"] = "success"
    <3>1. Goto("main", "join_executor", "join_monitor")
      BY <1>14, <2>1 DEF JoinExecutor
    <3> QED BY <1>1, <1>14, <3>1 DEF JoinExecutor
  <2>2. CASE status["executor"] # "success"
    BY <1>2, <1>14, <2>2 DEF JoinExecutor
  <2> QED BY <2>1, <2>2
<1>15. CASE JoinMonitor
  BY <1>2, <1>15 DEF JoinMonitor
<1> QED BY <1>3, <1>4, <1>5, <1>6, <1>7, <1>8, <1>9, <1>10, <1>11, <1>12, <1>13, <1>14,
           <1>15 DEF MainWork, ProcEvt

LEMMA TearDownKeepsMutex == TypeOK /\ MutexInv /\ TearDown => MutexInv'
<1> SUFFICES ASSUME TypeOK, MutexInv, TearDown PROVE MutexInv'
  OBVIOUS
<1> "main" \in Thread /\ "monitor" \in Thread
  BY DEF Thread
<1> USE DEF MutexInv, LockedByMain, LockedByMonitor, line, objects, mainLocals, monLocals,
            history
<1>1. ASSUME NEW here, NEW there, Goto("main", here, there)
      PROVE  /\ pc["main"] = here /\ here # "done" /\ ~undefined
             /\ pc'["main"] = there /\ pc'["monitor"] = pc["monitor"]
  BY <1>1, GotoMoves DEF Thread
<1>2. CASE TdEof \/ TdSignal \/ Delay
  BY <1>1, <1>2 DEF TdEof, TdSignal, Delay
<1>3. CASE TdActive
  <2>1. PICK there \in {"td_signal", "td_check"} : Goto("main", "td_active", there)
    BY <1>3 DEF TdActive
  <2> QED BY <1>1, <1>3, <2>1 DEF TdActive
<1>4. CASE TdAgain
  <2>1. PICK there \in {"delay", "td_check"} : Goto("main", "td_again", there)
    BY <1>4 DEF TdAgain
  <2> QED BY <1>1, <1>4, <2>1 DEF TdAgain
<1>5. CASE TdCheck
  <2>1. PICK there \in {"done", "td_lock"} : Goto("main", "td_check", there)
    BY <1>5 DEF TdCheck, Finish
  <2> QED BY <1>1, <1>5, <2>1 DEF TdCheck
<1>6. CASE TdLock
  BY <1>1, <1>6 DEF TdLock
<1>7. CASE TdDestroyCv
  BY <1>1, <1>7 DEF TdDestroyCv
<1>8. CASE TdUnlock
  BY <1>1, <1>8 DEF TdUnlock
<1>9. CASE TdDestroyMut
  <2>1. /\ Goto("main", "td_destroy_mut", "td_free")
        /\ ~undefined' => mon_inp_mut # "monitor"
        /\ mon_inp_mut' = "destroyed" /\ cv_alive' = cv_alive
    BY <1>9 DEF TdDestroyMut
  <2> QED BY <1>1, <2>1
<1>10. CASE TdFree \/ TdReset
  BY <1>1, <1>10 DEF TdFree, TdReset
<1> QED BY <1>2, <1>3, <1>4, <1>5, <1>6, <1>7, <1>8, <1>9, <1>10 DEF TearDown

LEMMA MonitorKeepsMutex ==
    TypeOK /\ MutexInv /\ (Monitor \/ SpuriousWakeUp) => MutexInv'
<1> SUFFICES ASSUME TypeOK, MutexInv, Monitor \/ SpuriousWakeUp PROVE MutexInv'
  OBVIOUS
<1> "main" \in Thread /\ "monitor" \in Thread
  BY DEF Thread
<1> USE DEF MutexInv, LockedByMain, LockedByMonitor, line, objects, mainLocals, monLocals,
            history
<1>1. ASSUME NEW here, NEW there, Goto("monitor", here, there)
      PROVE  /\ pc["monitor"] = here /\ pc["main"] # "done" /\ ~undefined
             /\ pc'["monitor"] = there /\ pc'["main"] = pc["main"]
  BY <1>1, GotoMoves DEF Thread
<1>2. CASE PrintOutput \/ Place \/ PrintEof
  BY <1>1, <1>2 DEF PrintOutput, Place, PrintEof, Emit
<1>3. CASE ClearLine \/ Activate \/ Deactivate \/ GetEof
  BY <1>1, <1>3 DEF ClearLine, Activate, Deactivate, GetEof
<1>4. CASE AddTimer
  BY <1>1, <1>4 DEF AddTimer, Finish
<1>5. CASE LockLine
  BY <1>1, <1>5 DEF LockLine, Finish
<1>6. CASE Wait
  BY <1>1, <1>6 DEF Wait, Finish
<1>7. CASE Woken
  BY <1>1, <1>7 DEF Woken
<1>8. CASE CopyLine
  BY <1>1, <1>8 DEF CopyLine
<1>9. CASE UnlockLine
  BY <1>1, <1>9 DEF UnlockLine
<1>10. CASE Obey
  BY <1>1, <1>10 DEF Obey, Finish
<1>11. CASE SetQuitting
  BY <1>1, <1>11 DEF SetQuitting, Finish
<1>12. CASE SpuriousWakeUp
  BY <1>12 DEF SpuriousWakeUp
<1> QED BY <1>2, <1>3, <1>4, <1>5, <1>6, <1>7, <1>8, <1>9, <1>10, <1>11, <1>12
        DEF Monitor, GetInp

LEMMA MutexStep == TypeOK /\ ThreadInv /\ MutexInv /\ [Next]_vars => MutexInv'
<1> USE DEF MutexInv, line, objects, mainLocals, monLocals, history
<1>1. MutexInv /\ UNCHANGED vars => MutexInv'
  BY DEF vars
<1>2. TypeOK /\ MutexInv /\ (ExecutorStarts \/ ExecutorFails \/ ExecutorQuits) => MutexInv'
  BY GotoMoves DEF ExecutorStarts, ExecutorFails, ExecutorQuits, Finish, Thread
<1> QED BY <1>1, <1>2, OutsideKeepsMutex, TearDownKeepsMutex, MonitorKeepsMutex
        DEF Next, MainWork

\* As long as no thread has used what another one had destroyed, a text is never
\* appended to the line while the monitor copies it, and the mutex belongs to whom
\* the labels say.
THEOREM LineIsLocked ==
    Spec => []( /\ MutexInv
                /\ ~undefined => ~( /\ pc["main"] \in {"append", "unlock"}
                                    /\ pc["monitor"] \in LockedByMonitor ))
<1>1. MutexInv => (~undefined => ~( /\ pc["main"] \in {"append", "unlock"}
                                    /\ pc["monitor"] \in LockedByMonitor ))
  BY DEF MutexInv, LockedByMain
<1> QED BY <1>1, MutexInit, MutexStep, TypeCorrect, ThreadAlways, PTL DEF Spec

\* The one step of a tear-down that can be kept waiting is the one that takes the
\* mutex, and then the monitor has it around a wait that has not begun or is over, which
\* it gives back without waiting for anybody: nobody ends with the mutex in hand.
THEOREM TearDownIsNotLockedOut ==
    Spec => [](pc["main"] = "td_lock" /\ Alive
               => \/ mon_inp_mut = "free"
                  \/ pc["monitor"] \in LockedByMonitor /\ cv_alive)
<1>1. TypeOK /\ MutexInv /\ pc["main"] = "td_lock" /\ Alive
      => \/ mon_inp_mut = "free"
         \/ pc["monitor"] \in LockedByMonitor /\ cv_alive
  BY DEF TypeOK, MutexInv, LockedByMain, Alive
<1> QED BY <1>1, TypeCorrect, LineIsLocked, PTL

\* A step of main() during the tear-down is one of the tear-down.
LEMMA OnlyTearDown ==
    ASSUME TypeOK, pc["main"] \in TearDownLabel, [Next]_vars
    PROVE  TearDown \/ (pc'["main"] = pc["main"] /\ n' = n)
<1> "main" \in Thread /\ "monitor" \in Thread /\ "executor" \in Thread
  BY DEF Thread
<1> USE DEF mainLocals, monLocals
<1>1. ASSUME MainWork \/ TakeEvent \/ QuitEvent \/ EnvError
      PROVE  TearDown
  BY <1>1 DEF MainWork, ProcEvt, SetUp, SpawnMonitor, SpawnExecutor, Measure, LockText,
              AppendText, UnlockText, Erase, SetEof, Signal, JoinExecutor, JoinMonitor,
              TakeEvent, QuitEvent, EnvError, Finish, Goto, TearDownLabel
<1>2. ASSUME NEW t \in Thread \ {"main"}, NEW here, NEW there, Goto(t, here, there)
      PROVE  pc'["main"] = pc["main"]
  BY <1>2, GotoMoves DEF Thread
<1>3. CASE Monitor
  BY <1>2, <1>3
  DEF Thread, Monitor, GetInp, PrintOutput, Place, PrintEof, Emit, ClearLine, Activate,
              Deactivate, GetEof, AddTimer, LockLine, Wait, Woken, CopyLine, UnlockLine,
              Obey, SetQuitting, Finish
<1>4. CASE ExecutorStarts \/ ExecutorFails \/ ExecutorQuits
  BY <1>2, <1>4 DEF Thread, ExecutorStarts, ExecutorFails, ExecutorQuits, Finish
<1>5. CASE SpuriousWakeUp \/ UNCHANGED vars
  BY <1>5 DEF SpuriousWakeUp, vars
<1> QED BY <1>1, <1>3, <1>4, <1>5 DEF Next

\* Every step of a tear-down brings its end nearer.
LEMMA TearDownNears ==
    ASSUME TypeOK, MeasureInv, TearDown
    PROVE  TearDownLeft' < TearDownLeft
<1> "main" \in Thread
  BY DEF Thread
<1>1. MaxAttempts \in Nat \ {0} /\ n \in 0 .. MaxAttempts
  BY SizeAssumption DEF TypeOK
<1>2. ASSUME NEW here, NEW there, Goto("main", here, there)
      PROVE  pc["main"] = here /\ pc'["main"] = there
  BY <1>2, GotoMoves
<1> USE DEF TearDownLeft, mainLocals
<1>3. CASE TdEof
  BY <1>1, <1>2, <1>3 DEF TdEof
<1>4. CASE TdActive
  <2>1. PICK there \in {"td_signal", "td_check"} : Goto("main", "td_active", there)
    BY <1>4 DEF TdActive
  <2> QED BY <1>1, <1>2, <1>4, <2>1 DEF TdActive
<1>5. CASE TdSignal
  BY <1>1, <1>2, <1>5 DEF TdSignal
<1>6. CASE Delay
  BY <1>1, <1>2, <1>6 DEF Delay, MeasureInv
<1>7. CASE TdAgain
  <2>1. PICK there \in {"delay", "td_check"} : Goto("main", "td_again", there)
    BY <1>7 DEF TdAgain
  <2> QED BY <1>1, <1>2, <1>7, <2>1 DEF TdAgain
<1>8. CASE TdCheck
  <2>1. PICK there \in {"done", "td_lock"} : Goto("main", "td_check", there)
    BY <1>8 DEF TdCheck, Finish
  <2> QED BY <1>2, <2>1
<1>9. CASE TdLock \/ TdDestroyCv \/ TdUnlock \/ TdDestroyMut \/ TdFree \/ TdReset
  BY <1>2, <1>9 DEF TdLock, TdDestroyCv, TdUnlock, TdDestroyMut, TdFree, TdReset
<1> QED BY <1>3, <1>4, <1>5, <1>6, <1>7, <1>8, <1>9 DEF TearDown

\* In whatever state a tear-down finds the monitor, and whatever the monitor does
\* meanwhile, it has at most 2 * MaxAttempts + 10 steps: the delays are counted, no
\* step is taken back, and no other thread adds any.
THEOREM EveryStepNearsTearDownsEnd ==
    Spec => [][pc["main"] \in TearDownLabel
               => /\ TearDown => TearDownLeft' < TearDownLeft
                  /\ ~TearDown => TearDownLeft' = TearDownLeft]_vars
<1>1. Inv /\ [Next]_vars
      => [pc["main"] \in TearDownLabel
          => /\ TearDown => TearDownLeft' < TearDownLeft
             /\ ~TearDown => TearDownLeft' = TearDownLeft]_vars
  <2> SUFFICES ASSUME Inv, [Next]_vars, pc["main"] \in TearDownLabel, ~TearDown
               PROVE  TearDownLeft' = TearDownLeft
    BY TearDownNears DEF Inv
  <2> QED BY OnlyTearDown DEF Inv, TearDownLeft
<1> QED BY <1>1, InvAlways, PTL DEF Spec
-----------------------------------------------------------------------------
(***************************************************************************)
(* The way from the tear-down to the end: what QuitEnds rests on besides   *)
(* fairness.                                                               *)
(***************************************************************************)
LEMMA EndInit == Init => EndInv
BY DEF Init, EndInv, Thread

\* A command obeyed too early is never forgotten.
LEMMA EarlyIsNoted ==
    ASSUME TypeOK, ThreadInv, [Next]_vars, "early" \notin mishaps'
    PROVE  /\ "early" \notin mishaps
           /\ pc["monitor"] = "obey" /\ pc'["monitor"] # "obey" => ExecutorUp
<1> "main" \in Thread /\ "monitor" \in Thread /\ "executor" \in Thread
  BY DEF Thread
<1> USE DEF history
<1>1. ASSUME NEW t \in Thread, NEW here, NEW there, Goto(t, here, there)
      PROVE  /\ pc[t] = here /\ pc'[t] = there
             /\ \A u \in Thread \ {t} : pc'[u] = pc[u]
  BY <1>1, GotoMoves
<1>2. CASE MainWork \/ TakeEvent \/ QuitEvent \/ EnvError
  <2>1. "early" \notin mishaps
    BY <1>2 DEF MainWork, ProcEvt, TearDown, SetUp, SpawnMonitor, SpawnExecutor, Measure,
                LockText, AppendText, UnlockText, Erase, SetEof, Signal, TdEof, TdActive,
                TdSignal, Delay, TdAgain, TdCheck, TdLock, TdDestroyCv, TdUnlock,
                TdDestroyMut, TdFree, TdReset, JoinExecutor, JoinMonitor, TakeEvent,
                QuitEvent, EnvError, Note
  <2>2. CASE SpawnMonitor \/ SpawnExecutor
    <3>1. pc["monitor"] = "obey" => pc'["monitor"] = "obey" \/ SpawnMonitor
      BY <2>2 DEF SpawnExecutor, TypeOK
    <3>2. CASE SpawnMonitor
      BY <2>1, <3>2 DEF SpawnMonitor, ThreadInv
    <3> QED BY <2>1, <3>1, <3>2
  <2>3. CASE ~(SpawnMonitor \/ SpawnExecutor)
    <3>1. \E here, there : Goto("main", here, there)
      BY <1>2, <2>3, EventTypes
      DEF MainWork, ProcEvt, TearDown, SetUp, Measure,
          LockText, AppendText, UnlockText, Erase, SetEof, Signal, TdEof, TdActive,
          TdSignal, Delay, TdAgain, TdCheck, TdLock, TdDestroyCv, TdUnlock,
          TdDestroyMut, TdFree, TdReset, JoinExecutor, JoinMonitor, TakeEvent,
          QuitEvent, EnvError, Finish
    <3> QED BY <1>1, <2>1, <3>1 DEF Thread
  <2> QED BY <2>2, <2>3
<1>3. CASE Obey
  BY <1>3 DEF Obey, Note
<1>4. CASE PrintOutput \/ GetInp \/ PrintEof \/ SetQuitting
  BY <1>1, <1>4 DEF GetInp, PrintOutput, Place, PrintEof, Emit, ClearLine, Activate,
                    Deactivate, GetEof, AddTimer, LockLine, Wait, Woken, CopyLine,
                    UnlockLine, SetQuitting, Finish
<1>5. CASE ExecutorStarts \/ ExecutorFails \/ ExecutorQuits
  BY <1>1, <1>5 DEF Thread, ExecutorStarts, ExecutorFails, ExecutorQuits, Finish
<1>6. CASE SpuriousWakeUp \/ UNCHANGED vars
  BY <1>6 DEF SpuriousWakeUp, Note, vars
<1> QED BY <1>2, <1>3, <1>4, <1>5, <1>6 DEF Next, Monitor

\* The lives of the threads, as far as EndInv is about them.
LEMMA EndLives ==
    ASSUME TypeOK, ThreadInv, EndInv, [Next]_vars
    PROVE  /\ "early" \notin mishaps' =>
                /\ status'["monitor"] = "success" => ExecutorUp' /\ cup_state' = "QUITTING"
                /\ pc'["monitor"] \in {"print_eof", "set_quitting"} => ExecutorUp'
           /\ pc'["main"] \notin {"set_up", "spawn_monitor", "spawn_executor", "done"}
                  => pc'["executor"] # "unborn"
<1> "main" \in Thread /\ "monitor" \in Thread /\ "executor" \in Thread
  BY DEF Thread
<1> DEFINE Goal ==
      /\ "early" \notin mishaps' =>
           /\ status'["monitor"] = "success" => ExecutorUp' /\ cup_state' = "QUITTING"
           /\ pc'["monitor"] \in {"print_eof", "set_quitting"} => ExecutorUp'
      /\ pc'["main"] \notin {"set_up", "spawn_monitor", "spawn_executor", "done"}
             => pc'["executor"] # "unborn"
<1> SUFFICES Goal
  OBVIOUS
<1>0. "early" \notin mishaps' => "early" \notin mishaps
  BY EarlyIsNoted
<1> USE <1>0 DEF ExecutorUp
<1>1. CASE UNCHANGED <<pc, status, cup_state>>
  BY <1>1 DEF EndInv
<1>2. ASSUME NEW t \in {"main", "monitor"}, GoesOn(t) PROVE Goal
  <2>1. PICK here, there \in Label \ {"unborn", "done"} :
          /\ Goto(t, here, there)
          /\ t = "main" => /\ there \notin {"set_up", "spawn_executor"}
                           /\ here \notin {"spawn_monitor", "spawn_executor"}
                           /\ there = "spawn_monitor" <=> here = "set_up"
          /\ t = "monitor" /\ there \in {"print_eof", "set_quitting"}
                 => here \in {"obey", "print_eof"}
    BY <1>2 DEF GoesOn
  <2>2. /\ pc[t] = here /\ pc["main"] # "done" /\ pc'[t] = there
        /\ \A u \in Thread \ {t} : pc'[u] = pc[u]
    BY <2>1, GotoMoves
  <2>3. UNCHANGED <<status, cup_state>>
    BY <1>2 DEF GoesOn
  <2>4. "early" \notin mishaps' /\ here = "obey" /\ there # "obey" /\ t = "monitor"
        => ExecutorUp
    BY <2>2, EarlyIsNoted
  <2>5. pc'["executor"] = pc["executor"]
    BY <2>2 DEF Thread
  <2>6. CASE t = "main"
    <3>1. pc'["monitor"] = pc["monitor"]
      BY <2>2, <2>6 DEF Thread
    <3> QED BY <2>1, <2>2, <2>3, <2>5, <2>6, <3>1 DEF EndInv
  <2>7. CASE t = "monitor"
    <3>1. pc'["main"] = pc["main"]
      BY <2>2, <2>7 DEF Thread
    <3> QED BY <2>1, <2>2, <2>3, <2>4, <2>5, <2>7, <3>1 DEF EndInv
  <2> QED BY <2>6, <2>7
<1>3. CASE SpawnMonitor
  BY <1>3 DEF SpawnMonitor, ThreadInv, TypeOK
<1>4. CASE SpawnExecutor
  BY <1>4 DEF SpawnExecutor, ThreadInv, EndInv, TypeOK
<1>5. ASSUME NEW t \in Thread, NEW how \in Exited, Ends(t, how),
             UNCHANGED cup_state, t = "monitor" => how = "failure"
      PROVE  Goal
  <2>1. PICK here \in Label \ {"unborn", "done"} : Finish(t, here, how)
    BY <1>5 DEF Ends
  <2>2. /\ pc[t] = here /\ pc["main"] # "done" /\ pc'[t] = "done" /\ status'[t] = how
        /\ \A u \in Thread \ {t} : pc'[u] = pc[u] /\ status'[u] = status[u]
    BY <2>1, FinishMoves, GotoMoves
  <2> QED BY <1>5, <2>2 DEF EndInv, Thread, Exited
<1>6. CASE Ends("main", "failure") /\ UNCHANGED cup_state
  BY <1>5, <1>6 DEF Exited
<1>7. CASE JoinMonitor
  <2>1. UNCHANGED cup_state /\ Finish("main", "join_monitor", status["monitor"])
        /\ pc["monitor"] = "done"
    BY <1>7 DEF JoinMonitor
  <2>2. status["monitor"] \in Exited
    BY <2>1 DEF ThreadInv, TypeOK
  <2>3. Ends("main", status["monitor"])
    BY <2>1 DEF Ends, Label, MainLabel
  <2> QED BY <1>5, <2>1, <2>2, <2>3
<1>8. CASE ExecutorFails
  BY <1>5, <1>8 DEF ExecutorFails, Ends, Label, ExecutorLabel, Exited
<1>9. CASE ExecutorQuits
  BY <1>5, <1>9 DEF ExecutorQuits, Ends, Label, ExecutorLabel, Exited
<1>10. CASE Ends("monitor", "failure") /\ UNCHANGED cup_state
  BY <1>5, <1>10 DEF Exited
<1>11. CASE SetQuitting
  <2>1. /\ pc["monitor"] = "set_quitting" /\ cup_state' = "QUITTING"
        /\ pc'["monitor"] = "done"
        /\ pc'["main"] = pc["main"] /\ pc'["executor"] = pc["executor"]
    <3>1. Goto("monitor", "set_quitting", "done")
      BY <1>11, FinishMoves DEF SetQuitting
    <3> QED BY <1>11, <3>1, GotoMoves DEF SetQuitting, Thread
  <2> QED BY <2>1, <1>11, GotoMoves DEF EndInv, SetQuitting, Finish, Goto, Alive
<1>12. CASE ExecutorStarts
  <2>1. /\ pc["executor"] = "start" /\ pc'["executor"] = "running"
        /\ pc'["main"] = pc["main"] /\ pc'["monitor"] = pc["monitor"]
        /\ UNCHANGED status
    BY <1>12, GotoMoves DEF ExecutorStarts, Thread
  <2> QED BY <2>1 DEF EndInv
<1> QED BY <1>1, <1>2, <1>3, <1>4, <1>6, <1>7, <1>8, <1>9, <1>10, <1>11, <1>12, StepLives
        DEF LifeStep

\* The end of the input, and the condition variable.
LEMMA EndObjects ==
    ASSUME TypeOK, TearDownInv, EndInv, [Next]_vars
    PROVE  /\ pc'["main"] \in {"join_executor", "join_monitor"} => mon_inp_eof'
           /\ ~undefined' /\ ~cv_alive' => pc'["monitor"] # "waiting"
<1> "main" \in Thread /\ "monitor" \in Thread /\ "executor" \in Thread
  BY DEF Thread
<1> DEFINE Goal == /\ pc'["main"] \in {"join_executor", "join_monitor"} => mon_inp_eof'
                   /\ ~undefined' /\ ~cv_alive' => pc'["monitor"] # "waiting"
<1> SUFFICES Goal
  OBVIOUS
<1> USE DEF EndInv, line, objects, mainLocals, monLocals, history
<1>1. ASSUME NEW t \in Thread, NEW here, NEW there, Goto(t, here, there)
      PROVE  /\ pc[t] = here /\ pc["main"] # "done" /\ ~undefined
             /\ pc'[t] = there
             /\ \A u \in Thread \ {t} : pc'[u] = pc[u]
  BY <1>1, GotoMoves
<1>2. ASSUME NEW t \in Thread, NEW here, NEW there, Goto(t, here, there),
             UNCHANGED <<mon_inp_eof, cv_alive, undefined>>,
             t = "monitor" /\ there = "waiting" => cv_alive,
             t = "main" /\ there \in {"join_executor", "join_monitor"} => mon_inp_eof
      PROVE  Goal
  BY <1>1, <1>2 DEF Thread
<1>3. CASE SetUp
  BY <1>1, <1>3 DEF SetUp
<1>4. CASE SpawnMonitor \/ SpawnExecutor
  BY <1>4 DEF SpawnMonitor, SpawnExecutor, Alive, TypeOK
<1>5. CASE EnvError
  BY <1>2, <1>5 DEF EnvError, Finish
<1>6. CASE TakeEvent
  BY <1>2, <1>6, EventTypes DEF TakeEvent
<1>7. CASE QuitEvent
  BY <1>2, <1>7 DEF QuitEvent
<1>8. CASE ProcEvt
  <2>1. CASE SetEof
    BY <1>1, <2>1 DEF SetEof
  <2>2. CASE ProcEvt /\ ~SetEof
    BY <1>2, <2>2 DEF ProcEvt, Measure, LockText, AppendText, UnlockText, Erase, Signal
  <2> QED BY <1>8, <2>1, <2>2
<1>9. CASE TearDown
  <2>1. CASE TdEof
    BY <1>1, <2>1 DEF TdEof
  <2>2. CASE TdSignal \/ Delay \/ TdLock \/ TdUnlock \/ TdFree
    BY <1>2, <2>2 DEF TdSignal, Delay, TdLock, TdUnlock, TdFree
  <2>3. CASE TdActive \/ TdAgain \/ TdCheck
    BY <1>2, <2>3 DEF TdActive, TdAgain, TdCheck, Finish
  <2>4. CASE TdDestroyCv
    <3>1. /\ Goto("main", "td_destroy_cv", "td_unlock")
          /\ ~undefined' => pc["monitor"] # "waiting"
      BY <2>4 DEF TdDestroyCv
    <3> QED BY <1>1, <3>1
  <2>5. CASE TdDestroyMut
    BY <1>1, <2>5 DEF TdDestroyMut
  <2>6. CASE TdReset
    <3>1. mon_inp_eof
      BY <1>1, <2>6 DEF TdReset, TearDownInv, TearDownLabel
    <3> QED BY <1>2, <2>6, <3>1 DEF TdReset
  <2> QED BY <1>9, <2>1, <2>2, <2>3, <2>4, <2>5, <2>6 DEF TearDown
<1>10. CASE JoinExecutor
  BY <1>1, <1>10 DEF JoinExecutor, Finish
<1>11. CASE JoinMonitor
  BY <1>2, <1>11 DEF JoinMonitor, Finish
<1>12. CASE ExecutorStarts \/ ExecutorFails \/ ExecutorQuits
  BY <1>2, <1>12 DEF ExecutorStarts, ExecutorFails, ExecutorQuits, Finish
<1>13. CASE PrintOutput \/ Place \/ PrintEof
  BY <1>1, <1>13 DEF PrintOutput, Place, PrintEof, Emit, Thread
<1>14. CASE GetInp /\ ~Place
  BY <1>2, <1>14 DEF GetInp, ClearLine, Activate, AddTimer, LockLine, Wait, Woken, CopyLine,
                     UnlockLine, Deactivate, GetEof, Finish
<1>15. CASE Obey \/ SetQuitting
  BY <1>2, <1>15 DEF Obey, SetQuitting, Finish
<1>16. CASE SpuriousWakeUp
  BY <1>16 DEF SpuriousWakeUp
<1>17. CASE UNCHANGED vars
  BY <1>17 DEF vars
<1> QED BY <1>3, <1>4, <1>5, <1>6, <1>7, <1>8, <1>9, <1>10, <1>11, <1>12, <1>13, <1>14,
           <1>15, <1>16, <1>17 DEF Next, MainWork, Monitor, GetInp

LEMMA EndStep == TypeOK /\ ThreadInv /\ TearDownInv /\ EndInv /\ [Next]_vars => EndInv'
BY EndLives, EndObjects DEF EndInv

LEMMA EndAlways == Spec => [](TearDownInv /\ EndInv)
BY TearDownInit, TearDownInvStep, EndInit, EndStep, TypeCorrect, ThreadAlways, PTL DEF Spec

LEMMA LeftTypes ==
    ASSUME TypeOK
    PROVE  /\ TearDownLeft \in Nat /\ JoinsLeft \in Nat
           /\ MonitorLeft \in Nat /\ ExecutorLeft \in Nat
<1>1. MaxAttempts \in Nat \ {0} /\ n \in 0 .. MaxAttempts
  BY SizeAssumption DEF TypeOK
<1>2. TearDownLeft \in Nat
  BY <1>1 DEF TearDownLeft
<1> QED BY <1>2 DEF JoinsLeft, MonitorLeft, ExecutorLeft

\* The tear-down keeps the monitor on its way.
LEMMA TearDownCloses ==
    ASSUME TypeOK, TearDownInv, Closing, TearDown
    PROVE  /\ Closing' \/ ~Alive'
           /\ UNCHANGED <<MonitorLeft, ExecutorLeft>> /\ JoinsLeft' <= JoinsLeft
<1> "main" \in Thread /\ "monitor" \in Thread /\ "executor" \in Thread
  BY DEF Thread
<1> USE DEF Closing, Alive, LeavesWait, TearDownLabel, line, objects, mainLocals,
            monLocals, history, MonitorLeft, ExecutorLeft, JoinsLeft, ExecutorUp, Note
<1>1. ASSUME NEW here, NEW there, Goto("main", here, there)
      PROVE  /\ pc["main"] = here /\ pc'["main"] = there
             /\ pc'["monitor"] = pc["monitor"] /\ pc'["executor"] = pc["executor"]
  BY <1>1, GotoMoves DEF Thread
<1>2. ASSUME NEW here \in TearDownLabel, here \notin {"td_eof", "td_active", "td_signal"},
             NEW there \in (TearDownLabel \ {"td_eof", "td_active", "td_signal"})
                           \cup {"join_executor"},
             Goto("main", here, there), UNCHANGED <<mon_inp_cv, eof, status>>,
             "early" \notin mishaps'
      PROVE  /\ Closing' \/ ~Alive'
             /\ UNCHANGED <<MonitorLeft, ExecutorLeft>> /\ JoinsLeft' <= JoinsLeft
  BY <1>1, <1>2
<1>3. CASE TdEof
  BY <1>1, <1>3 DEF TdEof
<1>4. CASE TdActive
  <2>1. "monitor" \in mon_inp_cv => mon_inp_active
    BY <1>1, <1>4 DEF TdActive, TearDownInv, GetInpLabel
  <2>2. PICK there \in {"td_signal", "td_check"} :
          /\ Goto("main", "td_active", there)
          /\ there = "td_signal" <=> mon_inp_active
    BY <1>4 DEF TdActive
  <2> QED BY <1>1, <1>4, <2>1, <2>2 DEF TdActive
<1>5. CASE TdSignal
  BY <1>1, <1>5 DEF TdSignal
<1>6. CASE Delay
  BY <1>2, <1>6 DEF Delay
<1>7. CASE TdAgain
  BY <1>2, <1>7 DEF TdAgain
<1>8. CASE TdCheck
  <2>1. CASE mon_inp_active
    <3>1. Finish("main", "td_check", "failure")
      BY <1>8, <2>1 DEF TdCheck
    <3> QED BY <1>1, <3>1 DEF Finish
  <2>2. CASE ~mon_inp_active
    BY <1>2, <1>8, <2>2 DEF TdCheck
  <2> QED BY <2>1, <2>2
<1>9. CASE TdLock \/ TdDestroyCv \/ TdUnlock \/ TdDestroyMut \/ TdFree \/ TdReset
  BY <1>2, <1>9 DEF TdLock, TdDestroyCv, TdUnlock, TdDestroyMut, TdFree, TdReset
<1> QED BY <1>3, <1>4, <1>5, <1>6, <1>7, <1>8, <1>9 DEF TearDown

\* So do the monitor's own steps, which have no way but the one to the end.
LEMMA MonitorCloses ==
    ASSUME TypeOK, TearDownInv, EndInv, Closing, Monitor
    PROVE  /\ Closing' \/ ~Alive'
           /\ UNCHANGED <<TearDownLeft, JoinsLeft, ExecutorLeft>>
           /\ MonitorLeft' < MonitorLeft
<1> "main" \in Thread /\ "monitor" \in Thread /\ "executor" \in Thread
  BY DEF Thread
<1> USE DEF Closing, LeavesWait, line, objects, mainLocals, monLocals, history,
            TearDownLeft, JoinsLeft, ExecutorLeft, MonitorLeft, ExecutorUp, Note
<1>1. ASSUME NEW here, NEW there, Goto("monitor", here, there)
      PROVE  /\ pc["monitor"] = here /\ pc'["monitor"] = there
             /\ pc'["main"] = pc["main"] /\ pc'["executor"] = pc["executor"]
  BY <1>1, GotoMoves DEF Thread
<1>2. CASE PrintOutput \/ Place \/ ClearLine \/ Activate
  BY <1>1, <1>2 DEF PrintOutput, Place, ClearLine, Activate, Emit
<1>3. CASE AddTimer \/ LockLine \/ Wait
  BY <1>1, <1>3 DEF AddTimer, LockLine, Wait, Finish
<1>4. CASE Woken \/ CopyLine \/ UnlockLine \/ Deactivate
  BY <1>1, <1>4 DEF Woken, CopyLine, UnlockLine, Deactivate
<1>5. CASE GetEof
  <2>1. mon_inp_eof
    BY DEF TearDownInv, EndInv
  <2> QED BY <1>1, <1>5, <2>1 DEF GetEof
<1>6. CASE Obey
  <2>1. eof
    BY <1>1, <1>6 DEF Obey, Finish
  <2> QED BY <1>1, <1>6, <2>1 DEF Obey
<1>7. CASE PrintEof
  BY <1>1, <1>7 DEF PrintEof, Emit
<1>8. CASE SetQuitting
  <2>1. Finish("monitor", "set_quitting", "success")
    BY <1>8 DEF SetQuitting
  <2>2. Goto("monitor", "set_quitting", "done") /\ status'["monitor"] = "success"
    BY <2>1, FinishMoves
  <2>3. UNCHANGED <<line, objects, mainLocals, monLocals, history>>
    BY <1>8 DEF SetQuitting
  <2> QED BY <1>1, <2>2, <2>3
<1> QED BY <1>2, <1>3, <1>4, <1>5, <1>6, <1>7, <1>8 DEF Monitor, GetInp

\* The joins, and the executor.
LEMMA JoinsClose ==
    ASSUME TypeOK, Closing, JoinExecutor \/ JoinMonitor
    PROVE  /\ Closing' \/ ~Alive'
           /\ UNCHANGED <<TearDownLeft, MonitorLeft, ExecutorLeft>>
           /\ JoinsLeft' < JoinsLeft
<1> "main" \in Thread /\ "monitor" \in Thread /\ "executor" \in Thread
  BY DEF Thread
<1> USE DEF Closing, Alive, LeavesWait, TearDownLabel, line, objects, mainLocals,
            monLocals, history, TearDownLeft, JoinsLeft, ExecutorLeft, MonitorLeft,
            ExecutorUp
<1>1. ASSUME NEW here, NEW there, Goto("main", here, there)
      PROVE  /\ pc["main"] = here /\ pc'["main"] = there
             /\ pc'["monitor"] = pc["monitor"] /\ pc'["executor"] = pc["executor"]
  BY <1>1, GotoMoves DEF Thread
<1>2. CASE JoinExecutor
  <2>1. CASE status["executor"] = "success"
    <3>1. Goto("main", "join_executor", "join_monitor") /\ UNCHANGED status
      BY <1>2, <2>1 DEF JoinExecutor
    <3> QED BY <1>1, <1>2, <3>1 DEF JoinExecutor
  <2>2. CASE status["executor"] # "success"
    BY <1>1, <1>2, <2>2 DEF JoinExecutor, Finish
  <2> QED BY <2>1, <2>2
<1>3. CASE JoinMonitor
  BY <1>1, <1>3 DEF JoinMonitor, Finish
<1> QED BY <1>2, <1>3

LEMMA ExecutorCloses ==
    ASSUME TypeOK, Closing, ExecutorFails \/ ExecutorQuits
    PROVE  /\ Closing'
           /\ UNCHANGED <<TearDownLeft, JoinsLeft, MonitorLeft>>
           /\ ExecutorLeft' < ExecutorLeft
<1> "main" \in Thread /\ "monitor" \in Thread /\ "executor" \in Thread
  BY DEF Thread
<1>1. PICK how \in Exited : Finish("executor", "running", how)
  BY DEF ExecutorFails, ExecutorQuits, Exited
<1>2. UNCHANGED <<line, objects, cup_state, mainLocals, monLocals, undefined, history>>
  BY DEF ExecutorFails, ExecutorQuits
<1>3. /\ pc["executor"] = "running" /\ pc'["executor"] = "done"
      /\ pc'["main"] = pc["main"] /\ pc'["monitor"] = pc["monitor"]
      /\ status'["monitor"] = status["monitor"]
  BY <1>1, FinishMoves, GotoMoves DEF Thread
<1> QED BY <1>2, <1>3 DEF Closing, LeavesWait, line, objects, mainLocals, monLocals,
              history, TearDownLeft, JoinsLeft, ExecutorLeft, MonitorLeft, ExecutorUp

\* The rest of main() is over, and a wake-up from nowhere moves nobody.
LEMMA NothingElseCloses ==
    ASSUME TypeOK, Closing, [Next]_vars, vars' # vars
    PROVE  \/ TearDown \/ Monitor \/ JoinExecutor \/ JoinMonitor
           \/ ExecutorFails \/ ExecutorQuits \/ SpuriousWakeUp
<1> "main" \in Thread
  BY DEF Thread
<1>1. ~(SetUp \/ SpawnMonitor \/ SpawnExecutor \/ ProcEvt \/ TakeEvent \/ QuitEvent \/ EnvError)
  BY DEF Closing, TearDownLabel, ProcEvt, SetUp, SpawnMonitor, SpawnExecutor, Measure,
         LockText, AppendText, UnlockText, Erase, SetEof, Signal, TakeEvent, QuitEvent,
         EnvError, Finish, Goto
<1>2. ~ExecutorStarts
  BY DEF Closing, ExecutorUp, ExecutorStarts, Goto
<1> QED BY <1>1, <1>2 DEF Next, MainWork

LEMMA WakeUpCloses ==
    ASSUME Closing, SpuriousWakeUp
    PROVE  Closing' /\ EndLeft' = EndLeft
BY DEF SpuriousWakeUp, Closing, LeavesWait, EndLeft, TearDownLeft, JoinsLeft, MonitorLeft,
       ExecutorLeft, ExecutorUp, Note, line, objects, mainLocals, monLocals

LEMMA SumFalls ==
    ASSUME NEW a \in Nat, NEW b \in Nat, NEW c \in Nat, NEW d \in Nat,
           NEW w \in Nat, NEW x \in Nat, NEW y \in Nat, NEW z \in Nat,
           w <= a, x <= b, y <= c, z <= d, w < a \/ x < b \/ y < c \/ z < d
    PROVE  w + x + y + z < a + b + c + d
OBVIOUS

LEMMA ClosingStep ==
    ASSUME Inv, Inv', TearDownInv, EndInv, Closing, [Next]_vars, vars' # vars
    PROVE  /\ Closing' \/ ~Alive'
           /\ IF SpuriousWakeUp THEN EndLeft' = EndLeft ELSE EndLeft' < EndLeft
<1> USE DEF Inv
<1>1. /\ TearDownLeft \in Nat /\ JoinsLeft \in Nat /\ MonitorLeft \in Nat
      /\ ExecutorLeft \in Nat
  BY LeftTypes
<1>2. /\ TearDownLeft' \in Nat /\ JoinsLeft' \in Nat /\ MonitorLeft' \in Nat
      /\ ExecutorLeft' \in Nat
  <2>1. MaxAttempts \in Nat \ {0} /\ n' \in 0 .. MaxAttempts
    BY SizeAssumption DEF TypeOK
  <2>2. TearDownLeft' \in Nat
    BY <2>1 DEF TearDownLeft
  <2> QED BY <2>2 DEF JoinsLeft, MonitorLeft, ExecutorLeft
<1>3. ASSUME TearDownLeft' <= TearDownLeft, JoinsLeft' <= JoinsLeft,
             MonitorLeft' <= MonitorLeft, ExecutorLeft' <= ExecutorLeft,
             \/ TearDownLeft' < TearDownLeft \/ JoinsLeft' < JoinsLeft
             \/ MonitorLeft' < MonitorLeft \/ ExecutorLeft' < ExecutorLeft
      PROVE  EndLeft' < EndLeft
  BY <1>1, <1>2, <1>3, SumFalls DEF EndLeft
<1>4. CASE SpuriousWakeUp
  BY <1>4, WakeUpCloses
<1>5. CASE TearDown /\ ~SpuriousWakeUp
  <2>1. TearDownLeft' < TearDownLeft
    BY <1>5, TearDownNears
  <2>2. /\ Closing' \/ ~Alive'
        /\ UNCHANGED <<MonitorLeft, ExecutorLeft>> /\ JoinsLeft' <= JoinsLeft
    BY <1>5, TearDownCloses
  <2>3. EndLeft' < EndLeft
    BY <1>1, <1>2, <1>3, <2>1, <2>2
  <2> QED BY <1>5, <2>2, <2>3
<1>6. CASE Monitor /\ ~SpuriousWakeUp
  <2>1. /\ Closing' \/ ~Alive'
        /\ UNCHANGED <<TearDownLeft, JoinsLeft, ExecutorLeft>>
        /\ MonitorLeft' < MonitorLeft
    BY <1>6, MonitorCloses
  <2>2. EndLeft' < EndLeft
    BY <1>1, <1>2, <1>3, <2>1
  <2> QED BY <1>6, <2>1, <2>2
<1>7. CASE (JoinExecutor \/ JoinMonitor) /\ ~SpuriousWakeUp
  <2>1. /\ Closing' \/ ~Alive'
        /\ UNCHANGED <<TearDownLeft, MonitorLeft, ExecutorLeft>>
        /\ JoinsLeft' < JoinsLeft
    BY <1>7, JoinsClose
  <2>2. EndLeft' < EndLeft
    BY <1>1, <1>2, <1>3, <2>1
  <2> QED BY <1>7, <2>1, <2>2
<1>8. CASE (ExecutorFails \/ ExecutorQuits) /\ ~SpuriousWakeUp
  <2>1. /\ Closing'
        /\ UNCHANGED <<TearDownLeft, JoinsLeft, MonitorLeft>>
        /\ ExecutorLeft' < ExecutorLeft
    BY <1>8, ExecutorCloses
  <2>2. EndLeft' < EndLeft
    BY <1>1, <1>2, <1>3, <2>1
  <2> QED BY <1>8, <2>1, <2>2
<1> QED BY <1>4, <1>5, <1>6, <1>7, <1>8, NothingElseCloses

\* When the tear-down finds the monitor waiting, or finds that it has quit, and the
\* executor had started before the first command, the console is on its way to the
\* end: in particular mon_inp_active is still set, so that the monitor will be
\* signalled, and the end of the input is what it will then see.
THEOREM QuitIsUnderWay ==
    Spec => [](/\ pc["main"] = "td_active"
               /\ "monitor" \in mon_inp_cv \/ status["monitor"] = "success"
               /\ ExecutorUp /\ "early" \notin mishaps
               => Closing)
<1>1. /\ TypeOK /\ ThreadInv /\ TearDownInv /\ pc["main"] = "td_active"
      /\ "monitor" \in mon_inp_cv \/ status["monitor"] = "success"
      /\ ExecutorUp /\ "early" \notin mishaps
      => Closing
  BY DEF TypeOK, ThreadInv, TearDownInv, Closing, LeavesWait, TearDownLabel, Thread
<1> QED BY <1>1, TypeCorrect, ThreadAlways, EndAlways, PTL

\* From there no step of any thread leads away from the end, and every one that is not
\* a wake-up from nowhere brings it nearer: a run has at most 2 * MaxAttempts + 20 of
\* them before main() returns, unless something is used that was destroyed.
THEOREM EveryStepNearsTheEnd ==
    Spec => [][Closing => /\ Closing' \/ ~Alive'
                          /\ IF SpuriousWakeUp THEN EndLeft' = EndLeft
                                               ELSE EndLeft' < EndLeft]_vars
<1>1. Inv /\ Inv' /\ TearDownInv /\ EndInv /\ [Next]_vars
      => [Closing => /\ Closing' \/ ~Alive'
                     /\ IF SpuriousWakeUp THEN EndLeft' = EndLeft
                                          ELSE EndLeft' < EndLeft]_vars
  BY ClosingStep
<1> QED BY <1>1, InvAlways, EndAlways, PTL DEF Spec

LEMMA SomebodyAlwaysMoves ==
    TypeOK /\ MutexInv /\ EndInv /\ Closing /\ Alive => SomebodyMoves
<1> SUFFICES ASSUME TypeOK, MutexInv, EndInv, Closing, Alive, ~SomebodyMoves
             PROVE  FALSE
  OBVIOUS
<1>1. pc["main"] \in {"td_lock", "join_executor", "join_monitor"}
  BY DEF Closing, SomebodyMoves
<1>2. pc["monitor"] \in {"waiting", "done"}
  BY DEF Closing, LeavesWait, SomebodyMoves
<1>3. CASE pc["main"] = "td_lock"
  <2>1. mon_inp_mut # "free" /\ mon_inp_mut \in {"free", "main", "monitor", "destroyed"}
    BY <1>3 DEF SomebodyMoves, TypeOK
  <2> QED BY <1>2, <1>3, <2>1 DEF MutexInv, LockedByMain, LockedByMonitor, Alive
<1>4. CASE pc["main"] \in {"join_executor", "join_monitor"}
  <2>1. pc["monitor"] = "done"
    BY <1>2, <1>4 DEF MutexInv, EndInv, Alive
  <2>2. cup_state = "QUITTING"
    BY <2>1 DEF Closing, EndInv
  <2>3. pc["executor"] = "done"
    BY <1>4, <2>2 DEF Closing, ExecutorUp, SomebodyMoves, TypeOK, ExecutorLabel
  <2> QED BY <1>4, <2>1, <2>3 DEF SomebodyMoves
<1> QED BY <1>1, <1>3, <1>4

\* And until then there is always a thread that has nothing to wait for: nobody holds
\* the mutex that the tear-down needs, waits on the condition variable that it has
\* destroyed, or is joined for ever.
THEOREM NobodyWaitsAfterTheWindow == Spec => [](Closing /\ Alive => SomebodyMoves)
BY SomebodyAlwaysMoves, TypeCorrect, EndAlways, LineIsLocked, PTL
=============================================================================
