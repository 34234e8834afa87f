-------------------------- MODULE RunControlProofs --------------------------
(***************************************************************************)
(* Proofs about run control, for every memory image, every meaning of its  *)
(* instructions and every choice of the environment switches.              *)
(***************************************************************************)
EXTENDS RunControl, Naturals, TLAPS

LEMMA TypeInit == Init => TypeOK
BY ResetAssumption, ProgAssumption
DEF Init, TypeOK, CpuState, Thread, Stepper, MainLabel, ExecutorLabel,
    MonitorLabel, ExecLabel, Exited

\* What Goto and Finish do to the program counters and the exit statuses.
LEMMA GotoMoves ==
    ASSUME TypeOK, NEW t \in Thread, NEW here, NEW there, Goto(t, here, there)
    PROVE  /\ pc[t] = here
           /\ pc["main"] # "done"
           /\ pc'[t] = there
           /\ \A u \in Thread \ {t} : pc'[u] = pc[u]
           /\ pc' = [pc EXCEPT ![t] = there]
BY DEF TypeOK, Goto, Alive, Thread

LEMMA FinishMoves ==
    ASSUME TypeOK, NEW t \in Thread, NEW here, NEW how, Finish(t, here, how)
    PROVE  /\ Goto(t, here, "done")
           /\ status'[t] = how
           /\ \A u \in Thread \ {t} : status'[u] = status[u]
BY DEF TypeOK, Finish, Thread

\* Moving a thread to a label of its own keeps the program counters well typed.
LEMMA GotoType ==
    ASSUME TypeOK, NEW t \in Thread, NEW here, NEW there, Goto(t, here, there),
           \/ t = "main" /\ there \in MainLabel
           \/ t = "executor" /\ there \in ExecutorLabel
           \/ t = "monitor" /\ there \in MonitorLabel
    PROVE  /\ pc' \in [Thread -> MainLabel \cup ExecutorLabel \cup MonitorLabel]
           /\ pc'["main"] \in MainLabel
           /\ pc'["executor"] \in ExecutorLabel
           /\ pc'["monitor"] \in MonitorLabel
BY DEF TypeOK, Goto, Thread

LEMMA FinishType ==
    ASSUME TypeOK, NEW t \in Thread, NEW here, NEW how \in Exited, Finish(t, here, how)
    PROVE  /\ pc' \in [Thread -> MainLabel \cup ExecutorLabel \cup MonitorLabel]
           /\ pc'["main"] \in MainLabel
           /\ pc'["executor"] \in ExecutorLabel
           /\ pc'["monitor"] \in MonitorLabel
           /\ status' \in [Thread -> {"none"} \cup Exited]
<1>1. Goto(t, here, "done")
  BY DEF Finish
<1>2. "done" \in MainLabel /\ "done" \in ExecutorLabel /\ "done" \in MonitorLabel
  BY DEF MainLabel, ExecutorLabel, MonitorLabel
<1>3. t \in {"main", "executor", "monitor"}
  BY DEF Thread
<1>4. status' \in [Thread -> {"none"} \cup Exited]
  BY DEF TypeOK, Finish
<1> QED BY <1>1, <1>2, <1>3, <1>4, GotoType

\* Executing an instruction yields an address or fails.
LEMMA OutcomeType ==
    ASSUME NEW a \in Addr, NEW i \in Insn
    PROVE  Outcome[<<a, i>>] \subseteq Addr \cup {Fails}
BY OutcomeAssumption

LEMMA MainType == TypeOK /\ Main => TypeOK'
<1> SUFFICES ASSUME TypeOK, Main PROVE TypeOK'
  OBVIOUS
<1> "main" \in Thread
  BY DEF Thread
<1>1. CASE SpawnMonitor
  BY <1>1 DEF TypeOK, SpawnMonitor, Spawn, shared, locals, Thread, MainLabel,
              ExecutorLabel, MonitorLabel
<1>2. CASE SpawnExecutor
  BY <1>2 DEF TypeOK, SpawnExecutor, Spawn, shared, locals, Thread, MainLabel,
              ExecutorLabel, MonitorLabel
<1>3. CASE SpawnError
  <2>1. PICK here : Finish("main", here, "failure")
    BY <1>3 DEF SpawnError
  <2> QED BY <1>3, <2>1, FinishType DEF SpawnError, TypeOK, shared, locals, Exited
<1>4. CASE JoinExecutor
  <2>1. CASE status["executor"] = "success"
    <3>1. Goto("main", "join_executor", "join_monitor") /\ UNCHANGED status
      BY <1>4, <2>1 DEF JoinExecutor
    <3> QED BY <1>4, <3>1, GotoType DEF JoinExecutor, TypeOK, shared, locals, MainLabel
  <2>2. CASE status["executor"] # "success"
    <3>1. Finish("main", "join_executor", "failure")
      BY <1>4, <2>2 DEF JoinExecutor
    <3> QED BY <1>4, <3>1, FinishType DEF JoinExecutor, TypeOK, shared, locals, Exited
  <2> QED BY <2>1, <2>2
<1>5. CASE JoinMonitor
  <2> QED BY <1>5 DEF JoinMonitor, Finish, Goto, Alive, TypeOK, shared, locals,
                     Exited, Thread, MainLabel
<1> QED BY <1>1, <1>2, <1>3, <1>4, <1>5 DEF Main

LEMMA ExecType == ASSUME TypeOK, NEW t \in Stepper, ExecOneInsn(t) PROVE TypeOK'
<1> t \in Thread /\ t \in {"executor", "monitor"}
  BY DEF Stepper, Thread
<1> USE DEF TypeOK, shared, locals, locks, ExecutorLabel, MonitorLabel, ExecLabel
<1>1. CASE Fetch(t)
  <2>1. Prog[cup_pc] \in Insn
    BY ProgAssumption
  <2> QED BY <1>1, <2>1, GotoType DEF Fetch
<1>2. CASE Operand(t)
  BY <1>2, GotoType DEF Operand
<1>3. CASE Commit(t)
  <2>1. cup_pc' \in Addr
    BY <1>3, OutcomeType DEF Commit
  <2> QED BY <1>3, <2>1, GotoType DEF Commit
<1>4. CASE Fault(t)
  BY <1>4, GotoType DEF Fault
<1>5. CASE SetError(t)
  <2>1. Finish(t, "error", "failure")
    BY <1>5 DEF SetError
  <2> QED BY <1>5, <2>1, FinishType DEF SetError, Exited, CpuState
<1> QED BY <1>1, <1>2, <1>3, <1>4, <1>5 DEF ExecOneInsn

LEMMA ExecutorType == TypeOK /\ Executor => TypeOK'
<1> SUFFICES ASSUME TypeOK, Executor PROVE TypeOK'
  OBVIOUS
<1> "executor" \in Thread /\ "executor" \in Stepper
  BY DEF Thread, Stepper
<1> USE DEF TypeOK, shared, locals, locks, ExecutorLabel, ExecLabel, CpuState
<1>1. CASE StartRunning
  BY <1>1, GotoType DEF StartRunning
<1>2. CASE CheckBreakPoint
  BY <1>2, GotoType DEF CheckBreakPoint
<1>3. CASE SetBreakPoint
  BY <1>3, GotoType DEF SetBreakPoint
<1>4. CASE TestStopped
  BY <1>4, GotoType DEF TestStopped
<1>5. CASE Lock
  BY <1>5, GotoType DEF Lock
<1>6. CASE Wait
  BY <1>6, GotoType DEF Wait
<1>7. CASE Woken
  BY <1>7, GotoType DEF Woken
<1>8. CASE Unlock
  BY <1>8, GotoType DEF Unlock
<1>9. CASE ExecOneInsn("executor")
  BY <1>9, ExecType
<1>10. CASE LoopTest
  <2>1. CASE cup_state = "QUITTING"
    <3>1. Finish("executor", "loop", "success")
      BY <1>10, <2>1 DEF LoopTest
    <3> QED BY <1>10, <3>1, FinishType DEF LoopTest, Exited
  <2>2. CASE cup_state # "QUITTING"
    BY <1>10, <2>2, GotoType DEF LoopTest
  <2> QED BY <2>1, <2>2
<1> QED BY <1>1, <1>2, <1>3, <1>4, <1>5, <1>6, <1>7, <1>8, <1>9, <1>10 DEF Executor

LEMMA MonitorType == TypeOK /\ Monitor => TypeOK'
<1> SUFFICES ASSUME TypeOK, Monitor PROVE TypeOK'
  OBVIOUS
<1> "monitor" \in Thread /\ "monitor" \in Stepper
  BY DEF Thread, Stepper
<1> USE DEF TypeOK, shared, locals, locks, MonitorLabel, ExecLabel, CpuState, Exited
<1>1. CASE CmdStep
  BY <1>1, GotoType DEF CmdStep
<1>2. CASE CmdQuit
  BY <1>2, GotoType DEF CmdQuit
<1>3. CASE OutputError
  <2>1. Finish("monitor", "prompt", "failure")
    BY <1>3 DEF OutputError
  <2> QED BY <1>3, <2>1, FinishType DEF OutputError
<1>4. CASE StepTest
  <2>1. CASE cup_state \in Stopped
    BY <1>4, <2>1, GotoType DEF StepTest
  <2>2. CASE cup_state \notin Stopped
    <3>1. Finish("monitor", "step", "failure")
      BY <1>4, <2>2 DEF StepTest
    <3> QED BY <1>4, <3>1, FinishType DEF StepTest
  <2> QED BY <2>1, <2>2
<1>5. CASE ExecOneInsn("monitor")
  BY <1>5, ExecType
<1>6. CASE StepCheckBreakPoint
  BY <1>6, GotoType DEF StepCheckBreakPoint
<1>7. CASE StepStore
  BY <1>7, GotoType DEF StepStore
<1>8. CASE QuitTest
  BY <1>8, GotoType DEF QuitTest
<1>9. CASE QuitSignal
  BY <1>9, GotoType DEF QuitSignal
<1>10. CASE QuitStore
  <2>1. Finish("monitor", "set_quitting", "success")
    BY <1>10 DEF QuitStore
  <2> QED BY <1>10, <2>1, FinishType DEF QuitStore
<1> QED BY <1>1, <1>2, <1>3, <1>4, <1>5, <1>6, <1>7, <1>8, <1>9, <1>10
        DEF Monitor, MonitorWork

LEMMA TypeStep == TypeOK /\ [Next]_vars => TypeOK'
<1> SUFFICES ASSUME TypeOK, [Next]_vars PROVE TypeOK'
  OBVIOUS
<1>1. CASE Main
  BY <1>1, MainType
<1>2. CASE Executor
  BY <1>2, ExecutorType
<1>3. CASE Monitor
  BY <1>3, MonitorType
<1>4. CASE SpuriousWakeUp
  BY <1>4 DEF SpuriousWakeUp, TypeOK, locals
<1>5. CASE UNCHANGED vars
  BY <1>5 DEF vars, TypeOK
<1> QED BY <1>1, <1>2, <1>3, <1>4, <1>5 DEF Next

\* Every variable of run control keeps its type; in particular cup_pc never
\* leaves RAM, however the steps of the two threads that move it interleave, so
\* the fetch of an instruction never fails (GetNextInsn in cpu.c).
THEOREM TypeCorrect == Spec => []TypeOK
BY TypeInit, TypeStep, PTL DEF Spec
-----------------------------------------------------------------------------
LEMMA ThreadInit == Init => ThreadInv
BY DEF Init, ThreadInv, QuitIsRequested, Thread

LEMMA MainThreads == TypeOK /\ ThreadInv /\ Main => ThreadInv'
<1> SUFFICES ASSUME TypeOK, ThreadInv, Main PROVE ThreadInv'
  OBVIOUS
<1> USE DEF TypeOK, ThreadInv, QuitIsRequested, Thread, shared, locals
<1>1. CASE SpawnMonitor
  BY <1>1 DEF SpawnMonitor, Spawn
<1>2. CASE SpawnExecutor
  BY <1>2 DEF SpawnExecutor, Spawn
<1>3. CASE SpawnError
  BY <1>3 DEF SpawnError, Finish, Goto
<1>4. CASE JoinExecutor
  BY <1>4 DEF JoinExecutor, Finish, Goto
<1>5. CASE JoinMonitor
  <2>1. status["monitor"] # "none"
    BY <1>5 DEF JoinMonitor
  <2> QED BY <1>5, <2>1 DEF JoinMonitor, Finish, Goto
<1> QED BY <1>1, <1>2, <1>3, <1>4, <1>5 DEF Main

LEMMA ExecThreads ==
    ASSUME TypeOK, ThreadInv, NEW t \in Stepper, ExecOneInsn(t)
    PROVE  ThreadInv'
<1> t \in {"executor", "monitor"}
  BY DEF Stepper
<1> USE DEF TypeOK, ThreadInv, QuitIsRequested, Thread, shared, locals, locks, Goto
<1>1. CASE Fetch(t)
  BY <1>1 DEF Fetch
<1>2. CASE Operand(t)
  BY <1>2 DEF Operand
<1>3. CASE Commit(t)
  BY <1>3 DEF Commit
<1>4. CASE Fault(t)
  BY <1>4 DEF Fault
<1>5. CASE SetError(t)
  BY <1>5 DEF SetError, Finish
<1> QED BY <1>1, <1>2, <1>3, <1>4, <1>5 DEF ExecOneInsn

LEMMA ExecutorThreads == TypeOK /\ ThreadInv /\ Executor => ThreadInv'
<1> SUFFICES ASSUME TypeOK, ThreadInv, Executor PROVE ThreadInv'
  OBVIOUS
<1>1. CASE ExecOneInsn("executor")
  BY <1>1, ExecThreads DEF Stepper
<1> USE DEF TypeOK, ThreadInv, QuitIsRequested, Thread, shared, locals, locks, Goto
<1>2. CASE StartRunning
  BY <1>2 DEF StartRunning
<1>3. CASE CheckBreakPoint \/ TestStopped
  BY <1>3 DEF CheckBreakPoint, TestStopped
<1>4. CASE SetBreakPoint
  BY <1>4 DEF SetBreakPoint
<1>5. CASE Lock \/ Wait \/ Woken \/ Unlock
  BY <1>5 DEF Lock, Wait, Woken, Unlock
<1>6. CASE LoopTest
  BY <1>6 DEF LoopTest, Finish
<1> QED BY <1>1, <1>2, <1>3, <1>4, <1>5, <1>6 DEF Executor

LEMMA MonitorThreads == TypeOK /\ ThreadInv /\ Monitor => ThreadInv'
<1> SUFFICES ASSUME TypeOK, ThreadInv, Monitor PROVE ThreadInv'
  OBVIOUS
<1>1. CASE ExecOneInsn("monitor")
  BY <1>1, ExecThreads DEF Stepper
<1> USE DEF TypeOK, ThreadInv, QuitIsRequested, Thread, shared, locals, locks, Goto
<1>2. CASE CmdStep \/ CmdQuit
  BY <1>2 DEF CmdStep, CmdQuit
<1>3. CASE OutputError
  BY <1>3 DEF OutputError, Finish
<1>4. CASE StepTest
  BY <1>4 DEF StepTest, Finish
<1>5. CASE StepCheckBreakPoint
  BY <1>5 DEF StepCheckBreakPoint
<1>6. CASE StepStore
  BY <1>6 DEF StepStore
<1>7. CASE QuitTest
  BY <1>7 DEF QuitTest
<1>8. CASE QuitSignal
  BY <1>8 DEF QuitSignal
<1>9. CASE QuitStore
  BY <1>9 DEF QuitStore, Finish
<1> QED BY <1>1, <1>2, <1>3, <1>4, <1>5, <1>6, <1>7, <1>8, <1>9 DEF Monitor, MonitorWork

LEMMA ThreadStep == TypeOK /\ ThreadInv /\ [Next]_vars => ThreadInv'
<1> SUFFICES ASSUME TypeOK, ThreadInv, [Next]_vars PROVE ThreadInv'
  OBVIOUS
<1>1. CASE Main
  BY <1>1, MainThreads
<1>2. CASE Executor
  BY <1>2, ExecutorThreads
<1>3. CASE Monitor
  BY <1>3, MonitorThreads
<1>4. CASE SpuriousWakeUp
  BY <1>4 DEF SpuriousWakeUp, ThreadInv, QuitIsRequested
<1>5. CASE UNCHANGED vars
  BY <1>5 DEF vars, ThreadInv, QuitIsRequested
<1> QED BY <1>1, <1>2, <1>3, <1>4, <1>5 DEF Next

\* How the threads depend on one another: main() spawns before it joins, and
\* CU_CPU_QUITTING is only ever the last store of a monitor that succeeds.
THEOREM ThreadsAreOrdered == Spec => []ThreadInv
BY ThreadInit, ThreadStep, TypeCorrect, PTL DEF Spec

\* The executor never ends with success unless the user asked to quit: no
\* store to cup_state by another path makes its loop end.
THEOREM QuitIsAlwaysRequested == Spec => []QuitIsRequested
<1>1. ThreadInv => QuitIsRequested
  BY DEF ThreadInv
<1> QED BY <1>1, ThreadsAreOrdered, PTL
-----------------------------------------------------------------------------
(***************************************************************************)
(* Run control implements Lifecycle.                                       *)
(***************************************************************************)
LEMMA PromiseInit == Init => Promise!Init
BY DEF Init, Promise!Init, ThreadState, Thread

\* A step that moves a thread that goes on from one label to another is a stutter.
LEMMA GotoStutters ==
    ASSUME TypeOK, ThreadInv, NEW t \in Thread, NEW here, NEW there,
           Goto(t, here, there), UNCHANGED status,
           here # "unborn", there # "unborn"
    PROVE  UNCHANGED Promise!lvars
<1>1. \A u \in Thread : ThreadState(u)' = ThreadState(u)
  BY DEF TypeOK, ThreadInv, ThreadState, Goto
<1> QED BY <1>1 DEF Promise!lvars, Thread

\* The threads as the abstract specification sees them, when one of them ends.
LEMMA FinishEnds ==
    ASSUME TypeOK, ThreadInv, NEW t \in Thread, NEW here, NEW how \in Exited,
           Finish(t, here, how), here \notin {"unborn", "done"}
    PROVE  /\ ThreadState("main") = "running"
           /\ ThreadState(t) = "running"
           /\ ThreadState(t)' = how
           /\ \A u \in Thread \ {t} : ThreadState(u)' = ThreadState(u)
<1>1. /\ pc[t] = here
      /\ status[t] = "none" /\ status["main"] = "none"
      /\ pc["main"] \in MainLabel /\ pc["main"] # "done"
      /\ pc'[t] = "done" /\ status'[t] = how
      /\ \A u \in Thread \ {t} : pc'[u] = pc[u] /\ status'[u] = status[u]
  BY DEF TypeOK, ThreadInv, Finish, Goto, Alive, Thread
<1> QED BY <1>1 DEF ThreadState, Exited, MainLabel

LEMMA PromiseMain ==
    TypeOK /\ ThreadInv /\ Main => [Promise!Next]_(Promise!lvars)
<1> SUFFICES ASSUME TypeOK, ThreadInv, Main PROVE [Promise!Next]_(Promise!lvars)
  OBVIOUS
<1> "main" \in Thread /\ "executor" \in Thread /\ "monitor" \in Thread
  BY DEF Thread
<1>1. CASE SpawnMonitor
  <2>1. Promise!StartMonitor /\ ThreadState("main") = "running"
    BY <1>1 DEF SpawnMonitor, Spawn, Alive, Promise!StartMonitor, ThreadState,
                TypeOK, ThreadInv, Thread
  <2> QED BY <2>1 DEF Promise!Next
<1>2. CASE SpawnExecutor
  <2>1. Promise!StartExecutor /\ ThreadState("main") = "running"
    BY <1>2 DEF SpawnExecutor, Spawn, Alive, Promise!StartExecutor, ThreadState,
                TypeOK, ThreadInv, Thread, Exited
  <2> QED BY <2>1 DEF Promise!Next
<1>3. CASE SpawnError
  <2>1. PICK here \in {"spawn_monitor", "spawn_executor"} : Finish("main", here, "failure")
    BY <1>3 DEF SpawnError
  <2>2. ThreadState("executor") = "unborn"
    BY <2>1 DEF Finish, Goto, ThreadInv, ThreadState
  <2>3. Promise!GiveUp /\ ThreadState("main") = "running"
    BY <2>1, <2>2, FinishEnds DEF Promise!GiveUp, Exited, Thread
  <2> QED BY <2>3 DEF Promise!Next
<1>4. CASE JoinExecutor
  <2>1. CASE status["executor"] = "success"
    BY <1>4, <2>1, GotoStutters DEF JoinExecutor
  <2>2. CASE status["executor"] # "success"
    <3>1. Finish("main", "join_executor", "failure")
      BY <1>4, <2>2 DEF JoinExecutor
    <3>2. ThreadState("executor") = "failure"
      BY <1>4, <2>2 DEF JoinExecutor, ThreadState, TypeOK, ThreadInv, Exited
    <3>3. Promise!Exit /\ ThreadState("main") = "running"
      BY <3>1, <3>2, FinishEnds DEF Promise!Exit, Promise!Ended, Exited, Thread
    <3> QED BY <3>3 DEF Promise!Next
  <2> QED BY <2>1, <2>2
<1>5. CASE JoinMonitor
  <2>1. /\ Finish("main", "join_monitor", "success")
        /\ ThreadState("executor") = "success"
    BY <1>5 DEF JoinMonitor, Finish, Goto, ThreadState, ThreadInv, QuitIsRequested
  <2>2. Promise!Exit /\ ThreadState("main") = "running"
    BY <2>1, FinishEnds DEF Promise!Exit, Promise!Ended, Exited, Thread
  <2> QED BY <2>2 DEF Promise!Next
<1> QED BY <1>1, <1>2, <1>3, <1>4, <1>5 DEF Main

LEMMA PromiseExec ==
    ASSUME TypeOK, ThreadInv, NEW t \in Stepper, ExecOneInsn(t)
    PROVE  [Promise!Next]_(Promise!lvars)
<1> t \in Thread /\ t \in {"executor", "monitor"}
  BY DEF Stepper, Thread
<1>1. CASE Fetch(t) \/ Operand(t) \/ Commit(t) \/ Fault(t)
  BY <1>1, GotoStutters DEF Fetch, Operand, Commit, Fault
<1>2. CASE SetError(t)
  <2>1. Finish(t, "error", "failure")
    BY <1>2 DEF SetError
  <2>2. ThreadState("main") = "running" /\ (Promise!ExecutorFails \/ Promise!MonitorEnds)
    BY <2>1, FinishEnds
    DEF Promise!ExecutorFails, Promise!MonitorEnds, Promise!Ended, Exited, Thread
  <2> QED BY <2>2 DEF Promise!Next
<1> QED BY <1>1, <1>2 DEF ExecOneInsn

LEMMA PromiseExecutor ==
    TypeOK /\ ThreadInv /\ Executor => [Promise!Next]_(Promise!lvars)
<1> SUFFICES ASSUME TypeOK, ThreadInv, Executor PROVE [Promise!Next]_(Promise!lvars)
  OBVIOUS
<1> "executor" \in Thread /\ "executor" \in Stepper
  BY DEF Thread, Stepper
<1>1. CASE StartRunning \/ CheckBreakPoint \/ SetBreakPoint \/ TestStopped
  BY <1>1, GotoStutters DEF StartRunning, CheckBreakPoint, SetBreakPoint, TestStopped
<1>2. CASE Lock \/ Wait \/ Woken \/ Unlock
  BY <1>2, GotoStutters DEF Lock, Wait, Woken, Unlock
<1>3. CASE ExecOneInsn("executor")
  BY <1>3, PromiseExec
<1>4. CASE LoopTest
  <2>1. CASE cup_state = "QUITTING"
    <3>1. Finish("executor", "loop", "success")
      BY <1>4, <2>1 DEF LoopTest
    <3>2. ThreadState("monitor") = "success"
      BY <2>1 DEF ThreadInv, ThreadState, Thread
    <3>3. Promise!ExecutorQuits /\ ThreadState("main") = "running"
      BY <3>1, <3>2, FinishEnds DEF Promise!ExecutorQuits, Exited, Thread
    <3> QED BY <3>3 DEF Promise!Next
  <2>2. CASE cup_state # "QUITTING"
    BY <1>4, <2>2, GotoStutters DEF LoopTest
  <2> QED BY <2>1, <2>2
<1> QED BY <1>1, <1>2, <1>3, <1>4 DEF Executor

LEMMA PromiseMonitor ==
    TypeOK /\ ThreadInv /\ Monitor => [Promise!Next]_(Promise!lvars)
<1> SUFFICES ASSUME TypeOK, ThreadInv, Monitor PROVE [Promise!Next]_(Promise!lvars)
  OBVIOUS
<1> "monitor" \in Thread /\ "monitor" \in Stepper
  BY DEF Thread, Stepper
<1>1. ASSUME NEW here, NEW how \in Exited, here \notin {"unborn", "done"},
             Finish("monitor", here, how)
      PROVE  [Promise!Next]_(Promise!lvars)
  <2>1. Promise!MonitorEnds /\ ThreadState("main") = "running"
    BY <1>1, FinishEnds DEF Promise!MonitorEnds, Promise!Ended, Exited, Thread
  <2> QED BY <2>1 DEF Promise!Next
<1>2. CASE CmdStep \/ CmdQuit \/ StepCheckBreakPoint \/ QuitTest \/ QuitSignal
  BY <1>2, GotoStutters DEF CmdStep, CmdQuit, StepCheckBreakPoint, QuitTest, QuitSignal
<1>3. CASE StepStore
  BY <1>3, GotoStutters DEF StepStore
<1>4. CASE OutputError
  BY <1>1, <1>4 DEF OutputError, Exited
<1>5. CASE StepTest
  <2>1. CASE cup_state \in Stopped
    BY <1>5, <2>1, GotoStutters DEF StepTest
  <2>2. CASE cup_state \notin Stopped
    BY <1>1, <1>5, <2>2 DEF StepTest, Exited
  <2> QED BY <2>1, <2>2
<1>6. CASE ExecOneInsn("monitor")
  BY <1>6, PromiseExec
<1>7. CASE QuitStore
  BY <1>1, <1>7 DEF QuitStore, Exited
<1> QED BY <1>2, <1>3, <1>4, <1>5, <1>6, <1>7 DEF Monitor, MonitorWork

\* Every behaviour of the three threads, however they interleave, is one that
\* main() promises: above all the process exits with success exactly when the
\* user quit, and with failure only for an instruction that failed in the
\* executor or a thread that could not be created.
THEOREM ImplementsLifecycle == Spec => KeepsPromise
<1>1. TypeOK /\ ThreadInv /\ [Next]_vars => [Promise!Next]_(Promise!lvars)
  <2> SUFFICES ASSUME TypeOK, ThreadInv, [Next]_vars
               PROVE  [Promise!Next]_(Promise!lvars)
    OBVIOUS
  <2>1. CASE SpuriousWakeUp \/ UNCHANGED vars
    BY <2>1 DEF SpuriousWakeUp, vars, Promise!lvars, ThreadState
  <2> QED BY <2>1, PromiseMain, PromiseExecutor, PromiseMonitor DEF Next
<1> QED BY <1>1, PromiseInit, TypeCorrect, ThreadsAreOrdered, PTL
        DEF Spec, KeepsPromise, Promise!Spec
-----------------------------------------------------------------------------
(***************************************************************************)
(* The calm environment: no command before the executor has started, no    *)
(* wake-up without a signal.                                               *)
(***************************************************************************)
LEMMA CalmInit == Init => CalmInv
BY DEF Init, CalmInv, ExecutorView, MonitorView, FreshLocals, Leaving, Acting,
       InExec, ExecLabel, Stepper, Thread

LEMMA CalmMain == TypeOK /\ ThreadInv /\ CalmInv /\ Main => CalmInv'
<1> SUFFICES ASSUME TypeOK, ThreadInv, CalmInv, Main PROVE CalmInv'
  OBVIOUS
<1>a. /\ pc["main"] = "spawn_monitor" => pc["monitor"] = "unborn"
      /\ pc["main"] \in {"spawn_monitor", "spawn_executor"} => pc["executor"] = "unborn"
  BY DEF ThreadInv
<1> USE DEF TypeOK, CalmInv, ExecutorView, MonitorView, FreshLocals, Leaving, Acting,
            InExec, IsBreakPoint, ExecLabel, Stepper, Thread, shared, locals
<1>1. CASE SpawnMonitor
  BY <1>1, <1>a DEF SpawnMonitor, Spawn
<1>2. CASE SpawnExecutor
  BY <1>2, <1>a DEF SpawnExecutor, Spawn
<1>3. CASE SpawnError
  BY <1>3 DEF SpawnError, Finish, Goto
<1>4. CASE JoinExecutor
  BY <1>4 DEF JoinExecutor, Finish, Goto
<1>5. CASE JoinMonitor
  BY <1>5 DEF JoinMonitor, Finish, Goto
<1> QED BY <1>1, <1>2, <1>3, <1>4, <1>5 DEF Main

LEMMA CalmExec ==
    ASSUME TypeOK, CalmInv, NEW t \in Stepper, ExecOneInsn(t)
    PROVE  CalmInv'
<1> t \in {"executor", "monitor"}
  BY DEF Stepper
<1> USE DEF TypeOK, CalmInv, ExecutorView, MonitorView, FreshLocals, Leaving, Acting,
            InExec, IsBreakPoint, ExecLabel, Stepper, Thread, shared, locals, locks, Goto
<1>1. CASE Fetch(t)
  BY <1>1 DEF Fetch
<1>2. CASE Operand(t)
  BY <1>2 DEF Operand
<1>3. CASE Commit(t)
  BY <1>3 DEF Commit, Stopped
<1>4. CASE Fault(t)
  BY <1>4 DEF Fault
<1>5. CASE SetError(t)
  BY <1>5 DEF SetError, Finish
<1> QED BY <1>1, <1>2, <1>3, <1>4, <1>5 DEF ExecOneInsn

LEMMA CalmExecutor == TypeOK /\ ThreadInv /\ CalmInv /\ Executor => CalmInv'
<1> SUFFICES ASSUME TypeOK, ThreadInv, CalmInv, Executor PROVE CalmInv'
  OBVIOUS
<1>1. CASE ExecOneInsn("executor")
  BY <1>1, CalmExec DEF Stepper
<1> USE DEF TypeOK, CalmInv, ExecutorView, MonitorView, FreshLocals, Leaving, Acting,
            InExec, IsBreakPoint, ExecLabel, Stepper, Stopped, Thread, shared, locals,
            locks, Goto
<1>2. CASE StartRunning
  BY <1>2 DEF StartRunning
<1>3. CASE CheckBreakPoint
  BY <1>3 DEF CheckBreakPoint
<1>4. CASE SetBreakPoint
  BY <1>4 DEF SetBreakPoint
<1>5. CASE TestStopped
  BY <1>5 DEF TestStopped
<1>6. CASE Lock
  BY <1>6 DEF Lock
<1>7. CASE Wait
  BY <1>7 DEF Wait
<1>8. CASE Woken
  BY <1>8 DEF Woken
<1>9. CASE Unlock
  BY <1>9 DEF Unlock
<1>10. CASE LoopTest
  BY <1>10 DEF LoopTest, Finish
<1> QED BY <1>1, <1>2, <1>3, <1>4, <1>5, <1>6, <1>7, <1>8, <1>9, <1>10 DEF Executor

LEMMA CalmMonitor == Calm /\ TypeOK /\ CalmInv /\ Monitor => CalmInv'
<1> SUFFICES ASSUME Calm, TypeOK, CalmInv, Monitor PROVE CalmInv'
  OBVIOUS
<1>1. CASE ExecOneInsn("monitor")
  BY <1>1, CalmExec DEF Stepper
<1> USE DEF TypeOK, CalmInv, ExecutorView, MonitorView, FreshLocals, Leaving, Acting,
            InExec, IsBreakPoint, ExecLabel, ExecutorLabel, Stepper, Stopped, Thread,
            shared, locals, locks, Goto
<1>2. CASE CmdStep
  BY <1>2 DEF CmdStep, CommandArrives, Calm
<1>3. CASE CmdQuit
  BY <1>3 DEF CmdQuit, CommandArrives, Calm
<1>4. CASE OutputError
  BY <1>4 DEF OutputError, Finish
<1>5. CASE StepTest
  BY <1>5 DEF StepTest, Finish
<1>6. CASE StepCheckBreakPoint
  BY <1>6 DEF StepCheckBreakPoint
<1>7. CASE StepStore
  BY <1>7 DEF StepStore
<1>8. CASE QuitTest
  BY <1>8 DEF QuitTest
<1>9. CASE QuitSignal
  BY <1>9 DEF QuitSignal
<1>10. CASE QuitStore
  BY <1>10 DEF QuitStore, Finish
<1> QED BY <1>1, <1>2, <1>3, <1>4, <1>5, <1>6, <1>7, <1>8, <1>9, <1>10
        DEF Monitor, MonitorWork

LEMMA CalmStep == Calm /\ TypeOK /\ ThreadInv /\ CalmInv /\ [Next]_vars => CalmInv'
<1> SUFFICES ASSUME Calm, TypeOK, ThreadInv, CalmInv, [Next]_vars PROVE CalmInv'
  OBVIOUS
<1>1. CASE Main
  BY <1>1, CalmMain
<1>2. CASE Executor
  BY <1>2, CalmExecutor
<1>3. CASE Monitor
  BY <1>3, CalmMonitor
<1>4. CASE SpuriousWakeUp
  BY <1>4 DEF SpuriousWakeUp, Calm
<1>5. CASE UNCHANGED vars
  BY <1>5 DEF vars, CalmInv, ExecutorView, MonitorView, FreshLocals, Leaving, Acting,
              InExec, IsBreakPoint
<1> QED BY <1>1, <1>2, <1>3, <1>4, <1>5 DEF Next

LEMMA CalmAlways == Calm /\ Spec => []CalmInv
<1>1. Calm => (TypeOK /\ ThreadInv /\ CalmInv /\ [Next]_vars => CalmInv')
  BY CalmStep
<1>2. CASE Calm
  BY <1>1, <1>2, CalmInit, TypeCorrect, ThreadsAreOrdered, PTL DEF Spec
<1>3. CASE ~Calm
  BY <1>3
<1> QED BY <1>2, <1>3

\* A `step` of the monitor and the executor are never both inside ExecOneInsn,
\* although cup_state is read and written without the mutex: what keeps them
\* apart is the order of the executor's store of BREAK_POINT and its wait.
THEOREM OneRunnerAlways == Spec => []OneRunner
<1>1. Calm /\ CalmInv => OneRunner
  BY DEF OneRunner, CalmInv, MonitorView, Acting, InExec, ExecLabel
<1>2. ~Calm => OneRunner
  BY DEF OneRunner
<1>3. CASE Calm
  BY <1>1, <1>3, CalmAlways, PTL
<1>4. CASE ~Calm
  BY <1>2, <1>4, PTL
<1> QED BY <1>3, <1>4

\* Until the monitor stores CU_CPU_QUITTING or ends, the executor does not run
\* the instruction at a break-point: the user's steps carry the CPU over it.
THEOREM BreakPointAlwaysHolds == Spec => []BreakPointHolds
<1>1. Calm /\ CalmInv => BreakPointHolds
  BY DEF BreakPointHolds, CalmInv, ExecutorView, Leaving, InExec
<1>2. ~Calm => BreakPointHolds
  BY DEF BreakPointHolds
<1>3. CASE Calm
  BY <1>1, <1>3, CalmAlways, PTL
<1>4. CASE ~Calm
  BY <1>2, <1>4, PTL
<1> QED BY <1>3, <1>4

LEMMA NoStopInit == Init => NoStopInv
BY DEF Init, NoStopInv, Acting, ExecLabel, Thread

LEMMA NoStopMain == TypeOK /\ ThreadInv /\ NoStopInv /\ Main => NoStopInv'
<1> SUFFICES ASSUME TypeOK, ThreadInv, NoStopInv, Main PROVE NoStopInv'
  OBVIOUS
<1>a. /\ pc["main"] = "spawn_monitor" => pc["monitor"] = "unborn"
      /\ pc["main"] \in {"spawn_monitor", "spawn_executor"} => pc["executor"] = "unborn"
  BY DEF ThreadInv
<1> USE DEF TypeOK, NoStopInv, Acting, ExecLabel, Thread, shared, locals
<1>1. CASE SpawnMonitor
  BY <1>1, <1>a DEF SpawnMonitor, Spawn
<1>2. CASE SpawnExecutor
  BY <1>2, <1>a DEF SpawnExecutor, Spawn
<1>3. CASE SpawnError
  BY <1>3 DEF SpawnError, Finish, Goto
<1>4. CASE JoinExecutor
  BY <1>4 DEF JoinExecutor, Finish, Goto
<1>5. CASE JoinMonitor
  BY <1>5 DEF JoinMonitor, Finish, Goto
<1> QED BY <1>1, <1>2, <1>3, <1>4, <1>5 DEF Main

LEMMA NoStopExecutor == TypeOK /\ NoStopInv /\ Executor => NoStopInv'
<1> SUFFICES ASSUME TypeOK, NoStopInv, Executor PROVE NoStopInv'
  OBVIOUS
<1> USE DEF TypeOK, NoStopInv, Acting, ExecLabel, IsBreakPoint, Stopped, Thread,
            shared, locals, locks, Goto
<1>1. CASE ExecOneInsn("executor")
  BY <1>1 DEF ExecOneInsn, Fetch, Operand, Commit, Fault, SetError, Finish
<1>2. CASE StartRunning
  BY <1>2 DEF StartRunning
<1>3. CASE CheckBreakPoint
  BY <1>3 DEF CheckBreakPoint
<1>4. CASE SetBreakPoint
  BY <1>4 DEF SetBreakPoint
<1>5. CASE TestStopped
  BY <1>5 DEF TestStopped
<1>6. CASE Lock
  BY <1>6 DEF Lock
<1>7. CASE Wait
  BY <1>7 DEF Wait
<1>8. CASE Woken
  BY <1>8 DEF Woken
<1>9. CASE Unlock
  BY <1>9 DEF Unlock
<1>10. CASE LoopTest
  BY <1>10 DEF LoopTest, Finish
<1> QED BY <1>1, <1>2, <1>3, <1>4, <1>5, <1>6, <1>7, <1>8, <1>9, <1>10 DEF Executor

LEMMA NoStopMonitor == ~EagerUser /\ TypeOK /\ NoStopInv /\ Monitor => NoStopInv'
<1> SUFFICES ASSUME ~EagerUser, TypeOK, NoStopInv, Monitor PROVE NoStopInv'
  OBVIOUS
<1> USE DEF TypeOK, NoStopInv, Acting, ExecLabel, IsBreakPoint, Stopped, Thread,
            shared, locals, locks, Goto
<1>1. CASE ExecOneInsn("monitor")
  BY <1>1 DEF ExecOneInsn, Fetch, Operand, Commit, Fault, SetError, Finish
<1>2. CASE CmdStep
  BY <1>2 DEF CmdStep, CommandArrives
<1>3. CASE CmdQuit
  BY <1>3 DEF CmdQuit, CommandArrives
<1>4. CASE OutputError
  BY <1>4 DEF OutputError, Finish
<1>5. CASE StepTest
  BY <1>5 DEF StepTest, Finish
<1>6. CASE StepCheckBreakPoint
  BY <1>6 DEF StepCheckBreakPoint
<1>7. CASE StepStore
  BY <1>7 DEF StepStore
<1>8. CASE QuitTest
  BY <1>8 DEF QuitTest
<1>9. CASE QuitSignal
  BY <1>9 DEF QuitSignal
<1>10. CASE QuitStore
  BY <1>10 DEF QuitStore, Finish
<1> QED BY <1>1, <1>2, <1>3, <1>4, <1>5, <1>6, <1>7, <1>8, <1>9, <1>10
        DEF Monitor, MonitorWork

LEMMA NoStopStep == ~EagerUser /\ TypeOK /\ ThreadInv /\ NoStopInv /\ [Next]_vars => NoStopInv'
<1> SUFFICES ASSUME ~EagerUser, TypeOK, ThreadInv, NoStopInv, [Next]_vars PROVE NoStopInv'
  OBVIOUS
<1>1. CASE Main
  BY <1>1, NoStopMain
<1>2. CASE Executor
  BY <1>2, NoStopExecutor
<1>3. CASE Monitor
  BY <1>3, NoStopMonitor
<1>4. CASE SpuriousWakeUp
  BY <1>4 DEF SpuriousWakeUp, NoStopInv, Acting, locals
<1>5. CASE UNCHANGED vars
  BY <1>5 DEF vars, NoStopInv, Acting
<1> QED BY <1>1, <1>2, <1>3, <1>4, <1>5 DEF Next

LEMMA NoStopAlways == ~EagerUser /\ Spec => []NoStopInv
<1>1. CASE ~EagerUser
  <2>1. TypeOK /\ ThreadInv /\ NoStopInv /\ [Next]_vars => NoStopInv'
    BY <1>1, NoStopStep
  <2> QED BY <2>1, NoStopInit, TypeCorrect, ThreadsAreOrdered, PTL DEF Spec
<1>2. CASE EagerUser
  BY <1>2
<1> QED BY <1>1, <1>2

\* A program without break-points never waits: no failing command of the user can
\* leave it, and main() which joins it, without anybody to wake them.
THEOREM OnlyBreakPointsEverStop == Spec => []OnlyBreakPointsStop
<1>1. NoStopInv => OnlyBreakPointsStop
  BY DEF NoStopInv, OnlyBreakPointsStop
<1>2. EagerUser => OnlyBreakPointsStop
  BY DEF OnlyBreakPointsStop
<1>3. CASE ~EagerUser
  BY <1>1, <1>3, NoStopAlways, PTL
<1>4. CASE EagerUser
  BY <1>2, <1>4, PTL
<1> QED BY <1>3, <1>4

\* A step that changes cup_pc is a Commit.
LEMMA CommitMoves ==
    ASSUME [Next]_vars, cup_pc' # cup_pc
    PROVE  \E t \in Stepper : Commit(t)
<1> "executor" \in Stepper /\ "monitor" \in Stepper
  BY DEF Stepper
<1>1. ~Main
  BY DEF Main, SpawnMonitor, SpawnExecutor, Spawn, SpawnError, JoinExecutor,
         JoinMonitor, shared
<1>2. ASSUME NEW t \in Stepper, ExecOneInsn(t) PROVE Commit(t)
  BY <1>2 DEF ExecOneInsn, Fetch, Operand, Fault, SetError, shared
<1>3. CASE Executor
  <2>1. ExecOneInsn("executor")
    BY <1>3 DEF Executor, StartRunning, CheckBreakPoint, SetBreakPoint, TestStopped,
                Lock, Wait, Woken, Unlock, LoopTest, shared
  <2> QED BY <1>2, <2>1
<1>4. CASE Monitor
  <2>1. ExecOneInsn("monitor")
    BY <1>4 DEF Monitor, MonitorWork, CmdStep, CmdQuit, OutputError, StepTest,
                StepCheckBreakPoint, StepStore, QuitTest, QuitSignal, QuitStore, shared
  <2> QED BY <1>2, <2>1
<1>5. ~SpuriousWakeUp /\ ~UNCHANGED vars
  BY DEF SpuriousWakeUp, vars
<1> QED BY <1>1, <1>3, <1>4, <1>5 DEF Next

\* The executor and the user's steps together run the program one instruction
\* after the other: no instruction is run twice, skipped, or run at an address
\* other than the one it was fetched from.
THEOREM AlwaysInOrder == Spec => InOrder
<1>1. CalmInv /\ [Next]_vars => RunsInOrder
  <2> SUFFICES ASSUME CalmInv, [Next]_vars, cup_pc' # cup_pc PROVE RunsInOrder
    BY DEF RunsInOrder
  <2>1. PICK t \in Stepper : Commit(t)
    BY CommitMoves
  <2>2. at[t] = cup_pc /\ insn[t] = Prog[cup_pc]
    BY <2>1 DEF CalmInv, FreshLocals, Commit, Goto
  <2> QED BY <2>1, <2>2 DEF Commit, RunsInOrder
<1>2. CASE Calm
  <2>1. CalmInv /\ [Next]_vars => [Calm => RunsInOrder]_vars
    BY <1>1
  <2> QED BY <1>2, <2>1, CalmAlways, PTL DEF Spec, InOrder
<1>3. CASE ~Calm
  <2>1. [Calm => RunsInOrder]_vars
    BY <1>3 DEF Calm
  <2> QED BY <2>1, PTL DEF InOrder
<1> QED BY <1>2, <1>3
-----------------------------------------------------------------------------
(***************************************************************************)
(* The way to the end: what HeardQuit, FreeRunQuits and FailureIsReported  *)
(* rest on besides fairness.                                               *)
(***************************************************************************)
\* CuSetCpuState(CU_CPU_QUITTING) is the monitor's last step.
LEMMA QuitterIsDone ==
    ASSUME TypeOK, ThreadInv, cup_state = "QUITTING"
    PROVE  pc["monitor"] = "done"
BY DEF TypeOK, ThreadInv, Thread

\* What main() waits for when the executor has ended.
LEMMA MainAtTheEnd ==
    ASSUME TypeOK, ThreadInv, pc["executor"] = "done"
    PROVE  /\ pc["main"] \in {"join_executor", "join_monitor", "done"}
           /\ pc["main"] = "join_monitor" => pc["monitor"] = "done"
BY DEF TypeOK, ThreadInv, QuitIsRequested, MainLabel, Thread

LEMMA MainAlongside ==
    ASSUME TypeOK, ThreadInv, pc["executor"] \notin {"unborn", "done"}
    PROVE  pc["main"] \in {"join_executor", "done"}
BY DEF TypeOK, ThreadInv, MainLabel, Thread

Nearer == Closing' /\ StepsLeft' < StepsLeft

LEMMA MainNears ==
    ASSUME TypeOK, ThreadInv, Closing, Main
    PROVE  Nearer
<1>a. pc["main"] \in {"join_executor", "join_monitor", "done"}
  BY MainAtTheEnd, MainAlongside DEF Closing
<1>1. ~SpawnMonitor /\ ~SpawnExecutor /\ ~SpawnError
  BY <1>a DEF SpawnMonitor, SpawnExecutor, Spawn, SpawnError, Finish, Goto
<1> USE DEF TypeOK, Thread, Nearer, Closing, StepsLeft, Goto, Finish, shared, locals
<1>2. CASE JoinExecutor
  BY <1>2 DEF JoinExecutor
<1>3. CASE JoinMonitor
  <2>1. pc["executor"] = "done"
    BY <1>3, MainAlongside DEF JoinMonitor
  <2> QED BY <1>3, <2>1 DEF JoinMonitor
<1> QED BY <1>1, <1>2, <1>3 DEF Main

LEMMA ExecutorNears ==
    ASSUME TypeOK, ThreadInv, Closing, Executor
    PROVE  Nearer
<1>a. pc["executor"] \notin {"unborn", "done"} /\ pc["main"] # "done"
  BY DEF Executor, ExecOneInsn, StartRunning, CheckBreakPoint, SetBreakPoint,
         TestStopped, Lock, Wait, Woken, Unlock, Fetch, Operand, Commit, Fault, SetError,
         LoopTest, Finish, Goto, Alive, TypeOK
<1>b. pc["main"] = "join_executor" /\ cup_state = "QUITTING"
  BY <1>a, MainAlongside DEF Closing
<1> USE <1>a, <1>b DEF TypeOK, Thread, Nearer, Closing, StepsLeft, Goto, Finish, shared,
        locals, locks
<1>1. CASE Fetch("executor") \/ Operand("executor") \/ Fault("executor")
  BY <1>1 DEF Fetch, Operand, Fault
<1>2. CASE Commit("executor")
  BY <1>2 DEF Commit
<1>3. CASE SetError("executor")
  BY <1>3 DEF SetError
<1>4. CASE CheckBreakPoint
  BY <1>4 DEF CheckBreakPoint, IsBreakPoint
<1>5. CASE TestStopped
  BY <1>5 DEF TestStopped, Stopped
<1>6. CASE LoopTest
  BY <1>6 DEF LoopTest
<1>7. ~StartRunning /\ ~SetBreakPoint /\ ~Lock /\ ~Wait /\ ~Woken /\ ~Unlock
  BY DEF StartRunning, SetBreakPoint, Lock, Wait, Woken, Unlock
<1> QED BY <1>1, <1>2, <1>3, <1>4, <1>5, <1>6, <1>7 DEF Executor, ExecOneInsn

\* While the executor has ended the monitor may go on; it does not come into it.
LEMMA MonitorKeepsEnd ==
    ASSUME TypeOK, ThreadInv, Closing, Monitor \/ SpuriousWakeUp \/ UNCHANGED vars
    PROVE  Closing' /\ StepsLeft' = StepsLeft
<1>1. CASE Monitor
  <2>1. pc["monitor"] # "done"
    BY <1>1 DEF Monitor, MonitorWork, CmdStep, CmdQuit, OutputError, StepTest, ExecOneInsn,
                Fetch, Operand, Commit, Fault, SetError, StepCheckBreakPoint, StepStore,
                QuitTest, QuitSignal, QuitStore, Finish, Goto
  <2>2. pc["executor"] = "done"
    BY <2>1, QuitterIsDone DEF Closing
  <2>3. pc'["executor"] = pc["executor"] /\ pc'["main"] = pc["main"]
    BY <1>1 DEF TypeOK, Thread, Monitor, MonitorWork, CmdStep, CmdQuit, OutputError, StepTest,
                ExecOneInsn, Fetch, Operand, Commit, Fault, SetError, StepCheckBreakPoint,
                StepStore, QuitTest, QuitSignal, QuitStore, Finish, Goto
  <2> QED BY <2>2, <2>3 DEF Closing, StepsLeft
<1>2. CASE SpuriousWakeUp
  BY <1>2 DEF SpuriousWakeUp, locals, Closing, StepsLeft
<1>3. CASE UNCHANGED vars
  BY <1>3 DEF vars, Closing, StepsLeft
<1> QED BY <1>1, <1>2, <1>3

\* Once the executor has ended, or cannot miss the quit that is stored in
\* cup_state, there is no way back: every step of the executor or of main() brings
\* the end of the process nearer, the number of steps left is at most eight, and
\* nothing that the monitor or a spurious wake-up does adds to it.
THEOREM EveryStepNearsTheEnd ==
    Spec => [][Closing => /\ Closing'
                          /\ Main \/ Executor => StepsLeft' < StepsLeft
                          /\ ~(Main \/ Executor) => StepsLeft' = StepsLeft]_vars
<1>1. TypeOK /\ ThreadInv /\ [Next]_vars =>
        [Closing => /\ Closing'
                    /\ Main \/ Executor => StepsLeft' < StepsLeft
                    /\ ~(Main \/ Executor) => StepsLeft' = StepsLeft]_vars
  BY MainNears, ExecutorNears, MonitorKeepsEnd DEF Next, Nearer
<1> QED BY <1>1, TypeCorrect, ThreadsAreOrdered, PTL DEF Spec

\* And none of those steps waits for another thread, for the mutex or for a signal,
\* so that a scheduler which runs every thread ends the process: nobody is joined
\* who has not ended, and the monitor is not asked for input again.
THEOREM NobodyWaitsAtTheEnd == Spec => [](Closing /\ Alive => SomebodyMoves)
<1>1. TypeOK /\ ThreadInv /\ Closing /\ Alive => SomebodyMoves
  BY MainAtTheEnd DEF Closing, Alive, SomebodyMoves, ExecLabel
<1> QED BY <1>1, TypeCorrect, ThreadsAreOrdered, PTL
-----------------------------------------------------------------------------
LEMMA QuitStaysInit == Init => QuitStaysInv
BY DEF Init, QuitStaysInv, Thread

LEMMA QuitStaysStep ==
    ASSUME TypeOK, ThreadInv, NoStopInv, QuitStaysInv, [Next]_vars
    PROVE  QuitStaysInv'
<1>a. status["monitor"] = "success" => pc["monitor"] = "done"
  BY DEF TypeOK, ThreadInv, Thread
<1> USE DEF TypeOK, QuitStaysInv, Thread, shared, locals, locks, Goto, Finish
<1>1. CASE Main
  <2>1. CASE SpawnMonitor \/ SpawnExecutor
    BY <2>1, <1>a DEF SpawnMonitor, SpawnExecutor, Spawn, ThreadInv
  <2>2. CASE SpawnError \/ JoinExecutor \/ JoinMonitor
    BY <2>2 DEF SpawnError, JoinExecutor, JoinMonitor
  <2> QED BY <1>1, <2>1, <2>2 DEF Main
<1>2. CASE Executor
  <2>1. CASE ExecOneInsn("executor")
    BY <2>1 DEF ExecOneInsn, Fetch, Operand, Commit, Fault, SetError
  <2>2. CASE StartRunning \/ SetBreakPoint
    BY <2>2 DEF StartRunning, SetBreakPoint, NoStopInv
  <2>3. CASE CheckBreakPoint \/ TestStopped
    BY <2>3 DEF CheckBreakPoint, TestStopped
  <2>4. CASE Lock \/ Wait \/ Woken \/ Unlock
    BY <2>4 DEF Lock, Wait, Woken, Unlock
  <2>5. CASE LoopTest
    BY <2>5 DEF LoopTest
  <2> QED BY <1>2, <2>1, <2>2, <2>3, <2>4, <2>5 DEF Executor
<1>3. CASE Monitor
  <2>1. CASE ExecOneInsn("monitor")
    BY <2>1, <1>a DEF ExecOneInsn, Fetch, Operand, Commit, Fault, SetError
  <2>2. CASE CmdStep \/ CmdQuit \/ OutputError
    BY <2>2, <1>a DEF CmdStep, CmdQuit, OutputError
  <2>3. CASE StepTest \/ StepCheckBreakPoint \/ StepStore \/ QuitTest \/ QuitSignal
    BY <2>3, <1>a DEF StepTest, StepCheckBreakPoint, StepStore, QuitTest, QuitSignal
  <2>4. CASE QuitStore
    BY <2>4 DEF QuitStore, NoStopInv
  <2> QED BY <1>3, <2>1, <2>2, <2>3, <2>4 DEF Monitor, MonitorWork
<1>4. CASE SpuriousWakeUp
  BY <1>4 DEF SpuriousWakeUp
<1>5. CASE UNCHANGED vars
  BY <1>5 DEF vars
<1> QED BY <1>1, <1>2, <1>3, <1>4, <1>5 DEF Next

\* A quit of a program without break-points is never lost, at whatever moment the
\* monitor stores it and whatever the executor is doing: nothing is stored over it,
\* and the executor is on a way on which it will see it.
THEOREM FreeQuitIsNotLost ==
    Spec => [](/\ ~EagerUser
               /\ cup_break_points = {}
               /\ status["monitor"] = "success"
               => Closing)
<1>1. /\ TypeOK /\ ThreadInv /\ NoStopInv /\ QuitStaysInv
      /\ cup_break_points = {} /\ status["monitor"] = "success"
      => Closing
  BY DEF TypeOK, NoStopInv, QuitStaysInv, Closing, ExecutorLabel, ExecLabel
<1>2. CASE ~EagerUser
  BY <1>1, <1>2, NoStopAlways, QuitStaysInit, QuitStaysStep, TypeCorrect,
     ThreadsAreOrdered, PTL DEF Spec
<1>3. CASE EagerUser
  BY <1>3, PTL
<1> QED BY <1>2, <1>3
=============================================================================
