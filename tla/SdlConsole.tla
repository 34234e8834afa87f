----------------------------- MODULE SdlConsole -----------------------------
(***************************************************************************)
(* CUSS with the SDL interface: main() sets up, spawns its two threads,    *)
(* runs the event loop (sdlui.c), which hands what the user types to the   *)
(* monitor thread (sdlmonio.c), and when the window is closed tears the    *)
(* console down under the monitor's feet and joins the threads (cuss.c).   *)
(*                                                                         *)
(* As in RunControl a thread makes one access to shared memory per step.   *)
(* Of the executor only its life is modelled, with a program that no       *)
(* break-point stops; RunControl has the rest.  Of the text on the screen  *)
(* only the buffer's life is modelled; Terminal has the rest.              *)
(*                                                                         *)
(* The history variables mishaps and entered record what has gone on at an *)
(* unfortunate moment and what the user has entered; no action is guarded  *)
(* by them.                                                                *)
(***************************************************************************)
EXTENDS Naturals, Sequences

CONSTANTS
    Key,            \* the bytes that can be typed
    MaxMonInp,      \* MAX_MON_INP, the size of mon_inp_buf
    MaxUserInput,   \* MAX_USER_INPUT_SIZE, the size of the monitor's inp
    MaxText,        \* how many bytes a text event can bring
    MaxAttempts,    \* MAX_MON_THR_WAIT_ATTEMPTS
    EnvFails,       \* may SDL refuse to set up, to spawn, to render, to add a timer?
    Spurious        \* may SDL_CondWait return without a signal?

ASSUME SizeAssumption ==
    /\ {MaxMonInp, MaxUserInput} \subseteq Nat \ {0, 1}
    /\ {MaxText, MaxAttempts} \subseteq Nat \ {0}
ASSUME SwitchAssumption == {EnvFails, Spurious} \subseteq BOOLEAN

VARIABLES
    mon_inp_buf,    \* the line being typed, up to its '\0'
    mon_inp_active,
    mon_inp_eof,
    mon_inp_mut,    \* the holder of the mutex, "free", or "destroyed"
    mon_inp_cv,     \* the threads blocked on the condition variable
    cv_alive,       \* does the condition variable exist?
    mon_out_buf,    \* "none", "live" or "freed"
    cup_state,      \* "QUITTING", or "RUNNING" for every other state
    pc,             \* the label at which each thread is
    evt,            \* local of the event loop: the event being processed
    mon_inp_size,   \* local of CuSdlMonProcEvt
    n,              \* local of CuSdlMonIoTearDown
    inp, eof,       \* locals of CuRunMon: what CuSdlMonIoGetInp returned
    status,         \* the exit status of each thread; main's is the process's
    undefined,      \* has a thread used what another one had destroyed?
    mishaps,        \* history: what went on at an unfortunate moment
    entered         \* history: the line as it was when RETURN was pressed

line == <<mon_inp_buf, mon_inp_active, mon_inp_eof>>
objects == <<mon_inp_mut, mon_inp_cv, cv_alive, mon_out_buf>>
mainLocals == <<evt, mon_inp_size, n>>
monLocals == <<inp, eof>>
history == <<mishaps, entered>>
vars == <<line, objects, cup_state, pc, mainLocals, monLocals, status,
          undefined, history>>

Thread == {"main", "executor", "monitor"}
Exited == {"success", "failure"}
Mishap == {"haste", "wide", "spurious", "busy", "late", "early"}

MainLabel ==
    {"set_up", "spawn_monitor", "spawn_executor", "loop", "measure", "lock",
     "append", "unlock", "erase", "set_eof", "signal", "td_eof", "td_active",
     "td_signal", "delay", "td_again", "td_check", "td_lock", "td_destroy_cv",
     "td_unlock", "td_destroy_mut", "td_free", "td_reset",
     "join_executor", "join_monitor", "done"}
TearDownLabel ==
    {"td_eof", "td_active", "td_signal", "delay", "td_again", "td_check", "td_lock",
     "td_destroy_cv", "td_unlock", "td_destroy_mut", "td_free", "td_reset"}
GetInpLabel ==
    {"clear", "activate", "place", "add_timer", "lock", "wait", "waiting", "copy",
     "unlock", "deactivate", "get_eof"}
MonitorLabel == GetInpLabel \cup
    {"unborn", "print", "obey", "print_eof", "set_quitting", "done"}
ExecutorLabel == {"unborn", "start", "running", "done"}

\* What SDL_PollEvent may bring that is not the end: a text of some bytes, or a key.
Text == UNION {[1 .. k -> Key] : k \in 1 .. MaxText}
Event == [type : {"text"}, text : Text]
         \cup [type : {"return", "ctrl_d", "backspace"}, text : {<<>>}]

NoEvent == [type |-> "return", text |-> <<>>]

Init ==
    /\ mon_inp_buf = <<>>
    /\ mon_inp_active = FALSE
    /\ mon_inp_eof = TRUE
    /\ mon_inp_mut = "destroyed" /\ mon_inp_cv = {} /\ cv_alive = FALSE
    /\ mon_out_buf = "none"
    /\ cup_state = "RUNNING"
    /\ pc = [t \in Thread |-> IF t = "main" THEN "set_up" ELSE "unborn"]
    /\ evt = NoEvent /\ mon_inp_size = 0 /\ n = 0
    /\ inp = <<>> /\ eof = FALSE
    /\ status = [t \in Thread |-> "none"]
    /\ undefined = FALSE
    /\ mishaps = {} /\ entered = <<>>

\* The process lives until main() returns.  After undefined behaviour nothing is
\* said of what happens.
Alive == pc["main"] # "done" /\ ~undefined

Goto(t, here, there) == /\ Alive
                        /\ pc[t] = here
                        /\ pc' = [pc EXCEPT ![t] = there]

Finish(t, here, how) == /\ Goto(t, here, "done")
                        /\ status' = [status EXCEPT ![t] = how]

Note(mishap, happened) ==
    mishaps' = IF happened THEN mishaps \cup {mishap} ELSE mishaps

\* The monitor can do nothing before somebody signals it.
MonitorRests == "monitor" \in mon_inp_cv \/ pc["monitor"] = "done"

\* Until then the executor's first store wipes what a command does to cup_state.
ExecutorUp == pc["executor"] \notin {"unborn", "start"}
-----------------------------------------------------------------------------
(***************************************************************************)
(* main(), up to its event loop: CuSdlUiSetUp and the two threads.         *)
(***************************************************************************)
SetUp ==
    /\ Goto("main", "set_up", "spawn_monitor")
    /\ mon_inp_eof' = FALSE
    /\ mon_inp_mut' = "free" /\ cv_alive' = TRUE /\ mon_out_buf' = "live"
    /\ UNCHANGED <<mon_inp_buf, mon_inp_active, mon_inp_cv, cup_state, mainLocals,
                   monLocals, status, undefined, history>>

SpawnMonitor ==
    /\ Alive /\ pc["main"] = "spawn_monitor"
    /\ pc' = [pc EXCEPT !["main"] = "spawn_executor", !["monitor"] = "print"]
    /\ UNCHANGED <<line, objects, cup_state, mainLocals, monLocals, status,
                   undefined, history>>

SpawnExecutor ==
    /\ Alive /\ pc["main"] = "spawn_executor"
    /\ pc' = [pc EXCEPT !["main"] = "loop", !["executor"] = "start"]
    /\ UNCHANGED <<line, objects, cup_state, mainLocals, monLocals, status,
                   undefined, history>>

\* A step of the set-up fails (the command line, the memory image, SDL, a thread),
\* or RenderFrame does: main() returns at once.
EnvError ==
    /\ EnvFails
    /\ \E here \in {"set_up", "spawn_monitor", "spawn_executor", "loop"} :
           Finish("main", here, "failure")
    /\ UNCHANGED <<line, objects, cup_state, mainLocals, monLocals, undefined, history>>
-----------------------------------------------------------------------------
(***************************************************************************)
(* The event loop.  A frame that is rendered, and an event that comes      *)
(* while mon_inp_active is false, change nothing here.                     *)
(***************************************************************************)
\* The locals of CuSdlMonProcEvt and the event are gone.
ProcEvtReturns == evt' = NoEvent /\ mon_inp_size' = 0

TakeEvent ==
    /\ mon_inp_active
    /\ \E e \in Event :
           /\ Goto("main", "loop", CASE e.type = "return" -> "signal"
                                     [] e.type = "ctrl_d" -> "set_eof"
                                     [] OTHER -> "measure")
           /\ evt' = e
    /\ Note("haste", "monitor" \notin mon_inp_cv)
    /\ UNCHANGED <<line, objects, cup_state, mon_inp_size, n, monLocals, status,
                   undefined, entered>>

\* Mutant: no room is kept for the terminator.
MeasureFull ==
    /\ \/ /\ \/ evt.type = "text" /\ Len(mon_inp_buf) < MaxMonInp
                /\ Goto("main", "measure", "lock")
             \/ evt.type = "backspace" /\ Len(mon_inp_buf) > 0
                /\ Goto("main", "measure", "erase")
          /\ mon_inp_size' = Len(mon_inp_buf)
          /\ UNCHANGED evt
       \/ /\ \/ evt.type = "text" /\ Len(mon_inp_buf) >= MaxMonInp
             \/ evt.type = "backspace" /\ Len(mon_inp_buf) = 0
          /\ Goto("main", "measure", "loop")
          /\ ProcEvtReturns
    /\ UNCHANGED <<line, objects, cup_state, n, monLocals, status, undefined, history>>

\* strlen(mon_inp_buf), and the tests of its value.
Measure ==
    /\ \/ /\ \/ evt.type = "text" /\ Len(mon_inp_buf) < MaxMonInp - 1
                /\ Goto("main", "measure", "lock")
             \/ evt.type = "backspace" /\ Len(mon_inp_buf) > 0
                /\ Goto("main", "measure", "erase")
          /\ mon_inp_size' = Len(mon_inp_buf)
          /\ UNCHANGED evt
       \/ /\ \/ evt.type = "text" /\ Len(mon_inp_buf) >= MaxMonInp - 1
             \/ evt.type = "backspace" /\ Len(mon_inp_buf) = 0
          /\ Goto("main", "measure", "loop")
          /\ ProcEvtReturns
    /\ UNCHANGED <<line, objects, cup_state, n, monLocals, status, undefined, history>>

LockText ==
    /\ mon_inp_mut = "free"
    /\ Goto("main", "lock", "append")
    /\ mon_inp_mut' = "main"
    /\ UNCHANGED <<line, mon_inp_cv, cv_alive, mon_out_buf, cup_state, mainLocals,
                   monLocals, status, undefined, history>>

\* strncat appends as many bytes as the earlier size leaves room for, and a
\* terminator after them.
AppendText ==
    /\ Goto("main", "append", "unlock")
    /\ LET room == MaxMonInp - mon_inp_size
           k == IF Len(evt.text) < room THEN Len(evt.text) ELSE room
       IN  mon_inp_buf' = mon_inp_buf \o SubSeq(evt.text, 1, k)
    /\ Note("wide", Len(evt.text) > 1)
    /\ UNCHANGED <<mon_inp_active, mon_inp_eof, objects, cup_state, mainLocals,
                   monLocals, status, undefined, entered>>

UnlockText ==
    /\ Goto("main", "unlock", "loop")
    /\ mon_inp_mut' = "free"
    /\ ProcEvtReturns
    /\ UNCHANGED <<line, mon_inp_cv, cv_alive, mon_out_buf, cup_state, n,
                   monLocals, status, undefined, history>>

\* BACKSPACE puts a terminator over the last byte that was measured.
Erase ==
    /\ Goto("main", "erase", "loop")
    /\ mon_inp_buf' = IF mon_inp_size <= Len(mon_inp_buf)
                      THEN SubSeq(mon_inp_buf, 1, mon_inp_size - 1) ELSE mon_inp_buf
    /\ ProcEvtReturns
    /\ UNCHANGED <<mon_inp_active, mon_inp_eof, objects, cup_state, n,
                   monLocals, status, undefined, history>>

SetEof ==
    /\ Goto("main", "set_eof", "signal")
    /\ mon_inp_eof' = TRUE
    /\ UNCHANGED <<mon_inp_buf, mon_inp_active, objects, cup_state, mainLocals,
                   monLocals, status, undefined, history>>

\* Mutant: RETURN signals nobody.
SignalNobody ==
    /\ Goto("main", "signal", "loop")
    /\ entered' = mon_inp_buf
    /\ ProcEvtReturns
    /\ UNCHANGED <<line, objects, cup_state, n, monLocals, status,
                   undefined, mishaps>>

\* RETURN and control-D wake the monitor, if it waits.
Signal ==
    /\ Goto("main", "signal", "loop")
    /\ mon_inp_cv' = {}
    /\ entered' = mon_inp_buf
    /\ ProcEvtReturns
    /\ UNCHANGED <<line, mon_inp_mut, cv_alive, mon_out_buf, cup_state, n,
                   monLocals, status, undefined, mishaps>>

\* ESCAPE, or the window is closed: no event is processed any more.
QuitEvent ==
    /\ Goto("main", "loop", "td_eof")
    /\ UNCHANGED <<line, objects, cup_state, mainLocals, monLocals, status,
                   undefined, history>>
-----------------------------------------------------------------------------
(***************************************************************************)
(* CuSdlMonIoTearDown, and the end of main().                              *)
(***************************************************************************)
TdEof ==
    /\ Goto("main", "td_eof", "td_active")
    /\ mon_inp_eof' = TRUE
    /\ UNCHANGED <<mon_inp_buf, mon_inp_active, objects, cup_state, mainLocals,
                   monLocals, status, undefined, history>>

TdActive ==
    /\ Goto("main", "td_active", IF mon_inp_active THEN "td_signal" ELSE "td_check")
    /\ Note("busy", ~MonitorRests)
    /\ UNCHANGED <<line, objects, cup_state, mainLocals, monLocals, status,
                   undefined, entered>>

TdSignal ==
    /\ Goto("main", "td_signal", "delay")
    /\ mon_inp_cv' = {} /\ n' = 0
    /\ UNCHANGED <<line, mon_inp_mut, cv_alive, mon_out_buf, cup_state, evt,
                   mon_inp_size, monLocals, status, undefined, history>>

\* Mutant: the delays are not counted.
DelayUncounted ==
    /\ Goto("main", "delay", "td_again")
    /\ Note("late", ~MonitorRests)
    /\ UNCHANGED <<line, objects, cup_state, mainLocals, monLocals, status,
                   undefined, entered>>

\* SDL_Delay.  It is long enough when the monitor has come to rest meanwhile.
Delay ==
    /\ Goto("main", "delay", "td_again")
    /\ n' = n + 1
    /\ Note("late", ~MonitorRests)
    /\ UNCHANGED <<line, objects, cup_state, evt, mon_inp_size, monLocals, status,
                   undefined, entered>>

\* Mutant: the attempts are not counted.
TdAgainForEver ==
    /\ Goto("main", "td_again", IF mon_inp_active THEN "delay" ELSE "td_check")
    /\ UNCHANGED <<line, objects, cup_state, mainLocals, monLocals, status,
                   undefined, history>>

TdAgain ==
    /\ Goto("main", "td_again",
            IF mon_inp_active /\ n < MaxAttempts THEN "delay" ELSE "td_check")
    /\ UNCHANGED <<line, objects, cup_state, mainLocals, monLocals, status,
                   undefined, history>>

\* After the time-out main() returns its error.
TdCheck ==
    /\ IF mon_inp_active
       THEN Finish("main", "td_check", "failure")
       ELSE Goto("main", "td_check", "td_lock") /\ UNCHANGED status
    /\ UNCHANGED <<line, objects, cup_state, mainLocals, monLocals, undefined, history>>

TdLock ==
    /\ mon_inp_mut = "free"
    /\ Goto("main", "td_lock", "td_destroy_cv")
    /\ mon_inp_mut' = "main"
    /\ UNCHANGED <<line, mon_inp_cv, cv_alive, mon_out_buf, cup_state, mainLocals,
                   monLocals, status, undefined, history>>

\* Destroying a condition variable in use, or a mutex that is held, is undefined.
TdDestroyCv ==
    /\ Goto("main", "td_destroy_cv", "td_unlock")
    /\ cv_alive' = FALSE
    /\ undefined' = (pc["monitor"] = "waiting")
    /\ UNCHANGED <<line, mon_inp_mut, mon_inp_cv, mon_out_buf, cup_state, mainLocals,
                   monLocals, status, history>>

TdUnlock ==
    /\ Goto("main", "td_unlock", "td_destroy_mut")
    /\ mon_inp_mut' = "free"
    /\ UNCHANGED <<line, mon_inp_cv, cv_alive, mon_out_buf, cup_state, mainLocals,
                   monLocals, status, undefined, history>>

TdDestroyMut ==
    /\ Goto("main", "td_destroy_mut", "td_free")
    /\ mon_inp_mut' = "destroyed"
    /\ undefined' = (mon_inp_mut = "monitor")
    /\ UNCHANGED <<line, mon_inp_cv, cv_alive, mon_out_buf, cup_state, mainLocals,
                   monLocals, status, history>>

\* free(mon_out_buf), which keeps its value.
TdFree ==
    /\ Goto("main", "td_free", "td_reset")
    /\ mon_inp_buf' = <<>>
    /\ mon_out_buf' = "freed"
    /\ UNCHANGED <<mon_inp_active, mon_inp_eof, mon_inp_mut, mon_inp_cv, cv_alive,
                   cup_state, mainLocals, monLocals, status, undefined, history>>

TdReset ==
    /\ Goto("main", "td_reset", "join_executor")
    /\ mon_inp_active' = FALSE
    /\ UNCHANGED <<mon_inp_buf, mon_inp_eof, objects, cup_state, mainLocals,
                   monLocals, status, undefined, history>>

\* Mutant: the executor's status is not looked at.
JoinExecutorAnyHow ==
    /\ pc["executor"] = "done"
    /\ Goto("main", "join_executor", "join_monitor")
    /\ UNCHANGED <<line, objects, cup_state, mainLocals, monLocals, status,
                   undefined, history>>

JoinExecutor ==
    /\ pc["executor"] = "done"
    /\ IF status["executor"] = "success"
       THEN Goto("main", "join_executor", "join_monitor") /\ UNCHANGED status
       ELSE Finish("main", "join_executor", "failure")
    /\ UNCHANGED <<line, objects, cup_state, mainLocals, monLocals, undefined, history>>

JoinMonitor ==
    /\ pc["monitor"] = "done"
    /\ Finish("main", "join_monitor", status["monitor"])
    /\ UNCHANGED <<line, objects, cup_state, mainLocals, monLocals, undefined, history>>
-----------------------------------------------------------------------------
(***************************************************************************)
(* The executor: it ends at a failing instruction, or when it sees that    *)
(* the monitor has stored CU_CPU_QUITTING.                                 *)
(***************************************************************************)
\* The first thing it does is to store CU_CPU_RUNNING over what is there.
ExecutorStarts ==
    /\ Goto("executor", "start", "running")
    /\ cup_state' = "RUNNING"
    /\ UNCHANGED <<line, objects, mainLocals, monLocals, status, undefined, history>>

ExecutorFails ==
    /\ Finish("executor", "running", "failure")
    /\ UNCHANGED <<line, objects, cup_state, mainLocals, monLocals, undefined, history>>

ExecutorQuits ==
    /\ cup_state = "QUITTING"
    /\ Finish("executor", "running", "success")
    /\ UNCHANGED <<line, objects, cup_state, mainLocals, monLocals, undefined, history>>
-----------------------------------------------------------------------------
(***************************************************************************)
(* The monitor: CuRunMon, whose output goes through CuSdlMonIoPutMsg and   *)
(* whose input comes from CuSdlMonIoGetInp.                                *)
(***************************************************************************)
\* EmitMonTxt writes to mon_out_buf.
Emit(here, there) ==
    /\ Goto("monitor", here, there)
    /\ undefined' = (mon_out_buf = "freed")
    /\ UNCHANGED <<line, objects, cup_state, mainLocals, monLocals, status, history>>

\* The banner or the output of a command, and the prompt.
PrintOutput == Emit("print", "clear")

\* A new line begins, and with it what matters for this line.
ClearLine ==
    /\ Goto("monitor", "clear", "activate")
    /\ mon_inp_buf' = <<>>
    /\ eof' = FALSE
    /\ mishaps' = mishaps \ {"haste", "wide", "spurious"}
    /\ entered' = <<>>
    /\ UNCHANGED <<mon_inp_active, mon_inp_eof, objects, cup_state, mainLocals,
                   inp, status, undefined>>

\* Mutant: the monitor waits without saying so.
ActivateNot ==
    /\ Goto("monitor", "activate", "place")
    /\ UNCHANGED <<line, objects, cup_state, mainLocals, monLocals, status,
                   undefined, history>>

Activate ==
    /\ Goto("monitor", "activate", "place")
    /\ mon_inp_active' = TRUE
    /\ UNCHANGED <<mon_inp_buf, mon_inp_eof, objects, cup_state, mainLocals,
                   monLocals, status, undefined, history>>

\* The place-holder for the cursor.
Place == Emit("place", "add_timer")

\* When no timer can be had CuRunMon fails, and mon_inp_active stays set.
AddTimer ==
    /\ \/ Goto("monitor", "add_timer", "lock") /\ UNCHANGED status
       \/ EnvFails /\ Finish("monitor", "add_timer", "failure")
    /\ UNCHANGED <<line, objects, cup_state, mainLocals, monLocals, undefined, history>>

\* CuMutLock reports an error once the mutex has been destroyed.
LockLine ==
    /\ \/ /\ mon_inp_mut = "free"
          /\ Goto("monitor", "lock", "wait")
          /\ mon_inp_mut' = "monitor"
          /\ UNCHANGED status
       \/ /\ mon_inp_mut = "destroyed"
          /\ Finish("monitor", "lock", "failure")
          /\ UNCHANGED mon_inp_mut
    /\ UNCHANGED <<line, mon_inp_cv, cv_alive, mon_out_buf, cup_state, mainLocals,
                   monLocals, undefined, history>>

\* Mutant: the wait returns at once.
WaitNot ==
    /\ Goto("monitor", "wait", "waiting")
    /\ mon_inp_mut' = "free"
    /\ UNCHANGED <<line, mon_inp_cv, cv_alive, mon_out_buf, cup_state, mainLocals,
                   monLocals, status, undefined, history>>

\* CuCondVarWait; its error leaves the mutex locked.
Wait ==
    /\ \/ /\ cv_alive
          /\ Goto("monitor", "wait", "waiting")
          /\ mon_inp_mut' = "free"
          /\ mon_inp_cv' = {"monitor"}
          /\ UNCHANGED status
       \/ /\ ~cv_alive
          /\ Finish("monitor", "wait", "failure")
          /\ UNCHANGED <<mon_inp_mut, mon_inp_cv>>
    /\ UNCHANGED <<line, cv_alive, mon_out_buf, cup_state, mainLocals, monLocals,
                   undefined, history>>

SpuriousWakeUp ==
    /\ Spurious /\ Alive
    /\ mon_inp_cv # {}
    /\ mon_inp_cv' = {}
    /\ Note("spurious", TRUE)
    /\ UNCHANGED <<line, mon_inp_mut, cv_alive, mon_out_buf, cup_state, pc, mainLocals,
                   monLocals, status, undefined, entered>>

Woken ==
    /\ "monitor" \notin mon_inp_cv
    /\ mon_inp_mut = "free"
    /\ Goto("monitor", "waiting", "copy")
    /\ mon_inp_mut' = "monitor"
    /\ UNCHANGED <<line, mon_inp_cv, cv_alive, mon_out_buf, cup_state, mainLocals,
                   monLocals, status, undefined, history>>

FirstOf(s, k) == SubSeq(s, 1, IF Len(s) < k THEN Len(s) ELSE k)

\* The monitor's buffer is the shorter one.
CopyLine ==
    /\ Goto("monitor", "copy", "unlock")
    /\ inp' = FirstOf(mon_inp_buf, MaxUserInput - 1)
    /\ UNCHANGED <<line, objects, cup_state, mainLocals, eof, status, undefined, history>>

UnlockLine ==
    /\ Goto("monitor", "unlock", "deactivate")
    /\ mon_inp_mut' = "free"
    /\ UNCHANGED <<line, mon_inp_cv, cv_alive, mon_out_buf, cup_state, mainLocals,
                   monLocals, status, undefined, history>>

Deactivate ==
    /\ Goto("monitor", "deactivate", "get_eof")
    /\ mon_inp_active' = FALSE
    /\ UNCHANGED <<mon_inp_buf, mon_inp_eof, objects, cup_state, mainLocals,
                   monLocals, status, undefined, history>>

\* Mutant: CuSdlMonIoGetInp does not report the end of the input.
GetEofNever ==
    /\ Goto("monitor", "get_eof", "obey")
    /\ eof' = FALSE
    /\ UNCHANGED <<line, objects, cup_state, mainLocals, inp, status, undefined, history>>

GetEof ==
    /\ Goto("monitor", "get_eof", "obey")
    /\ eof' = mon_inp_eof
    /\ UNCHANGED <<line, objects, cup_state, mainLocals, inp, status, undefined, history>>

\* At the end of the input the monitor says so and quits; otherwise it obeys the
\* line: a command that prints something, or fails, or quits.  What becomes of it
\* is anybody's guess when the executor has yet to start.
Obey ==
    /\ \/ eof /\ Goto("monitor", "obey", "print_eof") /\ UNCHANGED status
       \/ ~eof /\ Goto("monitor", "obey", "print") /\ UNCHANGED status
       \/ ~eof /\ Goto("monitor", "obey", "set_quitting") /\ UNCHANGED status
       \/ ~eof /\ Finish("monitor", "obey", "failure")
    /\ Note("early", ~ExecutorUp)
    /\ UNCHANGED <<line, objects, cup_state, mainLocals, monLocals, undefined, entered>>

PrintEof == Emit("print_eof", "set_quitting")

SetQuitting ==
    /\ Finish("monitor", "set_quitting", "success")
    /\ cup_state' = "QUITTING"
    /\ UNCHANGED <<line, objects, mainLocals, monLocals, undefined, history>>
-----------------------------------------------------------------------------
ProcEvt == Measure \/ LockText \/ AppendText \/ UnlockText \/ Erase \/ SetEof \/ Signal

TearDown ==
    \/ TdEof \/ TdActive \/ TdSignal \/ Delay \/ TdAgain \/ TdCheck \/ TdLock
    \/ TdDestroyCv \/ TdUnlock \/ TdDestroyMut \/ TdFree \/ TdReset

MainWork ==
    \/ SetUp \/ SpawnMonitor \/ SpawnExecutor \/ ProcEvt \/ TearDown
    \/ JoinExecutor \/ JoinMonitor

GetInp ==
    \/ ClearLine \/ Activate \/ Place \/ AddTimer \/ LockLine \/ Wait \/ Woken
    \/ CopyLine \/ UnlockLine \/ Deactivate \/ GetEof

Monitor == PrintOutput \/ GetInp \/ Obey \/ PrintEof \/ SetQuitting

Next ==
    \/ MainWork \/ TakeEvent \/ QuitEvent \/ EnvError
    \/ ExecutorStarts \/ ExecutorFails \/ ExecutorQuits
    \/ Monitor \/ SpuriousWakeUp

Spec == Init /\ [][Next]_vars

\* That an executor without break-points hears a quit is what RunControl shows, as
\* long as no command was obeyed before it had started: an early `step` may leave
\* it paused for ever, and then it hears nothing.
ExecutorHears == "early" \notin mishaps /\ ExecutorQuits

\* Every thread that can run is run; nothing makes the user type or close the
\* window, or the environment fail.  The event loop sleeps between frames without
\* the mutex, so a monitor that wants it gets it in the end.
Fairness ==
    /\ WF_vars(MainWork) /\ WF_vars(Monitor)
    /\ WF_vars(ExecutorStarts) /\ WF_vars(ExecutorHears)
    /\ SF_vars(LockLine) /\ SF_vars(Woken)

FairSpec == Spec /\ Fairness
-----------------------------------------------------------------------------
(***************************************************************************)
(* Properties.                                                             *)
(***************************************************************************)
TypeOK ==
    /\ mon_inp_buf \in Seq(Key)
    /\ {mon_inp_active, mon_inp_eof, cv_alive, eof, undefined} \subseteq BOOLEAN
    /\ mon_inp_mut \in {"free", "main", "monitor", "destroyed"}
    /\ mon_inp_cv \subseteq {"monitor"}
    /\ mon_out_buf \in {"none", "live", "freed"}
    /\ cup_state \in {"RUNNING", "QUITTING"}
    /\ pc \in [Thread -> MainLabel \cup MonitorLabel \cup ExecutorLabel]
    /\ pc["main"] \in MainLabel
    /\ pc["monitor"] \in MonitorLabel
    /\ pc["executor"] \in ExecutorLabel
    /\ evt \in Event \cup {NoEvent}
    /\ mon_inp_size \in 0 .. MaxMonInp
    /\ n \in 0 .. MaxAttempts
    /\ inp \in Seq(Key)
    /\ status \in [Thread -> {"none"} \cup Exited]
    /\ mishaps \subseteq Mishap
    /\ entered \in Seq(Key)

\* With a window, too, the exit status tells what became of the threads: it is
\* a success only after the user has quit and both threads have ended well.
\* Unlike the command line, a failing window may end the process at any time.
ThreadState(t) ==
    IF pc[t] = "unborn" THEN "unborn"
    ELSE IF status[t] = "none" THEN "running" ELSE status[t]

Promise == INSTANCE Lifecycle WITH
    MayAbandon <- TRUE,
    monitor    <- ThreadState("monitor"),
    executor   <- ThreadState("executor"),
    process    <- ThreadState("main")

KeepsPromise == Promise!Spec

\* The line that the monitor obeys is the one that was in mon_inp_buf when RETURN
\* was pressed, up to what the monitor's buffer holds, as long as the user did not
\* type while the monitor was not waiting and the wait was not woken by nobody.
LineIsWhole ==
    /\ pc["monitor"] = "obey" /\ ~eof
    /\ mishaps \cap {"haste", "spurious"} = {}
    => inp = FirstOf(entered, MaxUserInput - 1)

\* However the user types, a line and its terminator fit mon_inp_buf as long as a
\* text event brings one byte; longer ones may put the terminator one byte past
\* the end, and never anything else.
LineFitsBuffer ==
    /\ Len(mon_inp_buf) <= MaxMonInp
    /\ "wide" \notin mishaps => Len(mon_inp_buf) < MaxMonInp

\* When the window is closed while the monitor waits for input, and the delays
\* are long enough for it to leave, nothing is used after it was destroyed,
\* whatever the user has typed before.
CleanTearDown == undefined => mishaps \cap {"busy", "late"} # {}

\* Closing the window ends CUSS, if the monitor waits for input, or has quit
\* already, at the moment when the tear-down finds out whether it is active, and
\* the executor had started before the first command was obeyed, and has by now.
\* (A quit that comes earlier is wiped out, and main() joins the executor for ever.)
QuitEnds ==
    /\ pc["main"] = "td_active"
    /\ "monitor" \in mon_inp_cv \/ status["monitor"] = "success"
    /\ ExecutorUp /\ "early" \notin mishaps
    ~> ~Alive

\* The tear-down comes to an end in whatever state it finds the monitor.
TearDownEnds ==
    pc["main"] \in TearDownLabel
    ~> pc["main"] = "join_executor" \/ ~Alive

\* A RETURN pressed while the monitor waits gets it out of CuSdlMonIoGetInp.
ReturnIsHeard ==
    /\ pc["main"] = "signal"
    /\ "monitor" \in mon_inp_cv
    ~> pc["monitor"] \notin GetInpLabel \/ ~Alive
-----------------------------------------------------------------------------
(***************************************************************************)
(* Inductive invariants, for the proofs in SdlConsoleProofs.               *)
(***************************************************************************)
\* A thread has a status when it has ended; main() spawns before it joins;
\* CU_CPU_QUITTING is stored by the last step of a monitor that succeeds.
ThreadInv ==
    /\ \A t \in Thread : (status[t] = "none") <=> (pc[t] # "done")
    /\ pc["main"] \in {"set_up", "spawn_monitor"} => pc["monitor"] = "unborn"
    /\ pc["main"] \in {"set_up", "spawn_monitor", "spawn_executor"}
           => pc["executor"] = "unborn"
    /\ pc["main"] = "spawn_executor" => pc["monitor"] # "unborn"
    /\ pc["main"] = "join_monitor" => status["executor"] = "success"
    /\ cup_state = "QUITTING" => status["monitor"] = "success"
    /\ status["executor"] = "success" => status["monitor"] = "success"

\* The size that was measured is an upper bound on the line: while an event is
\* processed only the monitor changes the line, and it only clears it.
MeasureInv ==
    /\ LineFitsBuffer
    /\ pc["main"] \in {"lock", "append"}
           => /\ evt.type = "text"
              /\ mon_inp_size < MaxMonInp - 1
              /\ Len(mon_inp_buf) <= mon_inp_size
    /\ pc["main"] = "erase" => mon_inp_size > 0
    /\ pc["main"] = "delay" => n < MaxAttempts

\* The monitor is on its way from a wait that the tear-down has ended.
LeavesWait ==
    \/ pc["monitor"] \in {"waiting", "copy", "unlock", "deactivate", "get_eof",
                          "print_eof", "set_quitting", "done"}
    \/ pc["monitor"] = "obey" /\ eof

\* Was the monitor found waiting, and were the delays long enough?
Orderly == mishaps \cap {"busy", "late"} = {}

\* An orderly tear-down finds the monitor waiting, wakes it for good, and destroys
\* nothing before it has ended.
TearDownInv ==
    /\ CleanTearDown
    /\ "monitor" \in mon_inp_cv => pc["monitor"] = "waiting"
    /\ pc["monitor"] \in GetInpLabel \ {"clear", "activate", "get_eof"}
           => mon_inp_active \/ pc["main"] \in {"join_executor", "join_monitor", "done"}
    /\ pc["main"] \in TearDownLabel \ {"td_eof"} => mon_inp_eof
    /\ mon_out_buf = "freed"
           => pc["main"] \in {"td_reset", "join_executor", "join_monitor", "done"}
    /\ Orderly =>
        /\ pc["main"] \in {"td_signal", "delay"} => LeavesWait
        /\ pc["main"] = "delay" => "monitor" \notin mon_inp_cv
        /\ pc["main"] \in (TearDownLabel \ {"td_eof", "td_active", "td_signal", "delay"})
                          \cup {"join_executor", "join_monitor"}
               => pc["monitor"] = "done"
        /\ pc["main"] = "td_destroy_mut" => mon_inp_mut = "free"

\* Who holds mon_inp_mut, and where: main() while it appends a text and while it
\* destroys the condition variable, the monitor around its wait.  Only a wait that
\* finds no condition variable leaves the mutex locked.
LockedByMain == {"append", "unlock", "td_destroy_cv", "td_unlock"}
LockedByMonitor == {"wait", "copy", "unlock"}

MutexInv ==
    ~undefined =>
        /\ mon_inp_mut = "main" <=> pc["main"] \in LockedByMain
        /\ pc["monitor"] \in LockedByMonitor => mon_inp_mut = "monitor"
        /\ mon_inp_mut = "monitor" => \/ pc["monitor"] \in LockedByMonitor
                                      \/ pc["monitor"] = "done" /\ ~cv_alive
        /\ mon_inp_mut = "destroyed"
               => pc["main"] \in {"set_up", "td_free", "td_reset", "join_executor",
                                  "join_monitor", "done"}
        /\ pc["main"] # "done"
               => (cv_alive <=> pc["main"] \notin {"set_up", "td_unlock", "td_destroy_mut",
                                                  "td_free", "td_reset", "join_executor",
                                                  "join_monitor"})

\* How many steps a tear-down has left at most.
TearDownLeft ==
    CASE pc["main"] = "td_eof"    -> 2 * MaxAttempts + 10
      [] pc["main"] = "td_active" -> 2 * MaxAttempts + 9
      [] pc["main"] = "td_signal" -> 2 * MaxAttempts + 8
      [] pc["main"] = "td_again"  -> 2 * (MaxAttempts - n) + 8
      [] pc["main"] = "delay"     -> 2 * (MaxAttempts - n) + 7
      [] pc["main"] = "td_check"  -> 7
      [] pc["main"] = "td_lock"   -> 6
      [] pc["main"] = "td_destroy_cv"  -> 5
      [] pc["main"] = "td_unlock"      -> 4
      [] pc["main"] = "td_destroy_mut" -> 3
      [] pc["main"] = "td_free"        -> 2
      [] pc["main"] = "td_reset"       -> 1
      [] OTHER -> 0

\* What an end of the process needs: a quit that is not early stays where it was
\* stored, and so does the end of the input, and nobody waits on a condition
\* variable that is gone.
EndInv ==
    /\ "early" \notin mishaps =>
        /\ status["monitor"] = "success" => ExecutorUp /\ cup_state = "QUITTING"
        /\ pc["monitor"] \in {"print_eof", "set_quitting"} => ExecutorUp
    /\ pc["main"] \notin {"set_up", "spawn_monitor", "spawn_executor", "done"}
           => pc["executor"] # "unborn"
    /\ pc["main"] \in {"join_executor", "join_monitor"} => mon_inp_eof
    /\ ~undefined /\ ~cv_alive => pc["monitor"] # "waiting"

\* The tear-down has found the monitor waiting or on its way to quit, and leaves it
\* no way but the end of the input; the executor is there to hear it.
Closing ==
    /\ ExecutorUp /\ "early" \notin mishaps
    /\ pc["main"] \in (TearDownLabel \ {"td_eof"}) \cup {"join_executor", "join_monitor"}
    /\ LeavesWait
    /\ "monitor" \in mon_inp_cv => pc["main"] \in {"td_active", "td_signal"}
    /\ pc["monitor"] = "done" => status["monitor"] = "success"

\* How many steps of all the threads it will take at most.
MonitorLeft ==
    CASE pc["monitor"] = "waiting"      -> 8
      [] pc["monitor"] = "copy"         -> 7
      [] pc["monitor"] = "unlock"       -> 6
      [] pc["monitor"] = "deactivate"   -> 5
      [] pc["monitor"] = "get_eof"      -> 4
      [] pc["monitor"] = "obey"         -> 3
      [] pc["monitor"] = "print_eof"    -> 2
      [] pc["monitor"] = "set_quitting" -> 1
      [] OTHER -> 0

JoinsLeft == CASE pc["main"] \in TearDownLabel \cup {"join_executor"} -> 2
               [] pc["main"] = "join_monitor" -> 1
               [] OTHER -> 0

ExecutorLeft == IF pc["executor"] = "done" THEN 0 ELSE 1

EndLeft == TearDownLeft + JoinsLeft + MonitorLeft + ExecutorLeft

\* Whose turn it is then; none of these steps has to wait for anything.
SomebodyMoves ==
    \/ pc["main"] \in TearDownLabel \ {"td_lock"}
    \/ pc["main"] = "td_lock" /\ mon_inp_mut = "free"
    \/ pc["monitor"] \in {"copy", "unlock", "deactivate", "get_eof", "obey", "print_eof",
                          "set_quitting"}
    \/ pc["executor"] = "running" /\ cup_state = "QUITTING"
    \/ pc["main"] = "join_executor" /\ pc["executor"] = "done"
    \/ pc["main"] = "join_monitor" /\ pc["monitor"] = "done"

\* A RETURN has been pressed, and the monitor has not obeyed the line yet.
Returned ==
    \/ pc["monitor"] = "waiting" /\ "monitor" \notin mon_inp_cv /\ ~mon_inp_eof
    \/ pc["monitor"] \in {"copy", "unlock", "deactivate", "get_eof"} /\ ~mon_inp_eof
    \/ pc["monitor"] = "obey" /\ ~eof

ProcEvtLabel == {"measure", "lock", "append", "unlock", "erase", "set_eof", "signal"}

\* As long as nobody types before the monitor waits, no event is being processed
\* between RETURN and the obedience, and the line stays as it was.
LineInv ==
    Returned /\ mishaps \cap {"haste", "spurious"} = {} =>
        /\ pc["main"] \notin ProcEvtLabel
        /\ IF pc["monitor"] \in {"waiting", "copy"} THEN mon_inp_buf = entered
           ELSE inp = FirstOf(entered, MaxUserInput - 1)
=============================================================================
