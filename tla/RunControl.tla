----------------------------- MODULE RunControl -----------------------------
(***************************************************************************)
(* Run control of CUSS with the command-line interface: the main thread    *)
(* (cuss.c), the executor thread that runs the program (CuRunExecution in  *)
(* cpu.c), and the monitor thread that reads the user's commands           *)
(* (CuRunMon in monitor.c, CuExecSingleStep and CuSetCpuState in cpu.c).   *)
(*                                                                         *)
(* The threads share cup_state, cup_pc and a condition variable.  Each     *)
(* thread is at a label of its own code; between two labels it reads or    *)
(* writes shared memory once, so every interleaving of the loads and the   *)
(* stores that the build makes is a behaviour of the model.  The code      *)
(* reads cup_state without holding a lock: a test such as                  *)
(* `cup_state == A || cup_state == B` is one load in the -O3 build, and    *)
(* one that follows another access to it may use the value seen there.     *)
(*                                                                         *)
(* What an instruction does to registers and memory is left to other       *)
(* modules: here it only gives the next program counter, or fails.         *)
(***************************************************************************)
EXTENDS FiniteSets

CONSTANTS
    Addr,           \* the word addresses of RAM, all those cup_pc may hold
    ResetVector,    \* where execution starts
    Insn,           \* the instruction words of the program
    Prog,           \* the memory image: Prog[a] is the word at address a
    Outcome,        \* what the instruction i run at a may lead to
    Fails,          \* the outcome of an instruction that reports an error
    Spurious,       \* may SDL_CondWait return without a signal?
    EagerUser,      \* may a command arrive before the executor has started?
    OutputFails,    \* may writing to stdout fail?
    SpawnFails      \* may SDL_CreateThread fail?

ASSUME ResetAssumption == ResetVector \in Addr
ASSUME ProgAssumption == Prog \in [Addr -> Insn]
ASSUME FailsAssumption == Fails \notin Addr
ASSUME OutcomeAssumption ==
    /\ Outcome \in [Addr \X Insn -> SUBSET (Addr \cup {Fails})]
    /\ \A w \in Addr \X Insn : Outcome[w] # {}
ASSUME SwitchAssumption == {Spurious, EagerUser, OutputFails, SpawnFails} \subseteq BOOLEAN

VARIABLES
    cup_state,      \* CuCpuState
    cup_pc,         \* the program counter
    cup_break_points, \* the addresses in the break-point table
    cup_state_mut,  \* the thread that holds the mutex, or "free"
    cup_state_cv,   \* the threads blocked on the condition variable
    pc,             \* the label at which each thread is
    insn,           \* local of ExecOneInsn: the word a thread has fetched
    at,             \* local of ExecOneInsn: the pc it passes to CuExecOp
    seen,           \* the value of cup_state the executor last read or stored,
                    \* which the compiler may keep in a register
    status          \* the exit status of each thread; main's is the process's

vars == <<cup_state, cup_pc, cup_break_points, cup_state_mut, cup_state_cv,
          pc, insn, at, seen, status>>
shared == <<cup_state, cup_pc, cup_break_points, cup_state_mut, cup_state_cv>>
locks == <<cup_state_mut, cup_state_cv>>
locals == <<insn, at, seen>>

Thread == {"main", "executor", "monitor"}
Stepper == {"executor", "monitor"}
CpuState == {"ERROR", "PAUSED", "RUNNING", "BREAK_POINT", "QUITTING"}
Stopped == {"PAUSED", "BREAK_POINT"}
Exited == {"success", "failure"}

MainLabel == {"spawn_monitor", "spawn_executor", "join_executor", "join_monitor", "done"}
ExecLabel == {"fetch", "operand", "commit", "error"}
ExecutorLabel == ExecLabel \cup
    {"unborn", "start", "check", "set_bp", "test", "lock", "wait", "waiting",
     "unlock", "loop", "done"}
MonitorLabel == ExecLabel \cup
    {"unborn", "prompt", "step", "check", "set_bp", "set_paused",
     "quit", "signal", "set_quitting", "done"}

\* What CpuSetUp leaves: CuInitCpu, and the break-point of the command line, if
\* one was given (nothing else calls CuAddBreakPoint).
Init ==
    /\ cup_state = "PAUSED"
    /\ cup_pc = ResetVector
    /\ cup_break_points \in {{}} \cup {{a} : a \in Addr}
    /\ cup_state_mut = "free"
    /\ cup_state_cv = {}
    /\ pc = [t \in Thread |-> IF t = "main" THEN "spawn_monitor" ELSE "unborn"]
    /\ insn = [t \in Stepper |-> Prog[ResetVector]]
    /\ at = [t \in Stepper |-> ResetVector]
    /\ seen = "PAUSED"
    /\ status = [t \in Thread |-> "none"]

\* The process lives until main() returns; then every thread is gone.
Alive == pc["main"] # "done"

Goto(t, here, there) == /\ Alive
                        /\ pc[t] = here
                        /\ pc' = [pc EXCEPT ![t] = there]

Finish(t, here, how) == /\ Goto(t, here, "done")
                        /\ status' = [status EXCEPT ![t] = how]

IsBreakPoint(a) == a \in cup_break_points
-----------------------------------------------------------------------------
(***************************************************************************)
(* main(): spawn the monitor, spawn the executor, join the executor, join  *)
(* the monitor.                                                            *)
(***************************************************************************)
Spawn(t, here, there, first) ==
    /\ Alive
    /\ pc["main"] = here
    /\ pc' = [pc EXCEPT !["main"] = there, ![t] = first]
    /\ UNCHANGED <<shared, locals, status>>

SpawnMonitor == Spawn("monitor", "spawn_monitor", "spawn_executor", "prompt")

SpawnExecutor == Spawn("executor", "spawn_executor", "join_executor", "start")

\* MonitorSetUp or ExecutorSetUp fails: main() returns at once.
SpawnError ==
    /\ SpawnFails
    /\ \E here \in {"spawn_monitor", "spawn_executor"} : Finish("main", here, "failure")
    /\ UNCHANGED <<shared, locals>>

\* Mutant: the executor's status is not looked at.
JoinExecutorAnyHow ==
    /\ pc["executor"] = "done"
    /\ Goto("main", "join_executor", "join_monitor")
    /\ UNCHANGED <<shared, locals, status>>

\* Mutant: the monitor is joined before the executor.
JoinExecutorLast ==
    /\ pc["executor"] = "done" /\ pc["monitor"] = "done"
    /\ IF status["executor"] = "success"
       THEN Goto("main", "join_executor", "join_monitor") /\ UNCHANGED status
       ELSE Finish("main", "join_executor", "failure")
    /\ UNCHANGED <<shared, locals>>

\* ExecutorTearDown: a failed executor ends the process, monitor and all.
JoinExecutor ==
    /\ pc["executor"] = "done"
    /\ IF status["executor"] = "success"
       THEN Goto("main", "join_executor", "join_monitor") /\ UNCHANGED status
       ELSE Finish("main", "join_executor", "failure")
    /\ UNCHANGED <<shared, locals>>

\* MonitorTearDown.
JoinMonitor ==
    /\ pc["monitor"] = "done"
    /\ Finish("main", "join_monitor", status["monitor"])
    /\ UNCHANGED <<shared, locals>>
-----------------------------------------------------------------------------
(***************************************************************************)
(* ExecOneInsn, run by the executor's loop and by the monitor's step.  It  *)
(* reads cup_pc twice: for the fetch, and for the operand of CuExecOp.     *)
(***************************************************************************)
Fetch(t) ==
    /\ Goto(t, "fetch", "operand")
    /\ insn' = [insn EXCEPT ![t] = Prog[cup_pc]]
    /\ UNCHANGED <<shared, at, seen, status>>

Operand(t) ==
    /\ Goto(t, "operand", "commit")
    /\ at' = [at EXCEPT ![t] = cup_pc]
    /\ UNCHANGED <<shared, insn, seen, status>>

\* Mutant: CuSetProgCtr does not check the new pc.
CommitUnchecked(t) ==
    /\ Goto(t, "commit", IF t = "executor" THEN "loop" ELSE "check")
    /\ cup_pc' \in Outcome[<<at[t], insn[t]>>]
    /\ UNCHANGED <<cup_state, cup_break_points, locks, locals, status>>

\* CuSetProgCtr at the end of an instruction that succeeds.
Commit(t) ==
    /\ Goto(t, "commit", IF t = "executor" THEN "loop" ELSE "check")
    /\ cup_pc' \in Outcome[<<at[t], insn[t]>>] \ {Fails}
    /\ UNCHANGED <<cup_state, cup_break_points, locks, locals, status>>

\* The instruction fails, and cup_pc stays.
Fault(t) ==
    /\ Goto(t, "commit", "error")
    /\ Fails \in Outcome[<<at[t], insn[t]>>]
    /\ UNCHANGED <<shared, locals, status>>

\* Either caller of ExecOneInsn stores CU_CPU_ERROR and ends its thread.
SetError(t) ==
    /\ Finish(t, "error", "failure")
    /\ cup_state' = "ERROR"
    /\ UNCHANGED <<cup_pc, cup_break_points, locks, locals>>
-----------------------------------------------------------------------------
(***************************************************************************)
(* The executor: CuRunExecution.                                           *)
(***************************************************************************)
StartRunning ==
    /\ Goto("executor", "start", "check")
    /\ cup_state' = "RUNNING" /\ seen' = "RUNNING"
    /\ UNCHANGED <<cup_pc, cup_break_points, locks, insn, at, status>>

CheckBreakPoint ==
    /\ Goto("executor", "check", IF IsBreakPoint(cup_pc) THEN "set_bp" ELSE "test")
    /\ UNCHANGED <<shared, locals, status>>

SetBreakPoint ==
    /\ Goto("executor", "set_bp", "test")
    /\ cup_state' = "BREAK_POINT" /\ seen' = "BREAK_POINT"
    /\ UNCHANGED <<cup_pc, cup_break_points, locks, insn, at, status>>

\* Mutant: only a paused CPU waits.
TestPaused ==
    /\ \E s \in {seen, cup_state} :
           Goto("executor", "test", IF s = "PAUSED" THEN "lock" ELSE "fetch")
    /\ UNCHANGED <<shared, locals, status>>

\* The state may be read once more, or taken from the register.
TestStopped ==
    /\ \E s \in {seen, cup_state} :
           Goto("executor", "test", IF s \in Stopped THEN "lock" ELSE "fetch")
    /\ UNCHANGED <<shared, locals, status>>

Lock ==
    /\ cup_state_mut = "free"
    /\ Goto("executor", "lock", "wait")
    /\ cup_state_mut' = "executor"
    /\ UNCHANGED <<cup_state, cup_pc, cup_break_points, cup_state_cv, locals, status>>

\* Mutant: the wait returns at once.
WaitNot ==
    /\ Goto("executor", "wait", "waiting")
    /\ cup_state_mut' = "free"
    /\ UNCHANGED <<cup_state, cup_pc, cup_break_points, cup_state_cv, locals, status>>

\* SDL_CondWait gives up the mutex and blocks, in one step...
Wait ==
    /\ Goto("executor", "wait", "waiting")
    /\ cup_state_mut' = "free"
    /\ cup_state_cv' = cup_state_cv \cup {"executor"}
    /\ UNCHANGED <<cup_state, cup_pc, cup_break_points, locals, status>>

\* ...may be woken by nobody...
SpuriousWakeUp ==
    /\ Spurious /\ Alive
    /\ cup_state_cv # {}
    /\ \E t \in cup_state_cv : cup_state_cv' = cup_state_cv \ {t}
    /\ UNCHANGED <<cup_state, cup_pc, cup_break_points, cup_state_mut, pc, locals, status>>

\* ...and takes the mutex again before it returns.
Woken ==
    /\ "executor" \notin cup_state_cv
    /\ cup_state_mut = "free"
    /\ Goto("executor", "waiting", "unlock")
    /\ cup_state_mut' = "executor"
    /\ UNCHANGED <<cup_state, cup_pc, cup_break_points, cup_state_cv, locals, status>>

\* The state is not tested again after the wait.
Unlock ==
    /\ Goto("executor", "unlock", "fetch")
    /\ cup_state_mut' = "free"
    /\ UNCHANGED <<cup_state, cup_pc, cup_break_points, cup_state_cv, locals, status>>

\* Mutant: the loop runs only while the state is CU_CPU_RUNNING.
LoopTestRunning ==
    /\ IF cup_state # "RUNNING"
       THEN Finish("executor", "loop", "success")
       ELSE Goto("executor", "loop", "check") /\ UNCHANGED status
    /\ seen' = cup_state
    /\ UNCHANGED <<shared, insn, at>>

\* Mutant: the loop does not test the state.
LoopForEver ==
    /\ Goto("executor", "loop", "check")
    /\ seen' = cup_state
    /\ UNCHANGED <<shared, insn, at, status>>

LoopTest ==
    /\ IF cup_state = "QUITTING"
       THEN Finish("executor", "loop", "success")
       ELSE Goto("executor", "loop", "check") /\ UNCHANGED status
    /\ seen' = cup_state
    /\ UNCHANGED <<shared, insn, at>>
-----------------------------------------------------------------------------
(***************************************************************************)
(* The monitor: CuRunMon.  Commands that only print (help, dis, reg, an    *)
(* unknown one) change nothing that is modelled here.                      *)
(***************************************************************************)
\* inp_fn returns: a line was typed, or the input has ended.
CommandArrives == EagerUser \/ pc["executor"] \notin {"unborn", "start"}

CmdStep == /\ CommandArrives
           /\ Goto("monitor", "prompt", "step")
           /\ UNCHANGED <<shared, locals, status>>

\* `exit`, `quit`, or the end of the input.
CmdQuit == /\ CommandArrives
           /\ Goto("monitor", "prompt", "quit")
           /\ UNCHANGED <<shared, locals, status>>

\* out_fn failed: CuRunMon returns its error and the thread ends.
OutputError == /\ OutputFails
               /\ Finish("monitor", "prompt", "failure")
               /\ UNCHANGED <<shared, locals>>

\* Mutant: CuExecSingleStep steps in any state.
StepAnyState ==
    /\ Goto("monitor", "step", "fetch")
    /\ UNCHANGED <<shared, locals, status>>

\* CuExecSingleStep refuses to step a CPU that is not stopped, and CuRunMon
\* passes the error on.
StepTest ==
    /\ IF cup_state \in Stopped
       THEN Goto("monitor", "step", "fetch") /\ UNCHANGED status
       ELSE Finish("monitor", "step", "failure")
    /\ UNCHANGED <<shared, locals>>

StepCheckBreakPoint ==
    /\ Goto("monitor", "check", IF IsBreakPoint(cup_pc) THEN "set_bp" ELSE "set_paused")
    /\ UNCHANGED <<shared, locals, status>>

StepStore ==
    /\ \/ Goto("monitor", "set_bp", "prompt") /\ cup_state' = "BREAK_POINT"
       \/ Goto("monitor", "set_paused", "prompt") /\ cup_state' = "PAUSED"
    /\ UNCHANGED <<cup_pc, cup_break_points, locks, locals, status>>

\* CuSetCpuState(CU_CPU_QUITTING): must_unblock is computed first...
QuitTest ==
    /\ Goto("monitor", "quit", IF cup_state \in Stopped THEN "signal" ELSE "set_quitting")
    /\ UNCHANGED <<shared, locals, status>>

\* ...then one waiting thread is woken, if there is one...
QuitSignal ==
    /\ Goto("monitor", "signal", "set_quitting")
    /\ IF cup_state_cv = {}
       THEN UNCHANGED cup_state_cv
       ELSE \E t \in cup_state_cv : cup_state_cv' = cup_state_cv \ {t}
    /\ UNCHANGED <<cup_state, cup_pc, cup_break_points, cup_state_mut, locals, status>>

\* Mutant: CuSetCpuState returns without storing the state.
QuitStoreNothing ==
    /\ Finish("monitor", "set_quitting", "success")
    /\ UNCHANGED <<shared, locals>>

\* ...and only then is the new state stored.
QuitStore ==
    /\ Finish("monitor", "set_quitting", "success")
    /\ cup_state' = "QUITTING"
    /\ UNCHANGED <<cup_pc, cup_break_points, locks, locals>>
-----------------------------------------------------------------------------
Main == SpawnMonitor \/ SpawnExecutor \/ SpawnError \/ JoinExecutor \/ JoinMonitor

ExecOneInsn(t) == Fetch(t) \/ Operand(t) \/ Commit(t) \/ Fault(t) \/ SetError(t)

Executor ==
    \/ StartRunning \/ CheckBreakPoint \/ SetBreakPoint \/ TestStopped
    \/ Lock \/ Wait \/ Woken \/ Unlock \/ ExecOneInsn("executor") \/ LoopTest

MonitorWork ==
    \/ StepTest \/ ExecOneInsn("monitor") \/ StepCheckBreakPoint \/ StepStore
    \/ QuitTest \/ QuitSignal \/ QuitStore

Monitor == CmdStep \/ CmdQuit \/ OutputError \/ MonitorWork

Next == Main \/ Executor \/ Monitor \/ SpuriousWakeUp

Spec == Init /\ [][Next]_vars

\* The scheduler runs every thread that can run.  Nothing makes the user type,
\* a wait return by itself, or an operation fail.
Fairness ==
    /\ WF_vars(SpawnMonitor \/ SpawnExecutor \/ JoinExecutor \/ JoinMonitor)
    /\ WF_vars(Executor)
    /\ WF_vars(MonitorWork)

FairSpec == Spec /\ Fairness
-----------------------------------------------------------------------------
(***************************************************************************)
(* Properties.                                                             *)
(***************************************************************************)
TypeOK ==
    /\ cup_state \in CpuState
    /\ cup_pc \in Addr
    /\ cup_break_points \subseteq Addr
    /\ cup_state_mut \in {"free", "executor"}
    /\ cup_state_cv \subseteq {"executor"}
    /\ pc \in [Thread -> MainLabel \cup ExecutorLabel \cup MonitorLabel]
    /\ pc["main"] \in MainLabel
    /\ pc["executor"] \in ExecutorLabel
    /\ pc["monitor"] \in MonitorLabel
    /\ insn \in [Stepper -> Insn]
    /\ at \in [Stepper -> Addr]
    /\ seen \in CpuState
    /\ status \in [Thread -> {"none"} \cup Exited]

\* An orderly exit is always the user's: the executor returns success, and
\* main() goes on to report it, only after the monitor has taken a quit
\* command to its end, so that the second join never yields a failure.
QuitIsRequested ==
    status["executor"] = "success" => status["monitor"] = "success"

\* The whole of run control implements what main() promises.
ThreadState(t) ==
    IF pc[t] = "unborn" THEN "unborn"
    ELSE IF status[t] = "none" THEN "running" ELSE status[t]

Promise == INSTANCE Lifecycle WITH
    MayAbandon <- FALSE,
    monitor  <- ThreadState("monitor"),
    executor <- ThreadState("executor"),
    process  <- ThreadState("main")

KeepsPromise == Promise!Spec

\* The environment in which the two threads keep out of each other's way: no
\* command comes before the executor has started, and a wait only returns when
\* it is signalled.
Calm == ~EagerUser /\ ~Spurious

InExec(t) == pc[t] \in {"fetch", "operand", "commit"}

\* In a calm environment the executor and a `step` of the monitor are never
\* both inside ExecOneInsn, though no lock keeps them apart.
OneRunner == Calm => ~(InExec("executor") /\ InExec("monitor"))

\* Then the two threads together run the program in order: each change of
\* cup_pc is the outcome of the instruction that cup_pc points at, never of one
\* that was fetched, or of a cup_pc that was read, before another thread moved on.
RunsInOrder == cup_pc' \in Outcome[<<cup_pc, Prog[cup_pc]>>] \cup {cup_pc}

InOrder == [][Calm => RunsInOrder]_vars

\* In a calm environment the executor runs the instruction at a break-point
\* only while the monitor quits or after the monitor has ended: until then
\* the user steps over it.
BreakPointHolds ==
    Calm /\ InExec("executor") /\ IsBreakPoint(cup_pc)
        => pc["monitor"] \in {"set_quitting", "done"}

\* When no command comes before the executor has started, nothing but a
\* break-point stops the program: without one the executor never gets to wait for
\* a monitor that may have ended, with success or with the error of a command.
OnlyBreakPointsStop ==
    ~EagerUser /\ pc["executor"] \in {"lock", "wait", "waiting"}
        => cup_break_points # {}

\* An instruction that fails in the executor ends the process, even when the
\* monitor waits for input that never comes.
FailureIsReported == status["executor"] = "failure" ~> status["main"] = "failure"

\* A quit that is stored while the executor is on its way from a test of the
\* state to the next is heard: the process ends.
HeardQuit ==
    /\ cup_state = "QUITTING"
    /\ pc["executor"] \in {"fetch", "operand", "commit", "error", "loop"}
    ~> pc["main"] = "done"

\* When no command comes before the executor has started and no break-point
\* can stop it, every quit ends the process.
FreeRunQuits ==
    /\ ~EagerUser
    /\ cup_break_points = {}
    /\ status["monitor"] = "success"
    ~> pc["main"] = "done"
-----------------------------------------------------------------------------
(***************************************************************************)
(* Inductive invariants, for the proofs in RunControlProofs.               *)
(***************************************************************************)
\* A thread has a status when it has ended; main() spawns before it joins;
\* CU_CPU_QUITTING is stored by the last step of a monitor that succeeds.
ThreadInv ==
    /\ \A t \in Thread : (status[t] = "none") <=> (pc[t] # "done")
    /\ pc["main"] \in {"spawn_monitor", "spawn_executor"} => pc["executor"] = "unborn"
    /\ pc["main"] = "spawn_monitor" => pc["monitor"] = "unborn"
    /\ pc["main"] \in {"spawn_executor", "join_executor", "join_monitor"}
           => pc["monitor"] # "unborn"
    /\ pc["main"] \in {"join_executor", "join_monitor"} => pc["executor"] # "unborn"
    /\ pc["main"] = "join_monitor" => status["executor"] = "success"
    /\ cup_state = "QUITTING" => status["monitor"] = "success"
    /\ QuitIsRequested

\* The monitor is done with the CPU, but for the store of CU_CPU_QUITTING.
Leaving == pc["monitor"] \in {"set_quitting", "done"}

\* The monitor has seen a stopped CPU and acts on it.
Acting == pc["monitor"] \in ExecLabel \cup {"check", "set_bp", "set_paused", "signal"}

\* The state that the executor's label implies, as long as the monitor is not
\* leaving: the executor runs while the state is RUNNING, and once the test has
\* stopped it, it waits in a state that is not RUNNING and does not return.
ExecutorView ==
    /\ pc["executor"] \in ExecLabel \cup {"check", "set_bp", "loop"}
           => cup_state = "RUNNING"
    /\ pc["executor"] = "test" => /\ cup_state \in Stopped \cup {"RUNNING"}
                                  /\ cup_state = "RUNNING" => ~IsBreakPoint(cup_pc)
                                  /\ seen \in Stopped <=> cup_state \in Stopped
    /\ pc["executor"] \in {"check", "set_bp"} => seen = "RUNNING"
    /\ pc["executor"] \in {"lock", "wait", "waiting"} => cup_state \in Stopped
    /\ pc["executor"] = "waiting" => "executor" \in cup_state_cv
    /\ pc["executor"] # "unlock"
    /\ pc["executor"] = "done" => cup_state = "ERROR"
    /\ InExec("executor") => ~IsBreakPoint(cup_pc)

\* The monitor acts only on an executor that waits or is about to.
MonitorView ==
    Acting => /\ cup_state \in Stopped
              /\ pc["executor"] \in {"test", "lock", "wait", "waiting"}

\* Neither thread holds a stale instruction or a stale cup_pc.
FreshLocals ==
    \A t \in Stepper :
        /\ pc[t] \in {"operand", "commit"} => insn[t] = Prog[cup_pc]
        /\ pc[t] = "commit" => at[t] = cup_pc

CalmInv ==
    /\ pc["executor"] \in {"unborn", "start"}
           => pc["monitor"] \in {"unborn", "prompt", "done"}
    /\ ~Leaving => ExecutorView
    /\ MonitorView
    /\ FreshLocals

\* Without break-points the state that CuInitCpu leaves is the last that is stopped.
NoStopInv ==
    cup_break_points = {} =>
        /\ pc["executor"] \notin {"set_bp", "lock", "wait", "waiting", "unlock"}
        /\ pc["executor"] \in {"unborn", "start"}
               => pc["monitor"] \in {"unborn", "prompt", "done"}
        /\ pc["executor"] \notin {"unborn", "start"}
               => cup_state \notin Stopped /\ seen \notin Stopped
        /\ ~Acting

\* Then a quit that has been stored stays in cup_state until the executor ends.
QuitStaysInv ==
    cup_break_points = {} /\ status["monitor"] = "success" =>
        /\ pc["executor"] \notin {"unborn", "start"}
        /\ cup_state = "QUITTING" \/ pc["executor"] = "done"

\* The executor, or main() after it, is on its way to the end, and nothing of what
\* it will still read in cup_state can make it turn back or wait.
Closing ==
    \/ pc["executor"] = "done"
    \/ /\ cup_state = "QUITTING"
       /\ pc["executor"] \in {"fetch", "operand", "commit", "error", "loop"}
    \/ /\ cup_state = "QUITTING"
       /\ pc["executor"] \in {"check", "test"}
       /\ cup_break_points = {} /\ seen \notin Stopped

\* How many steps of the executor and of main() it will take at most.
StepsLeft ==
    CASE pc["main"] = "done" -> 0
      [] pc["main"] = "join_monitor" -> 1
      [] OTHER -> [done |-> 2, loop |-> 3, error |-> 3, commit |-> 4, operand |-> 5,
                   fetch |-> 6, test |-> 7, check |-> 8][pc["executor"]]

\* Whose turn it is then; none of these steps has to wait for anything.
SomebodyMoves ==
    \/ pc["executor"] \in ExecLabel \cup {"check", "test", "loop"}
    \/ pc["executor"] = "done" /\ pc["main"] = "join_executor"
    \/ pc["monitor"] = "done" /\ pc["main"] = "join_monitor"
-----------------------------------------------------------------------------
(***************************************************************************)
(* What the documents say and the code does not do.                        *)
(***************************************************************************)
\* monitor.c's help text: "exit, quit: Exit CUSS."
QuitExits == status["monitor"] = "success" ~> pc["main"] = "done"
=============================================================================
