------------------------------ MODULE Lifecycle ------------------------------
(***************************************************************************)
(* What main() of cuss.c promises to whoever launched CUSS, with nothing   *)
(* said of how the threads go about it.  A thread is unborn, running, or   *)
(* has ended with a status; the process is running or has an exit status.  *)
(***************************************************************************)
CONSTANT MayAbandon     \* may main() return while its threads run?

VARIABLES monitor,      \* the thread that runs RunMonitor
          executor,     \* the thread that runs RunExecutor
          process

lvars == <<monitor, executor, process>>

Ended == {"success", "failure"}
ThreadStates == {"unborn", "running"} \cup Ended
ProcessStates == {"running"} \cup Ended

LTypeOK == /\ monitor \in ThreadStates
           /\ executor \in ThreadStates
           /\ process \in ProcessStates

Init == /\ monitor = "unborn"
        /\ executor = "unborn"
        /\ process = "running"
-----------------------------------------------------------------------------
\* The monitor is spawned before the executor.
StartMonitor == /\ monitor = "unborn"
                /\ monitor' = "running"
                /\ UNCHANGED <<executor, process>>

StartExecutor == /\ monitor # "unborn"
                 /\ executor = "unborn"
                 /\ executor' = "running"
                 /\ UNCHANGED <<monitor, process>>

\* A thread could not be created: CUSS gives up before the executor exists.  With
\* a window it may also give up later, when the window fails.
GiveUp == /\ executor = "unborn" \/ MayAbandon
          /\ process' = "failure"
          /\ UNCHANGED <<monitor, executor>>

\* The monitor ends with success when the user asked to quit.
MonitorEnds == /\ monitor = "running"
               /\ monitor' \in Ended
               /\ UNCHANGED <<executor, process>>

\* The executor stops by itself only at an instruction that fails...
ExecutorFails == /\ executor = "running"
                 /\ executor' = "failure"
                 /\ UNCHANGED <<monitor, process>>

\* ...and obeys nothing but a request to quit.
ExecutorQuits == /\ executor = "running"
                 /\ monitor = "success"
                 /\ executor' = "success"
                 /\ UNCHANGED <<monitor, process>>

\* The exit status is the executor's: an orderly exit is never reported as a
\* failure, nor a failed instruction as a success.
Exit == /\ executor \in Ended
        /\ process' = executor
        /\ UNCHANGED <<monitor, executor>>

Next == /\ process = "running"
        /\ \/ StartMonitor
           \/ StartExecutor
           \/ GiveUp
           \/ MonitorEnds
           \/ ExecutorFails
           \/ ExecutorQuits
           \/ Exit

Spec == Init /\ [][Next]_lvars
=============================================================================
