----------------------------- MODULE Supervisor -----------------------------
(***************************************************************************)
(* The supervisors of the background tasks, the TaskHealth they keep, the  *)
(* liveness probe that reads it, and main's shutdown.  Each task has a     *)
(* supervisor that spawns a worker, learns of its end only by joining it,  *)
(* and restarts it after a panic or a fatal exit with a doubling delay.    *)
(*                                                                         *)
(* Workers, supervisors and main run concurrently.  The statements of a    *)
(* supervisor between two awaits are one step, except that the test of the *)
(* shutdown flag and the spawn it allows are two: main may send in between.*)
(***************************************************************************)
EXTENDS SupervisedTasks, FiniteSets

CONSTANTS
    InitialDelay, MaxDelay,   \* the backoff of a supervisor
    MaxFaults     \* bound: panics and fatal exits, over all tasks

ASSUME SupervisorAssumption ==
    /\ MaxFaults \in Nat
    /\ InitialDelay \in Nat \ {0} /\ MaxDelay \in Nat /\ InitialDelay <= MaxDelay

VARIABLES
    sup,      \* each supervisor: where it stands, its delay, marked_stable
    worker,   \* each worker: "none", "alive" or how it ended
    health,   \* TaskHealth
    main,     \* "serving", "draining", "exited" or "forced"
    faults    \* panics and fatal exits so far

vars == <<sup, worker, health, main, faults>>

(* The value of the watch channel: main sends once, when serving is over.  *)
Shutdown == main # "serving"
ProcessUp == main \in {"serving", "draining"}

Ended == {"stopped", "disabled", "fatal", "panicked"}

Init ==
    /\ sup = [t \in Tasks |-> [pc |-> "top", delay |-> InitialDelay, stable |-> FALSE]]
    /\ worker = [t \in Tasks |-> "none"]
    /\ health = [running |-> {}, disabled |-> {}, streak |-> [t \in Tasks |-> 0],
                 restarts |-> [t \in Tasks |-> 0], started |-> 0, stopped |-> 0, failed |-> 0]
    /\ main = "serving"
    /\ faults = 0

-----------------------------------------------------------------------------
(* TaskHealth. *)

TaskStarted(h, t) ==
    [h EXCEPT !.started = @ + 1, !.running = @ \cup {t}]

TaskStopped(h, t) ==
    [h EXCEPT !.stopped = @ + 1, !.running = @ \ {t}]

TaskFailed(h, t) ==
    [h EXCEPT !.failed = @ + 1, !.running = @ \ {t}, !.streak[t] = @ + 1]

TaskRestarted(h, t) == [h EXCEPT !.restarts[t] = @ + 1]

TaskDisabled(h, t) ==
    [TaskStopped(h, t) EXCEPT !.disabled = @ \cup {t}]

(* Mutant: the streak is never cleared. *)
NoteStableNot(h, t) == h

NoteStable(h, t) == [h EXCEPT !.streak[t] = 0]

DeadRequiredTasks == (Required \ health.disabled) \ health.running
CrashLoopingRequiredTasks == {t \in Required : health.streak[t] >= Threshold}

(* GET /health answers 200. *)
HealthOk == DeadRequiredTasks = {} /\ CrashLoopingRequiredTasks = {}

-----------------------------------------------------------------------------
(* Workers. *)

End(t, how) ==
    /\ ProcessUp
    /\ worker[t] = "alive"
    /\ worker' = [worker EXCEPT ![t] = how]
    /\ UNCHANGED <<sup, health, main>>

(* A worker with nothing to do says so and returns. *)
ExitDisabled(t) ==
    /\ t \in Disabled
    /\ End(t, "disabled")
    /\ UNCHANGED faults

(* Every worker loop selects on the shutdown signal. *)
ExitOnShutdown(t) ==
    /\ Shutdown /\ t \notin Disabled
    /\ End(t, "stopped")
    /\ UNCHANGED faults

Fault(t, how) ==
    /\ t \notin Disabled
    /\ faults < MaxFaults
    /\ End(t, how)
    /\ faults' = faults + 1

-----------------------------------------------------------------------------
(* Supervisors: supervise_with. *)

At(t, pc) == ProcessUp /\ sup[t].pc = pc
GoTo(t, pc) == sup' = [sup EXCEPT ![t].pc = pc]

(* The supervisor records how its task ended and returns. *)
Return(t, h) ==
    /\ GoTo(t, "done")
    /\ health' = h
    /\ UNCHANGED <<worker, main, faults>>

TestShutdown(t) ==
    /\ At(t, "top")
    /\ IF Shutdown
       THEN Return(t, TaskStopped(health, t))
       ELSE GoTo(t, "spawn") /\ UNCHANGED <<worker, health, main, faults>>

Spawn(t) ==
    /\ At(t, "spawn")
    /\ health' = TaskStarted(health, t)
    /\ worker' = [worker EXCEPT ![t] = "alive"]
    /\ sup' = [sup EXCEPT ![t].pc = "watch", ![t].stable = FALSE]
    /\ UNCHANGED <<main, faults>>

(* The stability timer is polled before the join, so it may fire for a     *)
(* worker that has just ended; the signal is polled before both.           *)
StabilityElapsed(t) ==
    /\ At(t, "watch") /\ ~Shutdown
    /\ ~sup[t].stable
    /\ health' = NoteStable(health, t)
    /\ sup' = [sup EXCEPT ![t].stable = TRUE]
    /\ UNCHANGED <<worker, main, faults>>

(* Mutants: the worker is not waited for; a worker that just ended is       *)
(* overlooked.                                                             *)
ShutdownSeenReturning(t) ==
    /\ At(t, "watch") /\ Shutdown
    /\ Return(t, TaskStopped(health, t))

ShutdownSeenAlive(t) ==
    /\ At(t, "watch") /\ Shutdown
    /\ worker[t] = "alive"
    /\ GoTo(t, "await")
    /\ UNCHANGED <<worker, health, main, faults>>

(* On the signal the supervisor still waits for its worker. *)
ShutdownSeen(t) ==
    /\ At(t, "watch") /\ Shutdown
    /\ GoTo(t, "await")
    /\ UNCHANGED <<worker, health, main, faults>>

AwaitWorker(t) ==
    /\ At(t, "await")
    /\ worker[t] \in Ended
    /\ Return(t, TaskStopped(health, t))

(* Mutant: every end is a stop. *)
JoinOnly(t) ==
    /\ At(t, "watch") /\ ~Shutdown
    /\ worker[t] \in Ended
    /\ Return(t, TaskStopped(health, t))

(* The worker ended and nobody asked it to. *)
Join(t) ==
    /\ At(t, "watch") /\ ~Shutdown
    /\ \/ /\ worker[t] = "disabled"
          /\ Return(t, TaskDisabled(health, t))
       \/ /\ worker[t] = "fatal"
          /\ health' = TaskRestarted(TaskStopped(health, t), t)
          /\ GoTo(t, "backoff")
          /\ UNCHANGED <<worker, main, faults>>
       \/ /\ worker[t] = "panicked"
          /\ health' = TaskRestarted(TaskFailed(health, t), t)
          /\ GoTo(t, "backoff")
          /\ UNCHANGED <<worker, main, faults>>

Lesser(a, b) == IF a < b THEN a ELSE b

(* The delay passes, or the signal cuts it short. *)
Backoff(t) ==
    /\ At(t, "backoff")
    /\ IF Shutdown
       THEN Return(t, TaskStopped(health, t))
       ELSE /\ sup' = [sup EXCEPT ![t].pc = "top", ![t].delay = Lesser(2 * @, MaxDelay)]
            /\ UNCHANGED <<worker, health, main, faults>>

-----------------------------------------------------------------------------
(* main. *)

(* The server stopped serving: the signal is sent. *)
StopServing ==
    /\ main = "serving"
    /\ main' = "draining"
    /\ UNCHANGED <<sup, worker, health, faults>>

Drained ==
    /\ main = "draining"
    /\ \A t \in Tasks : sup[t].pc = "done"
    /\ main' = "exited"
    /\ UNCHANGED <<sup, worker, health, faults>>

(* SHUTDOWN_GRACE is over: the process ends with its workers. *)
ForceExit ==
    /\ main = "draining"
    /\ main' = "forced"
    /\ worker' = [t \in Tasks |-> "none"]
    /\ UNCHANGED <<sup, health, faults>>

Over == ~ProcessUp /\ UNCHANGED vars

-----------------------------------------------------------------------------

Supervise(t) ==
    \/ TestShutdown(t) \/ Spawn(t) \/ StabilityElapsed(t) \/ ShutdownSeen(t)
    \/ AwaitWorker(t) \/ Join(t) \/ Backoff(t)

Next ==
    \/ \E t \in Tasks :
          \/ ExitDisabled(t) \/ ExitOnShutdown(t)
          \/ Fault(t, "panicked") \/ Fault(t, "fatal")
          \/ Supervise(t)
    \/ StopServing \/ Drained \/ ForceExit \/ Over

(* Tokio polls every task that is ready and its timers fire.  A worker is  *)
(* never obliged to fail, nor main to be told to stop.                     *)
Fairness ==
    /\ \A t \in Tasks :
          /\ WF_vars(Supervise(t))
          /\ WF_vars(StabilityElapsed(t))
          /\ WF_vars(ExitDisabled(t)) /\ WF_vars(ExitOnShutdown(t))
    /\ WF_vars(Drained)

Spec == Init /\ [][Next]_vars /\ Fairness

-----------------------------------------------------------------------------

(* Supervisors, workers and TaskHealth keep their types; the delay stays   *)
(* within the backoff's bounds.                                            *)
TypeOK ==
    /\ sup \in [Tasks -> [pc : {"top", "spawn", "watch", "await", "backoff", "done"},
                          delay : InitialDelay .. MaxDelay, stable : BOOLEAN]]
    /\ worker \in [Tasks -> {"none", "alive"} \cup Ended]
    /\ health \in [running : SUBSET Tasks, disabled : SUBSET Disabled,
                   streak : [Tasks -> Nat], restarts : [Tasks -> Nat],
                   started : Nat, stopped : Nat, failed : Nat]
    /\ main \in {"serving", "draining", "exited", "forced"}
    /\ faults \in 0 .. MaxFaults

(* What join_task waits for: when main exits in its own time, no worker is *)
(* left that the end of the process would cut off between two statements.  *)
CleanExitLeavesNoWorker == main = "exited" => \A t \in Tasks : worker[t] # "alive"

(* The liveness map of TaskHealth: a task /health counts as running has a  *)
(* worker, or one whose end its supervisor has yet to join; and a worker   *)
(* that is alive is counted.                                               *)
HealthIsHonest ==
    ProcessUp => \A t \in Tasks :
        /\ worker[t] = "alive" => t \in health.running
        /\ t \in health.running => sup[t].pc \in {"watch", "await"}

(* note_stable: once faults stop, /health turns green again and stays so,  *)
(* unless the process is shut down.                                        *)
HealthRecovers == <>[](HealthOk \/ Shutdown)

(* A worker that panicked or gave up is replaced, unless the process is    *)
(* shut down.                                                              *)
FaultIsRestarted ==
    \A t \in Tasks :
        worker[t] \in {"fatal", "panicked"} ~> worker[t] = "alive" \/ Shutdown

(* The signal reaches every supervisor wherever it waits, and none waits   *)
(* for a worker for ever: main ends its drain.                             *)
ShutdownDrains == Shutdown ~> ~ProcessUp
=============================================================================
