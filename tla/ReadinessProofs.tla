--------------------------- MODULE ReadinessProofs ---------------------------
(***************************************************************************)
(* Proofs about the supervisors, TaskHealth and the readiness probe: a     *)
(* clean exit leaves no worker behind, /health counts the workers there    *)
(* are, and /ready reports a stall of a healthy poller only while a cycle  *)
(* takes longer than the window leaves it.                                 *)
(* They hold for every set of tasks, any number of faults and every        *)
(* interval, backoff and staleness window the assumptions admit.           *)
(*                                                                         *)
(* The second half is about Probes: requests that read TaskHealth never    *)
(* wait in a circle, and what they answer adds up, for any number of       *)
(* tasks, requests, deliveries and buckets.                                *)
(***************************************************************************)
EXTENDS Readiness, Probes, FiniteSetTheorems, TLAPS

Supervision ==
    [pc : {"top", "spawn", "watch", "await", "backoff", "done"},
     delay : InitialDelay .. MaxDelay, stable : BOOLEAN]

Health ==
    [running : SUBSET Tasks, disabled : SUBSET Disabled,
     streak : [Tasks -> Nat], restarts : [Tasks -> Nat],
     started : Nat, stopped : Nat, failed : Nat]

(* A worker says it is disabled only where it is. *)
DisabledIsTrue == \A t \in Tasks : worker[t] = "disabled" => t \in Disabled

SupervisorInd == TypeOK /\ CleanExitLeavesNoWorker /\ HealthIsHonest /\ DisabledIsTrue

(* What the poller's sleeps and cycles may last. *)
LeftBounded(left) ==
    \/ left \in 0 .. PollInterval \/ left \in 0 .. PollTime
    \/ left \in 0 .. BackoffMax \/ \E r \in RetryAfters : left \in 0 .. r

(* From one success to the next, the heartbeat's age and what the sleep    *)
(* and the cycle still take fit into one interval and one cycle.           *)
BeatsInTime ==
    steady /\ ~Shutdown =>
        /\ worker[Poller] = "alive"
        /\ age + poll.left + (IF poll.pc = "asleep" THEN PollTime ELSE 0)
              <= PollInterval + PollTime

ProbeInd ==
    /\ age \in 0 .. Never /\ bad \in 0 .. MaxBadPolls /\ steady \in BOOLEAN
    /\ poll \in [pc : {"asleep", "cycle"}, left : Nat, fails : Nat]
    /\ LeftBounded(poll.left) /\ poll.fails <= bad
    /\ BeatsInTime

ReadyInd == SupervisorInd /\ ProbeInd

-----------------------------------------------------------------------------
(* TaskHealth. *)

(* What its methods do to the tasks that count as running. *)
LEMMA HealthMethods ==
    ASSUME NEW h \in Health, NEW t \in Tasks
    PROVE  /\ TaskStarted(h, t) \in Health /\ TaskStarted(h, t).running = h.running \cup {t}
           /\ TaskStopped(h, t) \in Health /\ TaskStopped(h, t).running = h.running \ {t}
           /\ TaskFailed(h, t) \in Health /\ TaskFailed(h, t).running = h.running \ {t}
           /\ TaskRestarted(h, t) \in Health /\ TaskRestarted(h, t).running = h.running
           /\ NoteStable(h, t) \in Health /\ NoteStable(h, t).running = h.running
<1>1. /\ h.running \in SUBSET Tasks /\ h.disabled \in SUBSET Disabled
      /\ h.streak \in [Tasks -> Nat] /\ h.restarts \in [Tasks -> Nat]
      /\ h.started + 1 \in Nat /\ h.stopped + 1 \in Nat /\ h.failed + 1 \in Nat
      /\ h.started \in Nat /\ h.stopped \in Nat /\ h.failed \in Nat
      /\ h.running \cup {t} \in SUBSET Tasks /\ h.running \ {t} \in SUBSET Tasks
  BY DEF Health
<1>2. TaskStarted(h, t) \in Health /\ TaskStarted(h, t).running = h.running \cup {t}
  <2>1. PICK g : g = [h EXCEPT !.started = h.started + 1]
    OBVIOUS
  <2>2. g \in Health /\ g.running = h.running
    BY <1>1, <2>1 DEF Health
  <2>3. TaskStarted(h, t) = [g EXCEPT !.running = h.running \cup {t}]
    BY <2>1, Zenon DEF TaskStarted
  <2> QED BY <1>1, <2>2, <2>3 DEF Health
<1>6. TaskStopped(h, t) \in Health /\ TaskStopped(h, t).running = h.running \ {t}
  <2>1. PICK g : g = [h EXCEPT !.stopped = h.stopped + 1]
    OBVIOUS
  <2>2. g \in Health /\ g.running = h.running
    BY <1>1, <2>1 DEF Health
  <2>3. TaskStopped(h, t) = [g EXCEPT !.running = h.running \ {t}]
    BY <2>1, Zenon DEF TaskStopped
  <2> QED BY <1>1, <2>2, <2>3 DEF Health
<1>3. TaskFailed(h, t) \in Health /\ TaskFailed(h, t).running = h.running \ {t}
  <2>1. PICK counts : counts = [h.streak EXCEPT ![t] = @ + 1]
    OBVIOUS
  <2>2. counts \in [Tasks -> Nat]
    BY <1>1, <2>1
  <2>3. PICK g : g = [h EXCEPT !.failed = h.failed + 1]
    OBVIOUS
  <2>4. g \in Health
    BY <1>1, <2>3 DEF Health
  <2>5. PICK f : f = [g EXCEPT !.running = h.running \ {t}]
    OBVIOUS
  <2>6. f \in Health /\ f.running = h.running \ {t} /\ f.streak = h.streak
    BY <1>1, <2>3, <2>4, <2>5 DEF Health
  <2>7. TaskFailed(h, t) = [f EXCEPT !.streak = counts]
    BY <2>1, <2>3, <2>5, Zenon DEF TaskFailed
  <2> QED BY <2>2, <2>6, <2>7 DEF Health
<1>4. TaskRestarted(h, t) \in Health /\ TaskRestarted(h, t).running = h.running
  <2>1. PICK counts : counts = [h.restarts EXCEPT ![t] = @ + 1]
    OBVIOUS
  <2>2. counts \in [Tasks -> Nat]
    BY <2>1 DEF Health
  <2>3. TaskRestarted(h, t) = [h EXCEPT !.restarts = counts]
    BY <2>1 DEF TaskRestarted, Health
  <2> QED BY <2>2, <2>3 DEF Health
<1>5. NoteStable(h, t) \in Health /\ NoteStable(h, t).running = h.running
  <2>1. PICK counts : counts = [h.streak EXCEPT ![t] = 0]
    OBVIOUS
  <2>2. counts \in [Tasks -> Nat]
    BY <2>1 DEF Health
  <2>3. NoteStable(h, t) = [h EXCEPT !.streak = counts]
    BY <2>1 DEF NoteStable, Health
  <2> QED BY <2>2, <2>3 DEF Health
<1> QED BY <1>2, <1>3, <1>4, <1>5, <1>6

(* A task that is disabled by configuration may be marked so. *)
LEMMA DisabledMethod ==
    ASSUME NEW h \in Health, NEW t \in Disabled
    PROVE  TaskDisabled(h, t) \in Health /\ TaskDisabled(h, t).running = h.running \ {t}
<1>1. t \in Tasks
  BY TasksAssumption
<1>2. PICK g : g = TaskStopped(h, t)
  OBVIOUS
<1>3. g \in Health /\ g.running = h.running \ {t}
  BY <1>1, <1>2, HealthMethods
<1>4. TaskDisabled(h, t) = [g EXCEPT !.disabled = @ \cup {t}]
  BY <1>2 DEF TaskDisabled
<1> QED BY <1>3, <1>4 DEF Health

-----------------------------------------------------------------------------
(* Workers, supervisors and main. *)

(* A worker ends. *)
LEMMA WorkerEnds ==
    ASSUME SupervisorInd, NEW t \in Tasks, NEW how \in Ended, End(t, how),
           how = "disabled" => t \in Disabled, faults' \in 0 .. MaxFaults
    PROVE  SupervisorInd' /\ main' = main
<1>1. /\ worker' = [worker EXCEPT ![t] = how] /\ sup' = sup /\ health' = health /\ main' = main
      /\ worker \in [Tasks -> {"none", "alive"} \cup Ended]
  BY DEF End, SupervisorInd, TypeOK
<1>2. how # "alive" /\ how # "none"
  BY DEF Ended
<1>3. /\ worker' \in [Tasks -> {"none", "alive"} \cup Ended]
      /\ \A u \in Tasks : worker'[u] = IF u = t THEN how ELSE worker[u]
  BY <1>1
<1>4. TypeOK'
  BY <1>1, <1>3 DEF SupervisorInd, TypeOK
<1>5. CleanExitLeavesNoWorker'
  BY <1>1, <1>2, <1>3 DEF SupervisorInd, CleanExitLeavesNoWorker
<1>6. HealthIsHonest'
  BY <1>1, <1>2, <1>3 DEF SupervisorInd, HealthIsHonest, ProcessUp
<1>7. DisabledIsTrue'
  BY <1>3 DEF SupervisorInd, DisabledIsTrue
<1> QED BY <1>1, <1>4, <1>5, <1>6, <1>7 DEF SupervisorInd

(* A supervisor moves on while its worker, if any, stays as it is. *)
LEMMA SupervisorMoves ==
    ASSUME SupervisorInd, ProcessUp, NEW t \in Tasks, NEW s \in Supervision,
           sup' = [sup EXCEPT ![t] = s], UNCHANGED <<worker, main, faults>>,
           health' \in Health, health'.running \in {health.running, health.running \ {t}},
           worker[t] = "alive" => health'.running = health.running,
           t \in health'.running => s.pc \in {"watch", "await"}
    PROVE  SupervisorInd' /\ main' = main
<1>1. /\ sup \in [Tasks -> Supervision] /\ sup' \in [Tasks -> Supervision]
      /\ \A u \in Tasks : sup'[u] = IF u = t THEN s ELSE sup[u]
  BY DEF SupervisorInd, TypeOK, Supervision
<1>2. TypeOK'
  BY <1>1 DEF SupervisorInd, TypeOK, Supervision, Health
<1>3. CleanExitLeavesNoWorker' /\ DisabledIsTrue'
  BY DEF SupervisorInd, CleanExitLeavesNoWorker, DisabledIsTrue
<1>4. HealthIsHonest'
  <2> SUFFICES ASSUME NEW u \in Tasks
               PROVE  /\ worker[u] = "alive" => u \in health'.running
                      /\ u \in health'.running => sup'[u].pc \in {"watch", "await"}
    BY DEF HealthIsHonest
  <2>1. /\ worker[u] = "alive" => u \in health.running
        /\ u \in health.running => sup[u].pc \in {"watch", "await"}
    BY DEF SupervisorInd, HealthIsHonest
  <2>2. CASE u = t
    BY <1>1, <2>1, <2>2
  <2>3. CASE u # t
    BY <1>1, <2>1, <2>3
  <2> QED BY <2>2, <2>3
<1> QED BY <1>2, <1>3, <1>4 DEF SupervisorInd

(* A jump of one supervisor. *)
LEMMA Jump ==
    ASSUME SupervisorInd, NEW t \in Tasks,
           NEW pc \in {"top", "spawn", "watch", "await", "backoff", "done"}, GoTo(t, pc)
    PROVE  \E s \in Supervision : s.pc = pc /\ sup' = [sup EXCEPT ![t] = s]
<1>1. PICK s : s = [sup[t] EXCEPT !.pc = pc]
  OBVIOUS
<1>2. sup[t] \in Supervision
  BY DEF SupervisorInd, TypeOK, Supervision
<1>3. s \in Supervision /\ s.pc = pc
  BY <1>1, <1>2 DEF Supervision
<1>4. sup' = [sup EXCEPT ![t] = s]
  BY <1>1 DEF GoTo
<1> QED BY <1>3, <1>4

(* A supervisor whose worker is not alive returns. *)
LEMMA Returns ==
    ASSUME SupervisorInd, ProcessUp, NEW t \in Tasks, worker[t] # "alive",
           NEW h \in Health, h.running = health.running \ {t}, Return(t, h)
    PROVE  SupervisorInd' /\ main' = main
<1>1. /\ GoTo(t, "done") /\ health' = h /\ UNCHANGED <<worker, main, faults>>
  BY DEF Return
<1>2. PICK s \in Supervision : s.pc = "done" /\ sup' = [sup EXCEPT ![t] = s]
  BY <1>1, Jump
<1> QED BY <1>1, <1>2, SupervisorMoves

(* Every step of a supervisor. *)
LEMMA SuperviseStep ==
    ASSUME SupervisorInd, NEW t \in Tasks, Supervise(t)
    PROVE  SupervisorInd' /\ main' = main
<1>1. /\ ProcessUp /\ health \in Health /\ sup \in [Tasks -> Supervision]
      /\ worker \in [Tasks -> {"none", "alive"} \cup Ended]
      /\ worker[t] = "alive" => t \in health.running
      /\ t \in health.running => sup[t].pc \in {"watch", "await"}
      /\ health.running \in SUBSET Tasks
  <2>1. ProcessUp
    BY DEF Supervise, TestShutdown, Spawn, StabilityElapsed, ShutdownSeen, AwaitWorker, Join,
           Backoff, At
  <2> QED BY <2>1 DEF SupervisorInd, TypeOK, HealthIsHonest, Health, Supervision
<1>2. /\ TaskStopped(health, t) \in Health
      /\ TaskStopped(health, t).running = health.running \ {t}
  BY <1>1, HealthMethods
<1>3. CASE TestShutdown(t) \/ Backoff(t)
  <2>1. sup[t].pc \in {"top", "backoff"}
    BY <1>3 DEF TestShutdown, Backoff, At
  <2>2. worker[t] # "alive" /\ t \notin health.running
    BY <1>1, <2>1
  <2>3. CASE Return(t, TaskStopped(health, t))
    BY <1>1, <1>2, <2>2, <2>3, Returns
  <2>4. CASE GoTo(t, "spawn") /\ UNCHANGED <<worker, health, main, faults>>
    <3>1. PICK s \in Supervision : s.pc = "spawn" /\ sup' = [sup EXCEPT ![t] = s]
      BY <2>4, Jump
    <3> QED BY <1>1, <2>2, <2>4, <3>1, SupervisorMoves
  <2>5. CASE /\ sup' = [sup EXCEPT ![t].pc = "top", ![t].delay = Lesser(2 * @, MaxDelay)]
             /\ UNCHANGED <<worker, health, main, faults>>
    <3>1. PICK r : r = [sup[t] EXCEPT !.pc = "top"]
      OBVIOUS
    <3>2. r \in Supervision /\ r.delay = sup[t].delay /\ r.pc = "top"
      BY <1>1, <3>1 DEF Supervision
    <3>3. Lesser(2 * sup[t].delay, MaxDelay) \in InitialDelay .. MaxDelay
      <4>1. sup[t].delay \in InitialDelay .. MaxDelay
        BY <1>1 DEF Supervision
      <4> QED BY <4>1, SupervisorAssumption DEF Lesser
    <3>4. PICK s : s = [r EXCEPT !.delay = Lesser(2 * sup[t].delay, MaxDelay)]
      OBVIOUS
    <3>5. s \in Supervision /\ s.pc = "top"
      BY <3>2, <3>3, <3>4 DEF Supervision
    <3>6. sup' = [sup EXCEPT ![t] = s]
      BY <1>1, <2>5, <3>1, <3>2, <3>4
    <3> QED BY <1>1, <2>2, <2>5, <3>5, <3>6, SupervisorMoves
  <2> QED BY <1>3, <2>3, <2>4, <2>5 DEF TestShutdown, Backoff
<1>4. CASE Spawn(t)
  <2>1. PICK r : r = [sup[t] EXCEPT !.pc = "watch"]
    OBVIOUS
  <2>2. r \in Supervision
    BY <1>1, <2>1 DEF Supervision
  <2>3. PICK s : s = [r EXCEPT !.stable = FALSE]
    OBVIOUS
  <2>4. s \in Supervision /\ s.pc = "watch"
    BY <2>1, <2>2, <2>3 DEF Supervision
  <2>5. /\ sup' = [sup EXCEPT ![t].pc = "watch", ![t].stable = FALSE]
        /\ worker' = [worker EXCEPT ![t] = "alive"] /\ UNCHANGED <<main, faults>>
        /\ health' = TaskStarted(health, t)
    BY <1>4 DEF Spawn
  <2>6. sup' = [sup EXCEPT ![t] = s]
    BY <1>1, <2>1, <2>3, <2>5
  <2>7. /\ sup' \in [Tasks -> Supervision]
        /\ \A u \in Tasks : sup'[u] = IF u = t THEN s ELSE sup[u]
    BY <1>1, <2>4, <2>6
  <2>8. /\ worker' \in [Tasks -> {"none", "alive"} \cup Ended]
        /\ \A u \in Tasks : worker'[u] = IF u = t THEN "alive" ELSE worker[u]
    BY <1>1, <2>5
  <2>9. health' \in Health /\ health'.running = health.running \cup {t}
    BY <1>1, <2>5, HealthMethods
  <2>10. TypeOK'
    BY <2>5, <2>7, <2>8, <2>9 DEF SupervisorInd, TypeOK, Supervision, Health
  <2>11. CleanExitLeavesNoWorker' /\ DisabledIsTrue'
    BY <1>1, <2>5, <2>8 DEF SupervisorInd, CleanExitLeavesNoWorker, DisabledIsTrue, ProcessUp
  <2>12. HealthIsHonest'
    <3>1. \A u \in Tasks : /\ worker[u] = "alive" => u \in health.running
                           /\ u \in health.running => sup[u].pc \in {"watch", "await"}
      BY <1>1 DEF SupervisorInd, HealthIsHonest
    <3> QED BY <2>4, <2>7, <2>8, <2>9, <3>1 DEF HealthIsHonest
  <2> QED BY <2>5, <2>10, <2>11, <2>12 DEF SupervisorInd
<1>5. CASE StabilityElapsed(t)
  <2>1. PICK s : s = [sup[t] EXCEPT !.stable = TRUE]
    OBVIOUS
  <2>2. s \in Supervision /\ s.pc = sup[t].pc
    BY <1>1, <2>1 DEF Supervision
  <2>3. /\ sup' = [sup EXCEPT ![t] = s] /\ health' = NoteStable(health, t)
        /\ UNCHANGED <<worker, main, faults>>
    BY <1>5, <2>1 DEF StabilityElapsed
  <2>4. health' \in Health /\ health'.running = health.running
    BY <1>1, <2>3, HealthMethods
  <2> QED BY <1>1, <2>2, <2>3, <2>4, SupervisorMoves
<1>6. CASE ShutdownSeen(t)
  <2>1. PICK s \in Supervision : s.pc = "await" /\ sup' = [sup EXCEPT ![t] = s]
    BY <1>6, Jump DEF ShutdownSeen
  <2> QED BY <1>1, <1>6, <2>1, SupervisorMoves DEF ShutdownSeen
<1>7. CASE AwaitWorker(t)
  <2>1. worker[t] # "alive" /\ Return(t, TaskStopped(health, t))
    BY <1>7 DEF AwaitWorker, Ended
  <2> QED BY <1>1, <1>2, <2>1, Returns
<1>8. CASE Join(t)
  <2>1. worker[t] # "alive"
    BY <1>8 DEF Join
  <2>2. CASE worker[t] = "disabled" /\ Return(t, TaskDisabled(health, t))
    <3>1. t \in Disabled
      BY <2>2 DEF SupervisorInd, DisabledIsTrue
    <3>2. /\ TaskDisabled(health, t) \in Health
          /\ TaskDisabled(health, t).running = health.running \ {t}
      BY <1>1, <3>1, DisabledMethod
    <3> QED BY <1>1, <2>1, <2>2, <3>2, Returns
  <2>3. ASSUME NEW h \in Health, h.running = health.running \ {t},
               health' = TaskRestarted(h, t), GoTo(t, "backoff"), UNCHANGED <<worker, main, faults>>
        PROVE  SupervisorInd' /\ main' = main
    <3>1. PICK s \in Supervision : s.pc = "backoff" /\ sup' = [sup EXCEPT ![t] = s]
      BY <2>3, Jump
    <3>2. health' \in Health /\ health'.running = health.running \ {t}
      BY <2>3, HealthMethods
    <3> QED BY <1>1, <2>1, <2>3, <3>1, <3>2, SupervisorMoves
  <2>4. /\ TaskFailed(health, t) \in Health
        /\ TaskFailed(health, t).running = health.running \ {t}
    BY <1>1, HealthMethods
  <2> QED BY <1>2, <1>8, <2>2, <2>3, <2>4 DEF Join
<1> QED BY <1>3, <1>4, <1>5, <1>6, <1>7, <1>8 DEF Supervise

(* Every step of the supervised system; main never serves again. *)
LEMMA SystemStep ==
    ASSUME SupervisorInd, Next
    PROVE  SupervisorInd' /\ (main' = "serving" => main = "serving")
<1>1. ASSUME NEW t \in Tasks, ExitDisabled(t) PROVE SupervisorInd' /\ main' = main
  <2>1. t \in Disabled /\ End(t, "disabled") /\ faults' \in 0 .. MaxFaults /\ "disabled" \in Ended
    BY <1>1 DEF ExitDisabled, SupervisorInd, TypeOK, Ended
  <2> QED BY <2>1, WorkerEnds
<1>2. ASSUME NEW t \in Tasks, ExitOnShutdown(t) PROVE SupervisorInd' /\ main' = main
  <2>1. End(t, "stopped") /\ faults' \in 0 .. MaxFaults /\ "stopped" \in Ended
    BY <1>2 DEF ExitOnShutdown, SupervisorInd, TypeOK, Ended
  <2> QED BY <2>1, WorkerEnds
<1>3. ASSUME NEW t \in Tasks, NEW how \in {"panicked", "fatal"}, Fault(t, how)
      PROVE  SupervisorInd' /\ main' = main
  <2>1. End(t, how) /\ faults' \in 0 .. MaxFaults /\ how \in Ended /\ how # "disabled"
    BY <1>3, SupervisorAssumption DEF Fault, SupervisorInd, TypeOK, Ended
  <2> QED BY <2>1, WorkerEnds
<1>4. ASSUME NEW t \in Tasks, Supervise(t) PROVE SupervisorInd' /\ main' = main
  BY <1>4, SuperviseStep
<1>5. CASE StopServing
  <2>1. main = "serving" /\ main' = "draining" /\ UNCHANGED <<sup, worker, health, faults>>
    BY <1>5 DEF StopServing
  <2>2. TypeOK'
    BY <2>1 DEF SupervisorInd, TypeOK
  <2> QED BY <2>1, <2>2 DEF SupervisorInd, CleanExitLeavesNoWorker, HealthIsHonest,
                            DisabledIsTrue, ProcessUp
<1>6. CASE Drained
  <2>1. /\ main = "draining" /\ main' = "exited" /\ UNCHANGED <<sup, worker, health, faults>>
        /\ \A t \in Tasks : sup[t].pc = "done"
    BY <1>6 DEF Drained
  <2>2. \A t \in Tasks : worker[t] # "alive"
    BY <2>1 DEF SupervisorInd, HealthIsHonest, ProcessUp
  <2>3. TypeOK'
    BY <2>1 DEF SupervisorInd, TypeOK
  <2> QED BY <2>1, <2>2, <2>3 DEF SupervisorInd, CleanExitLeavesNoWorker, HealthIsHonest,
                                  DisabledIsTrue, ProcessUp
<1>7. CASE ForceExit
  <2>1. /\ main' = "forced" /\ worker' = [t \in Tasks |-> "none"]
        /\ UNCHANGED <<sup, health, faults>>
    BY <1>7 DEF ForceExit
  <2>2. TypeOK'
    BY <2>1 DEF SupervisorInd, TypeOK
  <2> QED BY <2>1, <2>2 DEF SupervisorInd, CleanExitLeavesNoWorker, HealthIsHonest,
                            DisabledIsTrue, ProcessUp
<1>8. CASE Over
  <2>1. UNCHANGED <<sup, worker, health, main, faults>>
    BY <1>8 DEF Over, vars
  <2> QED BY <2>1 DEF SupervisorInd, TypeOK, CleanExitLeavesNoWorker, HealthIsHonest,
                      DisabledIsTrue, ProcessUp
<1> QED BY <1>1, <1>2, <1>3, <1>4, <1>5, <1>6, <1>7, <1>8 DEF Next

-----------------------------------------------------------------------------
(* The heartbeat. *)

(* The window is a number of seconds, no shorter than one interval.        *)
LEMMA Window ==
    /\ StalenessLimit \in Nat /\ Never = StalenessLimit + 1
    /\ PollInterval \in Nat /\ PollTime \in Nat /\ PollInterval <= StalenessLimit
<1>1. PollInterval \in Nat /\ Multiple \in Nat \ {0} /\ PollTime \in Nat
  BY ReadinessAssumption
<1>2. \A x, y \in Nat : x * y \in Nat
  BY SMT
<1>3. PICK n \in Nat : Multiple = n + 1
  <2>1. Multiple - 1 \in Nat /\ Multiple = (Multiple - 1) + 1
    BY <1>1
  <2> QED BY <2>1
<1>4. PollInterval * Multiple = PollInterval * n + PollInterval
  BY <1>1, <1>3
<1>5. PollInterval * n \in Nat
  BY <1>1, <1>2
<1> QED BY <1>1, <1>4, <1>5 DEF StalenessLimit, Never

(* The backoff's delays are below its cap. *)
LEMMA BackoffCapped ==
    ASSUME NEW n \in Nat \ {0}, NEW delay \in BackoffDelays(n)
    PROVE  delay \in 0 .. BackoffMax
<1>1. n - 1 \in Nat /\ BackoffBase \in Nat /\ BackoffMax \in Nat
  BY ReadinessAssumption
<1>2. 2 ^ (n - 1) \in Nat
  <2>1. IsFiniteSet(1 .. n - 1) /\ Cardinality(1 .. n - 1) = n - 1
    <3>1. 1 \in Int /\ n - 1 \in Int
      BY <1>1
    <3>2. /\ IsFiniteSet(1 .. n - 1)
          /\ Cardinality(1 .. n - 1) = IF 1 > n - 1 THEN 0 ELSE n - 1 - 1 + 1
      BY <3>1, FS_Interval
    <3> QED BY <1>1, <3>2
  <2>2. /\ IsFiniteSet(SUBSET (1 .. n - 1))
        /\ Cardinality(SUBSET (1 .. n - 1)) = 2 ^ (n - 1)
    BY <2>1, FS_SUBSET
  <2> QED BY <2>2, FS_CardinalityType
<1>3. PICK ceiling : ceiling = Lesser(BackoffBase * 2 ^ (n - 1), BackoffMax)
  OBVIOUS
<1>4. BackoffBase * 2 ^ (n - 1) \in Nat
  <2>1. \A x, y \in Nat : x * y \in Nat
    BY SMT
  <2> QED BY <1>1, <1>2, <2>1
<1>5. ceiling \in 0 .. BackoffMax
  BY <1>1, <1>3, <1>4 DEF Lesser
<1>6. delay \in ceiling \div 2 .. ceiling
  BY <1>3 DEF BackoffDelays
<1> QED BY <1>1, <1>5, <1>6

(* A shorter wait is within the same bound. *)
LEMMA LeftShrinks ==
    ASSUME NEW a \in Nat, LeftBounded(a), NEW b \in Nat, b <= a
    PROVE  LeftBounded(b)
<1>1. PollInterval \in Nat /\ PollTime \in Nat /\ BackoffMax \in Nat /\ RetryAfters \subseteq Nat
  BY ReadinessAssumption
<1> QED BY <1>1 DEF LeftBounded

(* Sleeps and cycles are bounded when they begin. *)
LEMMA LeftBegins ==
    /\ Waking \in [pc : {"asleep", "cycle"}, left : Nat, fails : Nat]
    /\ Waking.pc = "asleep" /\ Waking.left = PollInterval /\ Waking.fails = 0
    /\ LeftBounded(PollInterval) /\ LeftBounded(PollTime)
<1>1. PollInterval \in Nat /\ PollTime \in Nat
  BY ReadinessAssumption
<1> QED BY <1>1 DEF Waking, LeftBounded

(* Steps that leave the supervised system alone. *)
LEMMA SystemFrame ==
    ASSUME SupervisorInd, UNCHANGED <<sup, worker, health, main, faults>>
    PROVE  SupervisorInd'
BY DEF SupervisorInd, TypeOK, CleanExitLeavesNoWorker, HealthIsHonest, DisabledIsTrue, ProcessUp

(* Initially nothing runs and the heartbeat reads as stale. *)
LEMMA BeatsInitially == ReadyInit => ReadyInd
<1> SUFFICES ASSUME ReadyInit PROVE ReadyInd
  OBVIOUS
<1>1. /\ sup = [t \in Tasks |-> [pc |-> "top", delay |-> InitialDelay, stable |-> FALSE]]
      /\ worker = [t \in Tasks |-> "none"] /\ main = "serving" /\ faults = 0
      /\ health = [running |-> {}, disabled |-> {}, streak |-> [t \in Tasks |-> 0],
                   restarts |-> [t \in Tasks |-> 0], started |-> 0, stopped |-> 0, failed |-> 0]
      /\ age = Never /\ poll = Waking /\ bad = 0 /\ steady = FALSE
  BY DEF ReadyInit, Init
<1>2. sup \in [Tasks -> Supervision] /\ health \in Health
  BY <1>1, SupervisorAssumption DEF Supervision, Health
<1>3. TypeOK
  BY <1>1, <1>2, SupervisorAssumption DEF TypeOK, Supervision, Health
<1>4. SupervisorInd
  BY <1>1, <1>3 DEF SupervisorInd, CleanExitLeavesNoWorker, HealthIsHonest, DisabledIsTrue
<1>5. MaxBadPolls \in Nat
  BY ReadinessAssumption
<1>6. ProbeInd
  <2>0. Never \in Nat
    BY Window
  <2>1. age \in 0 .. Never /\ bad \in 0 .. MaxBadPolls /\ steady \in BOOLEAN
    <3>1. age \in 0 .. Never
      BY <1>1, <2>0
    <3>2. bad \in 0 .. MaxBadPolls
      BY <1>1, <1>5
    <3>3. steady \in BOOLEAN
      BY <1>1
    <3> QED BY <3>1, <3>2, <3>3
  <2>2. /\ poll \in [pc : {"asleep", "cycle"}, left : Nat, fails : Nat]
        /\ LeftBounded(poll.left) /\ poll.fails <= bad
    BY <1>1, LeftBegins
  <2>3. BeatsInTime
    BY <1>1 DEF BeatsInTime
  <2> QED BY <2>1, <2>2, <2>3 DEF ProbeInd
<1> QED BY <1>4, <1>6 DEF ReadyInd

(* A step of the supervised system: only a poller that lives keeps the     *)
(* promise of its next beat.                                               *)
LEMMA SupervisedStep ==
    ASSUME ReadyInd, Supervised
    PROVE  ReadyInd'
<1>1. SupervisorInd' /\ (main' = "serving" => main = "serving")
  BY SystemStep DEF ReadyInd, Supervised
<1>2. /\ poll' = IF worker[Poller] # "alive" /\ worker'[Poller] = "alive" THEN Waking ELSE poll
      /\ steady' = (steady /\ worker'[Poller] = "alive")
      /\ age' = age /\ bad' = bad
  BY DEF Supervised
<1>3. /\ age \in 0 .. Never /\ bad \in 0 .. MaxBadPolls /\ steady \in BOOLEAN
      /\ poll \in [pc : {"asleep", "cycle"}, left : Nat, fails : Nat]
      /\ LeftBounded(poll.left) /\ poll.fails <= bad /\ BeatsInTime
  BY DEF ReadyInd, ProbeInd
<1>4. /\ poll' \in [pc : {"asleep", "cycle"}, left : Nat, fails : Nat]
      /\ LeftBounded(poll'.left) /\ poll'.fails <= bad
  <2>1. CASE poll' = poll
    BY <1>3, <2>1
  <2>2. CASE poll' = Waking
    <3>1. MaxBadPolls \in Nat
      BY ReadinessAssumption
    <3> QED BY <1>3, <2>2, <3>1, LeftBegins
  <2> QED BY <1>2, <2>1, <2>2
<1>5. steady' \in BOOLEAN
  BY <1>2
<1>6. BeatsInTime'
  <2> SUFFICES ASSUME steady', main' = "serving"
               PROVE  /\ worker'[Poller] = "alive"
                      /\ age' + poll'.left + (IF poll'.pc = "asleep" THEN PollTime ELSE 0)
                            <= PollInterval + PollTime
    BY DEF BeatsInTime, Shutdown
  <2>1. steady /\ worker'[Poller] = "alive" /\ main = "serving"
    BY <1>1, <1>2
  <2>2. /\ worker[Poller] = "alive"
        /\ age + poll.left + (IF poll.pc = "asleep" THEN PollTime ELSE 0) <= PollInterval + PollTime
    BY <1>3, <2>1 DEF BeatsInTime, Shutdown
  <2>3. poll' = poll
    BY <1>2, <2>2
  <2> QED BY <1>2, <2>1, <2>2, <2>3
<1> QED BY <1>1, <1>2, <1>3, <1>4, <1>5, <1>6 DEF ReadyInd, ProbeInd

(* A poll cycle begins, succeeds or fails. *)
LEMMA PollStep ==
    ASSUME ReadyInd, Poll
    PROVE  ReadyInd'
<1>1. UNCHANGED <<sup, worker, health, main, faults>> /\ worker[Poller] = "alive"
  BY DEF Poll, PollBegins, PollSucceeds, PollFails, Polling
<1>2. SupervisorInd'
  BY <1>1, SystemFrame DEF ReadyInd
<1>3. /\ age \in 0 .. Never /\ bad \in 0 .. MaxBadPolls /\ steady \in BOOLEAN
      /\ poll \in [pc : {"asleep", "cycle"}, left : Nat, fails : Nat]
      /\ LeftBounded(poll.left) /\ poll.fails <= bad /\ BeatsInTime
  BY DEF ReadyInd, ProbeInd
<1>4. /\ StalenessLimit \in Nat /\ Never = StalenessLimit + 1
      /\ PollInterval \in Nat /\ PollTime \in Nat /\ MaxBadPolls \in Nat
  BY Window, ReadinessAssumption
<1>5. CASE PollBegins
  <2>1. /\ poll.pc = "asleep" /\ poll.left = 0 /\ poll' = [poll EXCEPT !.pc = "cycle", !.left = PollTime]
        /\ age' = age /\ bad' = bad /\ steady' = steady
    BY <1>5 DEF PollBegins
  <2>2. /\ poll' \in [pc : {"asleep", "cycle"}, left : Nat, fails : Nat]
        /\ poll'.pc = "cycle" /\ poll'.left = PollTime /\ poll'.fails = poll.fails
    BY <1>3, <1>4, <2>1
  <2>3. BeatsInTime'
    BY <1>1, <1>3, <1>4, <2>1, <2>2 DEF BeatsInTime, Shutdown
  <2> QED BY <1>2, <1>3, <2>1, <2>2, <2>3, LeftBegins DEF ReadyInd, ProbeInd
<1>6. CASE PollSucceeds
  <2>1. age' = 0 /\ poll' = Waking /\ steady' = TRUE /\ bad' = bad
    BY <1>6 DEF PollSucceeds
  <2>2. BeatsInTime'
    BY <1>1, <1>4, <2>1, LeftBegins DEF BeatsInTime, Shutdown
  <2>3. age' \in 0 .. Never /\ poll'.fails <= bad'
    BY <1>3, <1>4, <2>1, LeftBegins
  <2> QED BY <1>2, <1>3, <2>1, <2>2, <2>3, LeftBegins DEF ReadyInd, ProbeInd
<1>7. CASE PollFails
  <2>1. PICK delay \in RetryAfters \cup BackoffDelays(poll.fails + 1) :
           poll' = [pc |-> "asleep", left |-> delay, fails |-> poll.fails + 1]
    BY <1>7 DEF PollFails
  <2>2. bad < MaxBadPolls /\ bad' = bad + 1 /\ steady' = FALSE /\ age' = age
    BY <1>7 DEF PollFails
  <2>3. delay \in Nat /\ LeftBounded(delay)
    <3>1. CASE delay \in RetryAfters
      BY <3>1, ReadinessAssumption DEF LeftBounded
    <3>2. CASE delay \in BackoffDelays(poll.fails + 1)
      <4>1. poll.fails + 1 \in Nat \ {0}
        BY <1>3
      <4>2. delay \in 0 .. BackoffMax
        BY <3>2, <4>1, BackoffCapped
      <4> QED BY <4>2, ReadinessAssumption DEF LeftBounded
    <3> QED BY <3>1, <3>2
  <2>4. /\ poll' \in [pc : {"asleep", "cycle"}, left : Nat, fails : Nat]
        /\ poll'.left = delay /\ poll'.fails = poll.fails + 1
    BY <1>3, <2>1, <2>3
  <2>5. bad' \in 0 .. MaxBadPolls /\ poll'.fails <= bad'
    BY <1>3, <1>4, <2>2, <2>4
  <2>6. BeatsInTime'
    BY <2>2 DEF BeatsInTime
  <2> QED BY <1>2, <1>3, <2>2, <2>3, <2>4, <2>5, <2>6 DEF ReadyInd, ProbeInd
<1> QED BY <1>5, <1>6, <1>7 DEF Poll

(* A record of the stream, or a second. *)
LEMMA BeatStep ==
    ASSUME ReadyInd, StreamRecord \/ Tick
    PROVE  ReadyInd'
<1>1. UNCHANGED <<sup, worker, health, main, faults>> /\ ProcessUp
  BY DEF StreamRecord, Tick
<1>2. SupervisorInd'
  BY <1>1, SystemFrame DEF ReadyInd
<1>3. /\ age \in 0 .. Never /\ bad \in 0 .. MaxBadPolls /\ steady \in BOOLEAN
      /\ poll \in [pc : {"asleep", "cycle"}, left : Nat, fails : Nat]
      /\ LeftBounded(poll.left) /\ poll.fails <= bad /\ BeatsInTime
  BY DEF ReadyInd, ProbeInd
<1>4. /\ StalenessLimit \in Nat /\ Never = StalenessLimit + 1
      /\ PollInterval \in Nat /\ PollTime \in Nat /\ MaxBadPolls \in Nat
  BY Window, ReadinessAssumption
<1>5. CASE StreamRecord
  <2>1. age' = 0 /\ UNCHANGED <<poll, bad, steady>>
    BY <1>5 DEF StreamRecord
  <2>2. BeatsInTime'
    BY <1>1, <1>3, <1>4, <2>1 DEF BeatsInTime, Shutdown
  <2> QED BY <1>2, <1>3, <1>4, <2>1, <2>2 DEF ReadyInd, ProbeInd
<1>6. CASE Tick
  <2>1. /\ age' = Lesser(age + 1, Never) /\ bad' = bad /\ steady' = steady
        /\ poll' = [poll EXCEPT !.left = IF Polling /\ @ > 0 THEN @ - 1 ELSE @]
        /\ Polling /\ ~Shutdown => poll.left > 0
    BY <1>6 DEF Tick
  <2>2. PICK left : left = IF Polling /\ poll.left > 0 THEN poll.left - 1 ELSE poll.left
    OBVIOUS
  <2>3. left \in Nat /\ left <= poll.left
    BY <1>3, <2>2
  <2>4. /\ poll' \in [pc : {"asleep", "cycle"}, left : Nat, fails : Nat]
        /\ poll'.left = left /\ poll'.pc = poll.pc /\ poll'.fails = poll.fails
    BY <1>3, <2>1, <2>2, <2>3
  <2>5. LeftBounded(left)
    BY <1>3, <2>3, LeftShrinks
  <2>6. age' \in 0 .. Never /\ age' <= age + 1
    BY <1>3, <1>4, <2>1 DEF Lesser
  <2>7. BeatsInTime'
    <3> SUFFICES ASSUME steady, ~Shutdown
                 PROVE  /\ worker[Poller] = "alive"
                        /\ age' + poll'.left + (IF poll'.pc = "asleep" THEN PollTime ELSE 0)
                              <= PollInterval + PollTime
      BY <1>1, <2>1 DEF BeatsInTime, Shutdown
    <3>1. /\ worker[Poller] = "alive"
          /\ age + poll.left + (IF poll.pc = "asleep" THEN PollTime ELSE 0)
                <= PollInterval + PollTime
      BY <1>3 DEF BeatsInTime
    <3>2. left = poll.left - 1
      BY <1>1, <2>1, <2>2, <3>1 DEF Polling
    <3> QED BY <1>3, <1>4, <2>3, <2>4, <2>6, <3>1, <3>2
  <2> QED BY <1>2, <1>3, <2>1, <2>4, <2>5, <2>6, <2>7 DEF ReadyInd, ProbeInd
<1> QED BY <1>5, <1>6

(* Every step. *)
LEMMA ReadyStep == ReadyInd /\ [ReadyNext]_allVars => ReadyInd'
<1> SUFFICES ASSUME ReadyInd, [ReadyNext]_allVars PROVE ReadyInd'
  OBVIOUS
<1>1. CASE UNCHANGED allVars
  <2>1. UNCHANGED <<sup, worker, health, main, faults>> /\ UNCHANGED <<age, poll, bad, steady>>
    BY <1>1 DEF allVars
  <2>2. SupervisorInd'
    BY <2>1, SystemFrame DEF ReadyInd
  <2>3. ProbeInd'
    BY <2>1 DEF ReadyInd, ProbeInd, BeatsInTime, Shutdown
  <2> QED BY <2>2, <2>3 DEF ReadyInd
<1> QED BY <1>1, SupervisedStep, PollStep, BeatStep DEF ReadyNext

(* The inductive invariant of the supervisors and the heartbeat. *)
THEOREM ReadyInductive == ReadySpec => []ReadyInd
BY BeatsInitially, ReadyStep, PTL DEF ReadySpec

(* Through every fault, restart and shutdown: a clean exit leaves no       *)
(* worker, /health counts the workers there are, the poller's sleeps are   *)
(* bounded, and from one successful cycle to the next /ready is green, but *)
(* while the cycle under way takes longer than the window leaves it.       *)
THEOREM ProbesAreHonest == ReadySpec => []ReadinessInv
<1>1. ASSUME ReadyInd PROVE ReadinessTypeOK
  <2>1. /\ age \in 0 .. Never /\ bad \in 0 .. MaxBadPolls /\ steady \in BOOLEAN
        /\ poll \in [pc : {"asleep", "cycle"}, left : Nat, fails : Nat]
        /\ LeftBounded(poll.left) /\ poll.fails <= bad
    BY <1>1 DEF ReadyInd, ProbeInd
  <2>2. poll.fails \in 0 .. MaxBadPolls
    BY <2>1, ReadinessAssumption
  <2> QED BY <2>1, <2>2 DEF ReadinessTypeOK, LeftBounded
<1>2. ASSUME ReadyInd PROVE HealthyIsReady
  <2> SUFFICES ASSUME steady, ~Shutdown, ~Ready PROVE Overlong
    BY DEF HealthyIsReady
  <2>1. age \in 0 .. Never /\ poll.left \in Nat /\ poll.pc \in {"asleep", "cycle"}
    BY <1>2 DEF ReadyInd, ProbeInd
  <2>2. age + poll.left + (IF poll.pc = "asleep" THEN PollTime ELSE 0)
           <= PollInterval + PollTime
    BY <1>2 DEF ReadyInd, ProbeInd, BeatsInTime
  <2>3. age > StalenessLimit
    BY <2>1, Window DEF Ready
  <2>4. poll.pc = "cycle"
    BY <2>1, <2>2, <2>3, Window
  <2> QED BY <2>1, <2>2, <2>3, <2>4, Window DEF Overlong
<1>3. ReadyInd => ReadinessInv
  BY <1>1, <1>2 DEF ReadyInd, SupervisorInd, ReadinessInv
<1> QED BY <1>3, ReadyInductive, PTL

-----------------------------------------------------------------------------
(* Probes: the requests for /health and /metrics. *)

(* What a supervisor has yet to do after a task went down. *)
Failing == <<"failed", "restarted", "up">>
Restarting == <<"restarted", "up">>
Plans == {<<>>, <<"up">>, <<"disabled">>, Restarting, Failing}

HealthMaps ==
    [running : SUBSET Tasks, disabled : SUBSET Disabled,
     restarts : [Tasks -> Nat], consecutive : [Tasks -> Nat]]
Answers ==
    [ok : BOOLEAN, expected : Nat, live : Nat, snapshot : Nat, count : Nat, bucket : Seq(Nat)]
ReaderState ==
    [handler : {"none", "health", "metrics"}, done : Nat, taken : Nat, answer : Answers,
     quiet : BOOLEAN]

ProbeTypes ==
    /\ taskHealth \in HealthMaps /\ calls \in [Tasks -> Plans]
    /\ reader \in [Readers -> ReaderState]
    /\ hist \in [Slots -> Nat] /\ recording \in [Dispatches -> SUBSET Int]

(* A streak of failures is no longer than the restarts, but for the one    *)
(* that is about to be counted.                                            *)
PanicsCounted(t) ==
    /\ calls[t] = <<"disabled">> => t \in Disabled
    /\ calls[t] \in {Failing, Restarting} => taskHealth.restarts[t] < MaxPanics
    /\ taskHealth.restarts[t] <= MaxPanics
    /\ \/ taskHealth.consecutive[t] <= taskHealth.restarts[t]
       \/ calls[t] = Restarting /\ taskHealth.consecutive[t] <= taskHealth.restarts[t] + 1

(* No mutex has two holders. *)
Exclusive == \A r, q \in Readers : r # q => Held(r) \cap Held(q) = {}

(* Each request is somewhere in its handler, with at most the mutexes that *)
(* the current call takes.                                                 *)
InHandler(r) ==
    /\ reader[r].done <= Len(CallsOf(reader[r].handler))
    /\ reader[r].taken <= IF Busy(r) THEN Len(LocksOf(Call(r))) ELSE 0

-----------------------------------------------------------------------------
(* The order of the mutexes. *)

(* The order in which every accessor takes them. *)
Rank(lock) ==
    IF lock = "running" THEN 1 ELSE IF lock = "restarts" THEN 2
    ELSE IF lock = "consecutive" THEN 3 ELSE IF lock = "required" THEN 4 ELSE 5

AllCalls == {"dead", "looping", "expected", "live", "snapshot", "count", "bucket"}

(* /metrics loads the buckets and the count, then asks TaskHealth. *)
LEMMA Render ==
    /\ Inf \in Nat \ {0} /\ Len(RenderCalls) = Inf + 4
    /\ \A i \in 1 .. Inf : RenderCalls[i] = "bucket"
    /\ RenderCalls[Inf + 1] = "count" /\ RenderCalls[Inf + 2] = "snapshot"
    /\ RenderCalls[Inf + 3] = "expected" /\ RenderCalls[Inf + 4] = "live"
<1>1. PICK n \in Nat \ {0} : n = Inf
  BY ProbesAssumption DEF Inf
<1>2. PICK s \in Seq({"bucket"}) : s = [i \in 1 .. n |-> "bucket"] /\ Len(s) = n
  <2>1. [i \in 1 .. n |-> "bucket"] \in Seq({"bucket"})
    BY <1>1
  <2>2. Len([i \in 1 .. n |-> "bucket"]) = n
    BY <1>1
  <2>. QED
    BY <2>1, <2>2
<1>3. RenderCalls = s \o <<"count", "snapshot", "expected", "live">>
  BY <1>1, <1>2 DEF RenderCalls
<1>4. \A i \in 1 .. n : RenderCalls[i] = "bucket"
  BY <1>1, <1>2, <1>3
<1>. QED
  BY <1>1, <1>2, <1>3, <1>4

(* What a handler's calls are. *)
LEMMA TheCalls ==
    ASSUME NEW h \in {"none", "health", "metrics"},
           NEW n \in Nat, n < Len(CallsOf(h))
    PROVE  CallsOf(h)[n + 1] \in AllCalls
<1>1. CASE h = "none"
  BY <1>1 DEF CallsOf
<1>2. CASE h = "health"
  BY <1>2 DEF CallsOf, HealthCalls, AllCalls
<1>3. CASE h = "metrics"
  <2>1. PICK m \in Nat \ {0} : m = Inf
    BY Render
  <2>2. /\ n < m + 4 /\ CallsOf(h) = RenderCalls
    BY <1>3, <2>1, Render DEF CallsOf
  <2>3. n + 1 \in 1 .. m \/ n + 1 \in {m + 1, m + 2, m + 3, m + 4}
    BY <2>1, <2>2
  <2>. QED
    BY <2>1, <2>2, <2>3, Render DEF AllCalls
<1>. QED
  BY <1>1, <1>2, <1>3

(* Every accessor takes its mutexes in the one order. *)
LEMMA LocksAscend ==
    ASSUME NEW call \in AllCalls
    PROVE  /\ Len(LocksOf(call)) \in 0 .. 5
           /\ \A i \in 1 .. Len(LocksOf(call)) : Rank(LocksOf(call)[i]) \in 1 .. 5
           /\ \A i, j \in 1 .. Len(LocksOf(call)) :
                 i < j => Rank(LocksOf(call)[i]) < Rank(LocksOf(call)[j])
<1>. USE DEF LocksOf, Rank
<1>1. CASE call = "dead"
  BY <1>1 DEF DeadRequiredTasksLocks
<1>2. CASE call = "looping"
  BY <1>2 DEF CrashLoopingLocks
<1>3. CASE call = "expected"
  BY <1>3 DEF ExpectedTasksLocks
<1>4. CASE call = "live"
  BY <1>4 DEF LiveTasksLocks
<1>5. CASE call = "snapshot"
  BY <1>5 DEF SnapshotLocks
<1>6. CASE call \in {"count", "bucket"}
  BY <1>6
<1>. QED
  BY <1>1, <1>2, <1>3, <1>4, <1>5, <1>6 DEF AllCalls

(* What a request in its handler holds, and waits for. *)
LEMMA Holding ==
    ASSUME ProbeTypes, NEW r \in Readers, InHandler(r), Busy(r)
    PROVE  /\ Call(r) \in AllCalls
           /\ reader[r].taken \in 0 .. Len(LocksOf(Call(r)))
           /\ Held(r) = {LocksOf(Call(r))[i] : i \in 1 .. reader[r].taken}
           /\ Wanted(r) = IF reader[r].taken < Len(LocksOf(Call(r)))
                            THEN {LocksOf(Call(r))[reader[r].taken + 1]} ELSE {}
<1>1. reader[r] \in ReaderState
  BY DEF ProbeTypes
<1>2. Call(r) \in AllCalls
  BY <1>1, TheCalls DEF Busy, Call, ReaderState
<1>3. reader[r].taken \in 0 .. Len(LocksOf(Call(r)))
  BY <1>1, <1>2, LocksAscend DEF InHandler, ReaderState
<1>. QED
  BY <1>2, <1>3 DEF Held, Wanted

(* A request holds no mutex that comes after the one it waits for. *)
LEMMA WantsAHigherOne ==
    ASSUME ProbeTypes, NEW r \in Readers, InHandler(r), Busy(r),
           NEW lock \in Wanted(r)
    PROVE  /\ Rank(lock) \in 1 .. 5
           /\ \A h \in Held(r) : Rank(h) < Rank(lock)
<1>1. PICK n \in Nat : n = reader[r].taken
  BY Holding
<1>2. PICK locks : locks = LocksOf(Call(r))
  OBVIOUS
<1>3. n + 1 \in 1 .. Len(locks) /\ lock = locks[n + 1]
  BY <1>1, <1>2, Holding, LocksAscend
<1>4. ASSUME NEW h \in Held(r) PROVE Rank(h) < Rank(lock)
  <2>1. PICK i \in 1 .. n : h = locks[i]
    BY <1>1, <1>2, Holding
  <2>2. i \in 1 .. Len(locks) /\ i < n + 1
    BY <1>2, <1>3, Holding, LocksAscend
  <2>. QED
    BY <1>2, <1>3, <2>1, <2>2, Holding, LocksAscend
<1>. QED
  BY <1>2, <1>3, <1>4, Holding, LocksAscend

(* Of some ranks one is the highest. *)
LEMMA Highest ==
    ASSUME NEW T \in SUBSET (1 .. 5), T # {} PROVE \E m \in T : \A n \in T : n <= m
<1>1. CASE 5 \in T
  BY <1>1
<1>2. CASE 5 \notin T /\ 4 \in T
  BY <1>2
<1>3. CASE 5 \notin T /\ 4 \notin T /\ 3 \in T
  BY <1>3
<1>4. CASE 5 \notin T /\ 4 \notin T /\ 3 \notin T /\ 2 \in T
  BY <1>4
<1>5. CASE 5 \notin T /\ 4 \notin T /\ 3 \notin T /\ 2 \notin T
  <2>1. PICK m : m \in T
    OBVIOUS
  <2>2. \A n \in T : n <= m
    BY <1>5, <2>1
  <2>. QED
    BY <2>1, <2>2
<1>. QED
  BY <1>1, <1>2, <1>3, <1>4, <1>5

(* The request that waits for the highest mutex of all that are waited for *)
(* waits for one that nobody holds: its holder would wait for a higher one.*)
LEMMA SomebodyGoesOn ==
    ASSUME ProbeTypes, \A r \in Readers : InHandler(r),
           NEW b \in Readers, Busy(b)
    PROVE  \E r \in Readers : Busy(r) /\ \A lock \in Wanted(r) : Free(lock)
<1>. SUFFICES ASSUME \A r \in Readers : Busy(r) => \E lock \in Wanted(r) : ~Free(lock)
              PROVE  FALSE
  OBVIOUS
<1>. DEFINE Waits(r, n) == Busy(r) /\ \E lock \in Wanted(r) : n = Rank(lock) /\ ~Free(lock)
            T == {n \in 1 .. 5 : \E r \in Readers : Waits(r, n)}
<1>1. ASSUME NEW r \in Readers, Busy(r) PROVE \E n \in 1 .. 5 : Waits(r, n)
  <2>1. PICK lock \in Wanted(r) : ~Free(lock)
    BY <1>1
  <2>2. Rank(lock) \in 1 .. 5
    BY <1>1, <2>1, WantsAHigherOne
  <2>. QED
    BY <1>1, <2>1, <2>2
<1>2. PICK m \in T : \A n \in T : n <= m
  <2>1. T \in SUBSET (1 .. 5) /\ T # {}
    BY <1>1
  <2>. HIDE DEF T
  <2>. QED
    BY <2>1, Highest
<1>3. PICK r \in Readers : Waits(r, m)
  OBVIOUS
<1>4. PICK lock \in Wanted(r) : m = Rank(lock) /\ ~Free(lock)
  BY <1>3
<1>5. PICK q \in Readers : lock \in Held(q)
  BY <1>4 DEF Free
<1>6. Busy(q)
  BY <1>5 DEF Held
<1>7. PICK n \in 1 .. 5 : Waits(q, n)
  BY <1>1, <1>6
<1>8. PICK next \in Wanted(q) : n = Rank(next)
  BY <1>7
<1>9. m < n
  BY <1>4, <1>5, <1>6, <1>8, WantsAHigherOne
<1>. QED
  BY <1>2, <1>7, <1>9

-----------------------------------------------------------------------------
(* What a request has been told so far. *)

(* The tasks that were expected when it asked are at least those that are  *)
(* expected now, since tasks are disabled for good.                        *)
ToldOfTasks(r) ==
    LET a == reader[r].answer
        n == reader[r].done
        expected == Cardinality(Expected)
        all == Cardinality(Required)
        off == Cardinality(Required \cap taskHealth.disabled)
    IN /\ reader[r].handler = "health" =>
             /\ n >= 3 => expected <= a.expected
             /\ n >= 4 => a.live <= a.expected
             /\ n >= 5 => all <= a.snapshot + a.expected
       /\ reader[r].handler = "metrics" =>
             /\ n >= Inf + 2 => a.snapshot <= off
             /\ n >= Inf + 3 => a.snapshot + a.expected <= all /\ expected <= a.expected
             /\ n >= Inf + 4 => a.live <= a.expected

(* The buckets it has loaded; while no delivery records, those there are.  *)
ToldOfLatencies(r) ==
    LET a == reader[r].answer
        n == reader[r].done
        most == Cardinality(Dispatches)
    IN /\ reader[r].handler = "metrics" =>
             /\ Len(a.bucket) = IF n <= Inf THEN n ELSE Inf
             /\ \A i \in 1 .. Len(a.bucket) : a.bucket[i] \in 0 .. most
             /\ a.count \in 0 .. most
             /\ reader[r].quiet =>
                   /\ \A i, j \in 1 .. Len(a.bucket) : i < j => a.bucket[i] <= a.bucket[j]
                   /\ n > Inf => a.count = a.bucket[Inf]
             /\ reader[r].quiet /\ Busy(r) =>
                   /\ \A d \in Dispatches : ~Recording(d)
                   /\ \A i \in 1 .. Len(a.bucket) : a.bucket[i] = hist[i]
       /\ reader[r].handler # "metrics" => Len(a.bucket) = 0

(* Each atomic counts the deliveries that have come to it, given the       *)
(* latencies they saw.                                                     *)
CountedAt(latency, i) ==
    {d \in Dispatches : /\ recording[d] # Sending
                        /\ i = 0 \/ i \in Bumps(latency[d]) \ recording[d]}

Counts(latency) ==
    /\ \A d \in Dispatches : recording[d] = Sending \/ recording[d] \subseteq Bumps(latency[d])
    /\ \A i \in Slots : hist[i] = Cardinality(CountedAt(latency, i))

HistogramCounts == \E latency \in [Dispatches -> Nat] : Counts(latency)

ProbesInd ==
    /\ ProbeTypes /\ Exclusive /\ HistogramCounts
    /\ \A t \in Tasks : PanicsCounted(t)
    /\ \A r \in Readers : InHandler(r) /\ ToldOfTasks(r) /\ ToldOfLatencies(r)

(* The constants, with the counts they give. *)
LEMMA ProbeConstants ==
    /\ Required \subseteq Tasks /\ IsFiniteSet(Required) /\ IsFiniteSet(Dispatches)
    /\ MaxPanics \in Nat /\ Latencies \subseteq Nat
    /\ Cardinality(Required) \in Nat /\ Cardinality(Dispatches) \in Nat
    /\ Inf \in Nat \ {0} /\ Slots = 0 .. Inf
    /\ \A i \in 1 .. Inf : i # Inf => Bounds[i] \in Nat
    /\ \A i, j \in 1 .. Inf : i < j /\ j # Inf => Bounds[i] <= Bounds[j]
<1>1. IsFiniteSet(Required) /\ IsFiniteSet(Dispatches)
  BY ProbesAssumption
<1>2. Cardinality(Required) \in Nat /\ Cardinality(Dispatches) \in Nat
  BY <1>1, FS_CardinalityType
<1>3. /\ Bounds \in Seq(Nat) /\ DOMAIN Bounds = 1 .. Len(Bounds) /\ Len(Bounds) \in Nat
      /\ \A i, j \in DOMAIN Bounds : i < j => Bounds[i] <= Bounds[j]
  BY ProbesAssumption
<1>4. PICK n \in Nat : n = Len(Bounds) /\ Inf = n + 1 /\ DOMAIN Bounds = 1 .. n
  BY <1>3 DEF Inf
<1>5. \A i \in 1 .. Inf : i # Inf => i \in DOMAIN Bounds
  BY <1>4
<1>6. \A i \in DOMAIN Bounds : Bounds[i] \in Nat
  BY <1>3
<1>7. \A i, j \in 1 .. Inf : i < j /\ j # Inf => i \in DOMAIN Bounds /\ j \in DOMAIN Bounds
  BY <1>4
<1>8. \A i \in 1 .. Inf : i # Inf => Bounds[i] \in Nat
  BY <1>5, <1>6
<1>9. \A i, j \in 1 .. Inf : i < j /\ j # Inf => Bounds[i] <= Bounds[j]
  BY <1>3, <1>7
<1>10. Inf \in Nat \ {0} /\ Slots = 0 .. Inf
  BY <1>4 DEF Slots
<1>. QED
  BY <1>1, <1>2, <1>8, <1>9, <1>10, TasksAssumption, ProbesAssumption

(* Expected and disabled tasks add up to all that are required. *)
LEMMA TasksAddUp ==
    /\ Cardinality(Expected) \in Nat /\ Cardinality(Live) \in Nat
    /\ Cardinality(Required \cap taskHealth.disabled) \in Nat
    /\ Cardinality(Live) <= Cardinality(Expected)
    /\ Cardinality(Expected) + Cardinality(Required \cap taskHealth.disabled)
          = Cardinality(Required)
<1>1. IsFiniteSet(Required) /\ Cardinality(Required) \in Nat
  BY ProbeConstants
<1>2. Expected \subseteq Required /\ Live \subseteq Expected
  BY DEF Expected, Live
<1>3. IsFiniteSet(Expected) /\ IsFiniteSet(Live) /\ IsFiniteSet(Required \cap taskHealth.disabled)
  BY <1>1, <1>2, FS_Subset
<1>4. /\ Cardinality(Expected) \in Nat /\ Cardinality(Live) \in Nat
      /\ Cardinality(Required \cap taskHealth.disabled) \in Nat
  BY <1>3, FS_CardinalityType
<1>5. Cardinality(Live) <= Cardinality(Expected)
  BY <1>2, <1>3, FS_Subset
<1>6. Cardinality(Required \ taskHealth.disabled)
         = Cardinality(Required) - Cardinality(Required \cap taskHealth.disabled)
  BY <1>1, FS_Difference
<1>. QED
  BY <1>1, <1>4, <1>5, <1>6 DEF Expected

-----------------------------------------------------------------------------
(* Steps of the supervisors. *)

(* A request that a step does not move stays where it is. *)
LEMMA StaysInHandler ==
    ASSUME NEW r, reader'[r].handler = reader[r].handler,
           reader'[r].done = reader[r].done, reader'[r].taken = reader[r].taken
    PROVE  /\ Busy(r)' <=> Busy(r)
           /\ Call(r)' = Call(r) /\ Held(r)' = Held(r)
           /\ InHandler(r)' <=> InHandler(r)
<1>1. (Busy(r)' <=> Busy(r)) /\ Call(r)' = Call(r)
  BY DEF Busy, Call
<1>. QED
  BY <1>1 DEF Held, InHandler

(* Disabling tasks only makes fewer of them expected. *)
LEMMA FewerExpected ==
    ASSUME ProbesInd, UNCHANGED reader,
           taskHealth.disabled \subseteq taskHealth'.disabled, NEW r \in Readers
    PROVE  ToldOfTasks(r)'
<1>1. IsFiniteSet(Required) /\ ToldOfTasks(r) /\ reader[r] \in ReaderState
  BY ProbeConstants DEF ProbesInd, ProbeTypes
<1>2. PICK e \in Nat, f \in Nat : e = Cardinality(Expected) /\ f = Cardinality(Expected') /\ f <= e
  <2>1. IsFiniteSet(Expected) /\ Expected' \in SUBSET Expected
    BY <1>1, FS_Subset DEF Expected
  <2>2. IsFiniteSet(Expected') /\ Cardinality(Expected') <= Cardinality(Expected)
    BY <2>1, FS_Subset
  <2>. QED
    BY <2>1, <2>2, FS_CardinalityType
<1>3. PICK o \in Nat, p \in Nat :
         /\ o = Cardinality(Required \cap taskHealth.disabled)
         /\ p = Cardinality(Required \cap taskHealth'.disabled) /\ o <= p
  <2>1. /\ IsFiniteSet(Required \cap taskHealth'.disabled)
        /\ Required \cap taskHealth.disabled \in SUBSET (Required \cap taskHealth'.disabled)
    BY <1>1, FS_Subset
  <2>2. /\ IsFiniteSet(Required \cap taskHealth.disabled)
        /\ Cardinality(Required \cap taskHealth.disabled)
              <= Cardinality(Required \cap taskHealth'.disabled)
    BY <2>1, FS_Subset
  <2>. QED
    BY <2>1, <2>2, FS_CardinalityType
<1>4. PICK a : a = reader[r].answer /\ a.expected \in Nat /\ a.snapshot \in Nat
  BY <1>1 DEF ReaderState, Answers
<1>. QED
  BY <1>1, <1>2, <1>3, <1>4 DEF ToldOfTasks

(* A step that changes the maps and one supervisor's plan. *)
LEMMA PlanStep ==
    ASSUME ProbesInd, UNCHANGED <<reader, hist, recording>>,
           NEW t \in Tasks, NEW plan \in Plans, calls' = [calls EXCEPT ![t] = plan],
           NEW h \in HealthMaps, taskHealth' = h, taskHealth.disabled \subseteq h.disabled,
           \A e \in Tasks \ {t} : /\ h.restarts[e] = taskHealth.restarts[e]
                                  /\ h.consecutive[e] = taskHealth.consecutive[e],
           PanicsCounted(t)'
    PROVE  ProbesInd'
<1>1. ProbeTypes'
  BY DEF ProbesInd, ProbeTypes
<1>2. Exclusive' /\ HistogramCounts'
  <2>1. \A r \in Readers : Held(r)' = Held(r)
    BY StaysInHandler
  <2>2. Exclusive'
    BY <2>1 DEF ProbesInd, Exclusive
  <2>3. HistogramCounts'
    BY DEF ProbesInd, HistogramCounts, Counts, CountedAt
  <2>. QED
    BY <2>2, <2>3
<1>3. ASSUME NEW e \in Tasks PROVE PanicsCounted(e)'
  <2>1. CASE e # t
    BY <2>1 DEF ProbesInd, ProbeTypes, PanicsCounted
  <2>. QED
    BY <2>1
<1>4. ASSUME NEW r \in Readers PROVE InHandler(r)' /\ ToldOfTasks(r)' /\ ToldOfLatencies(r)'
  <2>1. InHandler(r)' /\ (Busy(r)' <=> Busy(r))
    BY StaysInHandler DEF ProbesInd
  <2>2. ToldOfTasks(r)'
    BY FewerExpected
  <2>3. ToldOfLatencies(r)'
    BY <2>1 DEF ProbesInd, ToldOfLatencies, Recording
  <2>. QED
    BY <2>1, <2>2, <2>3
<1>. QED
  BY <1>1, <1>2, <1>3, <1>4 DEF ProbesInd

(* Which plan begins with a statement, and what is left of it. *)
LEMMA PlanHeads ==
    ASSUME NEW plan \in Plans, plan # <<>>
    PROVE  /\ Head(plan) = "up" => plan = <<"up">> /\ Tail(plan) = <<>>
           /\ Head(plan) = "disabled" => plan = <<"disabled">> /\ Tail(plan) = <<>>
           /\ Head(plan) = "restarted" => plan = Restarting /\ Tail(plan) = <<"up">>
           /\ Head(plan) = "failed" => plan = Failing /\ Tail(plan) = Restarting
<1>. USE DEF Restarting, Failing
<1>1. CASE plan = <<"up">>
  BY <1>1
<1>2. CASE plan = <<"disabled">>
  BY <1>2
<1>3. CASE plan = <<"restarted", "up">>
  BY <1>3
<1>4. CASE plan = <<"failed", "restarted", "up">>
  BY <1>4
<1>. QED
  BY <1>1, <1>2, <1>3, <1>4 DEF Plans

(* The plans differ. *)
LEMMA PlansDiffer ==
    /\ <<>> \notin {Restarting, Failing, <<"disabled">>}
    /\ <<"up">> \notin {Restarting, Failing, <<"disabled">>}
    /\ <<"disabled">> \notin {Restarting, Failing}
    /\ Restarting # Failing /\ Restarting # <<"disabled">> /\ Failing # <<"disabled">>
  BY DEF Restarting, Failing

(* The maps, changed in one place. *)
LEMMA MapsChanged ==
    ASSUME NEW h \in HealthMaps, NEW t \in Tasks
    PROVE  /\ \A S \in SUBSET Tasks :
                 /\ [h EXCEPT !.running = S] \in HealthMaps
                 /\ [h EXCEPT !.running = S].restarts = h.restarts
                 /\ [h EXCEPT !.running = S].consecutive = h.consecutive
                 /\ [h EXCEPT !.running = S].disabled = h.disabled
           /\ \A S \in SUBSET Disabled :
                 /\ [h EXCEPT !.disabled = S] \in HealthMaps
                 /\ [h EXCEPT !.disabled = S].restarts = h.restarts
                 /\ [h EXCEPT !.disabled = S].consecutive = h.consecutive
                 /\ [h EXCEPT !.disabled = S].disabled = S
           /\ \A f \in [Tasks -> Nat] :
                 /\ [h EXCEPT !.restarts = f] \in HealthMaps
                 /\ [h EXCEPT !.restarts = f].restarts = f
                 /\ [h EXCEPT !.restarts = f].consecutive = h.consecutive
                 /\ [h EXCEPT !.restarts = f].disabled = h.disabled
           /\ \A f \in [Tasks -> Nat] :
                 /\ [h EXCEPT !.consecutive = f] \in HealthMaps
                 /\ [h EXCEPT !.consecutive = f].restarts = h.restarts
                 /\ [h EXCEPT !.consecutive = f].consecutive = f
                 /\ [h EXCEPT !.consecutive = f].disabled = h.disabled
  BY DEF HealthMaps

(* What is known of a task and its maps. *)
LEMMA TaskKnown ==
    ASSUME ProbesInd, NEW t \in Tasks
    PROVE  /\ taskHealth \in HealthMaps /\ calls \in [Tasks -> Plans] /\ calls[t] \in Plans
           /\ taskHealth.running \in SUBSET Tasks /\ taskHealth.disabled \in SUBSET Disabled
           /\ taskHealth.restarts \in [Tasks -> Nat] /\ taskHealth.consecutive \in [Tasks -> Nat]
           /\ taskHealth.restarts[t] \in Nat /\ taskHealth.consecutive[t] \in Nat
           /\ MaxPanics \in Nat /\ PanicsCounted(t)
  BY ProbeConstants DEF ProbesInd, ProbeTypes, HealthMaps

(* MarkUp and MarkDown change what is running and the plan. *)
LEMMA RunningStep ==
    ASSUME ProbesInd, UNCHANGED <<reader, hist, recording>>,
           NEW t \in Tasks, NEW plan \in Plans, calls' = [calls EXCEPT ![t] = plan],
           NEW S \in SUBSET Tasks, taskHealth' = [taskHealth EXCEPT !.running = S],
           calls[t] = <<>> \/ calls[t] = <<"up">>,
           plan = <<"disabled">> => t \in Disabled,
           plan \in {Failing, Restarting} => taskHealth.restarts[t] < MaxPanics
    PROVE  ProbesInd'
<1>1. PICK h : h = [taskHealth EXCEPT !.running = S]
  OBVIOUS
<1>2. /\ h \in HealthMaps /\ taskHealth' = h /\ h.disabled = taskHealth.disabled
      /\ h.restarts = taskHealth.restarts /\ h.consecutive = taskHealth.consecutive
  BY <1>1, TaskKnown, MapsChanged
<1>3. calls'[t] = plan
  BY TaskKnown
<1>4. taskHealth.consecutive[t] <= taskHealth.restarts[t] /\ taskHealth.restarts[t] <= MaxPanics
  BY TaskKnown, PlansDiffer DEF PanicsCounted
<1>5. PanicsCounted(t)'
  BY <1>2, <1>3, <1>4 DEF PanicsCounted
<1>. QED
  BY <1>2, <1>5, PlanStep

(* MarkDisabled. *)
LEMMA DisabledStep == ASSUME ProbesInd, NEW t \in Tasks, MarkDisabled(t) PROVE ProbesInd'
<1>1. /\ calls[t] = <<"disabled">> /\ t \in Disabled /\ calls' = [calls EXCEPT ![t] = <<>>]
      /\ UNCHANGED <<reader, hist, recording>> /\ <<>> \in Plans
  BY TaskKnown, PlanHeads DEF MarkDisabled, Statement, PanicsCounted, Plans
<1>2. PICK S, h : /\ S = taskHealth.disabled \cup {t} /\ h = [taskHealth EXCEPT !.disabled = S]
  OBVIOUS
<1>3. /\ taskHealth' = h /\ h \in HealthMaps /\ h.disabled = S /\ taskHealth.disabled \subseteq S
      /\ h.restarts = taskHealth.restarts /\ h.consecutive = taskHealth.consecutive
  <2>1. taskHealth' = h
    BY <1>2, Zenon DEF MarkDisabled, Statement
  <2>2. S \in SUBSET Disabled /\ taskHealth.disabled \subseteq S
    BY <1>1, <1>2, TaskKnown
  <2>. QED
    BY <1>2, <2>1, <2>2, TaskKnown, MapsChanged
<1>4. taskHealth.consecutive[t] <= taskHealth.restarts[t] /\ taskHealth.restarts[t] <= MaxPanics
  BY <1>1, TaskKnown, PlansDiffer DEF PanicsCounted
<1>5. PanicsCounted(t)'
  <2>1. calls'[t] = <<>>
    BY <1>1, TaskKnown
  <2>. QED
    BY <1>3, <1>4, <2>1, PlansDiffer DEF PanicsCounted
<1>. QED
  BY <1>1, <1>3, <1>5, PlanStep

(* CountFailure: the streak runs ahead of the restarts by one. *)
LEMMA FailureStep == ASSUME ProbesInd, NEW t \in Tasks, CountFailure(t) PROVE ProbesInd'
<1>1. /\ calls[t] = Failing /\ calls' = [calls EXCEPT ![t] = Restarting]
      /\ UNCHANGED <<reader, hist, recording>> /\ Restarting \in Plans
  BY TaskKnown, PlanHeads DEF CountFailure, Statement, Plans
<1>2. PICK f, h : /\ f = [taskHealth.consecutive EXCEPT ![t] = @ + 1]
                  /\ h = [taskHealth EXCEPT !.consecutive = f]
  OBVIOUS
<1>3. /\ f \in [Tasks -> Nat] /\ f[t] = taskHealth.consecutive[t] + 1
      /\ \A e \in Tasks \ {t} : f[e] = taskHealth.consecutive[e]
  BY <1>2, TaskKnown
<1>4. taskHealth' = h
  BY <1>2, Zenon DEF CountFailure, Statement
<1>5. /\ h \in HealthMaps /\ h.disabled = taskHealth.disabled
      /\ h.restarts = taskHealth.restarts /\ h.consecutive = f
  BY <1>2, <1>3, TaskKnown, MapsChanged
<1>6. taskHealth.consecutive[t] <= taskHealth.restarts[t] /\ taskHealth.restarts[t] < MaxPanics
  BY <1>1, TaskKnown, PlansDiffer DEF PanicsCounted
<1>7. PanicsCounted(t)'
  <2>1. calls'[t] = Restarting
    BY <1>1, TaskKnown
  <2>2. f[t] <= taskHealth.restarts[t] + 1 /\ taskHealth.restarts[t] <= MaxPanics
    BY <1>3, <1>6, TaskKnown
  <2>. QED
    BY <1>4, <1>5, <1>6, <2>1, <2>2, PlansDiffer DEF PanicsCounted
<1>. QED
  BY <1>1, <1>3, <1>4, <1>5, <1>7, PlanStep

(* CountRestart: they are even again. *)
LEMMA RestartedStep == ASSUME ProbesInd, NEW t \in Tasks, CountRestart(t) PROVE ProbesInd'
<1>1. /\ calls[t] = Restarting /\ calls' = [calls EXCEPT ![t] = <<"up">>]
      /\ UNCHANGED <<reader, hist, recording>> /\ <<"up">> \in Plans
  BY TaskKnown, PlanHeads DEF CountRestart, Statement, Plans
<1>2. PICK f, h : /\ f = [taskHealth.restarts EXCEPT ![t] = @ + 1]
                  /\ h = [taskHealth EXCEPT !.restarts = f]
  OBVIOUS
<1>3. /\ f \in [Tasks -> Nat] /\ f[t] = taskHealth.restarts[t] + 1
      /\ \A e \in Tasks \ {t} : f[e] = taskHealth.restarts[e]
  BY <1>2, TaskKnown
<1>4. taskHealth' = h
  BY <1>2, Zenon DEF CountRestart, Statement
<1>5. /\ h \in HealthMaps /\ h.disabled = taskHealth.disabled
      /\ h.restarts = f /\ h.consecutive = taskHealth.consecutive
  BY <1>2, <1>3, TaskKnown, MapsChanged
<1>6. taskHealth.consecutive[t] <= taskHealth.restarts[t] + 1 /\ taskHealth.restarts[t] < MaxPanics
  BY <1>1, TaskKnown DEF PanicsCounted
<1>7. PanicsCounted(t)'
  <2>1. calls'[t] = <<"up">>
    BY <1>1, TaskKnown
  <2>2. taskHealth.consecutive[t] <= f[t] /\ f[t] <= MaxPanics
    BY <1>3, <1>6, TaskKnown
  <2>. QED
    BY <1>4, <1>5, <2>1, <2>2, PlansDiffer DEF PanicsCounted
<1>. QED
  BY <1>1, <1>3, <1>4, <1>5, <1>7, PlanStep

(* NoteStable: the streak is over. *)
LEMMA StableStep == ASSUME ProbesInd, NEW t \in Tasks, MarkStable(t) PROVE ProbesInd'
<1>1. /\ calls[t] = <<>> /\ calls' = [calls EXCEPT ![t] = <<>>]
      /\ UNCHANGED <<reader, hist, recording>> /\ <<>> \in Plans
  BY TaskKnown DEF MarkStable, Watched, Plans
<1>2. PICK f, h : /\ f = [taskHealth.consecutive EXCEPT ![t] = 0]
                  /\ h = [taskHealth EXCEPT !.consecutive = f]
  OBVIOUS
<1>3. /\ f \in [Tasks -> Nat] /\ f[t] = 0
      /\ \A e \in Tasks \ {t} : f[e] = taskHealth.consecutive[e]
  BY <1>2, TaskKnown
<1>4. taskHealth' = h
  BY <1>2, Zenon DEF MarkStable
<1>5. /\ h \in HealthMaps /\ h.disabled = taskHealth.disabled
      /\ h.restarts = taskHealth.restarts /\ h.consecutive = f
  BY <1>2, <1>3, TaskKnown, MapsChanged
<1>6. PanicsCounted(t)'
  <2>1. calls'[t] = <<>>
    BY <1>1, TaskKnown
  <2>2. f[t] <= taskHealth.restarts[t] /\ taskHealth.restarts[t] <= MaxPanics
    BY <1>3, TaskKnown DEF PanicsCounted
  <2>. QED
    BY <1>4, <1>5, <2>1, <2>2, PlansDiffer DEF PanicsCounted
<1>. QED
  BY <1>1, <1>3, <1>4, <1>5, <1>6, PlanStep

(* Every step of a supervisor. *)
LEMMA StatementStep == ASSUME ProbesInd, NEW t \in Tasks, Report(t) PROVE ProbesInd'
<1>1. /\ taskHealth.running \cup {t} \in SUBSET Tasks /\ taskHealth.running \ {t} \in SUBSET Tasks
      /\ {<<>>, Failing, Restarting, <<"disabled">>} \subseteq Plans
  BY TaskKnown DEF Plans
<1>2. CASE MarkUp(t)
  <2>1. /\ calls[t] = <<"up">> /\ calls' = [calls EXCEPT ![t] = <<>>]
        /\ UNCHANGED <<reader, hist, recording>>
        /\ taskHealth' = [taskHealth EXCEPT !.running = taskHealth.running \cup {t}]
    BY <1>2, TaskKnown, PlanHeads DEF MarkUp, Statement
  <2>. QED
    BY <1>1, <2>1, RunningStep, PlansDiffer
<1>3. ASSUME NEW plan \in Plans, MarkDown(t, plan), plan = <<"disabled">> => t \in Disabled,
             plan \in {Failing, Restarting} => taskHealth.restarts[t] < MaxPanics
      PROVE  ProbesInd'
  <2>1. /\ calls[t] = <<>> /\ calls' = [calls EXCEPT ![t] = plan]
        /\ UNCHANGED <<reader, hist, recording>>
        /\ taskHealth' = [taskHealth EXCEPT !.running = taskHealth.running \ {t}]
    BY <1>3 DEF MarkDown, Watched
  <2>. QED
    BY <1>1, <1>3, <2>1, RunningStep
<1>4. CASE MarkDown(t, Failing) /\ taskHealth.restarts[t] < MaxPanics
  BY <1>1, <1>3, <1>4, PlansDiffer
<1>5. CASE MarkDown(t, Restarting) /\ taskHealth.restarts[t] < MaxPanics
  BY <1>1, <1>3, <1>5, PlansDiffer
<1>6. CASE MarkDown(t, <<"disabled">>) /\ t \in Disabled
  BY <1>1, <1>3, <1>6, PlansDiffer
<1>7. CASE MarkDown(t, <<>>)
  BY <1>1, <1>3, <1>7, PlansDiffer
<1>8. \/ MarkDown(t, Failing) /\ taskHealth.restarts[t] < MaxPanics
      \/ MarkDown(t, Restarting) /\ taskHealth.restarts[t] < MaxPanics
      \/ MarkDown(t, <<"disabled">>) /\ t \in Disabled
      \/ MarkDown(t, <<>>) \/ MarkUp(t) \/ CountFailure(t) \/ CountRestart(t)
      \/ MarkDisabled(t) \/ MarkStable(t)
  BY DEF Report, Failing, Restarting
<1>. QED
  BY <1>2, <1>4, <1>5, <1>6, <1>7, <1>8, DisabledStep, FailureStep, RestartedStep, StableStep

-----------------------------------------------------------------------------
(* Steps of the deliveries. *)

(* A delivery that records races every request that is busy. *)
Races ==
    reader' = [r \in Readers |-> [reader[r] EXCEPT !.quiet = @ /\ ~Busy(r)]]

(* What the deliveries do to the histogram keeps what a request was told:  *)
(* one that is busy is no longer quiet.                                    *)
LEMMA LatencyStep ==
    ASSUME ProbesInd, Races, UNCHANGED <<taskHealth, calls>>,
           hist' \in [Slots -> Nat], recording' \in [Dispatches -> SUBSET Int],
           HistogramCounts'
    PROVE  ProbesInd'
<1>1. reader \in [Readers -> ReaderState]
  BY DEF ProbesInd, ProbeTypes
<1>2. ASSUME NEW r \in Readers
      PROVE  /\ reader'[r] \in ReaderState
             /\ reader'[r].handler = reader[r].handler /\ reader'[r].done = reader[r].done
             /\ reader'[r].taken = reader[r].taken /\ reader'[r].answer = reader[r].answer
             /\ reader'[r].quiet => reader[r].quiet /\ ~Busy(r)
  <2>1. PICK b \in BOOLEAN : b = (reader[r].quiet /\ ~Busy(r))
    OBVIOUS
  <2>2. reader'[r] = [reader[r] EXCEPT !.quiet = b]
    BY <2>1, Zenon DEF Races
  <2>3. reader[r] \in ReaderState
    BY <1>1
  <2>. QED
    BY <2>1, <2>2, <2>3 DEF ReaderState
<1>3. reader' \in [Readers -> ReaderState]
  <2>1. reader' = [r \in Readers |-> reader'[r]]
    BY DEF Races
  <2>. QED
    BY <1>2, <2>1
<1>4. ProbeTypes'
  BY <1>3 DEF ProbesInd, ProbeTypes
<1>5. Exclusive'
  <2>1. \A r \in Readers : Held(r)' = Held(r)
    BY <1>2, StaysInHandler
  <2>. QED
    BY <2>1 DEF ProbesInd, Exclusive
<1>6. \A t \in Tasks : PanicsCounted(t)'
  BY DEF ProbesInd, PanicsCounted
<1>7. ASSUME NEW r \in Readers PROVE InHandler(r)' /\ ToldOfTasks(r)' /\ ToldOfLatencies(r)'
  <2>1. InHandler(r)' /\ (Busy(r)' <=> Busy(r))
    BY <1>2, StaysInHandler DEF ProbesInd
  <2>2. ToldOfTasks(r)'
    <3>1. ToldOfTasks(r)
      BY DEF ProbesInd
    <3>2. Expected' = Expected
      BY DEF Expected
    <3>. QED
      BY <1>2, <3>1, <3>2 DEF ToldOfTasks
  <2>3. ToldOfLatencies(r)'
    <3>1. ToldOfLatencies(r)
      BY DEF ProbesInd
    <3>. QED
      BY <1>2, <2>1, <3>1 DEF ToldOfLatencies
  <2>. QED
    BY <2>1, <2>2, <2>3
<1>. QED
  BY <1>4, <1>5, <1>6, <1>7 DEF ProbesInd

(* What is counted is a part of the deliveries. *)
LEMMA CountedFinite ==
    ASSUME NEW latency, NEW i
    PROVE  /\ IsFiniteSet(CountedAt(latency, i))
           /\ Cardinality(CountedAt(latency, i)) \in 0 .. Cardinality(Dispatches)
<1>1. IsFiniteSet(Dispatches) /\ CountedAt(latency, i) \in SUBSET Dispatches
  BY ProbeConstants DEF CountedAt
<1>2. /\ IsFiniteSet(CountedAt(latency, i))
      /\ Cardinality(CountedAt(latency, i)) <= Cardinality(Dispatches)
  BY <1>1, FS_Subset
<1>. QED
  BY <1>1, <1>2, FS_CardinalityType

(* One atomic is bumped for a delivery it had not counted. *)
LEMMA Bumped ==
    ASSUME ProbesInd, NEW i \in Slots, hist' = [hist EXCEPT ![i] = @ + 1],
           NEW latency, NEW later, NEW d \in Dispatches, Counts(latency),
           \A e \in Dispatches : recording'[e] = Sending \/ recording'[e] \subseteq Bumps(later[e]),
           d \notin CountedAt(latency, i),
           CountedAt(later, i)' = CountedAt(latency, i) \cup {d},
           \A j \in Slots \ {i} : CountedAt(later, j)' = CountedAt(latency, j),
           later \in [Dispatches -> Nat]
    PROVE  hist' \in [Slots -> Nat] /\ HistogramCounts'
<1>1. hist \in [Slots -> Nat]
  BY DEF ProbesInd, ProbeTypes
<1>2. hist' \in [Slots -> Nat] /\ hist'[i] = hist[i] + 1 /\ \A j \in Slots \ {i} : hist'[j] = hist[j]
  BY <1>1
<1>3. Cardinality(CountedAt(latency, i) \cup {d}) = Cardinality(CountedAt(latency, i)) + 1
  BY CountedFinite, FS_AddElement
<1>4. ASSUME NEW j \in Slots PROVE hist'[j] = Cardinality(CountedAt(later, j)')
  <2>1. CASE j = i
    BY <1>2, <1>3, <2>1 DEF Counts
  <2>2. CASE j # i
    BY <1>2, <2>2 DEF Counts
  <2>. QED
    BY <2>1, <2>2
<1>5. Counts(later)'
  BY <1>4 DEF Counts, Bumps, Slots, Inf, Sending, CountedAt
<1>. QED
  BY <1>2, <1>5 DEF HistogramCounts

(* The buckets a latency falls into; the last is +Inf. *)
LEMMA BumpsSlots ==
    ASSUME NEW ms
    PROVE  /\ Bumps(ms) \subseteq Slots \ {0} /\ Bumps(ms) \subseteq Int /\ 0 \in Slots
           /\ Inf \in Bumps(ms) /\ Inf \in Slots
           /\ \A S \in SUBSET Bumps(ms) : S # Sending
<1>1. Inf \in Nat \ {0} /\ Slots = 0 .. Inf
  BY ProbeConstants
<1>2. Bumps(ms) \subseteq 1 .. Inf /\ Inf \in Bumps(ms)
  BY <1>1 DEF Bumps
<1>. QED
  BY <1>1, <1>2 DEF Sending

(* RecordLatency: the count is bumped, the buckets are yet to come. *)
LEMMA RecordLatencyStep ==
    ASSUME ProbesInd, NEW d \in Dispatches, RecordLatency(d) PROVE ProbesInd'
<1>1. /\ recording[d] = Sending /\ hist' = [hist EXCEPT ![0] = @ + 1] /\ Races
      /\ UNCHANGED <<taskHealth, calls>>
  BY DEF RecordLatency, Races
<1>2. PICK ms \in Nat : recording' = [recording EXCEPT ![d] = Bumps(ms)]
  BY ProbeConstants DEF RecordLatency
<1>3. PICK latency \in [Dispatches -> Nat] : Counts(latency)
  BY DEF ProbesInd, HistogramCounts
<1>4. PICK later \in [Dispatches -> Nat] :
         later[d] = ms /\ \A e \in Dispatches \ {d} : later[e] = latency[e]
  <2>1. /\ [latency EXCEPT ![d] = ms] \in [Dispatches -> Nat]
        /\ [latency EXCEPT ![d] = ms][d] = ms
        /\ \A e \in Dispatches \ {d} : [latency EXCEPT ![d] = ms][e] = latency[e]
    OBVIOUS
  <2>. QED
    BY <2>1
<1>5. /\ recording' \in [Dispatches -> SUBSET Int] /\ recording'[d] = Bumps(ms)
      /\ \A e \in Dispatches \ {d} : recording'[e] = recording[e]
  BY <1>2, BumpsSlots DEF ProbesInd, ProbeTypes
<1>6. recording'[d] # Sending /\ 0 \in Slots
  BY <1>5, BumpsSlots
<1>7. \A e \in Dispatches : recording'[e] = Sending \/ recording'[e] \subseteq Bumps(later[e])
  BY <1>3, <1>4, <1>5 DEF Counts
<1>8. \A j : CountedAt(later, j)' = {e \in Dispatches :
                 /\ recording'[e] # Sending
                 /\ j = 0 \/ j \in Bumps(later[e]) \ recording'[e]}
  BY DEF CountedAt, Sending, Bumps, Inf
<1>9. d \notin CountedAt(latency, 0) /\ CountedAt(later, 0)' = CountedAt(latency, 0) \cup {d}
  BY <1>1, <1>5, <1>6, <1>8 DEF CountedAt
<1>10. ASSUME NEW j \in Slots \ {0} PROVE CountedAt(later, j)' = CountedAt(latency, j)
  BY <1>1, <1>4, <1>5, <1>8 DEF CountedAt
<1>11. hist' \in [Slots -> Nat] /\ HistogramCounts'
  BY <1>1, <1>3, <1>6, <1>7, <1>9, <1>10, Bumped
<1>. QED
  BY <1>1, <1>5, <1>11, LatencyStep

(* Bump: one more bucket has counted the delivery. *)
LEMMA BumpStep ==
    ASSUME ProbesInd, NEW d \in Dispatches, Bump(d) PROVE ProbesInd'
<1>1. Races /\ UNCHANGED <<taskHealth, calls>> /\ Recording(d)
  BY DEF Bump, Races
<1>2. PICK i \in recording[d] : /\ hist' = [hist EXCEPT ![i] = @ + 1]
                                /\ recording' = [recording EXCEPT ![d] = @ \ {i}]
  BY DEF Bump
<1>3. PICK latency \in [Dispatches -> Nat] : Counts(latency)
  BY DEF ProbesInd, HistogramCounts
<1>4. recording[d] # Sending /\ recording[d] \subseteq Bumps(latency[d])
  BY <1>1, <1>3 DEF Counts, Recording
<1>5. /\ recording' \in [Dispatches -> SUBSET Int] /\ recording'[d] = recording[d] \ {i}
      /\ \A e \in Dispatches \ {d} : recording'[e] = recording[e]
  BY <1>2 DEF ProbesInd, ProbeTypes
<1>6. recording'[d] # Sending /\ i \in Slots /\ i # 0
  BY <1>2, <1>4, <1>5, BumpsSlots
<1>7. \A e \in Dispatches : recording'[e] = Sending \/ recording'[e] \subseteq Bumps(latency[e])
  BY <1>3, <1>4, <1>5 DEF Counts
<1>8. \A j : CountedAt(latency, j)' = {e \in Dispatches :
                 /\ recording'[e] # Sending
                 /\ j = 0 \/ j \in Bumps(latency[e]) \ recording'[e]}
  BY DEF CountedAt, Sending, Bumps, Inf
<1>9. d \notin CountedAt(latency, i) /\ CountedAt(latency, i)' = CountedAt(latency, i) \cup {d}
  BY <1>4, <1>5, <1>6, <1>8 DEF CountedAt
<1>10. ASSUME NEW j \in Slots \ {i} PROVE CountedAt(latency, j)' = CountedAt(latency, j)
  BY <1>4, <1>5, <1>6, <1>8 DEF CountedAt
<1>11. hist' \in [Slots -> Nat] /\ HistogramCounts'
  BY <1>2, <1>3, <1>6, <1>7, <1>9, <1>10, Bumped
<1>. QED
  BY <1>1, <1>5, <1>11, LatencyStep

(* While no delivery records, the histogram is cumulative. *)
LEMMA QuietIsCumulative ==
    ASSUME ProbesInd, \A d \in Dispatches : ~Recording(d)
    PROVE  /\ \A i, j \in 1 .. Inf : i < j => hist[i] <= hist[j]
           /\ hist[0] = hist[Inf]
<1>1. PICK latency \in [Dispatches -> Nat] : Counts(latency)
  BY DEF ProbesInd, HistogramCounts
<1>2. Inf \in Nat \ {0} /\ Slots = 0 .. Inf
  BY ProbeConstants
<1>3. ASSUME NEW i \in 1 .. Inf, NEW j \in 1 .. Inf, i < j PROVE hist[i] <= hist[j]
  <2>1. ASSUME NEW d \in CountedAt(latency, i) PROVE d \in CountedAt(latency, j)
    <3>1. d \in Dispatches /\ recording[d] = {} /\ recording[d] # Sending /\ i \in Bumps(latency[d])
      BY <2>1, <1>2 DEF CountedAt, Recording
    <3>2. latency[d] \in Nat /\ latency[d] <= Bounds[i] /\ Bounds[i] \in Nat
      BY <1>2, <1>3, <3>1, ProbeConstants DEF Bumps
    <3>3. j \in Bumps(latency[d])
      <4>1. CASE j = Inf
        BY <4>1 DEF Bumps
      <4>2. CASE j # Inf
        <5>1. Bounds[i] <= Bounds[j] /\ Bounds[j] \in Nat
          BY <1>3, <4>2, ProbeConstants
        <5>. QED
          BY <3>2, <5>1 DEF Bumps
      <4>. QED
        BY <4>1, <4>2
    <3>. QED
      BY <3>1, <3>3 DEF CountedAt
  <2>2. CountedAt(latency, i) \in SUBSET CountedAt(latency, j)
    BY <2>1
  <2>3. Cardinality(CountedAt(latency, i)) <= Cardinality(CountedAt(latency, j))
    BY <2>2, CountedFinite, FS_Subset
  <2>. QED
    BY <1>1, <1>2, <2>3 DEF Counts
<1>4. hist[0] = hist[Inf]
  <2>1. CountedAt(latency, 0) = CountedAt(latency, Inf)
    <3>1. ASSUME NEW d \in Dispatches, recording[d] # Sending
          PROVE  Inf \in Bumps(latency[d]) \ recording[d]
      BY <3>1, BumpsSlots DEF Recording
    <3>. QED
      BY <3>1 DEF CountedAt
  <2>2. 0 \in Slots /\ Inf \in Slots
    BY <1>2
  <2>. QED
    BY <1>1, <2>1, <2>2 DEF Counts
<1>. QED
  BY <1>3, <1>4

(* No atomic exceeds the number of deliveries. *)
LEMMA HistBounded ==
    ASSUME ProbesInd, NEW i \in Slots
    PROVE  hist[i] \in 0 .. Cardinality(Dispatches)
<1>1. PICK latency \in [Dispatches -> Nat] : Counts(latency)
  BY DEF ProbesInd, HistogramCounts
<1>. QED
  BY <1>1, CountedFinite DEF Counts

-----------------------------------------------------------------------------
(* Steps of the requests. *)

(* A step of one request. *)
LEMMA RequestMoves ==
    ASSUME ProbesInd, UNCHANGED <<taskHealth, calls, hist, recording>>,
           NEW r \in Readers, NEW new \in ReaderState, reader' = [reader EXCEPT ![r] = new],
           InHandler(r)', ToldOfTasks(r)', ToldOfLatencies(r)',
           \A q \in Readers \ {r} : Held(r)' \cap Held(q) = {}
    PROVE  ProbesInd'
<1>1. /\ reader' \in [Readers -> ReaderState]
      /\ \A q \in Readers \ {r} : reader'[q] = reader[q]
  BY DEF ProbesInd, ProbeTypes
<1>2. ProbeTypes' /\ HistogramCounts' /\ \A t \in Tasks : PanicsCounted(t)'
  <2>1. ProbeTypes'
    BY <1>1 DEF ProbesInd, ProbeTypes
  <2>2. HistogramCounts'
    BY DEF ProbesInd, HistogramCounts, Counts, CountedAt
  <2>3. \A t \in Tasks : PanicsCounted(t)'
    BY DEF ProbesInd, PanicsCounted
  <2>. QED
    BY <2>1, <2>2, <2>3
<1>3. ASSUME NEW q \in Readers \ {r}
      PROVE  InHandler(q)' /\ ToldOfTasks(q)' /\ ToldOfLatencies(q)' /\ Held(q)' = Held(q)
  <2>1. /\ InHandler(q)' /\ (Busy(q)' <=> Busy(q)) /\ Held(q)' = Held(q)
    BY <1>1, StaysInHandler DEF ProbesInd
  <2>2. ToldOfTasks(q)'
    <3>1. ToldOfTasks(q) /\ reader'[q] = reader[q] /\ Expected' = Expected
      BY <1>1 DEF ProbesInd, Expected
    <3>. QED
      BY <3>1 DEF ToldOfTasks
  <2>3. ToldOfLatencies(q)'
    <3>1. ToldOfLatencies(q) /\ reader'[q] = reader[q]
      BY <1>1 DEF ProbesInd
    <3>2. \A d \in Dispatches : Recording(d)' <=> Recording(d)
      BY DEF Recording
    <3>. QED
      BY <2>1, <3>1, <3>2 DEF ToldOfLatencies
  <2>. QED
    BY <2>1, <2>2, <2>3
<1>4. Exclusive'
  <2>. SUFFICES ASSUME NEW p \in Readers, NEW q \in Readers, p # q
                PROVE  Held(p)' \cap Held(q)' = {}
    BY DEF Exclusive
  <2>1. CASE p = r
    BY <1>3, <2>1
  <2>2. CASE q = r
    BY <1>3, <2>2
  <2>3. CASE p # r /\ q # r
    BY <1>3, <2>3 DEF ProbesInd, Exclusive
  <2>. QED
    BY <2>1, <2>2, <2>3
<1>. QED
  BY <1>2, <1>3, <1>4 DEF ProbesInd

(* Request: nothing is held and nothing was said. *)
LEMMA RequestStep ==
    ASSUME ProbesInd, NEW r \in Readers, NEW h \in {"health", "metrics"},
           Request(r, h)
    PROVE  ProbesInd'
<1>1. PICK quiet \in BOOLEAN : quiet = \A d \in Dispatches : ~Recording(d)
  OBVIOUS
<1>2. PICK new : new = Reader(h, quiet)
  OBVIOUS
<1>3. /\ new \in ReaderState /\ new.handler = h /\ new.done = 0 /\ new.taken = 0
      /\ new.quiet = quiet /\ new.answer.count = 0 /\ new.answer.bucket = <<>>
  <2>1. NoAnswer \in Answers /\ NoAnswer.count = 0 /\ NoAnswer.bucket = <<>>
    BY DEF NoAnswer, Answers
  <2>. QED
    BY <1>1, <1>2, <2>1 DEF Reader, ReaderState
<1>4. reader' = [reader EXCEPT ![r] = new] /\ UNCHANGED <<taskHealth, calls, hist, recording>>
  BY <1>1, <1>2, Zenon DEF Request
<1>5. reader'[r] = new
  BY <1>4 DEF ProbesInd, ProbeTypes
<1>6. Held(r)' = {}
  BY <1>3, <1>5 DEF Held
<1>7. InHandler(r)'
  <2>1. Len(CallsOf(h)) \in Nat
    BY Render DEF CallsOf, HealthCalls
  <2>2. ASSUME Busy(r)' PROVE Len(LocksOf(Call(r)')) \in Nat
    <3>1. Call(r)' = CallsOf(h)[0 + 1] /\ 0 < Len(CallsOf(h))
      BY <1>3, <1>5, <2>2 DEF Busy, Call
    <3>. QED
      BY <3>1, TheCalls, LocksAscend
  <2>. QED
    BY <1>3, <1>5, <2>1, <2>2 DEF InHandler
<1>8. Inf \in Nat \ {0} /\ Cardinality(Dispatches) \in Nat
  BY ProbeConstants
<1>9. ToldOfTasks(r)'
  BY <1>3, <1>5, <1>8 DEF ToldOfTasks
<1>10. ToldOfLatencies(r)'
  <2>1. quiet => \A d \in Dispatches : ~Recording(d)'
    BY <1>1, <1>4 DEF Recording
  <2>. QED
    BY <1>3, <1>5, <1>8, <2>1 DEF ToldOfLatencies
<1>. QED
  BY <1>3, <1>4, <1>6, <1>7, <1>9, <1>10, RequestMoves

(* Lock: one more mutex, which nobody held. *)
LEMMA LockStep ==
    ASSUME ProbesInd, NEW r \in Readers, Lock(r) PROVE ProbesInd'
<1>1. PICK lock \in Wanted(r) : Free(lock)
  BY DEF Lock
<1>2. /\ Busy(r) /\ InHandler(r) /\ ProbeTypes /\ reader[r] \in ReaderState
      /\ UNCHANGED <<taskHealth, calls, hist, recording>>
  BY DEF Lock, ProbesInd, ProbeTypes
<1>3. PICK n \in Nat : n = reader[r].taken
  BY <1>2 DEF ReaderState
<1>4. PICK new : new = [reader[r] EXCEPT !.taken = n + 1]
  OBVIOUS
<1>5. /\ new \in ReaderState /\ new.taken = n + 1 /\ new.handler = reader[r].handler
      /\ new.done = reader[r].done /\ new.answer = reader[r].answer /\ new.quiet = reader[r].quiet
  BY <1>2, <1>4 DEF ReaderState
<1>6. reader' = [reader EXCEPT ![r] = new]
  BY <1>3, <1>4, Zenon DEF Lock
<1>7. reader'[r] = new
  BY <1>6 DEF ProbesInd, ProbeTypes
<1>8. Busy(r)' /\ Call(r)' = Call(r)
  BY <1>2, <1>5, <1>7 DEF Busy, Call
<1>9. /\ n < Len(LocksOf(Call(r))) /\ lock = LocksOf(Call(r))[n + 1]
      /\ Held(r) = {LocksOf(Call(r))[i] : i \in 1 .. n}
      /\ Len(LocksOf(Call(r))) \in Nat
  <2>1. /\ Call(r) \in AllCalls /\ Held(r) = {LocksOf(Call(r))[i] : i \in 1 .. n}
        /\ Wanted(r) = IF n < Len(LocksOf(Call(r))) THEN {LocksOf(Call(r))[n + 1]} ELSE {}
    BY <1>2, <1>3, Holding
  <2>2. Len(LocksOf(Call(r))) \in Nat
    BY <2>1, LocksAscend
  <2>. QED
    BY <1>1, <2>1, <2>2
<1>10. Held(r)' \subseteq Held(r) \cup {lock}
  <2>1. Held(r)' = {LocksOf(Call(r))[i] : i \in 1 .. n + 1}
    BY <1>5, <1>7, <1>8 DEF Held
  <2>2. \A i \in 1 .. n + 1 : i \in 1 .. n \/ i = n + 1
    OBVIOUS
  <2>. QED
    BY <1>9, <2>1, <2>2
<1>11. \A q \in Readers \ {r} : Held(r)' \cap Held(q) = {}
  BY <1>1, <1>10 DEF ProbesInd, Exclusive, Free
<1>12. InHandler(r)'
  BY <1>2, <1>5, <1>7, <1>8, <1>9 DEF InHandler
<1>13. ToldOfTasks(r)'
  <2>1. ToldOfTasks(r) /\ Expected' = Expected
    BY <1>2 DEF ProbesInd, Expected
  <2>. QED
    BY <1>2, <1>5, <1>7, <2>1 DEF ToldOfTasks
<1>14. ToldOfLatencies(r)'
  <2>1. ToldOfLatencies(r) /\ \A d \in Dispatches : Recording(d)' <=> Recording(d)
    BY <1>2 DEF ProbesInd, Recording
  <2>. QED
    BY <1>2, <1>5, <1>7, <2>1 DEF ToldOfLatencies
<1>. QED
  BY <1>2, <1>5, <1>6, <1>11, <1>12, <1>13, <1>14, RequestMoves

(* What a call adds to an answer. *)
Grew(call, a, b) ==
    /\ b \in Answers
    /\ b.expected = IF call = "expected" THEN Cardinality(Expected) ELSE a.expected
    /\ b.live = IF call = "live" THEN Cardinality(Live) ELSE a.live
    /\ b.snapshot = IF call = "snapshot" THEN Cardinality(Required \cap taskHealth.disabled)
                    ELSE a.snapshot
    /\ b.count = IF call = "count" THEN hist[0] ELSE a.count
    /\ b.bucket = IF call = "bucket" THEN Append(a.bucket, hist[Len(a.bucket) + 1])
                  ELSE a.bucket

(* An answer grows by what the call finds. *)
LEMMA AnswerGrows ==
    ASSUME ProbeTypes, NEW call \in AllCalls, NEW a \in Answers,
           call = "bucket" => Len(a.bucket) < Inf
    PROVE  Grew(call, a, Answer(call, a))
<1>. SUFFICES ASSUME NEW b, b = Answer(call, a) PROVE Grew(call, a, b)
  BY Zenon
<1>. USE DEF Grew
<1>1. PICK v : v = Result(call, a)
  OBVIOUS
<1>2. b = [a EXCEPT ![Field(call)] = v]
  BY <1>1 DEF Answer
<1>3. CASE call \in {"dead", "looping"}
  <2>1. v \in BOOLEAN /\ Field(call) = "ok"
    <3>1. CASE call = "dead"
      <4>1. v = (a.ok /\ Dead = {})
        BY <1>1, <3>1 DEF Result
      <4>. QED
        BY <3>1, <4>1 DEF Field
    <3>2. CASE call = "looping"
      <4>1. v = (a.ok /\ Looping = {})
        BY <1>1, <3>2 DEF Result
      <4>. QED
        BY <3>2, <4>1 DEF Field
    <3>. QED
      BY <1>3, <3>1, <3>2
  <2>. QED
    BY <1>2, <1>3, <2>1 DEF Answers
<1>4. CASE call = "expected"
  <2>1. v = Cardinality(Expected) /\ v \in Nat /\ Field(call) = "expected"
    BY <1>1, <1>4, TasksAddUp DEF Result, Field
  <2>. QED
    BY <1>2, <1>4, <2>1 DEF Answers
<1>5. CASE call = "live"
  <2>1. v = Cardinality(Live) /\ v \in Nat /\ Field(call) = "live"
    BY <1>1, <1>5, TasksAddUp DEF Result, Field
  <2>. QED
    BY <1>2, <1>5, <2>1 DEF Answers
<1>6. CASE call = "snapshot"
  <2>1. /\ v = Cardinality(Required \cap taskHealth.disabled) /\ v \in Nat
        /\ Field(call) = "snapshot"
    BY <1>1, <1>6, TasksAddUp DEF Result, Field
  <2>. QED
    BY <1>2, <1>6, <2>1 DEF Answers
<1>7. CASE call = "count"
  <2>1. 0 \in Slots
    BY ProbeConstants
  <2>2. v = hist[0] /\ v \in Nat /\ Field(call) = "count"
    BY <1>1, <1>7, <2>1 DEF Result, Field, ProbeTypes
  <2>. QED
    BY <1>2, <1>7, <2>2 DEF Answers
<1>8. CASE call = "bucket"
  <2>1. a.bucket \in Seq(Nat) /\ Len(a.bucket) + 1 \in Slots
    BY <1>8, ProbeConstants DEF Answers
  <2>2. hist[Len(a.bucket) + 1] \in Nat
    BY <2>1 DEF ProbeTypes
  <2>3. v = Append(a.bucket, hist[Len(a.bucket) + 1]) /\ Field(call) = "bucket"
    BY <1>1, <1>8 DEF Result, Field
  <2>4. v \in Seq(Nat)
    BY <2>1, <2>2, <2>3
  <2>. QED
    BY <1>2, <1>8, <2>3, <2>4 DEF Answers
<1>. QED
  BY <1>3, <1>4, <1>5, <1>6, <1>7, <1>8 DEF AllCalls

(* The call that follows the first n calls of a handler. *)
LEMMA NextCall ==
    ASSUME NEW n \in Nat
    PROVE  /\ n < Len(CallsOf("health")) =>
                 /\ n < 5 /\ (n = 2 <=> CallsOf("health")[n + 1] = "expected")
                 /\ (n = 3 <=> CallsOf("health")[n + 1] = "live")
                 /\ (n = 4 <=> CallsOf("health")[n + 1] = "snapshot")
                 /\ CallsOf("health")[n + 1] \notin {"count", "bucket"}
           /\ n < Len(CallsOf("metrics")) =>
                 /\ n < Inf + 4 /\ (n < Inf <=> CallsOf("metrics")[n + 1] = "bucket")
                 /\ (n = Inf <=> CallsOf("metrics")[n + 1] = "count")
                 /\ (n = Inf + 1 <=> CallsOf("metrics")[n + 1] = "snapshot")
                 /\ (n = Inf + 2 <=> CallsOf("metrics")[n + 1] = "expected")
                 /\ (n = Inf + 3 <=> CallsOf("metrics")[n + 1] = "live")
<1>1. ASSUME n < Len(CallsOf("health"))
      PROVE  /\ n < 5 /\ (n = 2 <=> CallsOf("health")[n + 1] = "expected")
             /\ (n = 3 <=> CallsOf("health")[n + 1] = "live")
             /\ (n = 4 <=> CallsOf("health")[n + 1] = "snapshot")
             /\ CallsOf("health")[n + 1] \notin {"count", "bucket"}
  <2>1. CallsOf("health") = <<"dead", "looping", "expected", "live", "snapshot">>
    BY DEF CallsOf, HealthCalls
  <2>2. Len(CallsOf("health")) = 5
    BY <2>1
  <2>3. n < 5
    BY <1>1, <2>2, Zenon
  <2>4. n \in 0 .. 4
    BY <2>3
  <2>. QED
    BY <2>1, <2>4
<1>2. ASSUME n < Len(CallsOf("metrics"))
      PROVE  /\ n < Inf + 4 /\ (n < Inf <=> CallsOf("metrics")[n + 1] = "bucket")
             /\ (n = Inf <=> CallsOf("metrics")[n + 1] = "count")
             /\ (n = Inf + 1 <=> CallsOf("metrics")[n + 1] = "snapshot")
             /\ (n = Inf + 2 <=> CallsOf("metrics")[n + 1] = "expected")
             /\ (n = Inf + 3 <=> CallsOf("metrics")[n + 1] = "live")
  <2>1. PICK m \in Nat \ {0} : m = Inf
    BY Render
  <2>2. PICK s : /\ s = CallsOf("metrics") /\ Len(s) = m + 4
                 /\ \A i \in 1 .. m : s[i] = "bucket"
                 /\ s[m + 1] = "count" /\ s[m + 2] = "snapshot"
                 /\ s[m + 3] = "expected" /\ s[m + 4] = "live"
    BY <2>1, Render DEF CallsOf
  <2>3. n < m => s[n + 1] = "bucket"
    BY <2>1, <2>2
  <2>4. n < m \/ n \in {m, m + 1, m + 2, m + 3}
    BY <1>2, <2>1, <2>2
  <2>5. /\ n < m + 4 /\ (n < m <=> s[n + 1] = "bucket") /\ (n = m <=> s[n + 1] = "count")
        /\ (n = m + 1 <=> s[n + 1] = "snapshot") /\ (n = m + 2 <=> s[n + 1] = "expected")
        /\ (n = m + 3 <=> s[n + 1] = "live")
    BY <2>1, <2>2, <2>3, <2>4
  <2>. QED
    BY <2>1, <2>2, <2>5
<1>. QED
  BY <1>1, <1>2

(* Finish: the answer has grown by what the call found, and no mutex is    *)
(* held.                                                                   *)
LEMMA FinishStep ==
    ASSUME ProbesInd, NEW r \in Readers, Finish(r) PROVE ProbesInd'
<1>1. /\ Busy(r) /\ InHandler(r) /\ ProbeTypes /\ reader[r] \in ReaderState
      /\ UNCHANGED <<taskHealth, calls, hist, recording>>
      /\ ToldOfTasks(r) /\ ToldOfLatencies(r)
  BY DEF Finish, ProbesInd, ProbeTypes
<1>2. PICK n \in Nat, h \in {"none", "health", "metrics"}, a \in Answers, quiet \in BOOLEAN :
         n = reader[r].done /\ h = reader[r].handler /\ a = reader[r].answer /\ quiet = reader[r].quiet
  BY <1>1 DEF ReaderState
<1>3. PICK call \in AllCalls : call = Call(r)
  BY <1>1, Holding
<1>4. n < Len(CallsOf(h)) /\ call = CallsOf(h)[n + 1]
  BY <1>1, <1>2, <1>3 DEF Busy, Call
<1>5. PICK b, new : /\ b = Answer(call, a)
                    /\ new = [reader[r] EXCEPT !.done = n + 1, !.taken = 0, !.answer = b]
  OBVIOUS
<1>6. h \in {"health", "metrics"}
  BY <1>2, <1>4 DEF CallsOf
<1>7. Inf \in Nat \ {0} /\ Slots = 0 .. Inf /\ Cardinality(Dispatches) \in Nat
  BY ProbeConstants
<1>8. call = "bucket" => h = "metrics" /\ n < Inf /\ Len(a.bucket) = n
  <2>. SUFFICES ASSUME call = "bucket" PROVE h = "metrics" /\ n < Inf /\ Len(a.bucket) = n
    OBVIOUS
  <2>1. h = "metrics"
    BY <1>4, <1>6, NextCall
  <2>2. n < Inf
    BY <1>4, <2>1, NextCall
  <2>. QED
    BY <1>1, <1>2, <1>7, <2>1, <2>2 DEF ToldOfLatencies
<1>9. Grew(call, a, b)
  <2>1. call = "bucket" => Len(a.bucket) < Inf
    BY <1>7, <1>8
  <2>2. b = Answer(call, a)
    BY <1>5
  <2>. QED
    BY <1>1, <2>1, <2>2, AnswerGrows, Zenon
<1>10. /\ new \in ReaderState /\ new.handler = h /\ new.done = n + 1 /\ new.taken = 0
       /\ new.answer = b /\ new.quiet = quiet
  <2>1. b \in Answers
    BY <1>9 DEF Grew
  <2>2. new = [reader[r] EXCEPT !.done = n + 1, !.taken = 0, !.answer = b]
    BY <1>5
  <2>3. PICK old \in ReaderState, k \in Nat : old = reader[r] /\ k = n + 1
    BY <1>1
  <2>4. new = [old EXCEPT !.done = k, !.taken = 0, !.answer = b]
    BY <2>2, <2>3, Zenon
  <2>5. /\ new \in ReaderState /\ new.handler = old.handler /\ new.done = k /\ new.taken = 0
        /\ new.answer = b /\ new.quiet = old.quiet
    BY <2>1, <2>4 DEF ReaderState
  <2>. QED
    BY <1>2, <2>3, <2>5, Zenon
<1>11. reader' = [reader EXCEPT ![r] = new]
  BY <1>2, <1>3, <1>5, Zenon DEF Finish
<1>12. reader'[r] = new
  BY <1>11 DEF ProbesInd, ProbeTypes
<1>13. Held(r)' = {}
  BY <1>10, <1>12 DEF Held
<1>14. InHandler(r)'
  <2>1. Len(CallsOf(h)) \in Nat
    BY Render DEF CallsOf, HealthCalls
  <2>2. ASSUME Busy(r)' PROVE Len(LocksOf(Call(r)')) \in Nat
    <3>1. Call(r)' = CallsOf(h)[(n + 1) + 1] /\ n + 1 < Len(CallsOf(h))
      BY <1>10, <1>12, <2>2 DEF Busy, Call
    <3>. QED
      BY <3>1, TheCalls, LocksAscend
  <2>. QED
    BY <1>4, <1>10, <1>12, <2>1, <2>2 DEF InHandler
<1>15. ToldOfTasks(r)'
  <2>1. Expected' = Expected /\ taskHealth' = taskHealth
    BY <1>1 DEF Expected
  <2>2. PICK e \in Nat, l \in Nat, o \in Nat, all \in Nat :
           /\ e = Cardinality(Expected) /\ l = Cardinality(Live)
           /\ o = Cardinality(Required \cap taskHealth.disabled)
           /\ all = Cardinality(Required) /\ l <= e /\ e + o = all
    BY TasksAddUp, ProbeConstants
  <2>3. a.expected \in Nat /\ a.live \in Nat /\ a.snapshot \in Nat
    BY DEF Answers
  <2>4. /\ b.expected = IF call = "expected" THEN e ELSE a.expected
        /\ b.live = IF call = "live" THEN l ELSE a.live
        /\ b.snapshot = IF call = "snapshot" THEN o ELSE a.snapshot
    BY <1>9, <2>2 DEF Grew
  <2>5. CASE h = "health"
    <3>1. /\ n < 5 /\ (n = 2 <=> call = "expected") /\ (n = 3 <=> call = "live")
          /\ (n = 4 <=> call = "snapshot")
      BY <1>4, <2>5, NextCall
    <3>2. /\ n >= 3 => e <= a.expected
          /\ n >= 4 => a.live <= a.expected
      BY <1>1, <1>2, <2>2, <2>5 DEF ToldOfTasks
    <3>3. /\ n + 1 >= 3 => e <= b.expected
          /\ n + 1 >= 4 => b.live <= b.expected
          /\ n + 1 >= 5 => all <= b.snapshot + b.expected
      BY <2>2, <2>3, <2>4, <3>1, <3>2
    <3>. QED
      BY <1>10, <1>12, <2>1, <2>2, <2>5, <3>3 DEF ToldOfTasks
  <2>6. CASE h = "metrics"
    <3>1. PICK m \in Nat : m = Inf
      BY <1>7
    <3>2. /\ n < m + 4 /\ (n = m + 1 <=> call = "snapshot")
          /\ (n = m + 2 <=> call = "expected") /\ (n = m + 3 <=> call = "live")
      BY <1>4, <2>6, <3>1, NextCall
    <3>3. /\ n >= m + 2 => a.snapshot <= o
          /\ n >= m + 3 => a.snapshot + a.expected <= all /\ e <= a.expected
      BY <1>1, <1>2, <2>2, <2>6, <3>1 DEF ToldOfTasks
    <3>4. /\ n + 1 >= m + 2 => b.snapshot <= o
          /\ n + 1 >= m + 3 => b.snapshot + b.expected <= all /\ e <= b.expected
          /\ n + 1 >= m + 4 => b.live <= b.expected
      <4>1. CASE n = m + 1
        BY <2>2, <2>3, <2>4, <3>1, <3>2, <3>3, <4>1
      <4>2. CASE n = m + 2
        BY <2>2, <2>3, <2>4, <3>1, <3>2, <3>3, <4>2
      <4>3. CASE n = m + 3
        BY <2>2, <2>3, <2>4, <3>1, <3>2, <3>3, <4>3
      <4>4. CASE n < m + 1
        BY <3>1, <4>4
      <4>5. n < m + 1 \/ n \in {m + 1, m + 2, m + 3}
        BY <3>1, <3>2
      <4>. QED
        BY <4>1, <4>2, <4>3, <4>4, <4>5
    <3>5. Inf' = m
      BY <3>1 DEF Inf
    <3>. QED
      BY <1>10, <1>12, <2>1, <2>2, <2>6, <3>4, <3>5 DEF ToldOfTasks
  <2>. QED
    BY <1>6, <2>5, <2>6
<1>16. ToldOfLatencies(r)'
  <2>1. CASE h = "health"
    <3>1. b.bucket = a.bucket /\ Len(a.bucket) = 0
      BY <1>1, <1>2, <1>8, <1>9, <2>1 DEF ToldOfLatencies, Grew
    <3>. QED
      BY <1>10, <1>12, <2>1, <3>1 DEF ToldOfLatencies
  <2>2. CASE h = "metrics"
    <3>1. PICK m \in Nat \ {0}, most \in Nat : m = Inf /\ most = Cardinality(Dispatches)
      BY <1>7
    <3>2. /\ Len(a.bucket) = IF n <= m THEN n ELSE m
          /\ \A i \in 1 .. Len(a.bucket) : a.bucket[i] \in 0 .. most
          /\ a.count \in 0 .. most
          /\ quiet => /\ \A i, j \in 1 .. Len(a.bucket) : i < j => a.bucket[i] <= a.bucket[j]
                      /\ n > m => a.count = a.bucket[m]
                      /\ \A d \in Dispatches : ~Recording(d)
                      /\ \A i \in 1 .. Len(a.bucket) : a.bucket[i] = hist[i]
      BY <1>1, <1>2, <2>2, <3>1 DEF ToldOfLatencies
    <3>3. /\ n < m + 4 /\ (n < m <=> call = "bucket") /\ (n = m <=> call = "count")
      BY <1>4, <2>2, <3>1, NextCall
    <3>4. \A i \in 0 .. m : hist[i] \in 0 .. most
      BY <1>7, <3>1, HistBounded
    <3>5. quiet => /\ \A i, j \in 1 .. m : i < j => hist[i] <= hist[j]
                   /\ hist[0] = hist[m]
      BY <3>1, <3>2, QuietIsCumulative
    <3>6. PICK len \in Nat : len = IF n + 1 <= m THEN n + 1 ELSE m
      BY <3>1
    <3>7. /\ Len(b.bucket) = len /\ len \in 0 .. m
          /\ \A i \in 1 .. len : b.bucket[i] = a.bucket[i] \/ b.bucket[i] = hist[i]
          /\ \A i \in 1 .. len : b.bucket[i] \in 0 .. most
          /\ quiet => \A i \in 1 .. len : b.bucket[i] = hist[i]
      <4>1. CASE n < m
        <5>1. b.bucket = Append(a.bucket, hist[n + 1]) /\ Len(a.bucket) = n /\ len = n + 1
          BY <1>9, <3>2, <3>3, <3>6, <4>1 DEF Grew
        <5>2. a.bucket \in Seq(Nat) /\ n + 1 \in 0 .. m
          BY <4>1, <3>1 DEF Answers
        <5>3. /\ Len(b.bucket) = n + 1 /\ b.bucket[n + 1] = hist[n + 1]
              /\ \A i \in 1 .. n : b.bucket[i] = a.bucket[i]
          BY <5>1, <5>2
        <5>4. \A i \in 1 .. len : i \in 1 .. n \/ i = n + 1
          BY <5>1
        <5>. QED
          BY <3>1, <3>2, <3>4, <5>1, <5>2, <5>3, <5>4
      <4>2. CASE ~(n < m)
        <5>1. b.bucket = a.bucket /\ Len(a.bucket) = m /\ len = m
          BY <1>9, <3>1, <3>2, <3>3, <3>6, <4>2 DEF Grew
        <5>. QED
          BY <3>1, <3>2, <5>1
      <4>. QED
        BY <4>1, <4>2
    <3>8. b.count \in 0 .. most
      BY <1>9, <3>1, <3>2, <3>4 DEF Grew
    <3>9. ASSUME quiet
          PROVE  /\ \A i, j \in 1 .. len : i < j => b.bucket[i] <= b.bucket[j]
                 /\ n + 1 > m => b.count = b.bucket[m]
      <4>1. \A i \in 1 .. len : i \in 1 .. m
        BY <3>7
      <4>2. \A i, j \in 1 .. len : i < j => b.bucket[i] <= b.bucket[j]
        BY <3>5, <3>7, <3>9, <4>1
      <4>3. ASSUME n + 1 > m PROVE b.count = b.bucket[m]
        <5>1. m \in 1 .. len /\ b.bucket[m] = hist[m]
          BY <3>1, <3>6, <3>7, <3>9, <4>3
        <5>2. CASE n = m
          BY <1>9, <3>3, <3>5, <3>9, <5>1, <5>2 DEF Grew
        <5>3. CASE n > m
          <6>1. b.count = a.count /\ a.count = a.bucket[m] /\ a.bucket[m] = hist[m]
            BY <1>9, <3>1, <3>2, <3>3, <3>9, <5>3 DEF Grew
          <6>. QED
            BY <5>1, <6>1
        <5>. QED
          BY <3>1, <4>3, <5>2, <5>3
      <4>. QED
        BY <4>2, <4>3
    <3>10. /\ hist' = hist /\ \A d \in Dispatches : Recording(d)' <=> Recording(d)
           /\ Inf' = m
      BY <1>1, <3>1 DEF Recording, Inf
    <3>. QED
      BY <1>10, <1>12, <2>2, <3>1, <3>2, <3>6, <3>7, <3>8, <3>9, <3>10 DEF ToldOfLatencies
  <2>. QED
    BY <1>6, <2>1, <2>2
<1>. QED
  BY <1>1, <1>10, <1>11, <1>13, <1>14, <1>15, <1>16, RequestMoves

-----------------------------------------------------------------------------
(* What holds of the probes in every behaviour. *)

(* A request that has not come makes no calls. *)
LEMMA NoCalls == ~(0 < Len(CallsOf("none"))) /\ 0 <= Len(CallsOf("none"))
<1>1. CallsOf("none") = <<>>
  BY DEF CallsOf
<1>. QED
  BY <1>1

(* At the start nothing is up, held, recorded or said. *)
LEMMA ProbesStart == ASSUME ProbesInit PROVE ProbesInd
<1>. USE DEF ProbesInit
<1>1. ProbeTypes
  <2>1. taskHealth \in HealthMaps
    BY DEF HealthMaps
  <2>2. calls \in [Tasks -> Plans]
    BY DEF Plans
  <2>3. Reader("none", TRUE) \in ReaderState
    BY DEF Reader, NoAnswer, ReaderState, Answers
  <2>4. hist \in [Slots -> Nat] /\ recording \in [Dispatches -> SUBSET Int]
    BY DEF Sending
  <2>. QED
    BY <2>1, <2>2, <2>3, <2>4 DEF ProbeTypes
<1>2. ASSUME NEW r \in Readers
      PROVE  /\ reader[r].handler = "none" /\ reader[r].done = 0 /\ reader[r].taken = 0
             /\ reader[r].answer.bucket = <<>> /\ ~Busy(r)
  <2>1. reader[r] = Reader("none", TRUE)
    BY <1>2
  <2>2. /\ reader[r].handler = "none" /\ reader[r].done = 0 /\ reader[r].taken = 0
        /\ reader[r].answer.bucket = <<>>
    BY <2>1 DEF Reader, NoAnswer
  <2>3. ~(reader[r].done < Len(CallsOf(reader[r].handler)))
    BY <2>2, NoCalls, Zenon
  <2>. QED
    BY <2>2, <2>3 DEF Busy
<1>3. Exclusive
  BY <1>2 DEF Exclusive, Held
<1>4. HistogramCounts
  <2>1. PICK latency \in [Dispatches -> Nat] : TRUE
    <3>1. [d \in Dispatches |-> 0] \in [Dispatches -> Nat]
      OBVIOUS
    <3>. QED
      BY <3>1
  <2>2. \A d \in Dispatches : recording[d] = Sending
    OBVIOUS
  <2>3. \A i : CountedAt(latency, i) = {}
    BY <2>2 DEF CountedAt
  <2>4. \A i \in Slots : hist[i] = 0
    OBVIOUS
  <2>5. Counts(latency)
    BY <2>2, <2>3, <2>4, FS_EmptySet DEF Counts
  <2>. QED
    BY <2>5 DEF HistogramCounts
<1>5. ASSUME NEW t \in Tasks PROVE PanicsCounted(t)
  <2>1. /\ calls[t] = <<"up">> /\ taskHealth.restarts[t] = 0 /\ taskHealth.consecutive[t] = 0
    OBVIOUS
  <2>. QED
    BY <2>1, PlansDiffer, ProbeConstants DEF PanicsCounted
<1>6. ASSUME NEW r \in Readers PROVE InHandler(r) /\ ToldOfTasks(r) /\ ToldOfLatencies(r)
  <2>1. reader[r].done <= Len(CallsOf(reader[r].handler))
    BY <1>2, NoCalls, Zenon
  <2>2. reader[r].taken <= IF Busy(r) THEN Len(LocksOf(Call(r))) ELSE 0
    <3>1. 0 <= 0
      OBVIOUS
    <3>. QED
      BY <1>2, <3>1, Zenon
  <2>3. InHandler(r)
    BY <2>1, <2>2, Zenon DEF InHandler
  <2>4. ToldOfTasks(r) /\ ToldOfLatencies(r)
    BY <1>2 DEF ToldOfTasks, ToldOfLatencies
  <2>. QED
    BY <2>3, <2>4
<1>. QED
  BY <1>1, <1>3, <1>4, <1>5, <1>6 DEF ProbesInd

(* Every step keeps the inductive invariant. *)
LEMMA ProbesStep == ASSUME ProbesInd, [ProbesNext]_probesVars PROVE ProbesInd'
<1>1. CASE UNCHANGED probesVars
  <2>1. UNCHANGED <<taskHealth, calls, reader, hist, recording>>
    BY <1>1 DEF probesVars
  <2>2. ProbeTypes' /\ HistogramCounts' /\ \A t \in Tasks : PanicsCounted(t)'
    BY <2>1 DEF ProbesInd, ProbeTypes, HistogramCounts, Counts, CountedAt, PanicsCounted
  <2>3. \A r \in Readers : /\ Held(r)' = Held(r) /\ (Busy(r)' <=> Busy(r))
                           /\ (InHandler(r)' <=> InHandler(r))
    BY <2>1, StaysInHandler
  <2>4. Exclusive'
    BY <2>3 DEF ProbesInd, Exclusive
  <2>5. ASSUME NEW r \in Readers PROVE InHandler(r)' /\ ToldOfTasks(r)' /\ ToldOfLatencies(r)'
    <3>1. ToldOfTasks(r)'
      BY <2>1, FewerExpected
    <3>2. ToldOfLatencies(r)'
      BY <2>1, <2>3 DEF ProbesInd, ToldOfLatencies, Recording
    <3>. QED
      BY <2>3, <3>1, <3>2 DEF ProbesInd
  <2>. QED
    BY <2>2, <2>4, <2>5 DEF ProbesInd
<1>2. CASE \E t \in Tasks : Report(t)
  BY <1>2, StatementStep
<1>3. CASE \E d \in Dispatches : RecordLatency(d) \/ Bump(d)
  BY <1>3, RecordLatencyStep, BumpStep
<1>4. CASE \E r \in Readers : Request(r, "health") \/ Request(r, "metrics")
  BY <1>4, RequestStep
<1>5. CASE \E r \in Readers : Lock(r) \/ Finish(r)
  BY <1>5, LockStep, FinishStep
<1>6. CASE Quiescent
  BY <1>1, <1>6 DEF Quiescent
<1>. QED
  BY <1>1, <1>2, <1>3, <1>4, <1>5, <1>6 DEF ProbesNext

(* The types and the freedom from deadlock, from the inductive invariant. *)
LEMMA ProbesSafe == ASSUME ProbesInd PROVE ProbesInv
<1>1. NoWaitCycle
  BY SomebodyGoesOn DEF ProbesInd, Exclusive, NoWaitCycle
<1>2. taskHealth.running \subseteq Tasks /\ taskHealth.disabled \subseteq Disabled
  BY DEF ProbesInd, ProbeTypes, HealthMaps
<1>3. /\ taskHealth.restarts \in [Tasks -> 0 .. MaxPanics]
      /\ taskHealth.consecutive \in [Tasks -> 0 .. MaxPanics]
  <2>1. taskHealth.restarts \in [Tasks -> Nat] /\ taskHealth.consecutive \in [Tasks -> Nat]
    BY DEF ProbesInd, ProbeTypes, HealthMaps
  <2>2. ASSUME NEW t \in Tasks
        PROVE  taskHealth.restarts[t] \in 0 .. MaxPanics /\ taskHealth.consecutive[t] \in 0 .. MaxPanics
    <3>1. calls[t] = Restarting => taskHealth.restarts[t] < MaxPanics
      BY TaskKnown DEF PanicsCounted
    <3>. QED
      BY <3>1, TaskKnown DEF PanicsCounted
  <2>. QED
    BY <2>1, <2>2
<1>4. ASSUME NEW r \in Readers
      PROVE  /\ reader[r].handler \in {"none", "health", "metrics"}
             /\ reader[r].taken \in 0 .. (IF Busy(r) THEN Len(LocksOf(Call(r))) ELSE 0)
             /\ Len(reader[r].answer.bucket) <= Inf
  <2>1. reader[r] \in ReaderState /\ InHandler(r) /\ ToldOfLatencies(r) /\ ProbeTypes
    BY DEF ProbesInd, ProbeTypes
  <2>2. reader[r].taken \in 0 .. (IF Busy(r) THEN Len(LocksOf(Call(r))) ELSE 0)
    <3>1. CASE Busy(r)
      BY <2>1, <3>1, Holding
    <3>2. CASE ~Busy(r)
      BY <2>1, <3>2 DEF InHandler, ReaderState
    <3>. QED
      BY <3>1, <3>2
  <2>3. Len(reader[r].answer.bucket) <= Inf
    <3>1. Inf \in Nat \ {0} /\ reader[r].done \in Nat
      BY <2>1, ProbeConstants DEF ReaderState
    <3>. QED
      BY <2>1, <3>1 DEF ToldOfLatencies
  <2>. QED
    BY <2>1, <2>2, <2>3 DEF ReaderState
<1>5. hist \in [Slots -> 0 .. Cardinality(Dispatches)]
  <2>1. hist \in [Slots -> Nat]
    BY DEF ProbesInd, ProbeTypes
  <2>. QED
    BY <2>1, HistBounded
<1>6. ProbesTypeOK
  BY <1>2, <1>3, <1>4, <1>5 DEF ProbesTypeOK
<1>. QED
  BY <1>1, <1>6 DEF ProbesInv

(* The answers, from the inductive invariant. *)
LEMMA AnswersSafe == ASSUME ProbesInd PROVE AnswersHold
<1>1. ASSUME NEW r \in Readers, Answered(r)
      PROVE  /\ reader[r].handler \in {"health", "metrics"}
             /\ reader[r].handler = "health" => reader[r].done = 5
             /\ reader[r].handler = "metrics" => reader[r].done = Inf + 4
             /\ reader[r].answer \in Answers
  <2>1. reader[r] \in ReaderState /\ InHandler(r)
    BY DEF ProbesInd, ProbeTypes
  <2>2. reader[r].handler = "metrics" => Len(CallsOf(reader[r].handler)) = Inf + 4
    BY Render DEF CallsOf
  <2>3. PICK n \in Nat : n = reader[r].done
    BY <2>1 DEF ReaderState
  <2>4. n <= Len(CallsOf(reader[r].handler)) /\ ~(n < Len(CallsOf(reader[r].handler)))
    BY <1>1, <2>1, <2>3 DEF InHandler, Answered, Busy
  <2>5. reader[r].handler = "health" => n = 5
    BY <2>4 DEF CallsOf, HealthCalls
  <2>6. reader[r].handler = "metrics" => n = Inf + 4
    BY <2>2, <2>4, Render
  <2>. QED
    BY <1>1, <2>1, <2>3, <2>5, <2>6 DEF ReaderState, Answered
<1>2. AnswersAddUp
  <2>. SUFFICES ASSUME NEW r \in Readers, Answered(r)
                PROVE  LET a == reader[r].answer  off == Cardinality(Required) - a.expected
                       IN /\ a.live <= a.expected
                          /\ reader[r].handler = "health" => off <= a.snapshot
                          /\ reader[r].handler = "metrics" => a.snapshot <= off
    BY DEF AnswersAddUp
  <2>1. PICK a \in Answers, all \in Nat : a = reader[r].answer /\ all = Cardinality(Required)
    BY <1>1, ProbeConstants
  <2>2. a.live \in Nat /\ a.expected \in Nat /\ a.snapshot \in Nat
    BY DEF Answers
  <2>3. ToldOfTasks(r)
    BY DEF ProbesInd
  <2>4. CASE reader[r].handler = "health"
    <3>1. a.live <= a.expected /\ all <= a.snapshot + a.expected
      BY <1>1, <2>1, <2>3, <2>4 DEF ToldOfTasks
    <3>. QED
      BY <2>1, <2>2, <2>4, <3>1
  <2>5. CASE reader[r].handler = "metrics"
    <3>1. a.live <= a.expected /\ a.snapshot + a.expected <= all
      BY <1>1, <2>1, <2>3, <2>5, ProbeConstants DEF ToldOfTasks
    <3>. QED
      BY <2>1, <2>2, <2>5, <3>1
  <2>. QED
    BY <1>1, <2>4, <2>5
<1>3. ScrapeIsCumulative
  <2>. SUFFICES ASSUME NEW r \in Readers, Answered(r), reader[r].handler = "metrics"
                PROVE  LET a == reader[r].answer
                           slack == IF reader[r].quiet THEN 0 ELSE Cardinality(Dispatches)
                       IN /\ \A i, j \in 1 .. Inf : i < j => a.bucket[i] <= a.bucket[j] + slack
                          /\ a.bucket[Inf] \in a.count - slack .. a.count + slack
    BY DEF ScrapeIsCumulative
  <2>1. PICK a \in Answers, most \in Nat, m \in Nat \ {0} :
           a = reader[r].answer /\ most = Cardinality(Dispatches) /\ m = Inf
    BY <1>1, ProbeConstants
  <2>2. reader[r].done = m + 4 /\ ToldOfLatencies(r)
    BY <1>1, <2>1 DEF ProbesInd
  <2>3. /\ Len(a.bucket) = m /\ \A i \in 1 .. m : a.bucket[i] \in 0 .. most
        /\ a.count \in 0 .. most
        /\ reader[r].quiet => /\ \A i, j \in 1 .. m : i < j => a.bucket[i] <= a.bucket[j]
                              /\ a.count = a.bucket[m]
    BY <2>1, <2>2 DEF ToldOfLatencies
  <2>4. m \in 1 .. m
    BY <2>1
  <2>5. PICK slack \in Nat : slack = IF reader[r].quiet THEN 0 ELSE most
    BY <2>1
  <2>6. ASSUME NEW i \in 1 .. m, NEW j \in 1 .. m, i < j
        PROVE  a.bucket[i] <= a.bucket[j] + slack
    BY <2>1, <2>3, <2>5, <2>6
  <2>7. a.bucket[m] \in a.count - slack .. a.count + slack
    BY <2>1, <2>3, <2>4, <2>5
  <2>. QED
    BY <2>1, <2>5, <2>6, <2>7
<1>. QED
  BY <1>2, <1>3 DEF AnswersHold

(* However many tasks, requests and deliveries there are, the requests     *)
(* never wait for one another in a circle: every accessor of TaskHealth    *)
(* takes its mutexes in one order, so the request that waits for the       *)
(* highest can go on (lib.rs, expected_tasks to snapshot of TaskHealth).   *)
THEOREM ProbesNeverDeadlock == ProbesSpec => []ProbesInv
<1>1. ProbesInit => ProbesInd
  BY ProbesStart
<1>2. ProbesInd /\ [ProbesNext]_probesVars => ProbesInd'
  BY ProbesStep
<1>3. ProbesInd => ProbesInv
  BY ProbesSafe
<1>. QED
  BY <1>1, <1>2, <1>3, PTL DEF ProbesSpec

(* Although /health and /metrics read TaskHealth under separate locks and  *)
(* the histogram atomic by atomic, no answer shows more tasks live than    *)
(* expected, and a scrape that no delivery races is cumulative             *)
(* (api/mod.rs, health; metrics.rs, render and record_latency_ms).         *)
THEOREM AnswersAreConsistent == ProbesSpec => []AnswersHold
<1>1. ProbesInit => ProbesInd
  BY ProbesStart
<1>2. ProbesInd /\ [ProbesNext]_probesVars => ProbesInd'
  BY ProbesStep
<1>3. ProbesInd => AnswersHold
  BY AnswersSafe
<1>. QED
  BY <1>1, <1>2, <1>3, PTL DEF ProbesSpec
=============================================================================
