------------------------------ MODULE Readiness ------------------------------
(***************************************************************************)
(* The readiness probe and the heartbeat it reads.  GET /ready answers 200 *)
(* while a poll cycle or a stream record was seen within the staleness     *)
(* window.  The poller that beats is a supervised worker: it dies and is   *)
(* restarted as Supervisor says, sleeps before each cycle, and after a     *)
(* failed cycle waits as long as Horizon asks or its own backoff.          *)
(*                                                                         *)
(* Time is counted in ticks; the heartbeat's age saturates just past the   *)
(* window.  The supervisors' own delays are not timed: a restart may take  *)
(* any time.                                                               *)
(***************************************************************************)
EXTENDS Supervisor

CONSTANTS
    Poller, Stream,   \* the tasks that beat
    PollInterval,     \* POLL_INTERVAL_SECS
    Multiple,         \* CURSOR_STALENESS_MULTIPLE
    PollTime,         \* the longest a cycle takes: 25 requests with timeouts
    BackoffBase, BackoffMax,   \* POLL_BACKOFF_BASE, POLL_BACKOFF_MAX
    RetryAfters,      \* the values of Retry-After Horizon sends
    MaxBadPolls       \* bound: cycles that fail

ASSUME ReadinessAssumption ==
    /\ Poller \in Tasks /\ Poller # Stream
    /\ {PollInterval, Multiple, BackoffBase, BackoffMax} \subseteq Nat \ {0}
    /\ RetryAfters \subseteq Nat /\ {PollTime, MaxBadPolls} \subseteq Nat

(* The window of ready(). *)
StalenessLimit == PollInterval * Multiple

VARIABLES
    age,      \* last_success_age_secs
    poll,     \* the poller's loop: asleep or in a cycle, time left, failures
    bad,      \* failed cycles so far
    steady    \* history: the last cycle succeeded and its worker still runs

allVars == <<sup, worker, health, main, faults, age, poll, bad, steady>>
probeVars == <<age, poll, bad, steady>>

Never == StalenessLimit + 1
Waking == [pc |-> "asleep", left |-> PollInterval, fails |-> 0]

(* last_success_unix starts at 0, which reads as stale. *)
ReadyInit ==
    /\ Init
    /\ age = Never
    /\ poll = Waking
    /\ bad = 0
    /\ steady = FALSE

Polling == ProcessUp /\ worker[Poller] = "alive"

(* GET /ready answers 200 (its database and Horizon checks succeeding). *)
Ready == age <= StalenessLimit

-----------------------------------------------------------------------------

(* A spawned worker enters run_poller afresh; one that ends stops beating. *)
Supervised ==
    /\ Next
    /\ poll' = IF worker[Poller] # "alive" /\ worker'[Poller] = "alive" THEN Waking ELSE poll
    /\ steady' = (steady /\ worker'[Poller] = "alive")
    /\ UNCHANGED <<age, bad>>

(* Mutant: a failed cycle ends the loop. *)
PollBeginsUnlessFailed ==
    /\ Polling /\ ~Shutdown /\ poll.pc = "asleep" /\ poll.left = 0 /\ poll.fails = 0
    /\ poll' = [poll EXCEPT !.pc = "cycle", !.left = PollTime]
    /\ UNCHANGED <<sup, worker, health, main, faults, age, bad, steady>>

(* The sleep is over and poll_once is called. *)
PollBegins ==
    /\ Polling /\ ~Shutdown /\ poll.pc = "asleep" /\ poll.left = 0
    /\ poll' = [poll EXCEPT !.pc = "cycle", !.left = PollTime]
    /\ UNCHANGED <<sup, worker, health, main, faults, age, bad, steady>>

(* poll_once completes: note_success, and back to the interval. *)
PollSucceeds ==
    /\ Polling /\ poll.pc = "cycle"
    /\ age' = 0
    /\ poll' = Waking
    /\ steady' = TRUE
    /\ UNCHANGED <<sup, worker, health, main, faults, bad>>

(* retry_delay: half of the ceiling and a random part of the other half.   *)
BackoffDelays(n) ==
    LET ceiling == Lesser(BackoffBase * 2 ^ (n - 1), BackoffMax)
    IN ceiling \div 2 .. ceiling

(* poll_once fails: the delay is Horizon's Retry-After, else the backoff.  *)
PollFails ==
    /\ Polling /\ poll.pc = "cycle" /\ bad < MaxBadPolls
    /\ \E delay \in RetryAfters \cup BackoffDelays(poll.fails + 1) :
          poll' = [pc |-> "asleep", left |-> delay, fails |-> poll.fails + 1]
    /\ bad' = bad + 1
    /\ steady' = FALSE
    /\ UNCHANGED <<sup, worker, health, main, faults, age>>

(* handle_stream_event: a payment record beats before it is reconciled.    *)
(* Where the stream's worker is not one of Tasks, a record may come at any *)
(* time.                                                                   *)
StreamRecord ==
    /\ ProcessUp
    /\ Stream \in Tasks => worker[Stream] = "alive"
    /\ age' = 0
    /\ UNCHANGED <<sup, worker, health, main, faults, poll, bad, steady>>

(* A second passes; a sleep that is over, or a cycle at its limit, comes   *)
(* first.                                                                  *)
Tick ==
    /\ ProcessUp
    /\ Polling /\ ~Shutdown => poll.left > 0
    /\ age' = Lesser(age + 1, Never)
    /\ poll' = [poll EXCEPT !.left = IF Polling /\ @ > 0 THEN @ - 1 ELSE @]
    /\ UNCHANGED <<sup, worker, health, main, faults, bad, steady>>

Poll == PollBegins \/ PollSucceeds \/ PollFails

ReadyNext == Supervised \/ Poll \/ StreamRecord \/ Tick

(* As for Supervisor; time passes and a cycle that is due is run.          *)
ReadyFairness == WF_allVars(Poll) /\ WF_allVars(Tick)

ReadySpec == ReadyInit /\ [][ReadyNext]_allVars /\ Fairness /\ ReadyFairness

-----------------------------------------------------------------------------
(* Properties. *)

(* The heartbeat and the poller's timer keep their types; the loop never   *)
(* sleeps longer than its interval, its largest backoff or what Horizon    *)
(* asked for.                                                              *)
ReadinessTypeOK ==
    /\ age \in 0 .. Never
    /\ poll.pc \in {"asleep", "cycle"} /\ poll.fails \in 0 .. MaxBadPolls
    /\ poll.left \in 0 .. PollInterval \/ poll.left \in 0 .. PollTime
       \/ poll.left \in 0 .. BackoffMax \/ \E r \in RetryAfters : poll.left \in 0 .. r
    /\ bad \in 0 .. MaxBadPolls /\ steady \in BOOLEAN

(* The cycle under way has taken longer than the window leaves it after    *)
(* one interval's sleep.                                                   *)
Overlong == poll.pc = "cycle" /\ PollTime - poll.left > StalenessLimit - PollInterval

(* From one successful cycle to the end of the next, however its sleeps    *)
(* and the shutdown of other tasks fall, /ready reports a stall only while *)
(* a cycle takes longer than the window less the interval.  Config checks  *)
(* of the multiple only that it is not zero.                               *)
HealthyIsReady == steady /\ ~Shutdown => Ready \/ Overlong

(* The workers, TaskHealth and the probes agree, through every fault. *)
ReadinessInv == TypeOK /\ CleanExitLeavesNoWorker /\ HealthIsHonest
                /\ ReadinessTypeOK /\ HealthyIsReady

(* Once cycles stop failing and workers stop dying, /ready is green for    *)
(* good but for overlong cycles, unless the process is shut down.          *)
ReadyRecovers == <>[](Ready \/ Overlong \/ Shutdown)
=============================================================================
