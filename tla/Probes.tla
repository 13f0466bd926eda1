------------------------------- MODULE Probes -------------------------------
(***************************************************************************)
(* GET /health and GET /metrics while the state they report changes under  *)
(* them.  TaskHealth keeps five maps, each behind a mutex of its own; the  *)
(* supervisors change one map per statement, and a handler calls several   *)
(* accessors, each of which takes the mutexes it needs one after another   *)
(* and drops them together.  The latency histogram is an array of atomics  *)
(* that a delivery bumps one by one and a scrape loads one by one.         *)
(*                                                                         *)
(* A statement that takes one mutex for itself is one step, possible while *)
(* no accessor holds it.  Which calls a supervisor makes, and when, is     *)
(* Supervisor's subject; here each makes any sequence of them the code     *)
(* allows.  Loads and additions of atomics are taken in program order.     *)
(***************************************************************************)
EXTENDS SupervisedTasks, Sequences, FiniteSets

CONSTANTS
    Readers,       \* requests in progress
    Dispatches,    \* deliveries that record a latency
    Bounds,        \* LATENCY_BUCKETS_MS
    Latencies,     \* the latencies deliveries see
    MaxPanics      \* bound: panics of a task

(* The tasks and the deliveries are finitely many, the bounds ascend. *)
ASSUME ProbesAssumption ==
    /\ IsFiniteSet(Required) /\ MaxPanics \in Nat
    /\ Bounds \in Seq(Nat) /\ Latencies \subseteq Nat /\ IsFiniteSet(Dispatches)
    /\ \A i, j \in DOMAIN Bounds : i < j => Bounds[i] <= Bounds[j]

VARIABLES
    taskHealth,   \* the maps running, restarts, consecutive, disabled
    calls,        \* per task: the statements its supervisor has yet to make
    reader,       \* per request: calls done, mutexes taken for the current one, the answer
    hist,         \* latency_count at 0, then latency_buckets, the last being +Inf
    recording     \* per delivery: the atomics it has yet to bump

probesVars == <<taskHealth, calls, reader, hist, recording>>

Inf == Len(Bounds) + 1
Sending == {-1}       \* a delivery whose latency is yet to be known
Slots == 0 .. Inf

-----------------------------------------------------------------------------
(* Mutexes.  required is filled by main before any task is spawned.        *)

DeadRequiredTasksLocks == <<"running", "required", "disabled">>
CrashLoopingLocks == <<"consecutive", "required">>
ExpectedTasksLocks == <<"required", "disabled">>

(* Mutant: the required set is locked first. *)
LiveTasksLocksSwapped == <<"required", "running", "disabled">>

LiveTasksLocks == <<"running", "required", "disabled">>
SnapshotLocks == <<"running", "restarts", "consecutive", "required", "disabled">>

LocksOf(call) ==
    CASE call = "dead" -> DeadRequiredTasksLocks
      [] call = "looping" -> CrashLoopingLocks
      [] call = "expected" -> ExpectedTasksLocks
      [] call = "live" -> LiveTasksLocks
      [] call = "snapshot" -> SnapshotLocks
      [] OTHER -> <<>>      \* a load of an atomic

(* The calls a handler makes, in order. *)
HealthCalls == <<"dead", "looping", "expected", "live", "snapshot">>

(* Mutant: live is read before expected. *)
RenderCallsSwapped ==
    [i \in 1 .. Inf |-> "bucket"] \o <<"count", "snapshot", "live", "expected">>

RenderCalls ==
    [i \in 1 .. Inf |-> "bucket"] \o <<"count", "snapshot", "expected", "live">>

CallsOf(handler) ==
    CASE handler = "health" -> HealthCalls
      [] handler = "metrics" -> RenderCalls
      [] OTHER -> <<>>

Busy(r) == reader[r].done < Len(CallsOf(reader[r].handler))
Call(r) == CallsOf(reader[r].handler)[reader[r].done + 1]

Held(r) == IF Busy(r) THEN {LocksOf(Call(r))[i] : i \in 1 .. reader[r].taken} ELSE {}
Free(lock) == \A r \in Readers : lock \notin Held(r)

(* The mutex a request waits for; none once it holds all its call needs.   *)
Wanted(r) ==
    LET locks == LocksOf(Call(r))
    IN IF reader[r].taken < Len(locks) THEN {locks[reader[r].taken + 1]} ELSE {}

-----------------------------------------------------------------------------
(* The accessors' results. *)

Expected == Required \ taskHealth.disabled
Dead == Expected \ taskHealth.running
Looping == {t \in Required : taskHealth.consecutive[t] >= Threshold}
Live == Expected \cap taskHealth.running

(* A call's contribution to the answer: the status is "ok" unless a call   *)
(* finds a dead or a crash-looping task; the snapshot's contribution is    *)
(* what it says of the disabled tasks.                                     *)
Result(call, answer) ==
    CASE call = "dead" -> answer.ok /\ Dead = {}
      [] call = "looping" -> answer.ok /\ Looping = {}
      [] call = "expected" -> Cardinality(Expected)
      [] call = "live" -> Cardinality(Live)
      [] call = "snapshot" -> Cardinality(Required \cap taskHealth.disabled)
      [] call = "count" -> hist[0]
      [] call = "bucket" -> Append(answer.bucket, hist[Len(answer.bucket) + 1])

Field(call) == IF call \in {"dead", "looping"} THEN "ok" ELSE call

Answer(call, answer) == [answer EXCEPT ![Field(call)] = Result(call, answer)]

NoAnswer == [ok |-> TRUE, expected |-> 0, live |-> 0, snapshot |-> 0,
             count |-> 0, bucket |-> <<>>]

Reader(handler, quiet) ==
    [handler |-> handler, done |-> 0, taken |-> 0, answer |-> NoAnswer, quiet |-> quiet]

ProbesInit ==
    /\ taskHealth = [running |-> {}, disabled |-> {}, restarts |-> [t \in Tasks |-> 0],
                     consecutive |-> [t \in Tasks |-> 0]]
    /\ calls = [t \in Tasks |-> <<"up">>]
    /\ reader = [r \in Readers |-> Reader("none", TRUE)]
    /\ hist = [i \in Slots |-> 0]
    /\ recording = [d \in Dispatches |-> Sending]

-----------------------------------------------------------------------------
(* Supervisors: the statements of TaskHealth's methods. *)

Statement(t, name, lock, health) ==
    /\ calls[t] # <<>> /\ Head(calls[t]) = name
    /\ Free(lock)
    /\ taskHealth' = health
    /\ calls' = [calls EXCEPT ![t] = Tail(@)]
    /\ UNCHANGED <<reader, hist, recording>>

MarkUp(t) == Statement(t, "up", "running", [taskHealth EXCEPT !.running = @ \cup {t}])
CountFailure(t) ==
    Statement(t, "failed", "consecutive", [taskHealth EXCEPT !.consecutive[t] = @ + 1])
CountRestart(t) == Statement(t, "restarted", "restarts", [taskHealth EXCEPT !.restarts[t] = @ + 1])
MarkDisabled(t) == Statement(t, "disabled", "disabled", [taskHealth EXCEPT !.disabled = @ \cup {t}])

Watched(t) == calls[t] = <<>> /\ t \in taskHealth.running

(* The first statement of task_failed, task_stopped and task_disabled, and *)
(* what the supervisor will do after it.                                   *)
MarkDown(t, rest) ==
    /\ Watched(t) /\ Free("running")
    /\ taskHealth' = [taskHealth EXCEPT !.running = @ \ {t}]
    /\ calls' = [calls EXCEPT ![t] = rest]
    /\ UNCHANGED <<reader, hist, recording>>

MarkStable(t) ==
    /\ Watched(t) /\ Free("consecutive")
    /\ taskHealth.consecutive[t] > 0
    /\ taskHealth' = [taskHealth EXCEPT !.consecutive[t] = 0]
    /\ UNCHANGED <<calls, reader, hist, recording>>

(* A panic, a fatal exit, nothing to do, the end. *)
Report(t) ==
    \/ /\ t \notin Disabled /\ taskHealth.restarts[t] < MaxPanics
       /\ \/ MarkDown(t, <<"failed", "restarted", "up">>)
          \/ MarkDown(t, <<"restarted", "up">>)
    \/ t \in Disabled /\ MarkDown(t, <<"disabled">>)
    \/ MarkDown(t, <<>>)
    \/ MarkUp(t) \/ CountFailure(t) \/ CountRestart(t) \/ MarkDisabled(t) \/ MarkStable(t)

-----------------------------------------------------------------------------
(* record_latency_ms: the count, then every bucket whose bound is reached  *)
(* and +Inf, in ascending order.                                           *)

Bumps(ms) == {i \in 1 .. Inf : i = Inf \/ ms <= Bounds[i]}

RecordLatency(d) ==
    /\ recording[d] = Sending
    /\ hist' = [hist EXCEPT ![0] = @ + 1]
    /\ \E ms \in Latencies : recording' = [recording EXCEPT ![d] = Bumps(ms)]
    /\ reader' = [r \in Readers |-> [reader[r] EXCEPT !.quiet = @ /\ ~Busy(r)]]
    /\ UNCHANGED <<taskHealth, calls>>

Recording(d) == recording[d] \notin {Sending, {}}

Bump(d) ==
    /\ Recording(d)
    /\ \E i \in recording[d] :
          /\ \A j \in recording[d] : i <= j
          /\ hist' = [hist EXCEPT ![i] = @ + 1]
          /\ recording' = [recording EXCEPT ![d] = @ \ {i}]
    /\ reader' = [r \in Readers |-> [reader[r] EXCEPT !.quiet = @ /\ ~Busy(r)]]
    /\ UNCHANGED <<taskHealth, calls>>

-----------------------------------------------------------------------------
(* health and render. *)

(* Each request of this model is made once; quiet is a history variable:   *)
(* no delivery was recording since the request began.                      *)
Request(r, handler) ==
    /\ reader[r].handler = "none"
    /\ reader' = [reader EXCEPT ![r] = Reader(handler, \A d \in Dispatches : ~Recording(d))]
    /\ UNCHANGED <<taskHealth, calls, hist, recording>>

Lock(r) ==
    /\ Busy(r)
    /\ \E lock \in Wanted(r) : Free(lock)
    /\ reader' = [reader EXCEPT ![r].taken = @ + 1]
    /\ UNCHANGED <<taskHealth, calls, hist, recording>>

(* The result is computed under the mutexes, which are then dropped.       *)
Finish(r) ==
    /\ Busy(r) /\ Wanted(r) = {}
    /\ reader' = [reader EXCEPT ![r].done = @ + 1, ![r].taken = 0,
                                ![r].answer = Answer(Call(r), @)]
    /\ UNCHANGED <<taskHealth, calls, hist, recording>>

Quiescent ==
    /\ \A r \in Readers : ~Busy(r) /\ reader[r].handler # "none"
    /\ UNCHANGED probesVars

ProbesNext ==
    \/ \E t \in Tasks : Report(t)
    \/ \E d \in Dispatches : RecordLatency(d) \/ Bump(d)
    \/ \E r \in Readers :
          \/ Request(r, "health") \/ Request(r, "metrics")
          \/ Lock(r) \/ Finish(r)
    \/ Quiescent

ProbesSpec == ProbesInit /\ [][ProbesNext]_probesVars

-----------------------------------------------------------------------------
(* Properties. *)

Answered(r) == reader[r].handler # "none" /\ ~Busy(r)

(* The maps, the handlers and the histogram keep their types.              *)
ProbesTypeOK ==
    /\ taskHealth.running \subseteq Tasks /\ taskHealth.disabled \subseteq Disabled
    /\ taskHealth.restarts \in [Tasks -> 0 .. MaxPanics]
    /\ taskHealth.consecutive \in [Tasks -> 0 .. MaxPanics]
    /\ \A r \in Readers :
          /\ reader[r].handler \in {"none", "health", "metrics"}
          /\ reader[r].taken \in 0 .. (IF Busy(r) THEN Len(LocksOf(Call(r))) ELSE 0)
          /\ Len(reader[r].answer.bucket) <= Inf
    /\ hist \in [Slots -> 0 .. Cardinality(Dispatches)]

(* Two requests never hold the same mutex, and no request waits for ever   *)
(* for a mutex another holds: whenever some are busy, one of them can go   *)
(* on without any other giving way.  The accessors take the mutexes in one *)
(* order; a thread of the runtime that blocked here would never come back. *)
NoWaitCycle ==
    /\ \A r, q \in Readers : r # q => Held(r) \cap Held(q) = {}
    /\ (\E r \in Readers : Busy(r)) =>
          \E r \in Readers : Busy(r) /\ \A lock \in Wanted(r) : Free(lock)

ProbesInv == ProbesTypeOK /\ NoWaitCycle

(* "how many workers should be running, and how many are?": although the   *)
(* two are read under separate locks while tasks start, die and are        *)
(* disabled, no answer shows more live than expected; and what it shows as *)
(* disabled is at least (/health, which reads it last) or at most          *)
(* (/metrics, which reads it first) what expected leaves out.              *)
AnswersAddUp ==
    \A r \in Readers : Answered(r) =>
        LET a == reader[r].answer  off == Cardinality(Required) - a.expected
        IN /\ a.live <= a.expected
           /\ reader[r].handler = "health" => off <= a.snapshot
           /\ reader[r].handler = "metrics" => a.snapshot <= off

(* "Histogram buckets are cumulative": a scrape no delivery records during *)
(* shows buckets that never decrease and a count equal to +Inf; one that   *)
(* is raced is off by no more than the deliveries there are.               *)
ScrapeIsCumulative ==
    \A r \in Readers : Answered(r) /\ reader[r].handler = "metrics" =>
        LET a == reader[r].answer
            slack == IF reader[r].quiet THEN 0 ELSE Cardinality(Dispatches)
        IN /\ \A i, j \in 1 .. Inf : i < j => a.bucket[i] <= a.bucket[j] + slack
           /\ a.bucket[Inf] \in a.count - slack .. a.count + slack

(* What /health and /metrics answer while the tasks, the deliveries and    *)
(* other requests move.                                                    *)
AnswersHold == AnswersAddUp /\ ScrapeIsCumulative
=============================================================================
