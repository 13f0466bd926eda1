--------------------------- MODULE WebhookDelivery ---------------------------
(***************************************************************************)
(* The life of a row of webhook_deliveries.  Three kinds of senders work   *)
(* on a delivery: the dispatch() that recorded it, the redrive worker and  *)
(* a merchant's manual redelivery.  Each reads the row, talks to the       *)
(* receiver and writes the row back with no lock in between.  The bulk     *)
(* endpoint requeues failed rows, the retention worker deletes or compacts *)
(* old ones, and the process may die at any point.                         *)
(*                                                                         *)
(* Time is counted in ticks.  The row keeps the time since                 *)
(* COALESCE(last_attempt, created_at) (idle) and since created_at (age),   *)
(* both saturating where no comparison can tell larger values apart; the   *)
(* sender keeps the time it has spent in its current phase.                *)
(***************************************************************************)
EXTENDS Integers, FiniteSets

CONSTANTS
    Deliveries,      \* delivery ids
    RetryAttempts,   \* webhook_retry_attempts
    RetryDelay,      \* webhook_retry_delay_ms
    RetryMaxDelay,   \* webhook_retry_max_delay_ms
    Timeout,         \* webhook_timeout_secs
    ResolveTime,     \* ssrf::RESOLVE_TIMEOUT
    MaxAttempts,     \* webhook_redrive_max_attempts
    Concurrency,     \* webhook_redrive_concurrency
    Grace,           \* webhook_redrive_grace_secs
    BackoffInitial,  \* webhook_redrive_backoff_initial_secs
    BackoffMax,      \* webhook_redrive_backoff_max_secs
    Jitter,          \* webhook_redrive_jitter_secs
    RetentionAge,    \* webhook_delivery_retention_days, 0 keeps rows forever
    PruneBatch,      \* PRUNE_BATCH
    MaxPerCycle,     \* MAX_PER_CYCLE
    EmptyAccepted,   \* whether the receiver answers 2xx to an empty body
    MaxCrashes,      \* bound: process deaths
    MaxDbErrors,     \* bound: failing SQLite statements
    MaxBlocked,      \* bound: targets refused or not resolved
    MaxManual,       \* bound: manual redeliveries
    MaxRequeues      \* bound: bulk requeues

Least(a, b) == IF a < b THEN a ELSE b
Greatest(a, b) == IF a > b THEN a ELSE b

(* retry_delay without its jitter, which only shortens it. *)
RetryCeiling(attempt) == Least(RetryDelay * 2 ^ (attempt - 1), RetryMaxDelay)

RetryDelays[n \in Nat] == IF n = 0 THEN 0 ELSE RetryDelays[n - 1] + RetryCeiling(n)

(* Config::worst_case_inline_delivery_secs. *)
WorstCaseInline == RetryAttempts * Timeout + RetryDelays[RetryAttempts - 1]

(* Types of the settings; MaxAttempts = 0 would disable the redrive worker. *)
ASSUME TypeAssumption ==
    /\ IsFiniteSet(Deliveries)
    /\ RetryAttempts \in Nat \ {0} /\ MaxAttempts \in Nat \ {0}
    /\ {RetryDelay, RetryMaxDelay, Timeout, ResolveTime, Grace, BackoffInitial,
        BackoffMax, Jitter, RetentionAge} \subseteq Nat
    /\ {Concurrency, PruneBatch, MaxPerCycle} \subseteq Nat \ {0}

(* validate_timing: the configurations the program starts with. *)
ValidTiming ==
    /\ RetryDelay <= RetryMaxDelay
    /\ BackoffInitial <= BackoffMax
    /\ WorstCaseInline <= Grace

ASSUME TimingAssumption == ValidTiming

ASSUME BoundAssumption ==
    /\ {MaxCrashes, MaxDbErrors, MaxBlocked, MaxManual, MaxRequeues} \subseteq Nat
    /\ EmptyAccepted \in BOOLEAN

VARIABLES
    row,        \* webhook_deliveries
    job,        \* what each sender does with each delivery
    retention,  \* the retention worker: its statement and the rows it touched
    heard,      \* deliveries whose event has reached the receiver
    budget      \* crashes, failures and merchant requests left

vars == <<row, job, retention, heard, budget>>

Senders == {"dispatch", "redrive", "manual"}

NoRow == [status |-> "none", attempts |-> 0, idle |-> 0, age |-> 0,
          acked |-> "no", payload |-> "event"]
NoJob == [pc |-> "idle", attempt |-> 0, body |-> "event", took |-> 0, answer |-> "none"]
Job(pc, attempt, body) ==
    [pc |-> pc, attempt |-> attempt, body |-> body, took |-> 0, answer |-> "none"]
Asleep == [pc |-> "asleep", total |-> 0]

Stored == {"pending", "failed", "delivered"}
Exists(d) == row[d].status \in Stored

Init ==
    /\ row = [d \in Deliveries |-> NoRow]
    /\ job = [k \in Senders |-> [d \in Deliveries |-> NoJob]]
    /\ retention = Asleep
    /\ heard = {}
    /\ budget = [crashes |-> MaxCrashes, dbErrors |-> MaxDbErrors,
                 blocked |-> MaxBlocked, manual |-> MaxManual,
                 requeues |-> MaxRequeues]

Spend(what) ==
    /\ budget[what] > 0
    /\ budget' = [budget EXCEPT ![what] = @ - 1]

Become(k, d, j) == job' = [job EXCEPT ![k][d] = j]

(* update_webhook_delivery: by id alone, whoever else wrote meanwhile. *)
Update(d, st, n) ==
    row' = IF Exists(d)
           THEN [row EXCEPT ![d] = [@ EXCEPT !.status = st, !.attempts = n, !.idle = 0]]
           ELSE row

-----------------------------------------------------------------------------
(* Starting a sender. *)

(* dispatch() inserts the row; when the insert fails it goes on without. *)
Dispatch(d) ==
    /\ row[d].status = "none"
    /\ \/ row' = [row EXCEPT ![d].status = "pending"] /\ UNCHANGED budget
       \/ row' = [row EXCEPT ![d].status = "unrecorded"] /\ Spend("dbErrors")
    /\ Become("dispatch", d, Job("resolve", 1, "event"))
    /\ UNCHANGED <<retention, heard>>

(* Mutants: no grace for a row never attempted; pending rows forgotten. *)
WindowBackoffOnly(n) ==
    IF n = 0 THEN 0 ELSE Least(BackoffInitial * 2 ^ Least(n - 1, 32), BackoffMax)

RedrivableFailed(d) == row[d].status = "failed" /\ row[d].attempts < MaxAttempts

(* The window list_redrivable_deliveries adds to last_attempt. *)
Window(n) ==
    IF n = 0 THEN Grace
             ELSE Greatest(Grace, Least(BackoffInitial * 2 ^ Least(n - 1, 32), BackoffMax))

Redrivable(d) == row[d].status \in {"pending", "failed"} /\ row[d].attempts < MaxAttempts

(* redrive_once: the random jitter admits every row past window and        *)
(* jitter, and any of those past the window alone.  The pass before it has *)
(* been joined.                                                            *)
RedriveList ==
    LET past(n) == {d \in Deliveries : Redrivable(d)
                                         /\ row[d].idle >= Window(row[d].attempts) + n}
    IN /\ \A d \in Deliveries : job["redrive"][d].pc = "idle"
       /\ \E S \in SUBSET past(0) :
             /\ past(Jitter) \subseteq S /\ S # {}
             /\ job' = [job EXCEPT !["redrive"] = [d \in Deliveries |->
                          IF d \in S THEN Job("queued", row[d].attempts + 1, row[d].payload)
                                     ELSE NoJob]]
       /\ UNCHANGED <<row, retention, heard, budget>>

(* A spawned redrive_one gets its permit. *)
RedrivePermit(d) ==
    /\ job["redrive"][d].pc = "queued"
    /\ Cardinality({e \in Deliveries : job["redrive"][e].pc \notin {"idle", "queued"}})
          < Concurrency
    /\ Become("redrive", d, [job["redrive"][d] EXCEPT !.pc = "resolve"])
    /\ UNCHANGED <<row, retention, heard, budget>>

(* redeliver_webhook, once the delivery is found to be the caller's. *)
Redeliver(d) ==
    /\ Exists(d) /\ job["manual"][d].pc = "idle"
    /\ Spend("manual")
    /\ Become("manual", d, Job("resolve", row[d].attempts + 1, row[d].payload))
    /\ UNCHANGED <<row, retention, heard>>

-----------------------------------------------------------------------------
(* One request. *)

(* safe_client found an admissible address. *)
Resolve(k, d) ==
    /\ job[k][d].pc = "resolve"
    /\ Become(k, d, [job[k][d] EXCEPT !.pc = "post", !.took = 0])
    /\ UNCHANGED <<row, retention, heard, budget>>

(* safe_client refused: the attempt is not counted, a manual redelivery    *)
(* answers 400 and leaves the row alone.  A failing UPDATE is ignored.     *)
Block(k, d) ==
    /\ job[k][d].pc = "resolve" /\ budget.blocked > 0
    /\ Become(k, d, NoJob)
    /\ \/ /\ budget' = [budget EXCEPT !.blocked = @ - 1]
          /\ IF k = "manual" THEN UNCHANGED row ELSE Update(d, "failed", job[k][d].attempt - 1)
       \/ /\ k # "manual" /\ budget.dbErrors > 0
          /\ budget' = [budget EXCEPT !.blocked = @ - 1, !.dbErrors = @ - 1]
          /\ UNCHANGED row
    /\ UNCHANGED <<retention, heard>>

(* The receiver accepts, refuses or never sees the request, or takes the   *)
(* event while its answer is lost.                                         *)
Post(k, d) ==
    LET j == job[k][d]
        reached == IF j.body = "event" THEN heard \cup {d} ELSE heard
    IN /\ j.pc = "post"
       /\ \E answer \in {"yes", "no"} :
             /\ answer = "yes" => j.body = "event" \/ EmptyAccepted
             /\ Become(k, d, [j EXCEPT !.pc = "answered", !.took = 0, !.answer = answer])
             /\ \/ heard' = reached
                \/ answer = "no" /\ heard' = heard
       /\ UNCHANGED <<row, retention, budget>>

(* dispatch() sleeps before its next attempt. *)
InlineSleep(d) ==
    LET j == job["dispatch"][d]
    IN /\ j.pc = "answered" /\ j.answer = "no" /\ j.attempt < RetryAttempts
       /\ Become("dispatch", d, [j EXCEPT !.pc = "sleep"])
       /\ UNCHANGED <<row, retention, heard, budget>>

InlineRetry(d) ==
    LET j == job["dispatch"][d]
    IN /\ j.pc = "sleep" /\ j.took >= RetryCeiling(j.attempt) \div 2
       /\ Become("dispatch", d, Job("post", j.attempt + 1, j.body))
       /\ UNCHANGED <<row, retention, heard, budget>>

(* Mutants: one attempt too many stays pending; giving up looks delivered. *)
VerdictLate(k, j) ==
    IF j.answer = "yes" THEN "delivered"
    ELSE IF k = "redrive" /\ j.attempt <= MaxAttempts THEN "pending" ELSE "failed"

VerdictGivesUp(k, j) ==
    IF j.answer = "yes" \/ (k = "redrive" /\ j.attempt = MaxAttempts) THEN "delivered"
    ELSE IF k = "redrive" THEN "pending" ELSE "failed"

(* The status a sender records once it is done. *)
Verdict(k, j) ==
    IF j.answer = "yes" THEN "delivered"
    ELSE IF k = "redrive" /\ j.attempt < MaxAttempts THEN "pending" ELSE "failed"

(* The outcome is recorded; a failing statement loses it. *)
Record(k, d) ==
    LET j == job[k][d]
    IN /\ j.pc = "answered"
       /\ k = "dispatch" /\ j.answer = "no" => j.attempt = RetryAttempts
       /\ Become(k, d, NoJob)
       /\ \/ Update(d, Verdict(k, j), j.attempt) /\ UNCHANGED budget
          \/ Spend("dbErrors") /\ UNCHANGED row
       /\ UNCHANGED <<retention, heard>>

-----------------------------------------------------------------------------
(* Requeueing and retention. *)

(* requeue_failed_deliveries: the ids given, or every failed delivery. *)
Requeue(S) ==
    /\ S # {} /\ \A d \in S : row[d].status = "failed"
    /\ Spend("requeues")
    /\ row' = [d \in Deliveries |->
          IF d \in S THEN [row[d] EXCEPT !.status = "pending", !.attempts = 0, !.acked = "yes"]
                     ELSE row[d]]
    /\ UNCHANGED <<job, retention, heard>>

AgedOut(d) == row[d].age > RetentionAge

(* drain: the next batch, or on to the next table. *)
Drained(n, next) ==
    IF n < PruneBatch \/ retention.total + n >= MaxPerCycle
    THEN [pc |-> next, total |-> 0]
    ELSE [retention EXCEPT !.total = @ + n]

(* A batch of at most PRUNE_BATCH of these rows. *)
BatchOf(eligible, S) ==
    S \subseteq eligible /\ Cardinality(S) = Least(PruneBatch, Cardinality(eligible))

RetentionWake ==
    /\ retention.pc = "asleep" /\ RetentionAge > 0
    /\ retention' = [pc |-> "prune", total |-> 0]
    /\ UNCHANGED <<row, job, heard, budget>>

(* Mutant: every terminal row may go. *)
PrunableTerminal(d) == row[d].status \in {"delivered", "failed"}

Prunable(d) ==
    \/ row[d].status = "delivered"
    \/ row[d].status = "failed" /\ row[d].acked = "yes"

(* prune_webhook_deliveries. *)
Prune ==
    LET eligible == {d \in Deliveries : Prunable(d) /\ AgedOut(d)}
    IN /\ retention.pc = "prune"
       /\ \E S \in SUBSET eligible :
             /\ BatchOf(eligible, S)
             /\ row' = [d \in Deliveries |->
                   IF d \in S THEN [row[d] EXCEPT !.status = "pruned"] ELSE row[d]]
             /\ retention' = Drained(Cardinality(S), "compact")
       /\ UNCHANGED <<job, heard, budget>>

(* compact_stale_failed_deliveries. *)
Compact ==
    LET eligible == {d \in Deliveries :
            /\ row[d].status = "failed" /\ row[d].acked = "no"
            /\ row[d].payload = "event" /\ AgedOut(d)}
    IN /\ retention.pc = "compact"
       /\ \E S \in SUBSET eligible :
             /\ BatchOf(eligible, S)
             /\ row' = [d \in Deliveries |->
                   IF d \in S THEN [row[d] EXCEPT !.payload = "empty"] ELSE row[d]]
             /\ retention' = Drained(Cardinality(S), "asleep")
       /\ UNCHANGED <<job, heard, budget>>

-----------------------------------------------------------------------------
(* Time and process death. *)

IdleCap == Greatest(Grace, BackoffMax) + Jitter
AgeCap == IF RetentionAge = 0 THEN 0 ELSE RetentionAge + 1

(* The longest a sender stays in a phase. *)
PhaseLimit(k, j) ==
    CASE j.pc = "resolve" -> ResolveTime
      [] j.pc = "post" -> Timeout
      [] j.pc = "sleep" -> RetryCeiling(j.attempt)
      [] OTHER -> 0

Timed == {"resolve", "post", "sleep", "answered"}

Tick ==
    /\ \A k \in Senders, d \in Deliveries :
          job[k][d].pc \in Timed => job[k][d].took < PhaseLimit(k, job[k][d])
    /\ row' = [d \in Deliveries |->
          IF Exists(d) THEN [row[d] EXCEPT !.idle = Least(@ + 1, IdleCap),
                                           !.age = Least(@ + 1, AgeCap)]
                       ELSE row[d]]
    /\ job' = [k \in Senders |-> [d \in Deliveries |->
          IF job[k][d].pc \in Timed THEN [job[k][d] EXCEPT !.took = @ + 1] ELSE job[k][d]]]
    /\ UNCHANGED <<retention, heard, budget>>

Restart ==
    /\ Spend("crashes")
    /\ job' = [k \in Senders |-> [d \in Deliveries |-> NoJob]]
    /\ retention' = Asleep
    /\ UNCHANGED <<row, heard>>

-----------------------------------------------------------------------------

Request(k, d) == Resolve(k, d) \/ Post(k, d) \/ Record(k, d)
Inline(d) == Request("dispatch", d) \/ InlineSleep(d) \/ InlineRetry(d)
Redrive == RedriveList \/ \E d \in Deliveries : RedrivePermit(d) \/ Request("redrive", d)
Retain == RetentionWake \/ Prune \/ Compact

Next ==
    \/ \E d \in Deliveries :
          \/ Dispatch(d) \/ Inline(d) \/ Redeliver(d) \/ Request("manual", d)
          \/ \E k \in Senders : Block(k, d)
    \/ \E S \in SUBSET Deliveries : Requeue(S)
    \/ Redrive \/ Retain \/ Tick \/ Restart

Spec == Init /\ [][Next]_vars

(* Requests end because every phase has a timeout, the redrive worker      *)
(* wakes on its interval, and time passes.                                 *)
FairSpec ==
    /\ Spec /\ WF_vars(Tick) /\ WF_vars(Redrive)
    /\ \A d \in Deliveries : WF_vars(Inline(d)) /\ WF_vars(Request("manual", d))

-----------------------------------------------------------------------------
(* Properties. *)

Row == [status : Stored \cup {"none", "unrecorded", "pruned"}, attempts : Nat,
        idle : Nat, age : Nat, acked : {"yes", "no"}, payload : {"event", "empty"}]
JobState == [pc : {"idle", "queued", "resolve", "post", "answered", "sleep"},
             attempt : Nat, body : {"event", "empty"}, took : Nat,
             answer : {"none", "yes", "no"}]

(* Types of every variable. *)
TypeOK ==
    /\ row \in [Deliveries -> Row]
    /\ job \in [Senders -> [Deliveries -> JobState]]
    /\ retention \in [pc : {"asleep", "prune", "compact"}, total : Nat]
    /\ heard \subseteq Deliveries
    /\ budget \in [{"crashes", "dbErrors", "blocked", "manual", "requeues"} -> Nat]

(* "delivered" means that the receiver has the event, whichever of the     *)
(* three senders wrote the row last, but for a row whose payload           *)
(* compact_stale_failed_deliveries had emptied: a receiver that answers    *)
(* 2xx to an empty body then makes it delivered although the event never   *)
(* arrived.                                                                *)
DeliveredWasHeard ==
    \A d \in Deliveries :
       row[d].status = "delivered" => d \in heard \/ row[d].payload = "empty"

(* A pending row is still owned by the redrive worker: it is never pruned  *)
(* and cannot be requeued, so one the worker would not list again would    *)
(* stay pending for ever.                                                  *)
PendingIsRedrivable == \A d \in Deliveries : row[d].status = "pending" => Redrivable(d)

(* The types, and that no sender strands a pending row. *)
DeliveryInv == TypeOK /\ PendingIsRedrivable

(* The grace window keeps the redrive worker away from a delivery whose    *)
(* dispatch() is still running.                                            *)
GraceKeepsApart ==
    \A d \in Deliveries :
       job["dispatch"][d].pc # "idle" => job["redrive"][d].pc = "idle"

(* Retention destroys no evidence of a lost event: what it deletes has     *)
(* reached the receiver, or the merchant had acted on it, or had been      *)
(* compacted before an empty redrive of it was accepted.                   *)
LostIsKept ==
    \A d \in Deliveries : row[d].status = "pruned" =>
       d \in heard \/ row[d].acked = "yes" \/ row[d].payload = "empty"

(* Every recorded delivery is delivered or runs out of attempts, crashes   *)
(* included: none is stuck.                                                *)
RecordedIsResolved ==
    \A d \in Deliveries :
       Exists(d) ~> (~Exists(d) \/ row[d].status = "delivered" \/ row[d].attempts >= MaxAttempts)
=============================================================================
