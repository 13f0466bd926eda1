----------------------------- MODULE Settlement -----------------------------
(***************************************************************************)
(* Settlement of payment intents: the Horizon poller and the Horizon       *)
(* stream listener reconcile the account's payment history against the     *)
(* open intents, the expiry sweeper retires the overdue ones, the process  *)
(* may die between any two database statements, and every SQLite statement *)
(* is one atomic step.                                                     *)
(*                                                                         *)
(* Durable: the payments table (status, txHash, paid), the                 *)
(* processed_transactions table (ledger), the webhook_deliveries table as  *)
(* the sequence of notices recorded per intent (deliveries) and the        *)
(* poller's cursor in kv_state (savedCursor).  Everything else is the      *)
(* memory of a task and is lost when the process dies.                     *)
(***************************************************************************)
EXTENDS HorizonPayments, Sequences

CONSTANTS
    NoIntent,     \* a reconciler that holds no intent
    NoCursor,     \* kv_state has no row for the cursor
    LiveEdge,     \* the stream cursor "now"
    PageLimit,    \* PAGE_LIMIT
    MaxPages,     \* MAX_PAGES_PER_CYCLE
    BatchSize,    \* expiry_batch_size
    MaxTime,      \* bound: the clock stops here
    MaxCrashes,   \* bound: process deaths
    MaxDbErrors,  \* bound: failing SQLite statements
    MaxOutages    \* bound: failing requests to Horizon

ASSUME SettlementAssumption ==
    /\ NoIntent \notin Intents
    /\ NoCursor \notin Nat
    /\ LiveEdge \notin Nat
    /\ PageLimit \in Nat \ {0}
    /\ MaxPages \in Nat \ {0}
    /\ BatchSize \in Nat \ {0}
    /\ {MaxTime, MaxCrashes, MaxDbErrors, MaxOutages} \subseteq Nat

VARIABLES
    landed,       \* how much of the history has happened
    now,          \* the database's clock
    status,       \* payments.status
    txHash,       \* payments.tx_hash
    paid,         \* payments.paid_amount, 0 for NULL
    ledger,       \* processed_transactions, per intent
    deliveries,   \* webhook_deliveries, per intent, in order of insertion
    savedCursor,  \* kv_state: the poller's durable cursor
    baseline,     \* history: where polling began, and where it was first kept
    worker,       \* each reconciler's progress through reconcile_payment
    poll,         \* the poller around it
    stream,       \* the stream listener around it
    sweeping,     \* intents swept and not yet notified
    budget        \* crashes and failures left

chainVars == <<landed, now>>
rowVars   == <<status, txHash, paid>>
dbVars    == <<status, txHash, paid, ledger, deliveries, savedCursor>>
vars == <<landed, now, status, txHash, paid, ledger, deliveries, savedCursor,
          baseline, worker, poll, stream, sweeping, budget>>

Workers == {"poller", "stream"}
Open == {"pending", "underpaid"}
Terminal == {"completed", "expired"}
Events == {"payment.underpaid", "payment.completed", "payment.overpaid",
           "payment.expired"}
TerminalEvents == Events \ {"payment.underpaid"}

Idle == [pc |-> "idle", rec |-> 0, intent |-> NoIntent, total |-> 0]
PickedUp(r) == [pc |-> "lookup", rec |-> r, intent |-> NoIntent, total |-> 0]
PollAsleep == [pc |-> "sleep", cursor |-> 0, last |-> 0, count |-> 0, pages |-> 0]
Fetching(c) == [pc |-> "fetch", cursor |-> c, last |-> 0, count |-> 0, pages |-> 0]
StreamDown == [conn |-> "down", cursor |-> LiveEdge, sent |-> 0]

Init ==
    /\ landed = 0 /\ now = 0
    /\ status = [p \in Intents |-> "pending"]
    /\ txHash = [p \in Intents |-> NoHash]
    /\ paid = [p \in Intents |-> 0]
    /\ ledger = [p \in Intents |-> {}]
    /\ deliveries = [p \in Intents |-> <<>>]
    /\ savedCursor = NoCursor
    /\ baseline = [first |-> NoCursor, kept |-> NoCursor]
    /\ worker = [w \in Workers |-> Idle]
    /\ poll = PollAsleep
    /\ stream = StreamDown
    /\ sweeping = {}
    /\ budget = [crashes |-> MaxCrashes, dbErrors |-> MaxDbErrors,
                 outages |-> MaxOutages]

-----------------------------------------------------------------------------
(* The network and the clock. *)

Land ==
    /\ landed < NumRecords
    /\ landed' = landed + 1
    /\ UNCHANGED <<now, dbVars, baseline, worker, poll, stream, sweeping, budget>>

Tick ==
    /\ now < MaxTime
    /\ now' = now + 1
    /\ UNCHANGED <<landed, dbVars, baseline, worker, poll, stream, sweeping, budget>>

-----------------------------------------------------------------------------
(* reconcile_payment, one step per database statement. *)

Overdue(p) == Intent[p].expiresAt <= now
Watchable(p) == status[p] \in Open /\ ~Overdue(p)

(* find_pending_by_memo, the prior total (which decides nothing) and       *)
(* verify.  Whatever does not match an intent ends here.                   *)
FindPending(w) ==
    LET hp == Chain[worker[w].rec]
        found == {p \in Intents : /\ Watchable(p)
                                  /\ CarriesMemo(hp, Intent[p].memo)
                                  /\ Verify(Intent[p], hp)}
    IN /\ worker[w].pc = "lookup"
       /\ \/ \E p \in found :
                worker' = [worker EXCEPT ![w] = [@ EXCEPT !.pc = "record", !.intent = p]]
          \/ found = {} /\ worker' = [worker EXCEPT ![w] = Idle]
       /\ UNCHANGED <<chainVars, dbVars, baseline, poll, stream, sweeping, budget>>

(* Mutant: a top-up is settled without being recorded. *)
RecordProcessedTxFirstOnly(w) ==
    LET p == worker[w].intent
    IN /\ worker[w].pc = "record"
       /\ ledger' = [ledger EXCEPT ![p] = IF @ = {} THEN {RowOf(worker[w].rec)} ELSE @]
       /\ worker' = [worker EXCEPT ![w].pc = "sum"]
       /\ UNCHANGED <<chainVars, rowVars, deliveries, savedCursor, baseline, poll,
                      stream, sweeping, budget>>

(* record_processed_tx: the loser of two inserts of one hash stops. *)
RecordProcessedTx(w) ==
    LET p == worker[w].intent
        row == RowOf(worker[w].rec)
    IN /\ worker[w].pc = "record"
       /\ ledger' = [ledger EXCEPT ![p] = InsertRow(@, row)]
       /\ worker' = [worker EXCEPT
              ![w] = IF HasHash(ledger[p], row.hash) THEN Idle
                                                     ELSE [@ EXCEPT !.pc = "sum"]]
       /\ UNCHANGED <<chainVars, rowVars, deliveries, savedCursor, baseline, poll,
                      stream, sweeping, budget>>

(* sum_processed_stroops over the recorded set. *)
SumProcessed(w) ==
    /\ worker[w].pc = "sum"
    /\ worker' = [worker EXCEPT ![w] = [@ EXCEPT !.pc = "settle",
                       !.total = Total(ledger[worker[w].intent])]]
    /\ UNCHANGED <<chainVars, dbVars, baseline, poll, stream, sweeping, budget>>

(* Mutants: the UPDATE without its status guard, and with one that forgets *)
(* the underpaid intents.                                                  *)
UpdateStatusUnguarded(w) ==
    LET p == worker[w].intent
        total == worker[w].total
    IN /\ worker[w].pc = "settle"
       /\ status' = [status EXCEPT ![p] = Outcome(total, Intent[p].amount)]
       /\ txHash' = [txHash EXCEPT ![p] = Chain[worker[w].rec].hash]
       /\ paid' = [paid EXCEPT ![p] = total]
       /\ worker' = [worker EXCEPT ![w].pc = "dispatch"]
       /\ UNCHANGED <<chainVars, ledger, deliveries, savedCursor, baseline, poll,
                      stream, sweeping, budget>>

UpdateStatusPendingOnly(w) ==
    \/ /\ worker[w].pc = "settle" /\ status[worker[w].intent] = "pending"
       /\ UpdateStatusUnguarded(w)
    \/ /\ worker[w].pc = "settle" /\ status[worker[w].intent] # "pending"
       /\ worker' = [worker EXCEPT ![w] = Idle]
       /\ UNCHANGED <<chainVars, dbVars, baseline, poll, stream, sweeping, budget>>

(* settle / update_payment_status: guarded by the status alone. *)
UpdateStatus(w) ==
    LET p == worker[w].intent
        total == worker[w].total
    IN /\ worker[w].pc = "settle"
       /\ \/ /\ status[p] \in Open
             /\ status' = [status EXCEPT ![p] = Outcome(total, Intent[p].amount)]
             /\ txHash' = [txHash EXCEPT ![p] = Chain[worker[w].rec].hash]
             /\ paid' = [paid EXCEPT ![p] = total]
             /\ worker' = [worker EXCEPT ![w].pc = "dispatch"]
          \/ /\ status[p] \notin Open
             /\ worker' = [worker EXCEPT ![w] = Idle]
             /\ UNCHANGED rowVars
       /\ UNCHANGED <<chainVars, ledger, deliveries, savedCursor, baseline, poll,
                      stream, sweeping, budget>>

Notice(event, amount) == [event |-> event, paid |-> amount]

(* webhook::dispatch records the delivery; what follows is WebhookDelivery. *)
DispatchSettled(w) ==
    LET p == worker[w].intent
        total == worker[w].total
    IN /\ worker[w].pc = "dispatch"
       /\ deliveries' = [deliveries EXCEPT
              ![p] = Append(@, Notice(EventFor(total, Intent[p].amount), total))]
       /\ worker' = [worker EXCEPT ![w] = Idle]
       /\ UNCHANGED <<chainVars, rowVars, ledger, savedCursor, baseline, poll,
                      stream, sweeping, budget>>

(* A statement of reconcile_payment fails: the error is logged, the record *)
(* is not tried again.  A failed insert of the delivery row is logged too. *)
ReconcileError(w) ==
    /\ worker[w].pc # "idle"
    /\ budget.dbErrors > 0
    /\ budget' = [budget EXCEPT !.dbErrors = @ - 1]
    /\ worker' = [worker EXCEPT ![w] = Idle]
    /\ UNCHANGED <<chainVars, dbVars, baseline, poll, stream, sweeping>>

Reconcile(w) ==
    \/ FindPending(w) \/ RecordProcessedTx(w) \/ SumProcessed(w)
    \/ UpdateStatus(w) \/ DispatchSettled(w)

-----------------------------------------------------------------------------
(* run_poller and poll_once. *)

Least(a, b) == IF a < b THEN a ELSE b

(* Mutant: every cycle starts at the newest record. *)
PollStartAtNewest ==
    /\ poll.pc = "sleep"
    /\ \/ savedCursor # NoCursor /\ poll' = Fetching(landed)
       \/ savedCursor = NoCursor /\ poll' = [PollAsleep EXCEPT !.pc = "ask"]
    /\ UNCHANGED <<chainVars, dbVars, baseline, worker, stream, sweeping, budget>>

(* starting_cursor, get_state: resume, or ask Horizon where to begin. *)
PollStart ==
    /\ poll.pc = "sleep"
    /\ \/ savedCursor # NoCursor /\ poll' = Fetching(savedCursor)
       \/ savedCursor = NoCursor /\ poll' = [PollAsleep EXCEPT !.pc = "ask"]
    /\ UNCHANGED <<chainVars, dbVars, baseline, worker, stream, sweeping, budget>>

(* starting_cursor, the request: the newest record, yet to be saved; on an *)
(* empty account "0", which is not saved.                                  *)
PollBaseline ==
    /\ poll.pc = "ask"
    /\ poll' = IF landed = 0 THEN Fetching(0)
                             ELSE [Fetching(landed) EXCEPT !.pc = "save"]
    /\ baseline' = [first |-> IF baseline.first = NoCursor THEN landed ELSE baseline.first,
                    kept |-> landed]
    /\ UNCHANGED <<chainVars, dbVars, worker, stream, sweeping, budget>>

(* starting_cursor, set_state: the baseline is made durable. *)
PollKeep ==
    /\ poll.pc = "save"
    /\ savedCursor' = poll.cursor
    /\ poll' = [poll EXCEPT !.pc = "fetch"]
    /\ UNCHANGED <<chainVars, rowVars, ledger, deliveries, baseline, worker, stream,
                   sweeping, budget>>

(* Mutant: the cursor is saved with the fetch. *)
PollFetchSaving ==
    LET last == Least(landed, poll.cursor + PageLimit)
    IN /\ poll.pc = "fetch"
       /\ savedCursor' = last
       /\ poll' = [pc |-> "walk", cursor |-> poll.cursor, last |-> last,
                   count |-> last - poll.cursor, pages |-> poll.pages + 1]
       /\ UNCHANGED <<chainVars, rowVars, ledger, deliveries, baseline, worker, stream,
                      sweeping, budget>>

(* fetch_recent_payments: the next page, in ascending order. *)
PollFetch ==
    LET last == Least(landed, poll.cursor + PageLimit)
    IN /\ poll.pc = "fetch"
       /\ poll' = [pc |-> "walk", cursor |-> poll.cursor, last |-> last,
                   count |-> last - poll.cursor, pages |-> poll.pages + 1]
       /\ UNCHANGED <<chainVars, dbVars, baseline, worker, stream, sweeping, budget>>

(* The next record of the page; the cursor moves before it is reconciled. *)
PollRecord ==
    /\ poll.pc = "walk" /\ poll.cursor < poll.last
    /\ worker["poller"].pc = "idle"
    /\ poll' = [poll EXCEPT !.cursor = @ + 1]
    /\ worker' = [worker EXCEPT !["poller"] = PickedUp(poll.cursor + 1)]
    /\ UNCHANGED <<chainVars, dbVars, baseline, stream, sweeping, budget>>

(* set_state after the page, then stop on a short page or at the cap. *)
PollCheckpoint ==
    /\ poll.pc = "walk" /\ poll.cursor = poll.last
    /\ worker["poller"].pc = "idle"
    /\ savedCursor' = poll.cursor
    /\ poll' = IF poll.count = PageLimit /\ poll.pages < MaxPages
               THEN [poll EXCEPT !.pc = "fetch"]
               ELSE PollAsleep
    /\ UNCHANGED <<chainVars, rowVars, ledger, deliveries, baseline, worker,
                   stream, sweeping, budget>>

(* A request fails: the cycle ends, the durable cursor stays. *)
PollOutage ==
    /\ poll.pc \in {"ask", "fetch"}
    /\ budget.outages > 0
    /\ budget' = [budget EXCEPT !.outages = @ - 1]
    /\ poll' = PollAsleep
    /\ UNCHANGED <<chainVars, dbVars, baseline, worker, stream, sweeping>>

(* get_state or set_state fails: the cycle ends with the cursor as it was, *)
(* and a page that was walked will be read again.                          *)
CursorError ==
    /\ \/ poll.pc \in {"sleep", "save"}
       \/ poll.pc = "walk" /\ poll.cursor = poll.last /\ worker["poller"].pc = "idle"
    /\ budget.dbErrors > 0
    /\ budget' = [budget EXCEPT !.dbErrors = @ - 1]
    /\ poll' = PollAsleep
    /\ UNCHANGED <<chainVars, dbVars, baseline, worker, stream, sweeping>>

Poller ==
    \/ PollStart \/ PollBaseline \/ PollKeep
    \/ PollFetch \/ PollRecord \/ PollCheckpoint
    \/ Reconcile("poller")

-----------------------------------------------------------------------------
(* run_stream_listener, stream_once and handle_stream_event. *)

(* The server replays from the cursor, or from the live edge. *)
StreamConnect ==
    /\ stream.conn = "down"
    /\ stream' = [stream EXCEPT
           !.conn = "up",
           !.sent = IF stream.cursor = LiveEdge THEN landed ELSE stream.cursor]
    /\ UNCHANGED <<chainVars, dbVars, baseline, worker, poll, sweeping, budget>>

StreamRecord ==
    /\ stream.conn = "up" /\ stream.sent < landed
    /\ worker["stream"].pc = "idle"
    /\ stream' = [stream EXCEPT !.sent = @ + 1, !.cursor = stream.sent + 1]
    /\ worker' = [worker EXCEPT !["stream"] = PickedUp(stream.sent + 1)]
    /\ UNCHANGED <<chainVars, dbVars, baseline, poll, sweeping, budget>>

(* The connection drops; the cursor is kept for the reconnect. *)
StreamDrop ==
    /\ stream.conn = "up" /\ worker["stream"].pc = "idle"
    /\ budget.outages > 0
    /\ budget' = [budget EXCEPT !.outages = @ - 1]
    /\ stream' = [stream EXCEPT !.conn = "down", !.sent = 0]
    /\ UNCHANGED <<chainVars, dbVars, baseline, worker, poll, sweeping>>

Stream == StreamConnect \/ StreamRecord \/ Reconcile("stream")

-----------------------------------------------------------------------------
(* expiry::sweep_once. *)

(* Mutants: the sweep takes completed intents, or forgets underpaid ones. *)
OverdueIntentsDecided == {p \in Intents : status[p] # "expired" /\ Overdue(p)}
OverdueIntentsPending == {p \in Intents : status[p] = "pending" /\ Overdue(p)}

(* What the UPDATE selects: open and past expires_at. *)
OverdueIntents == {p \in Intents : status[p] \in Open /\ Overdue(p)}

(* expire_overdue: one UPDATE ... RETURNING of at most BatchSize rows. *)
ExpireOverdue ==
    /\ sweeping = {}
    /\ \E S \in SUBSET OverdueIntents :
          /\ S # {}
          /\ Cardinality(S) = Least(BatchSize, Cardinality(OverdueIntents))
          /\ status' = [p \in Intents |-> IF p \in S THEN "expired" ELSE status[p]]
          /\ sweeping' = S
    /\ UNCHANGED <<chainVars, txHash, paid, ledger, deliveries, savedCursor,
                   baseline, worker, poll, stream, budget>>

DispatchExpired ==
    \E p \in sweeping :
       /\ deliveries' = [deliveries EXCEPT
              ![p] = Append(@, Notice("payment.expired", paid[p]))]
       /\ sweeping' = sweeping \ {p}
       /\ UNCHANGED <<chainVars, rowVars, ledger, savedCursor, baseline, worker,
                      poll, stream, budget>>

(* The delivery row cannot be written: logged, and the loop goes on. *)
ExpiredNoticeError ==
    \E p \in sweeping :
       /\ budget.dbErrors > 0
       /\ budget' = [budget EXCEPT !.dbErrors = @ - 1]
       /\ sweeping' = sweeping \ {p}
       /\ UNCHANGED <<chainVars, dbVars, baseline, worker, poll, stream>>

Sweeper == ExpireOverdue \/ DispatchExpired

-----------------------------------------------------------------------------
(* The process dies and is started again.  migrate() backfills the ledger  *)
(* from payments.tx_hash and paid_amount on every start.                   *)

BackfillRow(p) == [hash |-> txHash[p], amount |-> paid[p]]

Backfilled(p) ==
    IF txHash[p] # NoHash /\ paid[p] > 0 THEN InsertRow(ledger[p], BackfillRow(p))
                                         ELSE ledger[p]

Restart ==
    /\ budget.crashes > 0
    /\ budget' = [budget EXCEPT !.crashes = @ - 1]
    /\ ledger' = [p \in Intents |-> Backfilled(p)]
    /\ worker' = [w \in Workers |-> Idle]
    /\ poll' = PollAsleep
    /\ stream' = StreamDown
    /\ sweeping' = {}
    /\ UNCHANGED <<chainVars, rowVars, deliveries, savedCursor, baseline>>

-----------------------------------------------------------------------------

Next ==
    \/ Land \/ Tick
    \/ \E w \in Workers : Reconcile(w) \/ ReconcileError(w)
    \/ PollStart \/ PollBaseline \/ PollKeep
    \/ PollFetch \/ PollRecord \/ PollCheckpoint
    \/ PollOutage \/ CursorError
    \/ StreamConnect \/ StreamRecord \/ StreamDrop
    \/ ExpireOverdue \/ DispatchExpired \/ ExpiredNoticeError
    \/ Restart

Spec == Init /\ [][Next]_vars

(* Each background task keeps running: the poller's and the sweeper's      *)
(* loops wake on a timer, the stream reconnects after its backoff, and     *)
(* the supervisor restarts a task that stopped.  Neither the payers (Land) *)
(* nor the clock is assumed to go on.                                      *)
FairSpec == Spec /\ WF_vars(Poller) /\ WF_vars(Stream) /\ WF_vars(Sweeper)

-----------------------------------------------------------------------------
(* Properties. *)

PollPc == {"sleep", "ask", "save", "fetch", "walk"}
Cursors == (0 .. NumRecords) \cup {NoCursor}
Holding == {"record", "sum", "settle", "dispatch"}
WorkerPc == {"idle", "lookup"} \cup Holding

NoticeRow == [event : Events, paid : Nat]
WorkerState == [pc : WorkerPc, rec : 0 .. NumRecords,
                intent : Intents \cup {NoIntent}, total : Nat]
PollState == [pc : PollPc, cursor : 0 .. NumRecords, last : 0 .. NumRecords,
              count : Int, pages : Nat]
StreamState == [conn : {"down", "up"}, cursor : (0 .. NumRecords) \cup {LiveEdge},
                sent : 0 .. NumRecords]
Budget == [crashes : Nat, dbErrors : Nat, outages : Nat]

(* Types of every variable. *)
TypeOK ==
    /\ landed \in 0 .. NumRecords /\ now \in Nat
    /\ status \in [Intents -> Open \cup Terminal]
    /\ txHash \in [Intents -> Hashes \cup {NoHash}]
    /\ paid \in [Intents -> Nat]
    /\ ledger \in [Intents -> SUBSET LedgerRow]
    /\ deliveries \in [Intents -> Seq(NoticeRow)]
    /\ savedCursor \in Cursors
    /\ baseline \in [first : Cursors, kept : Cursors]
    /\ worker \in [Workers -> WorkerState]
    /\ poll \in PollState
    /\ stream \in StreamState
    /\ sweeping \in SUBSET Intents
    /\ budget \in Budget

(* Nothing is credited twice and nothing unrelated is credited: every row  *)
(* of the ledger is a successful operation that has landed, pays this      *)
(* intent, and is the only row with its hash.                              *)
NoDoubleCredit ==
    \A p \in Intents : \A row \in ledger[p] :
       /\ \E r \in 1 .. landed : Pays(r, p) /\ row = RowOf(r)
       /\ \A other \in ledger[p] : other.hash = row.hash => other = row

(* Only what the merchant asked for is credited: the operation behind a    *)
(* ledger row agrees with the intent in every field but amount and hash.   *)
CreditIsGenuine ==
    \A p \in Intents : \A row \in ledger[p] : \E r \in 1 .. landed :
       Chain[r] = [kind |-> "payment", to |-> Intent[p].destination,
                   memoType |-> "text", memo |-> Intent[p].memo,
                   successful |-> "true", asset |-> Intent[p].asset,
                   issuer |-> Intent[p].issuer,
                   amount |-> row.amount, hash |-> row.hash]

(* A completed intent is paid for: the amount written with the status      *)
(* covers the price, and the ledger covers the amount written.             *)
CompletedIsFunded ==
    \A p \in Intents :
       /\ paid[p] <= Total(ledger[p])
       /\ status[p] = "completed" => Intent[p].amount <= paid[p]

IsTerminalNotice(n) == n.event \in TerminalEvents

StatusOfEvent(e) == IF e = "payment.expired" THEN "expired" ELSE "completed"

(* Of a sequence of notices at most one is terminal, and it names this     *)
(* status and this amount.                                                 *)
TellsOnce(notices, st, amount) ==
    \A i \in DOMAIN notices : IsTerminalNotice(notices[i]) =>
       /\ st = StatusOfEvent(notices[i].event)
       /\ amount = notices[i].paid
       /\ \A j \in DOMAIN notices : IsTerminalNotice(notices[j]) => i = j

(* One outcome, told once and told truthfully: an intent has at most one   *)
(* terminal notice however the reconcilers, the sweeper and restarts       *)
(* interleave, and the notice agrees with the row for good.                *)
OneTerminalNotice ==
    \A p \in Intents : TellsOnce(deliveries[p], status[p], paid[p])

(* migrate() runs its backfill on every start; on a database this program  *)
(* has written it must add nothing, or the cumulative paid_amount would be *)
(* credited again under the latest hash.                                   *)
BackfillAddsNothing == \A p \in Intents : Backfilled(p) = ledger[p]

-----------------------------------------------------------------------------
(* The inductive invariant behind the four properties above. *)

(* What a reconciler holds stays true however others move meanwhile: the   *)
(* record landed and pays the intent, its transaction is in the ledger     *)
(* once recorded, and the total it read is at most what the ledger has.    *)
StillTrue(me) ==
    /\ me.pc # "idle" => me.rec \in 1 .. landed
    /\ me.pc \in Holding => me.intent \in Intents /\ Pays(me.rec, me.intent)
    /\ me.pc \in {"sum", "settle", "dispatch"} =>
          HasHash(ledger[me.intent], Chain[me.rec].hash)
    /\ me.pc \in {"settle", "dispatch"} => me.total <= Total(ledger[me.intent])

WorkerSound == \A w \in Workers : StillTrue(worker[w])

LedgerSound ==
    /\ poll.last <= landed
    /\ \A p \in Intents : IsFiniteSet(Stroops(ledger[p]))
    /\ \A p \in Intents : txHash[p] # NoHash => HasHash(ledger[p], txHash[p])
    /\ NoDoubleCredit
    /\ CompletedIsFunded

Silent(notices) == \A i \in DOMAIN notices : ~IsTerminalNotice(notices[i])

(* The reconciler has completed its intent and has yet to say so. *)
Owes(w) ==
    worker[w].pc = "dispatch" /\ worker[w].total >= Intent[worker[w].intent].amount

(* Exactly one task holds the right to tell an outcome that is not told. *)
NoticeSound ==
    /\ OneTerminalNotice
    /\ \A p \in sweeping : status[p] = "expired" /\ Silent(deliveries[p])
    /\ \A w \in Workers : Owes(w) =>
          LET p == worker[w].intent
          IN status[p] = "completed" /\ paid[p] = worker[w].total /\ Silent(deliveries[p])
    /\ \A v, w \in Workers :
          Owes(v) /\ Owes(w) /\ worker[v].intent = worker[w].intent => v = w

(* Holds in every reachable state and is preserved by every step: what     *)
(* reconcile_payment, sweep_once and migrate rely on between statements.   *)
SettlementInv == TypeOK /\ WorkerSound /\ LedgerSound /\ NoticeSound

-----------------------------------------------------------------------------

(* The status guard: once completed or expired, the row never changes. *)
TerminalIsFinal ==
    [][\A p \in Intents : status[p] \in Terminal =>
          status'[p] = status[p] /\ txHash'[p] = txHash[p] /\ paid'[p] = paid[p]]_vars

(* Settlement implements the life of an intent: decided once, told once. *)
OutcomeOf(p) == IF status[p] \in Open THEN "open" ELSE status[p]

Told(notices) ==
    LET terminal == {i \in DOMAIN notices : IsTerminalNotice(notices[i])}
    IN IF terminal = {} THEN "nothing"
       ELSE StatusOfEvent(notices[CHOOSE i \in terminal : TRUE].event)

Lifecycle == INSTANCE IntentLifecycle
    WITH outcome <- [p \in Intents |-> OutcomeOf(p)],
         told <- [p \in Intents |-> Told(deliveries[p])]

(* Every step of the reconcilers, the sweeper and a restart is a step of   *)
(* the abstract life of an intent, or leaves it alone.                     *)
ImplementsLifecycle == Lifecycle!Spec

(* Every record after c that the durable cursor has passed and that pays   *)
(* an intent still watchable has its transaction in the ledger.            *)
NothingSkippedAfter(c) ==
    savedCursor # NoCursor =>
       \A p \in Intents : \A r \in Records :
          c < r /\ r <= savedCursor /\ Watchable(p) /\ Pays(r, p)
             => HasHash(ledger[p], Chain[r].hash)

(* Once a cursor is kept, only a failing statement makes it pass a payment *)
(* that came after the cycle that kept it began: crashes and outages       *)
(* between a page's records and its checkpoint do not.                     *)
OnlyErrorsSkip == budget.dbErrors = MaxDbErrors => NothingSkippedAfter(baseline.kept)

(* starting_cursor's promise: of an account that was empty when polling    *)
(* began, "the first payment that ever arrives is still captured".         *)
FirstPaymentIsCaptured == baseline.first = 0 => NothingSkippedAfter(0)

Resting == \A w \in Workers : worker[w].pc = "idle"

FundedIsSettled ==
    \A p \in Intents : Total(ledger[p]) >= Intent[p].amount => status[p] \notin Open

(* While no statement failed and the process did not die, every order of   *)
(* the two reconcilers' statements settles what the ledger covers.         *)
RacesSettle ==
    /\ budget.dbErrors = MaxDbErrors /\ budget.crashes = MaxCrashes
    /\ Resting
    => FundedIsSettled

(* The sweeper retires every overdue intent, funded or not. *)
OverdueIsRetired ==
    \A p \in Intents : (status[p] \in Open /\ Overdue(p)) ~> (status[p] \in Terminal)

PaidOnChain(p, r) == baseline.kept < r /\ r <= landed /\ Pays(r, p)

(* A record that pays an intent is credited, or the intent runs out of     *)
(* time or is decided without it.                                          *)
PaymentIsCredited ==
    \A p \in Intents : \A r \in Records :
       (savedCursor # NoCursor /\ PaidOnChain(p, r))
          ~> (HasHash(ledger[p], Chain[r].hash) \/ Overdue(p) \/ status[p] \in Terminal)

(* An intent whose ledger covers its price completes or is retired. *)
FundedIsDecided ==
    \A p \in Intents :
       (Total(ledger[p]) >= Intent[p].amount) ~> (status[p] \in Terminal)
=============================================================================
