------------------------------- MODULE Listing -------------------------------
(***************************************************************************)
(* The paginated listings: GET /payments, GET /payments/:id/webhooks and   *)
(* GET /payments/webhooks.  A client walks through one of them page by     *)
(* page while rows are inserted, change status and are pruned.  Rows come  *)
(* in the order (created_at DESC, id DESC); a page that is full carries a  *)
(* cursor that names its last row, a short one carries none.               *)
(*                                                                         *)
(* An id is a random UUID and created_at has whole seconds, so that new    *)
(* rows land anywhere in the order, also among the ties a client is        *)
(* walking through.  Each SQLite statement is atomic; a page and the       *)
(* optional total are two statements.                                      *)
(***************************************************************************)
EXTENDS Integers, FiniteSets, Sequences

CONSTANTS
    Ids,            \* row ids, by their rank in the order of the texts
    Merchants,
    Caller,         \* the merchant whose key the client presents
    Filters,        \* the values of ?status= the client sends
    MaxTime,        \* bound: created_at is 1 .. MaxTime
    DefaultLimit,   \* DEFAULT_LIMIT
    MaxLimit,       \* MAX_LIMIT
    Asked,          \* the values of ?limit= the client sends
    NotSent,        \* a query parameter that is absent
    MaxRows,        \* bound: rows ever inserted
    MaxChanges      \* bound: status changes and prunings

ASSUME ListingAssumption ==
    /\ Ids \subseteq Nat \ {0} /\ IsFiniteSet(Ids) /\ Caller \in Merchants
    /\ {MaxTime, DefaultLimit, MaxLimit} \subseteq Nat \ {0}
    /\ Asked \subseteq Int /\ NotSent \notin Asked /\ NotSent \notin Filters
    /\ {MaxRows, MaxChanges} \subseteq Nat

VARIABLES
    payments,    \* the payments table; created = 0 before the insert
    deliveries,  \* the webhook_deliveries table, likewise
    walk,        \* the client's walk: its query, its position, what it got
    steady,      \* history: rows that matched the query since the walk began
    done         \* rows inserted and changed so far

vars == <<payments, deliveries, walk, steady, done>>

(* VALID_STATUSES and VALID_DELIVERY_STATUSES: any other filter is a 400.  *)
Statuses == {"pending", "completed", "underpaid", "expired"}
DeliveryStatuses == {"pending", "delivered", "failed"}
Pruned == "pruned"
AnyStatus == "any"
StatusOf(asked) == IF asked = NotSent THEN AnyStatus ELSE asked

NoPayment == [created |-> 0, merchant |-> Caller, status |-> "pending"]
NoDelivery == [created |-> 0, payment |-> 0, status |-> "pending"]

NoWalk == [list |-> "none", merchant |-> Caller, payment |-> 0,
           status |-> AnyStatus, pc |-> "idle", cursor |-> <<>>, offset |-> 0,
           byOffset |-> FALSE, total |-> NotSent, seen |-> {}, repeated |-> FALSE]

Init ==
    /\ payments = [i \in Ids |-> NoPayment]
    /\ deliveries = [i \in Ids |-> NoDelivery]
    /\ walk = NoWalk
    /\ steady = {}
    /\ done = [rows |-> 0, changes |-> 0]

-----------------------------------------------------------------------------
(* The rows a query selects, in order. *)

(* Ids are never used twice, so a pruned row leaves its mark here.          *)
Stored(row) == row.created > 0 /\ row.status # Pruned

StatusIs(q, row) == q.status \in {AnyStatus, row.status}

PaymentsOf(q) ==
    {i \in Ids : /\ Stored(payments[i]) /\ payments[i].merchant = q.merchant
                 /\ StatusIs(q, payments[i])}

DeliveriesOfPayment(q) ==
    {i \in Ids : /\ Stored(deliveries[i]) /\ deliveries[i].payment = q.payment
                 /\ StatusIs(q, deliveries[i])}

(* Mutant: without the join that scopes the rows. *)
DeliveriesOfAnyone(q) ==
    {i \in Ids : Stored(deliveries[i]) /\ StatusIs(q, deliveries[i])}

DeliveriesOfMerchant(q) ==
    {i \in Ids : /\ Stored(deliveries[i])
                 /\ payments[deliveries[i].payment].merchant = q.merchant
                 /\ StatusIs(q, deliveries[i])}

Matching(q) ==
    CASE q.list = "payments" -> PaymentsOf(q)
      [] q.list = "of_payment" -> DeliveriesOfPayment(q)
      [] q.list = "of_merchant" -> DeliveriesOfMerchant(q)
      [] OTHER -> {}

CreatedAt(q, i) == IF q.list = "payments" THEN payments[i].created ELSE deliveries[i].created

(* ORDER BY created_at DESC, id DESC: i comes before j. *)
Before(q, i, j) ==
    \/ CreatedAt(q, i) > CreatedAt(q, j)
    \/ CreatedAt(q, i) = CreatedAt(q, j) /\ i > j

(* LIMIT n OFFSET o. *)
Slice(q, rows, n, o) ==
    {i \in rows : Cardinality({j \in rows : Before(q, j, i)}) \in o .. o + n - 1}

(* Mutants: the tie-break is dropped; the cursor's own row is included.    *)
PastCursorBySecond(q, ts, id) == {i \in Matching(q) : CreatedAt(q, i) < ts}

PastCursorInclusive(q, ts, id) ==
    {i \in Matching(q) : CreatedAt(q, i) < ts \/ (CreatedAt(q, i) = ts /\ i <= id)}

(* The keyset condition. *)
PastCursor(q, ts, id) ==
    {i \in Matching(q) : CreatedAt(q, i) < ts \/ (CreatedAt(q, i) = ts /\ i < id)}

-----------------------------------------------------------------------------
(* Cursors are text: the timestamp, a tab and the id, in hex. *)

Tab == 0

EncodeCursor(ts, id) == <<ts, Tab, id>>

(* The text is split at its first tab; a text without one is refused.      *)
DecodeCursor(raw) ==
    LET tabs == {k \in DOMAIN raw : raw[k] = Tab}
    IN IF tabs = {} THEN NotSent
       ELSE LET k == CHOOSE k \in tabs : \A l \in tabs : k <= l
            IN [ts |-> SubSeq(raw, 1, k - 1), id |-> SubSeq(raw, k + 1, Len(raw))]

Limit(asked) ==
    LET n == IF asked = NotSent THEN DefaultLimit ELSE asked
    IN IF n < 1 THEN 1 ELSE IF n > MaxLimit THEN MaxLimit ELSE n

LastOf(q, page) == CHOOSE i \in page : \A j \in page \ {i} : Before(q, j, i)

(* A full page has a next_cursor, a short one null. *)
NextCursor(q, page, n) ==
    IF Cardinality(page) = n
    THEN EncodeCursor(CreatedAt(q, LastOf(q, page)), LastOf(q, page))
    ELSE <<>>

-----------------------------------------------------------------------------
(* The tables change, until the walk is over.  A row that no longer         *)
(* matches the query has not been there for the whole walk.                *)

Insert == walk.pc # "done" /\ done.rows < MaxRows /\ done' = [done EXCEPT !.rows = @ + 1]
Change == walk.pc # "done" /\ done.changes < MaxChanges /\ done' = [done EXCEPT !.changes = @ + 1]
StillSteady == steady' = steady \cap Matching(walk)'

CreatePayment(i, m, t) ==
    /\ payments[i].created = 0
    /\ Insert
    /\ payments' = [payments EXCEPT ![i] = [created |-> t, merchant |-> m, status |-> "pending"]]
    /\ UNCHANGED <<deliveries, walk>>
    /\ StillSteady

(* Settlement and the expiry sweeper. *)
MovePayment(i, s) ==
    /\ Stored(payments[i])
    /\ \/ payments[i].status = "pending" /\ s \in {"underpaid", "completed", "expired"}
       \/ payments[i].status = "underpaid" /\ s \in {"completed", "expired"}
    /\ Change
    /\ payments' = [payments EXCEPT ![i].status = s]
    /\ UNCHANGED <<deliveries, walk>>
    /\ StillSteady

CreateDelivery(i, p, t) ==
    /\ deliveries[i].created = 0 /\ Stored(payments[p])
    /\ Insert
    /\ deliveries' = [deliveries EXCEPT ![i] = [created |-> t, payment |-> p, status |-> "pending"]]
    /\ UNCHANGED <<payments, walk>>
    /\ StillSteady

(* Senders and the bulk requeue. *)
MoveDelivery(i, s) ==
    /\ Stored(deliveries[i])
    /\ s \in DeliveryStatuses \ {deliveries[i].status}
    /\ Change
    /\ deliveries' = [deliveries EXCEPT ![i].status = s]
    /\ UNCHANGED <<payments, walk>>
    /\ StillSteady

(* Retention. *)
PruneDelivery(i) ==
    /\ Stored(deliveries[i]) /\ deliveries[i].status # "pending"
    /\ Change
    /\ deliveries' = [deliveries EXCEPT ![i].status = Pruned]
    /\ UNCHANGED <<payments, walk>>
    /\ StillSteady

-----------------------------------------------------------------------------
(* The client. *)

Begin(q) ==
    /\ walk.pc = "idle"
    /\ walk' = [q EXCEPT !.pc = "ask"]
    /\ steady' = Matching(q)
    /\ UNCHANGED <<payments, deliveries, done>>

(* list: an unknown status is a 400. *)
BeginPayments(asked) ==
    /\ StatusOf(asked) \in Statuses \cup {AnyStatus}
    /\ Begin([NoWalk EXCEPT !.list = "payments", !.status = StatusOf(asked)])

(* list_webhooks: 404 unless the payment is the caller's. *)
BeginOfPayment(p, asked) ==
    /\ StatusOf(asked) \in DeliveryStatuses \cup {AnyStatus}
    /\ Stored(payments[p]) /\ payments[p].merchant = Caller
    /\ Begin([NoWalk EXCEPT !.list = "of_payment", !.payment = p, !.status = StatusOf(asked)])

(* list_merchant_webhooks: failed deliveries unless asked for others. *)
BeginOfMerchant(asked) ==
    LET status == IF asked = NotSent THEN "failed" ELSE asked
    IN /\ status \in DeliveryStatuses
       /\ Begin([NoWalk EXCEPT !.list = "of_merchant", !.status = status])

(* The answer to a request: its rows, and where the client stands then.    *)
Answer(page, n, o, byOffset, withTotal) ==
    LET next == NextCursor(walk, page, n)
    IN walk' = [walk EXCEPT !.seen = @ \cup page,
                            !.repeated = @ \/ page \cap walk.seen # {},
                            !.cursor = next, !.offset = o + Cardinality(page),
                            !.byOffset = byOffset, !.total = NotSent,
                            !.pc = IF withTotal THEN "count"
                                   ELSE IF next = <<>> THEN "done" ELSE "ask"]

(* A request with a cursor, or the first one of a delivery listing. *)
CursorPage(asked) ==
    LET n == Limit(asked)
        at == DecodeCursor(walk.cursor)
        rows == IF walk.cursor = <<>> THEN Matching(walk)
                ELSE PastCursor(walk, at.ts[1], at.id[1])
    IN /\ walk.pc = "ask"
       /\ walk.cursor = <<>> => walk.list # "payments"
       /\ Answer(Slice(walk, rows, n, 0), n, walk.offset, walk.byOffset, FALSE)
       /\ UNCHANGED <<payments, deliveries, steady, done>>

(* GET /payments without a cursor, from wherever the client has got to;    *)
(* with include_total a second statement follows.                          *)
OffsetPage(asked, withTotal) ==
    LET n == Limit(asked)
        o == walk.offset
    IN /\ walk.pc = "ask" /\ walk.list = "payments"
       /\ Answer(Slice(walk, Matching(walk), n, o), n, o, walk.byOffset \/ o > 0, withTotal)
       /\ UNCHANGED <<payments, deliveries, steady, done>>

(* count_payments. *)
Count ==
    /\ walk.pc = "count"
    /\ walk' = [walk EXCEPT !.total = Cardinality(PaymentsOf(walk)),
                            !.pc = IF walk.cursor = <<>> THEN "done" ELSE "ask"]
    /\ UNCHANGED <<payments, deliveries, steady, done>>

-----------------------------------------------------------------------------

Requests ==
    \/ \E asked \in Asked \cup {NotSent} :
          \/ CursorPage(asked)
          \/ \E withTotal \in BOOLEAN : OffsetPage(asked, withTotal)
    \/ Count

Next ==
    \/ \E i \in Ids, m \in Merchants, t \in 1 .. MaxTime : CreatePayment(i, m, t)
    \/ \E i, p \in Ids, t \in 1 .. MaxTime : CreateDelivery(i, p, t)
    \/ \E i \in Ids, s \in Statuses : MovePayment(i, s)
    \/ \E i \in Ids, s \in DeliveryStatuses : MoveDelivery(i, s)
    \/ \E i \in Ids : PruneDelivery(i)
    \/ \E asked \in Filters \cup {NotSent} :
          \/ BeginPayments(asked) \/ BeginOfMerchant(asked)
          \/ \E p \in Ids : BeginOfPayment(p, asked)
    \/ Requests \/ (walk.pc = "done" /\ UNCHANGED vars)

Spec == Init /\ [][Next]_vars

-----------------------------------------------------------------------------
(* Properties. *)

(* Types of every variable. *)
TypeOK ==
    /\ payments \in [Ids -> [created : 0 .. MaxTime, merchant : Merchants, status : Statuses]]
    /\ deliveries \in [Ids -> [created : 0 .. MaxTime, payment : Ids \cup {0},
                               status : DeliveryStatuses \cup {Pruned}]]
    /\ walk \in [list : {"none", "payments", "of_payment", "of_merchant"},
                 merchant : {Caller}, payment : Ids \cup {0},
                 status : Statuses \cup DeliveryStatuses \cup {AnyStatus},
                 pc : {"idle", "ask", "count", "done"}, cursor : Seq(Nat), offset : Nat,
                 byOffset : BOOLEAN, total : Nat \cup {NotSent}, seen : SUBSET Ids,
                 repeated : BOOLEAN]
    /\ steady \subseteq Ids
    /\ done \in [rows : 0 .. MaxRows, changes : 0 .. MaxChanges]

(* Tenancy of the three listings: every row a client gets belongs to a     *)
(* payment of the merchant whose key it presented.                         *)
OnlyTheCallers ==
    \A i \in walk.seen :
        Caller = IF walk.list = "payments" THEN payments[i].merchant
                 ELSE payments[deliveries[i].payment].merchant

(* include_total counts after the page was read; what the caller has paged *)
(* past is still counted as long as no row can leave the listing.          *)
TotalCoversPages ==
    walk.total # NotSent /\ walk.status = AnyStatus => walk.total >= walk.offset

ListingInv == TypeOK /\ OnlyTheCallers /\ TotalCoversPages

(* "without skipping": a walk that has ended has returned every row that   *)
(* matched from its first request to its last, whatever was inserted,      *)
(* changed or pruned around the cursor.  Offsets keep this too, but only   *)
(* where no row leaves the listing.                                        *)
WalkIsComplete ==
    walk.pc = "done" /\ (walk.byOffset => walk.status = AnyStatus) => steady \subseteq walk.seen

(* "or repeating": no row is returned twice, unless the client pages by    *)
(* offset while rows are inserted above it.  Since a page with a cursor    *)
(* has rows, the walk also ends.                                           *)
WalkNeverRepeats == ~walk.byOffset => ~walk.repeated
=============================================================================
