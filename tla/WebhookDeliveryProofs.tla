------------------------ MODULE WebhookDeliveryProofs ------------------------
(***************************************************************************)
(* Theorems about WebhookDelivery, for any deliveries, retry settings,     *)
(* redrive settings and retention age, any receiver, and any number of     *)
(* crashes, failing statements, manual redeliveries and requeues.          *)
(***************************************************************************)
EXTENDS WebhookDelivery, FiniteSetTheorems, WellFoundedInduction, TLAPS

-----------------------------------------------------------------------------
(* The inductive invariant. *)

(* What the row of a delivery says is true. *)
RowSound(d) ==
    /\ row[d].status = "none" => row[d].attempts = 0
    /\ row[d].status = "pending" => row[d].attempts < MaxAttempts
    /\ row[d].status = "delivered" => d \in heard \/ row[d].payload = "empty"
    /\ row[d].status = "pruned" =>
          d \in heard \/ row[d].acked = "yes" \/ row[d].payload = "empty"

(* What a sender holds while it talks to the receiver: which attempt it    *)
(* makes, a body that is empty only if the row's payload is by now, and an *)
(* acceptance of the event or of an empty body.                            *)
JobSound(k, d) ==
    /\ job[k][d].pc # "idle" => job[k][d].attempt > 0
    /\ job[k][d].pc # "idle" /\ job[k][d].body = "empty" => row[d].payload = "empty"
    /\ job[k][d].pc = "answered" /\ job[k][d].answer = "yes" =>
          d \in heard \/ job[k][d].body = "empty"

DeliveryInd ==
    /\ TypeOK
    /\ \A d \in Deliveries : RowSound(d) /\ \A k \in Senders : JobSound(k, d)

(* The invariant contains what the runs check. *)
LEMMA DeliveryIndImplies ==
    DeliveryInd => DeliveryInv /\ DeliveredWasHeard /\ LostIsKept
  BY DEF DeliveryInd, RowSound, DeliveryInv, PendingIsRedrivable, Redrivable,
     DeliveredWasHeard, LostIsKept

Spendings == {"crashes", "dbErrors", "blocked", "manual", "requeues"}
Retentions == [pc : {"asleep", "prune", "compact"}, total : Nat]

(* The type invariant, with its sets named. *)
LEMMA DeliveryTypes ==
    /\ TypeOK <=> /\ row \in [Deliveries -> Row] /\ heard \subseteq Deliveries
                  /\ job \in [Senders -> [Deliveries -> JobState]]
                  /\ retention \in Retentions /\ budget \in [Spendings -> Nat]
    /\ TypeOK' <=> /\ row' \in [Deliveries -> Row] /\ heard' \subseteq Deliveries
                   /\ job' \in [Senders -> [Deliveries -> JobState]]
                   /\ retention' \in Retentions /\ budget' \in [Spendings -> Nat]
  BY DEF TypeOK, Retentions, Spendings

(* Nothing is recorded and nobody is at work. *)
LEMMA DeliveryInit == Init => DeliveryInd
<1>. SUFFICES ASSUME Init PROVE DeliveryInd
  OBVIOUS
<1>1. NoRow \in Row /\ NoJob \in JobState /\ Asleep \in Retentions
  BY DEF NoRow, Row, NoJob, JobState, Asleep, Retentions
<1>2. budget \in [Spendings -> Nat]
  BY BoundAssumption DEF Init, Spendings
<1>3. TypeOK
  BY <1>1, <1>2, DeliveryTypes DEF Init
<1>4. ASSUME NEW d \in Deliveries PROVE RowSound(d) /\ \A k \in Senders : JobSound(k, d)
  BY DEF Init, RowSound, JobSound, NoRow, NoJob
<1>. QED
  BY <1>3, <1>4 DEF DeliveryInd

-----------------------------------------------------------------------------
(* What a step does to the rows and the jobs. *)

(* Sender k's job with d becomes j; the other jobs stay. *)
Works(k, d, j) ==
    /\ job' \in [Senders -> [Deliveries -> JobState]]
    /\ job'[k][d] = j
    /\ \A l \in Senders, e \in Deliveries : <<l, e>> # <<k, d>> => job'[l][e] = job[l][e]

(* Become does just that. *)
LEMMA Working ==
    ASSUME TypeOK, NEW k \in Senders, NEW d \in Deliveries, NEW j \in JobState,
           Become(k, d, j)
    PROVE  Works(k, d, j)
<1>1. job \in [Senders -> [Deliveries -> JobState]]
  BY DeliveryTypes
<1>2. job' \in [Senders -> [Deliveries -> JobState]]
  BY <1>1 DEF Become
<1>3. job'[k][d] = j
  BY <1>1 DEF Become
<1>4. ASSUME NEW l \in Senders, NEW e \in Deliveries, <<l, e>> # <<k, d>>
      PROVE  job'[l][e] = job[l][e]
  BY <1>1, <1>4 DEF Become
<1>. QED
  BY <1>2, <1>3, <1>4 DEF Works

(* A budget spent is a budget. *)
LEMMA Spending ==
    ASSUME TypeOK, NEW what \in Spendings, Spend(what) PROVE budget' \in [Spendings -> Nat]
  BY DeliveryTypes DEF Spend

(* A row that stays is as true as before; the receiver forgets nothing. *)
LEMMA RowStays ==
    ASSUME DeliveryInd, NEW d \in Deliveries, row'[d] = row[d], heard \subseteq heard'
    PROVE  RowSound(d)'
  BY DEF DeliveryInd, RowSound

(* A job that stays, too, as long as an empty payload stays empty. *)
LEMMA JobStays ==
    ASSUME DeliveryInd, NEW k \in Senders, NEW d \in Deliveries, job'[k][d] = job[k][d],
           row[d].payload = "empty" => row'[d].payload = "empty", heard \subseteq heard'
    PROVE  JobSound(k, d)'
  BY DEF DeliveryInd, JobSound

(* A sender at rest holds nothing. *)
LEMMA JobEnds ==
    ASSUME NEW k \in Senders, NEW d \in Deliveries, job'[k][d] = NoJob PROVE JobSound(k, d)'
  BY DEF JobSound, NoJob

(* A step of one sender that writes no row. *)
LEMMA SenderStep ==
    ASSUME DeliveryInd, NEW k \in Senders, NEW d \in Deliveries, NEW j, Works(k, d, j),
           row' = row, heard \subseteq heard', heard' \subseteq Deliveries,
           retention' = retention, budget' \in [Spendings -> Nat], JobSound(k, d)'
    PROVE  DeliveryInd'
<1>1. TypeOK'
  BY DeliveryTypes DEF DeliveryInd, Works
<1>2. \A e \in Deliveries : RowSound(e)'
  BY RowStays
<1>3. ASSUME NEW l \in Senders, NEW e \in Deliveries PROVE JobSound(l, e)'
  <2>1. CASE <<l, e>> = <<k, d>>
    BY <2>1
  <2>2. CASE <<l, e>> # <<k, d>>
    BY <2>2, JobStays DEF Works
  <2>. QED
    BY <2>1, <2>2
<1>. QED
  BY <1>1, <1>2, <1>3 DEF DeliveryInd

(* update_webhook_delivery writes status, attempts and last_attempt. *)
LEMMA Updating ==
    ASSUME TypeOK, NEW d \in Deliveries, NEW st \in Stored, NEW n \in Nat, Update(d, st, n)
    PROVE  /\ row' \in [Deliveries -> Row]
           /\ \A e \in Deliveries \ {d} : row'[e] = row[e]
           /\ \/ row'[d] = row[d]
              \/ /\ row'[d].status = st /\ row'[d].attempts = n /\ row'[d].idle = 0
                 /\ row'[d].payload = row[d].payload
<1>1. row \in [Deliveries -> Row] /\ row[d] \in Row
  BY DeliveryTypes
<1>. DEFINE new == [row[d] EXCEPT !.status = st, !.attempts = n, !.idle = 0]
<1>2. /\ new \in Row /\ new.status = st /\ new.attempts = n
      /\ new.idle = 0 /\ new.payload = row[d].payload
  BY <1>1 DEF Row, Stored
<1>3. row' = row \/ row' = [row EXCEPT ![d] = new]
  BY DEF Update
<1>. HIDE DEF new
<1>. QED
  BY <1>1, <1>2, <1>3

(* A sender that ends by writing the row: it may write "pending" only with *)
(* attempts left, and "delivered" only when the event was accepted, or an  *)
(* empty body of a compacted row was.                                      *)
LEMMA WritingStep ==
    ASSUME DeliveryInd, NEW k \in Senders, NEW d \in Deliveries, Become(k, d, NoJob),
           NEW st \in Stored, NEW n \in Nat, Update(d, st, n),
           st = "pending" => n < MaxAttempts,
           st = "delivered" => d \in heard \/ row[d].payload = "empty",
           heard' = heard, retention' = retention, budget' \in [Spendings -> Nat]
    PROVE  DeliveryInd'
<1>0. TypeOK /\ NoJob \in JobState
  BY DEF DeliveryInd, NoJob, JobState
<1>1. Works(k, d, NoJob)
  BY <1>0, Working
<1>2. /\ row' \in [Deliveries -> Row]
      /\ \A e \in Deliveries \ {d} : row'[e] = row[e]
      /\ \/ row'[d] = row[d]
         \/ /\ row'[d].status = st /\ row'[d].attempts = n
            /\ row'[d].payload = row[d].payload
  BY <1>0, Updating
<1>3. TypeOK'
  BY <1>0, <1>1, <1>2, DeliveryTypes DEF Works
<1>4. ASSUME NEW e \in Deliveries PROVE RowSound(e)'
  <2>1. CASE row'[e] = row[e]
    BY <2>1, RowStays
  <2>2. CASE e = d /\ row'[d].status = st /\ row'[d].attempts = n
             /\ row'[d].payload = row[d].payload
    BY <2>2 DEF RowSound, Stored
  <2>. QED
    BY <1>2, <2>1, <2>2
<1>5. ASSUME NEW l \in Senders, NEW e \in Deliveries PROVE JobSound(l, e)'
  <2>1. CASE <<l, e>> = <<k, d>>
    BY <1>1, <2>1, JobEnds DEF Works
  <2>2. CASE <<l, e>> # <<k, d>>
    <3>1. row'[e].payload = row[e].payload
      BY <1>2
    <3>. QED
      BY <1>1, <2>2, <3>1, JobStays DEF Works
  <2>. QED
    BY <2>1, <2>2
<1>. QED
  BY <1>3, <1>4, <1>5 DEF DeliveryInd

-----------------------------------------------------------------------------
(* Every step keeps the invariant. *)

(* Dispatch. *)
LEMMA DispatchStep == ASSUME DeliveryInd, NEW d \in Deliveries, Dispatch(d) PROVE DeliveryInd'
<1>0. /\ TypeOK /\ row \in [Deliveries -> Row] /\ row[d] \in Row
      /\ budget \in [Spendings -> Nat] /\ "dbErrors" \in Spendings
  BY DeliveryTypes DEF DeliveryInd, Spendings
<1>1. PICK st \in {"pending", "unrecorded"} : row' = [row EXCEPT ![d].status = st]
  BY DEF Dispatch
<1>2. /\ [row[d] EXCEPT !.status = st] \in Row
      /\ [row[d] EXCEPT !.status = st].status = st
      /\ [row[d] EXCEPT !.status = st].attempts = row[d].attempts
      /\ [row[d] EXCEPT !.status = st].payload = row[d].payload
  BY <1>0 DEF Row, Stored
<1>3. /\ row' \in [Deliveries -> Row] /\ \A e \in Deliveries \ {d} : row'[e] = row[e]
      /\ row'[d].status = st /\ row'[d].attempts = row[d].attempts
      /\ row'[d].payload = row[d].payload
  BY <1>0, <1>1, <1>2
<1>4. budget' \in [Spendings -> Nat]
  BY <1>0, Spending DEF Dispatch
<1>5. Works("dispatch", d, Job("resolve", 1, "event"))
  <2>1. Job("resolve", 1, "event") \in JobState /\ "dispatch" \in Senders
    BY DEF Job, JobState, Senders
  <2>. QED
    BY <1>0, <2>1, Working DEF Dispatch
<1>6. heard' = heard /\ retention' = retention /\ row[d].status = "none"
  BY DEF Dispatch
<1>7. TypeOK'
  BY <1>0, <1>3, <1>4, <1>5, <1>6, DeliveryTypes DEF Works
<1>8. ASSUME NEW e \in Deliveries PROVE RowSound(e)'
  <2>1. CASE e # d
    BY <1>3, <1>6, <2>1, RowStays
  <2>2. CASE e = d
    <3>1. row[d].attempts = 0
      BY <1>6 DEF DeliveryInd, RowSound
    <3>. QED
      BY <1>3, <2>2, <3>1, TypeAssumption DEF RowSound
  <2>. QED
    BY <2>1, <2>2
<1>9. ASSUME NEW l \in Senders, NEW e \in Deliveries PROVE JobSound(l, e)'
  <2>1. CASE <<l, e>> = <<"dispatch", d>>
    BY <1>5, <2>1 DEF Works, JobSound, Job
  <2>2. CASE <<l, e>> # <<"dispatch", d>>
    <3>1. row'[e].payload = row[e].payload
      BY <1>3
    <3>. QED
      BY <1>5, <1>6, <2>2, <3>1, JobStays DEF Works
  <2>. QED
    BY <2>1, <2>2
<1>. QED
  BY <1>7, <1>8, <1>9 DEF DeliveryInd

(* Resolve. *)
LEMMA ResolveStep ==
    ASSUME DeliveryInd, NEW k \in Senders, NEW d \in Deliveries, Resolve(k, d)
    PROVE  DeliveryInd'
<1>. DEFINE j == [job[k][d] EXCEPT !.pc = "post", !.took = 0]
<1>0. TypeOK /\ job[k][d] \in JobState /\ budget \in [Spendings -> Nat] /\ heard \subseteq Deliveries
  BY DeliveryTypes DEF DeliveryInd
<1>1. j \in JobState /\ j.pc = "post" /\ j.attempt = job[k][d].attempt /\ j.body = job[k][d].body
  BY <1>0 DEF JobState
<1>2. Become(k, d, j) /\ job[k][d].pc = "resolve" /\ UNCHANGED <<row, retention, heard, budget>>
  BY DEF Resolve
<1>. HIDE DEF j
<1>3. Works(k, d, j)
  BY <1>0, <1>1, <1>2, Working
<1>4. JobSound(k, d)'
  BY <1>1, <1>2, <1>3 DEF DeliveryInd, JobSound, Works
<1>. QED
  BY <1>0, <1>2, <1>3, <1>4, SenderStep

(* Post: an event the receiver accepts has reached it. *)
LEMMA PostStep ==
    ASSUME DeliveryInd, NEW k \in Senders, NEW d \in Deliveries, Post(k, d)
    PROVE  DeliveryInd'
<1>0. TypeOK /\ job[k][d] \in JobState /\ budget \in [Spendings -> Nat] /\ heard \subseteq Deliveries
  BY DeliveryTypes DEF DeliveryInd
<1>1. PICK answer \in {"yes", "no"} :
         /\ Become(k, d, [job[k][d] EXCEPT !.pc = "answered", !.took = 0, !.answer = answer])
         /\ \/ heard' = IF job[k][d].body = "event" THEN heard \cup {d} ELSE heard
            \/ answer = "no" /\ heard' = heard
  BY DEF Post
<1>. DEFINE j == [job[k][d] EXCEPT !.pc = "answered", !.took = 0, !.answer = answer]
<1>2. /\ j \in JobState /\ j.pc = "answered" /\ j.attempt = job[k][d].attempt
      /\ j.body = job[k][d].body /\ j.answer = answer /\ j.body \in {"event", "empty"}
  BY <1>0 DEF JobState
<1>3. Become(k, d, j) /\ job[k][d].pc = "post" /\ UNCHANGED <<row, retention, budget>>
  BY <1>1 DEF Post
<1>. HIDE DEF j
<1>4. Works(k, d, j)
  BY <1>0, <1>2, <1>3, Working
<1>5. /\ heard \subseteq heard' /\ heard' \subseteq Deliveries
      /\ answer = "yes" => d \in heard' \/ j.body = "empty"
  BY <1>0, <1>1, <1>2
<1>6. JobSound(k, d)'
  BY <1>2, <1>3, <1>4, <1>5 DEF DeliveryInd, JobSound, Works
<1>. QED
  BY <1>0, <1>3, <1>4, <1>5, <1>6, SenderStep

(* InlineSleep and InlineRetry. *)
LEMMA SleepStep ==
    ASSUME DeliveryInd, NEW d \in Deliveries, InlineSleep(d) \/ InlineRetry(d)
    PROVE  DeliveryInd'
<1>0. /\ TypeOK /\ job["dispatch"][d] \in JobState /\ "dispatch" \in Senders
      /\ budget \in [Spendings -> Nat] /\ heard \subseteq Deliveries
  BY DeliveryTypes DEF DeliveryInd, Senders
<1>1. PICK j \in JobState :
         /\ Become("dispatch", d, j) /\ j.pc # "idle" /\ j.pc # "answered"
         /\ j.attempt \in {job["dispatch"][d].attempt, job["dispatch"][d].attempt + 1}
         /\ j.body = job["dispatch"][d].body
  <2>1. CASE InlineSleep(d)
    <3>. DEFINE j == [job["dispatch"][d] EXCEPT !.pc = "sleep"]
    <3>1. j \in JobState /\ j.pc = "sleep" /\ j.attempt = job["dispatch"][d].attempt
          /\ j.body = job["dispatch"][d].body
      BY <1>0 DEF JobState
    <3>2. Become("dispatch", d, j)
      BY <2>1 DEF InlineSleep
    <3>. HIDE DEF j
    <3>. QED
      BY <3>1, <3>2
  <2>2. CASE InlineRetry(d)
    <3>. DEFINE j == Job("post", job["dispatch"][d].attempt + 1, job["dispatch"][d].body)
    <3>1. j \in JobState /\ j.pc = "post" /\ j.attempt = job["dispatch"][d].attempt + 1
          /\ j.body = job["dispatch"][d].body
      BY <1>0 DEF JobState, Job
    <3>2. Become("dispatch", d, j)
      BY <2>2 DEF InlineRetry
    <3>. HIDE DEF j
    <3>. QED
      BY <3>1, <3>2
  <2>. QED
    BY <2>1, <2>2
<1>2. /\ job["dispatch"][d].pc # "idle" /\ UNCHANGED <<row, retention, heard, budget>>
      /\ job["dispatch"][d].attempt \in Nat
  BY <1>0 DEF InlineSleep, InlineRetry, JobState
<1>3. Works("dispatch", d, j)
  BY <1>0, <1>1, Working
<1>4. JobSound("dispatch", d)'
  BY <1>0, <1>1, <1>2, <1>3 DEF DeliveryInd, JobSound, Works
<1>. QED
  BY <1>0, <1>2, <1>3, <1>4, SenderStep

(* Redeliver and RedrivePermit. *)
LEMMA StartStep ==
    ASSUME DeliveryInd, NEW d \in Deliveries, Redeliver(d) \/ RedrivePermit(d)
    PROVE  DeliveryInd'
<1>0. /\ TypeOK /\ row[d] \in Row /\ job["redrive"][d] \in JobState
      /\ budget \in [Spendings -> Nat] /\ heard \subseteq Deliveries
      /\ "redrive" \in Senders /\ "manual" \in Senders /\ "manual" \in Spendings
  BY DeliveryTypes DEF DeliveryInd, Senders, Spendings
<1>1. CASE Redeliver(d)
  <2>. DEFINE j == Job("resolve", row[d].attempts + 1, row[d].payload)
  <2>1. /\ j \in JobState /\ j.pc = "resolve" /\ j.attempt > 0 /\ j.body = row[d].payload
    BY <1>0 DEF Job, JobState, Row
  <2>2. Become("manual", d, j) /\ UNCHANGED <<row, retention, heard>> /\ Spend("manual")
    BY <1>1 DEF Redeliver
  <2>. HIDE DEF j
  <2>3. Works("manual", d, j) /\ budget' \in [Spendings -> Nat]
    BY <1>0, <2>1, <2>2, Working, Spending
  <2>4. JobSound("manual", d)'
    BY <2>1, <2>2, <2>3 DEF JobSound, Works
  <2>. QED
    BY <1>0, <2>2, <2>3, <2>4, SenderStep
<1>2. CASE RedrivePermit(d)
  <2>. DEFINE j == [job["redrive"][d] EXCEPT !.pc = "resolve"]
  <2>1. /\ j \in JobState /\ j.pc = "resolve" /\ j.attempt = job["redrive"][d].attempt
        /\ j.body = job["redrive"][d].body
    BY <1>0 DEF JobState
  <2>2. /\ Become("redrive", d, j) /\ UNCHANGED <<row, retention, heard, budget>>
        /\ job["redrive"][d].pc = "queued"
    BY <1>2 DEF RedrivePermit
  <2>. HIDE DEF j
  <2>3. Works("redrive", d, j)
    BY <1>0, <2>1, <2>2, Working
  <2>4. JobSound("redrive", d)'
    BY <1>0, <2>1, <2>2, <2>3 DEF DeliveryInd, JobSound, Works
  <2>. QED
    BY <1>0, <2>2, <2>3, <2>4, SenderStep
<1>. QED
  BY <1>1, <1>2

(* RedriveList: each listed row is queued with its next attempt. *)
LEMMA ListStep == ASSUME DeliveryInd, RedriveList PROVE DeliveryInd'
<1>0. /\ TypeOK /\ row \in [Deliveries -> Row] /\ "redrive" \in Senders
      /\ job \in [Senders -> [Deliveries -> JobState]]
  BY DeliveryTypes DEF DeliveryInd, Senders
<1>1. PICK S \in SUBSET Deliveries :
         job' = [job EXCEPT !["redrive"] = [d \in Deliveries |->
                   IF d \in S THEN Job("queued", row[d].attempts + 1, row[d].payload)
                              ELSE NoJob]]
  BY DEF RedriveList
<1>2. UNCHANGED <<row, retention, heard, budget>>
  BY DEF RedriveList
<1>3. ASSUME NEW d \in Deliveries
      PROVE  /\ Job("queued", row[d].attempts + 1, row[d].payload) \in JobState
             /\ NoJob \in JobState
  BY <1>0 DEF Job, NoJob, JobState, Row
<1>4. /\ job' \in [Senders -> [Deliveries -> JobState]]
      /\ \A l \in Senders \ {"redrive"} : job'[l] = job[l]
      /\ \A d \in Deliveries : job'["redrive"][d] =
            IF d \in S THEN Job("queued", row[d].attempts + 1, row[d].payload) ELSE NoJob
  BY <1>0, <1>1, <1>3
<1>5. TypeOK'
  BY <1>0, <1>2, <1>4, DeliveryTypes
<1>6. \A d \in Deliveries : RowSound(d)'
  BY <1>2, RowStays
<1>7. ASSUME NEW l \in Senders, NEW d \in Deliveries PROVE JobSound(l, d)'
  <2>1. CASE l # "redrive"
    BY <1>2, <1>4, <2>1, JobStays
  <2>2. CASE l = "redrive" /\ d \in S
    <3>1. row[d].attempts + 1 > 0
      BY <1>0 DEF Row
    <3>2. job'[l][d] = Job("queued", row[d].attempts + 1, row[d].payload)
      BY <1>4, <2>2
    <3>3. /\ job'[l][d].pc = "queued" /\ job'[l][d].attempt = row[d].attempts + 1
          /\ job'[l][d].body = row[d].payload
      BY <3>2 DEF Job
    <3>. QED
      BY <1>2, <3>1, <3>3 DEF JobSound
  <2>3. CASE l = "redrive" /\ d \notin S
    BY <1>4, <2>3, JobEnds
  <2>. QED
    BY <2>1, <2>2, <2>3
<1>. QED
  BY <1>5, <1>6, <1>7 DEF DeliveryInd

(* Block: the attempt that was not made is not counted. *)
LEMMA BlockStep ==
    ASSUME DeliveryInd, NEW k \in Senders, NEW d \in Deliveries, Block(k, d)
    PROVE  DeliveryInd'
<1>0. /\ TypeOK /\ job[k][d] \in JobState /\ heard \subseteq Deliveries
      /\ "blocked" \in Spendings /\ NoJob \in JobState
  BY DeliveryTypes DEF DeliveryInd, Spendings, NoJob, JobState
<1>1. /\ job[k][d].pc = "resolve" /\ Become(k, d, NoJob) /\ UNCHANGED <<retention, heard>>
      /\ budget' \in [Spendings -> Nat]
  <2>1. /\ job[k][d].pc = "resolve" /\ Become(k, d, NoJob) /\ UNCHANGED <<retention, heard>>
    BY DEF Block
  <2>2. budget \in [Spendings -> Nat] /\ budget.blocked > 0
    BY <1>0, DeliveryTypes DEF Block
  <2>3. budget["blocked"] - 1 \in Nat
    BY <2>2 DEF Spendings
  <2>4. CASE budget' = [budget EXCEPT !.blocked = @ - 1]
    <3>1. Spend("blocked")
      BY <2>2, <2>4, Zenon DEF Spend
    <3>. QED
      BY <1>0, <2>1, <3>1, Spending
  <2>5. CASE /\ budget.dbErrors > 0
             /\ budget' = [budget EXCEPT !.blocked = @ - 1, !.dbErrors = @ - 1]
    <3>1. budget["dbErrors"] - 1 \in Nat
      BY <2>2, <2>5 DEF Spendings
    <3>2. PICK b : b = [budget EXCEPT !.blocked = @ - 1]
      OBVIOUS
    <3>3. b \in [Spendings -> Nat] /\ b["dbErrors"] = budget["dbErrors"]
      BY <2>2, <2>3, <3>2 DEF Spendings
    <3>4. budget' = [b EXCEPT !["dbErrors"] = budget["dbErrors"] - 1]
      BY <2>2, <2>5, <3>2 DEF Spendings
    <3>5. "dbErrors" \in Spendings
      BY DEF Spendings
    <3>. QED
      BY <2>1, <3>1, <3>3, <3>4, <3>5
  <2>. QED
    BY <2>1, <2>4, <2>5 DEF Block
<1>2. CASE row' = row
  BY <1>0, <1>1, <1>2, Working, JobEnds, SenderStep DEF Works
<1>3. CASE Update(d, "failed", job[k][d].attempt - 1)
  <2>1. job[k][d].attempt - 1 \in Nat /\ "failed" \in Stored
    BY <1>0, <1>1 DEF DeliveryInd, JobSound, JobState, Stored
  <2>. QED
    BY <1>1, <1>3, <2>1, WritingStep
<1>. QED
  BY <1>2, <1>3 DEF Block

(* Record: a verdict of "pending" leaves an attempt, one of "delivered"    *)
(* was answered with 2xx.                                                  *)
LEMMA RecordStep ==
    ASSUME DeliveryInd, NEW k \in Senders, NEW d \in Deliveries, Record(k, d)
    PROVE  DeliveryInd'
<1>. DEFINE j == job[k][d]
<1>0. /\ TypeOK /\ j \in JobState /\ heard \subseteq Deliveries /\ JobSound(k, d)
      /\ "dbErrors" \in Spendings /\ NoJob \in JobState /\ budget \in [Spendings -> Nat]
  BY DeliveryTypes DEF DeliveryInd, Spendings, NoJob, JobState
<1>1. /\ j.pc = "answered" /\ Become(k, d, NoJob) /\ UNCHANGED <<retention, heard>>
      /\ budget' \in [Spendings -> Nat]
  BY <1>0, Spending DEF Record
<1>2. CASE row' = row
  BY <1>0, <1>1, <1>2, Working, JobEnds, SenderStep DEF Works
<1>3. CASE Update(d, Verdict(k, j), j.attempt)
  <2>1. Verdict(k, j) \in Stored /\ j.attempt \in Nat
    BY <1>0 DEF Verdict, Stored, JobState
  <2>2. Verdict(k, j) = "pending" => j.attempt < MaxAttempts
    BY DEF Verdict
  <2>3. Verdict(k, j) = "delivered" => d \in heard \/ row[d].payload = "empty"
    BY <1>0, <1>1 DEF Verdict, JobSound
  <2>. QED
    BY <1>1, <1>3, <2>1, <2>2, <2>3, WritingStep
<1>. QED
  BY <1>2, <1>3 DEF Record

(* A step of the merchant, the retention worker or the clock on the rows.  *)
LEMMA RowsStep ==
    ASSUME DeliveryInd, row' \in [Deliveries -> Row], heard' = heard, job' = job,
           retention' \in Retentions, budget' \in [Spendings -> Nat],
           \A d \in Deliveries : /\ RowSound(d)'
                                 /\ row[d].payload = "empty" => row'[d].payload = "empty"
    PROVE  DeliveryInd'
<1>1. TypeOK'
  BY DeliveryTypes DEF DeliveryInd
<1>2. \A k \in Senders, d \in Deliveries : JobSound(k, d)'
  BY JobStays
<1>. QED
  BY <1>1, <1>2 DEF DeliveryInd

(* Requeue: the attempts start again. *)
LEMMA RequeueStep ==
    ASSUME DeliveryInd, NEW S \in SUBSET Deliveries, Requeue(S) PROVE DeliveryInd'
<1>0. /\ TypeOK /\ row \in [Deliveries -> Row] /\ "requeues" \in Spendings
      /\ retention \in Retentions
  BY DeliveryTypes DEF DeliveryInd, Spendings
<1>1. /\ UNCHANGED <<job, retention, heard>> /\ budget' \in [Spendings -> Nat]
      /\ row' = [d \in Deliveries |-> IF d \in S
            THEN [row[d] EXCEPT !.status = "pending", !.attempts = 0, !.acked = "yes"]
            ELSE row[d]]
  BY <1>0, Spending DEF Requeue
<1>2. ASSUME NEW d \in Deliveries, NEW new,
             new = [row[d] EXCEPT !.status = "pending", !.attempts = 0, !.acked = "yes"]
      PROVE  /\ new \in Row /\ new.status = "pending" /\ new.attempts = 0
             /\ new.payload = row[d].payload
  BY <1>0, <1>2 DEF Row, Stored
<1>3. row' \in [Deliveries -> Row]
  BY <1>0, <1>1, <1>2
<1>4. ASSUME NEW d \in Deliveries
      PROVE  RowSound(d)' /\ row'[d].payload = row[d].payload
  <2>1. CASE d \in S
    <3>1. /\ row'[d].status = "pending" /\ row'[d].attempts = 0
          /\ row'[d].payload = row[d].payload
      BY <1>1, <1>2, <2>1
    <3>. QED
      BY <3>1, TypeAssumption DEF RowSound
  <2>2. CASE d \notin S
    BY <1>1, <2>2, RowStays
  <2>. QED
    BY <2>1, <2>2
<1>. QED
  BY <1>0, <1>1, <1>3, <1>4, RowsStep

(* A batch of a finite table has a size. *)
LEMMA DrainedType ==
    ASSUME TypeOK, NEW S \in SUBSET Deliveries, NEW next \in {"asleep", "prune", "compact"}
    PROVE  Drained(Cardinality(S), next) \in Retentions
<1>1. Cardinality(S) \in Nat
  BY TypeAssumption, FS_Subset, FS_CardinalityType
<1>2. retention \in Retentions
  BY DeliveryTypes
<1>3. ASSUME NEW n \in Nat PROVE [retention EXCEPT !.total = n] \in Retentions
  BY <1>2 DEF Retentions
<1>4. retention.total + Cardinality(S) \in Nat /\ [pc |-> next, total |-> 0] \in Retentions
  BY <1>1, <1>2 DEF Retentions
<1>. QED
  BY <1>3, <1>4 DEF Drained

(* Prune deletes what has arrived or was acknowledged; Compact keeps the   *)
(* row and empties its payload.                                            *)
LEMMA RetainStep == ASSUME DeliveryInd, Retain PROVE DeliveryInd'
<1>0. /\ TypeOK /\ row \in [Deliveries -> Row] /\ budget \in [Spendings -> Nat]
  BY DeliveryTypes DEF DeliveryInd
<1>1. CASE RetentionWake
  <2>1. UNCHANGED <<row, job, heard, budget>> /\ retention' \in Retentions
    BY <1>1 DEF RetentionWake, Retentions
  <2>2. \A d \in Deliveries : RowSound(d)'
    BY <2>1, RowStays
  <2>. QED
    BY <1>0, <2>1, <2>2, RowsStep
<1>2. CASE Prune
  <2>1. UNCHANGED <<job, heard, budget>>
    BY <1>2 DEF Prune
  <2>2. PICK S \in SUBSET {d \in Deliveries : Prunable(d) /\ AgedOut(d)} :
           /\ row' = [d \in Deliveries |->
                 IF d \in S THEN [row[d] EXCEPT !.status = "pruned"] ELSE row[d]]
           /\ retention' = Drained(Cardinality(S), "compact")
    BY <1>2 DEF Prune
  <2>3. retention' \in Retentions
    BY <1>0, <2>2, DrainedType
  <2>4. ASSUME NEW d \in Deliveries, NEW new, new = [row[d] EXCEPT !.status = "pruned"]
        PROVE  /\ new \in Row /\ new.status = "pruned" /\ new.attempts = row[d].attempts
               /\ new.payload = row[d].payload /\ new.acked = row[d].acked
    BY <1>0, <2>4 DEF Row, Stored
  <2>5. row' \in [Deliveries -> Row]
    BY <1>0, <2>2, <2>4
  <2>6. ASSUME NEW d \in Deliveries
        PROVE  RowSound(d)' /\ row'[d].payload = row[d].payload
    <3>1. CASE d \in S
      <4>1. /\ row'[d].status = "pruned" /\ row'[d].payload = row[d].payload
            /\ row'[d].acked = row[d].acked
        BY <2>2, <2>4, <3>1
      <4>2. Prunable(d) /\ RowSound(d)
        BY <2>2, <3>1 DEF DeliveryInd
      <4>. QED
        BY <2>1, <4>1, <4>2 DEF RowSound, Prunable
    <3>2. CASE d \notin S
      BY <2>1, <2>2, <3>2, RowStays
    <3>. QED
      BY <3>1, <3>2
  <2>. QED
    BY <1>0, <2>1, <2>3, <2>5, <2>6, RowsStep
<1>3. CASE Compact
  <2>1. UNCHANGED <<job, heard, budget>>
    BY <1>3 DEF Compact
  <2>2. PICK S \in SUBSET {d \in Deliveries :
               /\ row[d].status = "failed" /\ row[d].acked = "no"
               /\ row[d].payload = "event" /\ AgedOut(d)} :
           /\ row' = [d \in Deliveries |->
                 IF d \in S THEN [row[d] EXCEPT !.payload = "empty"] ELSE row[d]]
           /\ retention' = Drained(Cardinality(S), "asleep")
    BY <1>3 DEF Compact
  <2>3. retention' \in Retentions
    BY <1>0, <2>2, DrainedType
  <2>4. ASSUME NEW d \in Deliveries, NEW new, new = [row[d] EXCEPT !.payload = "empty"]
        PROVE  new \in Row /\ new.status = row[d].status /\ new.payload = "empty"
    BY <1>0, <2>4 DEF Row, Stored
  <2>5. row' \in [Deliveries -> Row]
    BY <1>0, <2>2, <2>4
  <2>6. ASSUME NEW d \in Deliveries
        PROVE  RowSound(d)' /\ (row[d].payload = "empty" => row'[d].payload = "empty")
    <3>1. CASE d \in S
      <4>1. row'[d].status = "failed" /\ row'[d].payload = "empty"
        BY <2>2, <2>4, <3>1
      <4>. QED
        BY <4>1 DEF RowSound
    <3>2. CASE d \notin S
      BY <2>1, <2>2, <3>2, RowStays
    <3>. QED
      BY <3>1, <3>2
  <2>. QED
    BY <1>0, <2>1, <2>3, <2>5, <2>6, RowsStep
<1>. QED
  BY <1>1, <1>2, <1>3 DEF Retain

(* Tick moves clocks only. *)
LEMMA TickStep == ASSUME DeliveryInd, Tick PROVE DeliveryInd'
<1>0. /\ TypeOK /\ row \in [Deliveries -> Row] /\ job \in [Senders -> [Deliveries -> JobState]]
      /\ IdleCap \in Nat /\ AgeCap \in Nat
  BY DeliveryTypes, TypeAssumption DEF DeliveryInd, IdleCap, AgeCap, Greatest
<1>1. ASSUME NEW d \in Deliveries, NEW new,
             new = [row[d] EXCEPT !.idle = Least(@ + 1, IdleCap), !.age = Least(@ + 1, AgeCap)]
      PROVE  /\ new \in Row /\ new.status = row[d].status /\ new.attempts = row[d].attempts
             /\ new.payload = row[d].payload /\ new.acked = row[d].acked
  <2>1. row[d] \in Row
    BY <1>0
  <2>2. Least(row[d].idle + 1, IdleCap) \in Nat /\ Least(row[d].age + 1, AgeCap) \in Nat
    BY <1>0, <2>1 DEF Row, Least
  <2>. QED
    BY <1>1, <2>1, <2>2 DEF Row
<1>2. ASSUME NEW k \in Senders, NEW d \in Deliveries, NEW new,
             new = [job[k][d] EXCEPT !.took = @ + 1]
      PROVE  /\ new \in JobState /\ new.pc = job[k][d].pc /\ new.attempt = job[k][d].attempt
             /\ new.body = job[k][d].body /\ new.answer = job[k][d].answer
  <2>1. job[k][d] \in JobState
    BY <1>0
  <2>. QED
    BY <1>2, <2>1 DEF JobState
<1>3. UNCHANGED <<retention, heard, budget>>
  BY DEF Tick
<1>4. /\ row' \in [Deliveries -> Row]
      /\ \A d \in Deliveries :
            /\ row'[d].status = row[d].status /\ row'[d].attempts = row[d].attempts
            /\ row'[d].payload = row[d].payload /\ row'[d].acked = row[d].acked
  <2>1. row' = [d \in Deliveries |->
           IF Exists(d) THEN [row[d] EXCEPT !.idle = Least(@ + 1, IdleCap),
                                            !.age = Least(@ + 1, AgeCap)]
                        ELSE row[d]]
    BY DEF Tick
  <2>. QED
    BY <1>0, <1>1, <2>1
<1>5. /\ job' \in [Senders -> [Deliveries -> JobState]]
      /\ \A k \in Senders, d \in Deliveries :
            /\ job'[k][d].pc = job[k][d].pc /\ job'[k][d].attempt = job[k][d].attempt
            /\ job'[k][d].body = job[k][d].body /\ job'[k][d].answer = job[k][d].answer
  <2>1. job' = [k \in Senders |-> [d \in Deliveries |->
          IF job[k][d].pc \in Timed THEN [job[k][d] EXCEPT !.took = @ + 1] ELSE job[k][d]]]
    BY DEF Tick
  <2>. QED
    BY <1>0, <1>2, <2>1
<1>6. TypeOK'
  BY <1>0, <1>3, <1>4, <1>5, DeliveryTypes
<1>7. \A d \in Deliveries : RowSound(d)'
  BY <1>3, <1>4 DEF DeliveryInd, RowSound
<1>8. \A k \in Senders, d \in Deliveries : JobSound(k, d)'
  BY <1>3, <1>4, <1>5 DEF DeliveryInd, JobSound
<1>. QED
  BY <1>6, <1>7, <1>8 DEF DeliveryInd

(* Restart: every sender is gone, every row is there. *)
LEMMA RestartStep == ASSUME DeliveryInd, Restart PROVE DeliveryInd'
<1>0. /\ TypeOK /\ "crashes" \in Spendings /\ NoJob \in JobState /\ Asleep \in Retentions
  BY DEF DeliveryInd, Spendings, NoJob, JobState, Asleep, Retentions
<1>1. /\ UNCHANGED <<row, heard>> /\ budget' \in [Spendings -> Nat]
      /\ job' = [k \in Senders |-> [d \in Deliveries |-> NoJob]] /\ retention' \in Retentions
  BY <1>0, Spending DEF Restart
<1>2. job' \in [Senders -> [Deliveries -> JobState]]
  BY <1>0, <1>1
<1>3. TypeOK'
  BY <1>0, <1>1, <1>2, DeliveryTypes
<1>4. \A d \in Deliveries : RowSound(d)'
  BY <1>1, RowStays
<1>5. \A k \in Senders, d \in Deliveries : JobSound(k, d)'
  BY <1>1, JobEnds
<1>. QED
  BY <1>3, <1>4, <1>5 DEF DeliveryInd

(* The invariant is inductive. *)
LEMMA DeliveryStep == DeliveryInd /\ [Next]_vars => DeliveryInd'
<1>. SUFFICES ASSUME DeliveryInd, [Next]_vars PROVE DeliveryInd'
  OBVIOUS
<1>1. ASSUME NEW k \in Senders, NEW d \in Deliveries, Request(k, d) PROVE DeliveryInd'
  BY <1>1, ResolveStep, PostStep, RecordStep DEF Request
<1>2. ASSUME UNCHANGED vars PROVE DeliveryInd'
  BY <1>2 DEF vars, DeliveryInd, TypeOK, RowSound, JobSound
<1>3. CASE Redrive
  BY <1>1, <1>3, ListStep, StartStep DEF Redrive, Senders
<1>4. ASSUME NEW d \in Deliveries, Inline(d) PROVE DeliveryInd'
  BY <1>1, <1>4, SleepStep DEF Inline, Senders
<1>. QED
  BY <1>1, <1>2, <1>3, <1>4, DispatchStep, StartStep, BlockStep, RequeueStep, RetainStep,
     TickStep, RestartStep DEF Next, Senders

-----------------------------------------------------------------------------
(* The delays between the attempts of dispatch(), added up. *)

(* A set of numbers with 0 and every successor has them all. *)
LEMMA Numbers ==
    ASSUME NEW T, T \subseteq Nat, 0 \in T, \A n \in T : n + 1 \in T PROVE T = Nat
<1>. SUFFICES ASSUME Nat \ T # {} PROVE FALSE
  OBVIOUS
<1>1. PICK x \in Nat \ T : \A y \in Nat \ T : ~(<<y, x>> \in OpToRel(<, Nat))
  BY NatLessThanWellFounded, WFMin, Nat \ T \subseteq Nat
<1>2. x # 0 /\ x - 1 \in Nat /\ (x - 1) + 1 = x /\ x - 1 < x
  OBVIOUS
<1>3. x - 1 \in T
  BY <1>1, <1>2 DEF OpToRel
<1>. QED
  BY <1>2, <1>3

(* A power of two is a number: that of the subsets of an interval. *)
LEMMA PowerIsNat == ASSUME NEW n \in Nat, NEW m \in Nat PROVE m * 2 ^ n \in Nat
<1>1. IsFiniteSet(1 .. n) /\ Cardinality(1 .. n) = n
  <2>1. IsFiniteSet(1 .. n)
    BY FS_Interval
  <2>2. Cardinality(1 .. n) = IF 1 > n THEN 0 ELSE n - 1 + 1
    BY FS_Interval
  <2>. QED
    BY <2>1, <2>2
<1>2. 2 ^ n \in Nat
  BY <1>1, FS_SUBSET, FS_CardinalityType
<1>3. \A x, y \in Nat : x * y \in Nat
  BY SMT
<1>. QED
  BY <1>2, <1>3

(* No delay is negative. *)
LEMMA CeilingIsNat == ASSUME NEW n \in Nat \ {0} PROVE RetryCeiling(n) \in Nat
<1>1. n - 1 \in Nat /\ RetryDelay \in Nat /\ RetryMaxDelay \in Nat
  BY TypeAssumption
<1>2. RetryDelay * 2 ^ (n - 1) \in Nat
  BY <1>1, PowerIsNat
<1>. QED
  BY <1>1, <1>2 DEF RetryCeiling, Least

(* The sums up to the m-th delay. *)
Sums(m) == {f \in [0 .. m -> Nat] :
               f[0] = 0 /\ \A n \in 1 .. m : f[n] = f[n - 1] + RetryCeiling(n)}

(* There are such sums, and what they say of a delay depends on no later one. *)
LEMMA SumsExist == \A m \in Nat : Sums(m) # {}
<1>. DEFINE T == {m \in Nat : Sums(m) # {}}
<1>1. 0 \in T
  <2>1. [n \in 0 .. 0 |-> 0] \in Sums(0)
    BY DEF Sums
  <2>. QED
    BY <2>1
<1>2. ASSUME NEW m \in T PROVE m + 1 \in T
  <2>1. PICK f : f \in Sums(m)
    OBVIOUS
  <2>. DEFINE g == [n \in 0 .. m + 1 |-> IF n = m + 1 THEN f[m] + RetryCeiling(m + 1) ELSE f[n]]
  <2>2. m \in Nat /\ f[m] \in Nat /\ RetryCeiling(m + 1) \in Nat
    BY <2>1, CeilingIsNat DEF Sums
  <2>3. PICK c \in Nat : c = RetryCeiling(m + 1)
    BY <2>2
  <2>4. g \in [0 .. m + 1 -> Nat] /\ g[0] = 0
    BY <2>1, <2>2 DEF Sums
  <2>5. ASSUME NEW n \in 1 .. m + 1 PROVE g[n] = g[n - 1] + RetryCeiling(n)
    <3>1. CASE n = m + 1
      BY <2>2, <3>1
    <3>2. CASE n \in 1 .. m
      BY <2>1, <2>2, <3>2 DEF Sums
    <3>. QED
      BY <2>2, <3>1, <3>2
  <2>6. g \in Sums(m + 1)
    BY <2>4, <2>5 DEF Sums
  <2>. QED
    BY <2>2, <2>6
<1>. HIDE DEF T
<1>3. T = Nat
  <2>1. T \subseteq Nat
    BY DEF T
  <2>. QED
    BY <1>1, <1>2, <2>1, Numbers
<1>. QED
  BY <1>3 DEF T

(* Two such sums agree where both are defined. *)
LEMMA SumsAgree ==
    ASSUME NEW m \in Nat, NEW k \in Nat, NEW f \in Sums(m), NEW g \in Sums(k)
    PROVE  \A n \in Nat : n <= m /\ n <= k => f[n] = g[n]
<1>. DEFINE T == {n \in Nat : n <= m /\ n <= k => f[n] = g[n]}
<1>1. 0 \in T
  BY DEF Sums
<1>2. ASSUME NEW n \in T PROVE n + 1 \in T
  <2>1. CASE n + 1 <= m /\ n + 1 <= k
    <3>1. n + 1 \in 1 .. m /\ n + 1 \in 1 .. k /\ f[n] = g[n] /\ (n + 1) - 1 = n
      BY <2>1
    <3>2. f[n + 1] = f[n] + RetryCeiling(n + 1) /\ g[n + 1] = g[n] + RetryCeiling(n + 1)
      BY <3>1 DEF Sums
    <3>. QED
      BY <3>1, <3>2
  <2>2. CASE ~(n + 1 <= m /\ n + 1 <= k)
    BY <2>2
  <2>. QED
    BY <2>1, <2>2
<1>. HIDE DEF T
<1>3. T = Nat
  <2>1. T \subseteq Nat
    BY DEF T
  <2>. QED
    BY <1>1, <1>2, <2>1, Numbers
<1>. QED
  BY <1>3 DEF T

(* RetryDelays adds up the delays. *)
LEMMA Delays ==
    /\ RetryDelays \in [Nat -> Nat] /\ RetryDelays[0] = 0
    /\ \A n \in Nat \ {0} : RetryDelays[n] = RetryDelays[n - 1] + RetryCeiling(n)
<1>. DEFINE Sum(m) == CHOOSE f : f \in Sums(m)
            F == [n \in Nat |-> Sum(n)[n]]
            Law(f) == f = [n \in Nat |-> IF n = 0 THEN 0 ELSE f[n - 1] + RetryCeiling(n)]
<1>1. ASSUME NEW n \in Nat PROVE Sum(n) \in Sums(n)
  BY SumsExist
<1>. HIDE DEF Sum
<1>2. ASSUME NEW n \in Nat PROVE F[n] \in Nat
  <2>1. Sum(n) \in [0 .. n -> Nat]
    BY <1>1 DEF Sums
  <2>. QED
    BY <2>1
<1>3. F[0] = 0
  BY <1>1 DEF Sums
<1>4. ASSUME NEW n \in Nat \ {0} PROVE F[n] = F[n - 1] + RetryCeiling(n)
  <2>1. n - 1 \in Nat /\ n - 1 <= n /\ n \in 1 .. n
    OBVIOUS
  <2>2. Sum(n)[n] = Sum(n)[n - 1] + RetryCeiling(n)
    BY <1>1, <2>1 DEF Sums
  <2>3. Sum(n)[n - 1] = Sum(n - 1)[n - 1]
    BY <1>1, <2>1, SumsAgree
  <2>. QED
    BY <2>1, <2>2, <2>3
<1>5. Law(F)
  <2>1. F = [n \in Nat |-> F[n]]
    OBVIOUS
  <2>. HIDE DEF F
  <2>2. \A n \in Nat : F[n] = IF n = 0 THEN 0 ELSE F[n - 1] + RetryCeiling(n)
    BY <1>3, <1>4
  <2>. QED
    BY <2>1, <2>2
<1>6. RetryDelays = CHOOSE f : Law(f)
  BY DEF RetryDelays
<1>. HIDE DEF F, Law
<1>7. Law(RetryDelays)
  BY <1>5, <1>6
<1>8. /\ RetryDelays[0] = 0 /\ RetryDelays = [n \in Nat |-> RetryDelays[n]]
      /\ \A n \in Nat \ {0} : RetryDelays[n] = RetryDelays[n - 1] + RetryCeiling(n)
  BY <1>7 DEF Law
<1>. DEFINE T == {n \in Nat : RetryDelays[n] \in Nat}
<1>9. T = Nat
  <2>1. T \subseteq Nat /\ 0 \in T
    BY <1>8
  <2>2. ASSUME NEW n \in T PROVE n + 1 \in T
    <3>1. /\ n + 1 \in Nat \ {0} /\ (n + 1) - 1 = n /\ RetryDelays[n] \in Nat
          /\ RetryCeiling(n + 1) \in Nat
      BY CeilingIsNat
    <3>2. RetryDelays[n + 1] = RetryDelays[n] + RetryCeiling(n + 1)
      BY <1>8, <3>1
    <3>. QED
      BY <3>1, <3>2
  <2>. HIDE DEF T
  <2>. QED
    BY <2>1, <2>2, Numbers
<1>10. \A n \in Nat : RetryDelays[n] \in Nat
  BY <1>9
<1>. QED
  BY <1>8, <1>10

(* More attempts wait no less. *)
LEMMA DelaysGrow ==
    ASSUME NEW n \in Nat, NEW m \in Nat, n <= m PROVE RetryDelays[n] <= RetryDelays[m]
<1>. DEFINE T == {i \in Nat : RetryDelays[n] <= RetryDelays[n + i]}
<1>1. T \subseteq Nat /\ 0 \in T
  BY Delays
<1>2. ASSUME NEW i \in T PROVE i + 1 \in T
  <2>1. /\ n + (i + 1) \in Nat \ {0} /\ (n + (i + 1)) - 1 = n + i
        /\ RetryDelays[n] \in Nat /\ RetryDelays[n + i] \in Nat
        /\ RetryCeiling(n + (i + 1)) \in Nat /\ RetryDelays[n] <= RetryDelays[n + i]
    BY CeilingIsNat, Delays
  <2>2. RetryDelays[n + (i + 1)] = RetryDelays[n + i] + RetryCeiling(n + (i + 1))
    BY Delays, <2>1
  <2>. QED
    BY <2>1, <2>2
<1>. HIDE DEF T
<1>3. T = Nat
  BY <1>1, <1>2, Numbers
<1>4. m - n \in Nat /\ n + (m - n) = m
  OBVIOUS
<1>. QED
  BY <1>3, <1>4 DEF T

-----------------------------------------------------------------------------
(* How long dispatch() can have been running. *)

(* The longest since the row was written, in each phase of dispatch(): the *)
(* name was looked up once, and every attempt before took its timeout and  *)
(* its delay.                                                              *)
InlineBound(j) ==
    IF j.pc = "resolve" THEN j.took
    ELSE IF j.pc = "post"
    THEN ResolveTime + (j.attempt - 1) * Timeout + RetryDelays[j.attempt - 1] + j.took
    ELSE ResolveTime + j.attempt * Timeout + RetryDelays[j.attempt - 1] + j.took

(* A dispatch() that runs is within that time. *)
OnSchedule(j) ==
    /\ j.pc # "queued" /\ j.attempt \in 1 .. RetryAttempts
    /\ j.pc = "resolve" => j.attempt = 1
    /\ j.pc = "sleep" => j.attempt < RetryAttempts
    /\ j.took <= PhaseLimit("dispatch", j)

InTime(d) ==
    /\ row[d].status = "none" => row[d].idle = 0 /\ \A k \in Senders : job[k][d].pc = "idle"
    /\ job["dispatch"][d].pc # "idle" =>
          /\ OnSchedule(job["dispatch"][d])
          /\ row[d].idle <= InlineBound(job["dispatch"][d])
          /\ job["redrive"][d].pc = "idle"

GraceInd == DeliveryInd /\ \A d \in Deliveries : InTime(d)

(* The redrive worker waits for longer than dispatch() can take. *)
GraceIsEnough == ResolveTime + WorstCaseInline < Grace

(* Multiplying by a number is monotone. *)
LEMMA Times ==
    ASSUME NEW n \in Nat, NEW m \in Nat, NEW t \in Nat
    PROVE  /\ n * t \in Nat /\ 0 * t = 0 /\ (n + 1) * t = n * t + t
           /\ n <= m => n * t <= m * t
  BY SMT

(* What the attempts before the n-th have waited and what it may wait. *)
LEMMA Waited ==
    ASSUME NEW n \in Nat \ {0}
    PROVE  /\ RetryDelays[n - 1] \in Nat /\ RetryCeiling(n) \in Nat /\ RetryDelays[n] \in Nat
           /\ RetryDelays[n] = RetryDelays[n - 1] + RetryCeiling(n)
<1>1. n - 1 \in Nat
  OBVIOUS
<1>. QED
  BY <1>1, Delays, CeilingIsNat

(* The bound never exceeds Config::worst_case_inline_delivery_secs and the *)
(* one resolution.                                                         *)
LEMMA BoundedByWorstCase ==
    ASSUME NEW j \in JobState, OnSchedule(j), j.pc # "idle"
    PROVE  InlineBound(j) \in Nat /\ InlineBound(j) <= ResolveTime + WorstCaseInline
<1>1. PICK a \in Nat \ {0} : a = j.attempt /\ a <= RetryAttempts
  BY TypeAssumption DEF OnSchedule
<1>2. /\ RetryAttempts \in Nat \ {0} /\ Timeout \in Nat /\ ResolveTime \in Nat
      /\ a - 1 \in Nat /\ RetryAttempts - 1 \in Nat /\ j.took \in Nat
  BY <1>1, TypeAssumption DEF JobState
<1>3. PICK x \in Nat, y \in Nat, z \in Nat :
         /\ x = (a - 1) * Timeout /\ y = a * Timeout /\ z = RetryAttempts * Timeout
         /\ y = x + Timeout /\ y <= z
  <2>1. (a - 1) + 1 = a
    BY <1>1
  <2>2. (a - 1) * Timeout \in Nat /\ ((a - 1) + 1) * Timeout = (a - 1) * Timeout + Timeout
    BY <1>2, Times
  <2>3. a * Timeout \in Nat /\ RetryAttempts * Timeout \in Nat /\ a * Timeout <= RetryAttempts * Timeout
    BY <1>1, <1>2, Times
  <2>. QED
    BY <2>1, <2>2, <2>3
<1>4. PICK u \in Nat, v \in Nat, w \in Nat, c \in Nat :
         /\ u = RetryDelays[a - 1] /\ v = RetryDelays[a] /\ w = RetryDelays[RetryAttempts - 1]
         /\ c = RetryCeiling(a) /\ v = u + c /\ u <= w
  <2>1. RetryDelays[RetryAttempts - 1] \in Nat /\ RetryDelays[a - 1] <= RetryDelays[RetryAttempts - 1]
    BY <1>1, <1>2, Delays, DelaysGrow
  <2>. QED
    BY <1>1, <2>1, Waited
<1>5. a < RetryAttempts => v <= w
  <2>1. a < RetryAttempts => a <= RetryAttempts - 1
    BY <1>1, <1>2
  <2>2. a <= RetryAttempts - 1 => RetryDelays[a] <= RetryDelays[RetryAttempts - 1]
    BY <1>1, <1>2, DelaysGrow
  <2>. QED
    BY <1>4, <2>1, <2>2
<1>6. WorstCaseInline = z + w
  BY <1>3, <1>4 DEF WorstCaseInline
<1>7. CASE j.pc = "resolve"
  <2>1. InlineBound(j) = j.took /\ j.took <= ResolveTime
    BY <1>7 DEF InlineBound, OnSchedule, PhaseLimit
  <2>. QED
    BY <1>2, <1>3, <1>4, <1>6, <2>1
<1>8. CASE j.pc = "post"
  <2>1. InlineBound(j) = ResolveTime + x + u + j.took /\ j.took <= Timeout
    BY <1>1, <1>3, <1>4, <1>8 DEF InlineBound, OnSchedule, PhaseLimit
  <2>. QED
    BY <1>2, <1>3, <1>4, <1>6, <2>1
<1>9. CASE j.pc = "sleep"
  <2>1. InlineBound(j) = ResolveTime + y + u + j.took /\ j.took <= c /\ a < RetryAttempts
    BY <1>1, <1>3, <1>4, <1>9 DEF InlineBound, OnSchedule, PhaseLimit
  <2>. QED
    BY <1>2, <1>3, <1>4, <1>5, <1>6, <2>1
<1>10. CASE j.pc = "answered"
  <2>1. InlineBound(j) = ResolveTime + y + u + j.took /\ j.took <= 0
    BY <1>1, <1>3, <1>4, <1>10 DEF InlineBound, OnSchedule, PhaseLimit
  <2>. QED
    BY <1>2, <1>3, <1>4, <1>6, <2>1
<1>. QED
  BY <1>7, <1>8, <1>9, <1>10 DEF OnSchedule, JobState

(* A row is not written later than before, and none is forgotten. *)
Calm(d) ==
    /\ row'[d].idle <= row[d].idle
    /\ row'[d].status = "none" => row'[d] = row[d]

(* A dispatch() that the step does not concern stays in time: nobody else  *)
(* takes up its delivery without a row, and the redrive worker none of a   *)
(* dispatch() that runs.                                                   *)
LEMMA InTimeStays ==
    ASSUME GraceInd, TypeOK', NEW d \in Deliveries, Calm(d),
           job'["dispatch"][d] = job["dispatch"][d],
           \A k \in Senders : job'[k][d].pc = "idle" \/ job[k][d].pc # "idle"
              \/ /\ row[d].status # "none"
                 /\ k = "redrive" => job["dispatch"][d].pc = "idle"
    PROVE  InTime(d)'
<1>1. InTime(d) /\ "redrive" \in Senders
  BY DEF GraceInd, Senders
<1>2. row'[d].status = "none" => row'[d].idle = 0 /\ \A k \in Senders : job'[k][d].pc = "idle"
  BY <1>1 DEF InTime, Calm
<1>3. ASSUME job["dispatch"][d].pc # "idle"
      PROVE  row'[d].idle <= InlineBound(job["dispatch"][d])
  <2>1. PICK b \in Nat : b = InlineBound(job["dispatch"][d])
    <3>1. job["dispatch"][d] \in JobState
      BY DeliveryTypes DEF GraceInd, DeliveryInd, Senders
    <3>. QED
      BY <1>1, <1>3, <3>1, BoundedByWorstCase DEF InTime
  <2>2. row'[d].idle \in Nat /\ row[d].idle \in Nat
    BY DeliveryTypes DEF GraceInd, DeliveryInd, Row
  <2>. QED
    BY <1>1, <1>3, <2>1, <2>2 DEF InTime, Calm
<1>4. OnSchedule(job["dispatch"][d])' <=> OnSchedule(job["dispatch"][d])
  BY DEF OnSchedule, PhaseLimit
<1>5. InlineBound(job["dispatch"][d])' = InlineBound(job["dispatch"][d])
  BY DEF InlineBound
<1>. QED
  BY <1>1, <1>2, <1>3, <1>4, <1>5 DEF InTime

(* One that ends is in time. *)
LEMMA InTimeEnds ==
    ASSUME GraceInd, NEW d \in Deliveries, Calm(d), job'["dispatch"][d].pc = "idle",
           \A k \in Senders : job[k][d].pc = "idle" => job'[k][d].pc = "idle"
    PROVE  InTime(d)'
  BY DEF GraceInd, InTime, Calm

(* A step of one sender. *)
LEMMA OneInTime ==
    ASSUME GraceInd, DeliveryInd', NEW k \in Senders, NEW d \in Deliveries, NEW j, Works(k, d, j),
           \A e \in Deliveries : Calm(e), InTime(d)'
    PROVE  GraceInd'
<1>1. ASSUME NEW e \in Deliveries, e # d PROVE InTime(e)'
  <2>1. "dispatch" \in Senders /\ \A l \in Senders : job'[l][e] = job[l][e]
    BY <1>1 DEF Works, Senders
  <2>. QED
    BY <2>1, InTimeStays DEF DeliveryInd
<1>. QED
  BY <1>1 DEF GraceInd

(* A step of a sender other than dispatch() on a delivery it is at work on *)
(* already.                                                                *)
LEMMA OtherInTime ==
    ASSUME GraceInd, DeliveryInd', NEW k \in Senders \ {"dispatch"}, NEW d \in Deliveries,
           NEW j, Works(k, d, j), \A e \in Deliveries : Calm(e), job[k][d].pc # "idle"
    PROVE  GraceInd'
<1>1. \A l \in Senders \ {k} : job'[l][d] = job[l][d]
  BY DEF Works
<1>2. InTime(d)'
  BY <1>1, InTimeStays DEF DeliveryInd, Senders
<1>. QED
  BY <1>2, OneInTime

(* A step of dispatch(): it goes on in time, or ends. *)
LEMMA InlineInTime ==
    ASSUME GraceInd, DeliveryInd', NEW d \in Deliveries, NEW j \in JobState,
           Works("dispatch", d, j), \A e \in Deliveries : Calm(e),
           job["dispatch"][d].pc # "idle",
           j.pc # "idle" => OnSchedule(j) /\ row'[d].idle <= InlineBound(j)
    PROVE  GraceInd'
<1>1. /\ "dispatch" \in Senders /\ "redrive" \in Senders /\ job'["dispatch"][d] = j
      /\ \A l \in Senders \ {"dispatch"} : job'[l][d] = job[l][d]
  BY DEF Works, Senders
<1>2. row'[d].status # "none" /\ job["redrive"][d].pc = "idle"
  BY <1>1 DEF GraceInd, InTime, Calm
<1>3. OnSchedule(job["dispatch"][d])' <=> OnSchedule(j)
  BY <1>1 DEF OnSchedule, PhaseLimit
<1>4. InlineBound(job["dispatch"][d])' = InlineBound(j)
  BY <1>1 DEF InlineBound
<1>5. InTime(d)'
  BY <1>1, <1>2, <1>3, <1>4 DEF InTime
<1>. QED
  BY <1>1, <1>5, OneInTime

(* Rows that stay are calm. *)
LEMMA StillCalm == ASSUME TypeOK, row' = row PROVE \A e \in Deliveries : Calm(e)
<1>1. \A e \in Deliveries : row[e].idle \in Nat
  BY DeliveryTypes DEF Row
<1>. QED
  BY <1>1 DEF Calm

(* A row that update_webhook_delivery writes is calm, too. *)
LEMMA WrittenCalm ==
    ASSUME TypeOK, NEW d \in Deliveries, NEW st \in Stored, NEW n \in Nat, Update(d, st, n)
    PROVE  \A e \in Deliveries : Calm(e)
<1>1. \A e \in Deliveries : row[e].idle \in Nat
  BY DeliveryTypes DEF Row
<1>2. /\ \A e \in Deliveries \ {d} : row'[e] = row[e]
      /\ row'[d] = row[d] \/ (row'[d].status = st /\ row'[d].idle = 0)
  BY Updating
<1>. QED
  BY <1>1, <1>2 DEF Calm, Stored

(* Dispatch: nobody else is at work on the delivery. *)
LEMMA DispatchInTime ==
    ASSUME GraceInd, DeliveryInd', NEW d \in Deliveries, Dispatch(d) PROVE GraceInd'
<1>0. /\ TypeOK /\ row \in [Deliveries -> Row] /\ row[d] \in Row /\ "dispatch" \in Senders
      /\ InTime(d) /\ Job("resolve", 1, "event") \in JobState
  BY DeliveryTypes DEF GraceInd, DeliveryInd, Senders, Job, JobState
<1>1. PICK st \in {"pending", "unrecorded"} : row' = [row EXCEPT ![d].status = st]
  BY DEF Dispatch
<1>2. /\ \A e \in Deliveries \ {d} : row'[e] = row[e]
      /\ row'[d].status = st /\ row'[d].idle = row[d].idle /\ row[d].idle = 0
  <2>1. row'[d] = [row[d] EXCEPT !.status = st] /\ row[d].idle = 0
    BY <1>0, <1>1 DEF Dispatch, InTime
  <2>. QED
    BY <1>0, <1>1, <2>1 DEF Row
<1>3. \A e \in Deliveries : Calm(e)
  <2>1. \A e \in Deliveries : row[e].idle \in Nat
    BY <1>0 DEF Row
  <2>. QED
    BY <1>2, <2>1 DEF Calm
<1>4. PICK j \in JobState : j = Job("resolve", 1, "event")
  BY <1>0
<1>5. Works("dispatch", d, j)
  BY <1>0, <1>4, Working DEF Dispatch
<1>6. OnSchedule(j) /\ InlineBound(j) = 0
  BY <1>4, TypeAssumption DEF OnSchedule, InlineBound, PhaseLimit, Job
<1>7. InTime(d)'
  <2>1. OnSchedule(job["dispatch"][d])' /\ InlineBound(job["dispatch"][d])' = 0
    BY <1>5, <1>6 DEF Works, OnSchedule, InlineBound, PhaseLimit
  <2>2. job'["redrive"][d].pc = "idle"
    BY <1>0, <1>5 DEF Dispatch, Works, InTime, Senders
  <2>. QED
    BY <1>2, <2>1, <2>2 DEF InTime
<1>. QED
  BY <1>0, <1>3, <1>5, <1>7, OneInTime

(* What a dispatch() at work is known to hold. *)
LEMMA AtWork ==
    ASSUME GraceInd, NEW d \in Deliveries, NEW j, j = job["dispatch"][d], j.pc # "idle"
    PROVE  /\ j \in JobState /\ j.attempt \in Nat \ {0} /\ j.took \in Nat /\ row[d].idle \in Nat
           /\ OnSchedule(j) /\ row[d].idle <= InlineBound(j)
           /\ ResolveTime \in Nat /\ Timeout \in Nat
           /\ RetryDelays[j.attempt - 1] \in Nat /\ RetryCeiling(j.attempt) \in Nat
           /\ RetryDelays[j.attempt] = RetryDelays[j.attempt - 1] + RetryCeiling(j.attempt)
           /\ (j.attempt - 1) * Timeout \in Nat /\ j.attempt * Timeout \in Nat
           /\ j.attempt * Timeout = (j.attempt - 1) * Timeout + Timeout
<1>1. j \in JobState /\ row[d] \in Row
  BY DeliveryTypes DEF GraceInd, DeliveryInd, Senders
<1>2. OnSchedule(j) /\ row[d].idle <= InlineBound(j)
  BY DEF GraceInd, InTime
<1>3. j.attempt \in Nat \ {0} /\ j.attempt - 1 \in Nat /\ (j.attempt - 1) + 1 = j.attempt
  BY <1>2, TypeAssumption DEF OnSchedule
<1>4. ResolveTime \in Nat /\ Timeout \in Nat /\ j.took \in Nat /\ row[d].idle \in Nat
  BY <1>1, TypeAssumption DEF JobState, Row
<1>5. PICK a \in Nat : a = j.attempt - 1
  BY <1>3
<1>6. a * Timeout \in Nat /\ (a + 1) * Timeout = a * Timeout + Timeout
  BY <1>4, Times
<1>7. PICK p \in Nat : p = a * Timeout /\ (a + 1) * Timeout = p + Timeout
  BY <1>6
<1>8. /\ (j.attempt - 1) * Timeout \in Nat /\ j.attempt * Timeout \in Nat
      /\ j.attempt * Timeout = (j.attempt - 1) * Timeout + Timeout
  BY <1>3, <1>4, <1>5, <1>7
<1>. QED
  BY <1>1, <1>2, <1>3, <1>4, <1>8, Waited

(* Resolve: the one resolution has taken its time. *)
LEMMA ResolveInTime ==
    ASSUME GraceInd, DeliveryInd', NEW k \in Senders, NEW d \in Deliveries, Resolve(k, d)
    PROVE  GraceInd'
<1>. DEFINE j == [job[k][d] EXCEPT !.pc = "post", !.took = 0]
<1>0. TypeOK /\ job[k][d] \in JobState
  BY DeliveryTypes DEF GraceInd, DeliveryInd
<1>1. j \in JobState /\ j.pc = "post" /\ j.attempt = job[k][d].attempt /\ j.took = 0
  BY <1>0 DEF JobState
<1>2. Become(k, d, j) /\ job[k][d].pc = "resolve" /\ row' = row
  BY DEF Resolve
<1>. HIDE DEF j
<1>3. Works(k, d, j) /\ \A e \in Deliveries : Calm(e)
  BY <1>0, <1>1, <1>2, Working, StillCalm
<1>4. CASE k # "dispatch"
  BY <1>2, <1>3, <1>4, OtherInTime
<1>5. CASE k = "dispatch"
  <2>1. PICK i : i = job["dispatch"][d]
    OBVIOUS
  <2>2. /\ i.pc = "resolve" /\ i.attempt = 1 /\ i.took <= ResolveTime
        /\ i.took \in Nat /\ row[d].idle \in Nat /\ row[d].idle <= i.took
        /\ ResolveTime \in Nat /\ Timeout \in Nat
    BY <1>2, <1>5, <2>1, AtWork DEF OnSchedule, PhaseLimit, InlineBound
  <2>3. InlineBound(j) = ResolveTime
    <3>1. j.attempt - 1 = 0 /\ 0 * Timeout = 0 /\ RetryDelays[0] = 0
      BY <1>1, <1>5, <2>1, <2>2, Times, Delays
    <3>. QED
      BY <1>1, <2>2, <3>1 DEF InlineBound
  <2>4. OnSchedule(j)
    BY <1>1, <1>5, <2>1, <2>2, TypeAssumption DEF OnSchedule, PhaseLimit
  <2>. QED
    BY <1>1, <1>2, <1>3, <1>5, <2>2, <2>3, <2>4, InlineInTime
<1>. QED
  BY <1>4, <1>5

(* Post: one attempt has taken its timeout. *)
LEMMA PostInTime ==
    ASSUME GraceInd, DeliveryInd', NEW k \in Senders, NEW d \in Deliveries, Post(k, d)
    PROVE  GraceInd'
<1>0. TypeOK /\ job[k][d] \in JobState
  BY DeliveryTypes DEF GraceInd, DeliveryInd
<1>1. PICK answer \in {"yes", "no"} :
         Become(k, d, [job[k][d] EXCEPT !.pc = "answered", !.took = 0, !.answer = answer])
  BY DEF Post
<1>. DEFINE j == [job[k][d] EXCEPT !.pc = "answered", !.took = 0, !.answer = answer]
<1>2. j \in JobState /\ j.pc = "answered" /\ j.attempt = job[k][d].attempt /\ j.took = 0
  BY <1>0 DEF JobState
<1>3. Become(k, d, j) /\ job[k][d].pc = "post" /\ row' = row
  BY <1>1 DEF Post
<1>. HIDE DEF j
<1>4. Works(k, d, j) /\ \A e \in Deliveries : Calm(e)
  BY <1>0, <1>2, <1>3, Working, StillCalm
<1>5. CASE k # "dispatch"
  BY <1>3, <1>4, <1>5, OtherInTime
<1>6. CASE k = "dispatch"
  <2>1. PICK i : i = job["dispatch"][d]
    OBVIOUS
  <2>2. /\ i.attempt * Timeout = (i.attempt - 1) * Timeout + Timeout
        /\ (i.attempt - 1) * Timeout \in Nat /\ RetryDelays[i.attempt - 1] \in Nat
        /\ i.took \in Nat /\ row[d].idle \in Nat /\ ResolveTime \in Nat /\ Timeout \in Nat
        /\ OnSchedule(i) /\ row[d].idle <= InlineBound(i) /\ i.pc = "post"
    BY <1>3, <1>6, <2>1, AtWork
  <2>3. PICK x \in Nat, u \in Nat :
           x = (i.attempt - 1) * Timeout /\ u = RetryDelays[i.attempt - 1]
    BY <2>2
  <2>4. row[d].idle <= ResolveTime + x + u + i.took /\ i.took <= Timeout
    BY <2>2, <2>3 DEF InlineBound, OnSchedule, PhaseLimit
  <2>5. InlineBound(j) = ResolveTime + (x + Timeout) + u + 0
    BY <1>2, <1>6, <2>1, <2>2, <2>3 DEF InlineBound
  <2>6. row'[d].idle <= InlineBound(j)
    BY <1>3, <2>2, <2>3, <2>4, <2>5
  <2>7. OnSchedule(j)
    BY <1>2, <1>6, <2>1, <2>2 DEF OnSchedule, PhaseLimit
  <2>. QED
    BY <1>2, <1>3, <1>4, <1>6, <2>6, <2>7, InlineInTime
<1>. QED
  BY <1>5, <1>6

(* InlineSleep, and InlineRetry once the delay has passed. *)
LEMMA SleepInTime ==
    ASSUME GraceInd, DeliveryInd', NEW d \in Deliveries, InlineSleep(d) \/ InlineRetry(d)
    PROVE  GraceInd'
<1>1. PICK i : i = job["dispatch"][d]
  OBVIOUS
<1>2. i.pc # "idle" /\ row' = row /\ "dispatch" \in Senders
  BY <1>1 DEF InlineSleep, InlineRetry, Senders
<1>3. /\ i \in JobState /\ i.attempt \in Nat \ {0} /\ i.took \in Nat /\ row[d].idle \in Nat
      /\ OnSchedule(i) /\ row[d].idle <= InlineBound(i) /\ ResolveTime \in Nat /\ Timeout \in Nat
      /\ RetryDelays[i.attempt] = RetryDelays[i.attempt - 1] + RetryCeiling(i.attempt)
      /\ RetryDelays[i.attempt - 1] \in Nat /\ RetryCeiling(i.attempt) \in Nat
      /\ i.attempt * Timeout \in Nat
  BY <1>1, <1>2, AtWork
<1>4. TypeOK /\ \A e \in Deliveries : Calm(e)
  BY <1>2, StillCalm DEF GraceInd, DeliveryInd
<1>5. CASE InlineSleep(d)
  <2>1. PICK j : j = [i EXCEPT !.pc = "sleep"]
    OBVIOUS
  <2>2. /\ j \in JobState /\ j.pc = "sleep" /\ j.attempt = i.attempt /\ j.took = i.took
    BY <1>3, <2>1 DEF JobState
  <2>3. Become("dispatch", d, j) /\ i.pc = "answered" /\ i.attempt < RetryAttempts
    BY <1>1, <1>5, <2>1 DEF InlineSleep
  <2>4. i.took <= 0
    BY <1>3, <2>3 DEF OnSchedule, PhaseLimit
  <2>5. OnSchedule(j)
    BY <1>3, <2>2, <2>3, <2>4 DEF OnSchedule, PhaseLimit
  <2>6. InlineBound(j) = InlineBound(i)
    BY <2>2, <2>3 DEF InlineBound
  <2>. QED
    BY <1>1, <1>2, <1>3, <1>4, <2>2, <2>3, <2>5, <2>6, Working, InlineInTime
<1>6. CASE InlineRetry(d)
  <2>1. PICK j : j = Job("post", i.attempt + 1, i.body)
    OBVIOUS
  <2>2. /\ j \in JobState /\ j.pc = "post" /\ j.attempt = i.attempt + 1 /\ j.took = 0
    BY <1>3, <2>1 DEF JobState, Job
  <2>3. Become("dispatch", d, j) /\ i.pc = "sleep"
    BY <1>1, <1>6, <2>1 DEF InlineRetry
  <2>4. PICK y \in Nat, u \in Nat, c \in Nat :
           /\ y = i.attempt * Timeout /\ u = RetryDelays[i.attempt - 1]
           /\ c = RetryCeiling(i.attempt)
    BY <1>3
  <2>5. row[d].idle <= ResolveTime + y + u + i.took /\ i.took <= c
    BY <1>3, <2>3, <2>4 DEF InlineBound, OnSchedule, PhaseLimit
  <2>6. InlineBound(j) = ResolveTime + y + (u + c) + 0
    <3>1. j.attempt - 1 = i.attempt
      BY <1>3, <2>2
    <3>. QED
      BY <1>3, <2>2, <2>4, <3>1 DEF InlineBound
  <2>7. row'[d].idle <= InlineBound(j)
    BY <1>2, <1>3, <2>4, <2>5, <2>6
  <2>8. OnSchedule(j)
    BY <1>3, <2>2, <2>3, TypeAssumption DEF OnSchedule, PhaseLimit
  <2>. QED
    BY <1>1, <1>2, <1>4, <2>2, <2>3, <2>7, <2>8, Working, InlineInTime
<1>. QED
  BY <1>5, <1>6

(* Block and Record: a sender ends. *)
LEMMA EndInTime ==
    ASSUME GraceInd, DeliveryInd', NEW k \in Senders, NEW d \in Deliveries,
           Block(k, d) \/ Record(k, d)
    PROVE  GraceInd'
<1>0. /\ TypeOK /\ job[k][d] \in JobState /\ NoJob \in JobState /\ JobSound(k, d)
  BY DeliveryTypes DEF GraceInd, DeliveryInd, NoJob, JobState
<1>1. Become(k, d, NoJob) /\ job[k][d].pc # "idle"
  BY DEF Block, Record
<1>2. Works(k, d, NoJob)
  BY <1>0, <1>1, Working
<1>3. \A e \in Deliveries : Calm(e)
  <2>1. CASE row' = row
    BY <1>0, <2>1, StillCalm
  <2>2. ASSUME NEW st \in Stored, NEW n \in Nat, Update(d, st, n) PROVE \A e \in Deliveries : Calm(e)
    BY <1>0, <2>2, WrittenCalm
  <2>3. CASE Block(k, d)
    <3>1. job[k][d].attempt - 1 \in Nat /\ "failed" \in Stored
      BY <1>0, <1>1 DEF JobSound, JobState, Stored
    <3>. QED
      BY <2>1, <2>2, <2>3, <3>1 DEF Block
  <2>4. CASE Record(k, d)
    <3>1. Verdict(k, job[k][d]) \in Stored /\ job[k][d].attempt \in Nat
      BY <1>0 DEF Verdict, Stored, JobState
    <3>. QED
      BY <2>1, <2>2, <2>4, <3>1 DEF Record
  <2>. QED
    BY <2>3, <2>4
<1>4. CASE k # "dispatch"
  BY <1>1, <1>2, <1>3, <1>4, OtherInTime
<1>5. CASE k = "dispatch"
  <2>1. NoJob.pc = "idle"
    BY DEF NoJob
  <2>. QED
    BY <1>0, <1>1, <1>2, <1>3, <1>5, <2>1, InlineInTime
<1>. QED
  BY <1>4, <1>5

(* Redeliver and RedrivePermit. *)
LEMMA StartInTime ==
    ASSUME GraceInd, DeliveryInd', NEW d \in Deliveries, Redeliver(d) \/ RedrivePermit(d)
    PROVE  GraceInd'
<1>0. /\ TypeOK /\ row[d] \in Row /\ job["redrive"][d] \in JobState
      /\ "redrive" \in Senders /\ "manual" \in Senders
  BY DeliveryTypes DEF GraceInd, DeliveryInd, Senders
<1>1. row' = row /\ \A e \in Deliveries : Calm(e)
  BY <1>0, StillCalm DEF Redeliver, RedrivePermit
<1>2. CASE Redeliver(d)
  <2>1. PICK j : j = Job("resolve", row[d].attempts + 1, row[d].payload)
    OBVIOUS
  <2>2. j \in JobState /\ Become("manual", d, j) /\ row[d].status # "none"
    BY <1>0, <1>2, <2>1 DEF Redeliver, Job, JobState, Row, Exists, Stored
  <2>3. Works("manual", d, j)
    BY <1>0, <2>2, Working
  <2>4. InTime(d)'
    <3>1. \A l \in Senders \ {"manual"} : job'[l][d] = job[l][d]
      BY <2>3 DEF Works
    <3>. QED
      BY <1>1, <2>2, <3>1, InTimeStays DEF DeliveryInd, Senders
  <2>. QED
    BY <1>0, <1>1, <2>3, <2>4, OneInTime
<1>3. CASE RedrivePermit(d)
  <2>1. PICK j : j = [job["redrive"][d] EXCEPT !.pc = "resolve"]
    OBVIOUS
  <2>2. j \in JobState /\ Become("redrive", d, j) /\ job["redrive"][d].pc # "idle"
    BY <1>0, <1>3, <2>1 DEF RedrivePermit, JobState
  <2>. QED
    BY <1>0, <1>1, <2>2, Working, OtherInTime
<1>. QED
  BY <1>2, <1>3

(* RedriveList: a row whose dispatch() still runs is not past the window. *)
LEMMA ListInTime ==
    ASSUME GraceIsEnough, GraceInd, DeliveryInd', RedriveList PROVE GraceInd'
<1>0. /\ TypeOK /\ job \in [Senders -> [Deliveries -> JobState]]
      /\ "redrive" \in Senders /\ "dispatch" \in Senders
  BY DeliveryTypes DEF GraceInd, DeliveryInd, Senders
<1>1. row' = row /\ \A e \in Deliveries : Calm(e)
  BY <1>0, StillCalm DEF RedriveList
<1>2. PICK S \in SUBSET {d \in Deliveries : Redrivable(d)
                                              /\ row[d].idle >= Window(row[d].attempts) + 0} :
         job' = [job EXCEPT !["redrive"] = [d \in Deliveries |->
                   IF d \in S THEN Job("queued", row[d].attempts + 1, row[d].payload)
                              ELSE NoJob]]
  BY DEF RedriveList
<1>3. /\ \A l \in Senders \ {"redrive"} : job'[l] = job[l]
      /\ \A d \in Deliveries \ S : job'["redrive"][d].pc = "idle"
  BY <1>0, <1>2 DEF NoJob
<1>4. ASSUME NEW d \in S PROVE job["dispatch"][d].pc = "idle" /\ row[d].status # "none"
  <2>1. row[d].status # "none" /\ row[d].idle >= Window(row[d].attempts) + 0
    BY <1>2 DEF Redrivable
  <2>2. PICK w \in Nat : w = Window(row[d].attempts) /\ Grace <= w
    <3>1. row[d].attempts \in Nat /\ Grace \in Nat /\ BackoffInitial \in Nat /\ BackoffMax \in Nat
      BY DeliveryTypes, TypeAssumption DEF GraceInd, DeliveryInd, Row
    <3>2. CASE row[d].attempts = 0
      BY <3>1, <3>2 DEF Window
    <3>3. CASE row[d].attempts # 0
      <4>1. PICK e \in Nat : e = Least(row[d].attempts - 1, 32)
        BY <3>1, <3>3 DEF Least
      <4>2. PICK b \in Nat : b = Least(BackoffInitial * 2 ^ e, BackoffMax)
        BY <3>1, PowerIsNat DEF Least
      <4>3. Window(row[d].attempts) = Greatest(Grace, b)
        BY <3>3, <4>1, <4>2 DEF Window
      <4>. QED
        BY <3>1, <4>3 DEF Greatest
    <3>. QED
      BY <3>2, <3>3
  <2>3. ASSUME job["dispatch"][d].pc # "idle" PROVE FALSE
    <3>1. PICK i : i = job["dispatch"][d]
      OBVIOUS
    <3>2. i \in JobState /\ OnSchedule(i) /\ row[d].idle <= InlineBound(i) /\ row[d].idle \in Nat
      BY <2>3, <3>1, AtWork
    <3>3. InlineBound(i) \in Nat /\ InlineBound(i) <= ResolveTime + WorstCaseInline
      BY <2>3, <3>1, <3>2, BoundedByWorstCase
    <3>4. WorstCaseInline \in Nat
      <4>1. RetryAttempts * Timeout \in Nat /\ RetryDelays[RetryAttempts - 1] \in Nat
        BY TypeAssumption, Times, Waited
      <4>. QED
        BY <4>1 DEF WorstCaseInline
    <3>. QED
      BY <2>1, <2>2, <3>2, <3>3, <3>4, TypeAssumption DEF GraceIsEnough
  <2>. QED
    BY <2>1, <2>3
<1>5. ASSUME NEW d \in Deliveries PROVE InTime(d)'
  BY <1>0, <1>1, <1>3, <1>4, InTimeStays DEF DeliveryInd
<1>. QED
  BY <1>5 DEF GraceInd

(* Steps of the merchant and the retention worker leave the clocks alone. *)
LEMMA RowsInTime ==
    ASSUME GraceInd, DeliveryInd', job' = job,
           \A d \in Deliveries : /\ row'[d].idle = row[d].idle
                                 /\ row'[d].status = "none" => row'[d] = row[d]
    PROVE  GraceInd'
<1>1. \A d \in Deliveries : row[d].idle \in Nat
  BY DeliveryTypes DEF GraceInd, DeliveryInd, Row
<1>2. \A d \in Deliveries : Calm(d)
  BY <1>1 DEF Calm
<1>3. ASSUME NEW d \in Deliveries PROVE InTime(d)'
  BY <1>2, InTimeStays DEF DeliveryInd
<1>. QED
  BY <1>3 DEF GraceInd

(* Requeue, Prune, Compact. *)
LEMMA RewriteInTime ==
    ASSUME GraceInd, DeliveryInd', Retain \/ \E S \in SUBSET Deliveries : Requeue(S)
    PROVE  GraceInd'
<1>0. row \in [Deliveries -> Row]
  BY DeliveryTypes DEF GraceInd, DeliveryInd
<1>1. job' = job
  BY DEF Retain, RetentionWake, Prune, Compact, Requeue
<1>2. CASE RetentionWake
  BY <1>1, <1>2, RowsInTime DEF RetentionWake
<1>3. ASSUME NEW S \in SUBSET Deliveries, Requeue(S) PROVE GraceInd'
  <2>1. row' = [d \in Deliveries |-> IF d \in S
            THEN [row[d] EXCEPT !.status = "pending", !.attempts = 0, !.acked = "yes"]
            ELSE row[d]]
    BY <1>3 DEF Requeue
  <2>2. ASSUME NEW d \in Deliveries, NEW new,
               new = [row[d] EXCEPT !.status = "pending", !.attempts = 0, !.acked = "yes"]
        PROVE  new.idle = row[d].idle /\ new.status = "pending"
    BY <1>0, <2>2 DEF Row
  <2>. QED
    BY <1>1, <2>1, <2>2, RowsInTime
<1>4. CASE Prune
  <2>1. PICK S : row' = [d \in Deliveries |->
                 IF d \in S THEN [row[d] EXCEPT !.status = "pruned"] ELSE row[d]]
    BY <1>4 DEF Prune
  <2>2. ASSUME NEW d \in Deliveries, NEW new, new = [row[d] EXCEPT !.status = "pruned"]
        PROVE  new.idle = row[d].idle /\ new.status = "pruned"
    BY <1>0, <2>2 DEF Row
  <2>. QED
    BY <1>1, <2>1, <2>2, RowsInTime
<1>5. CASE Compact
  <2>1. PICK S \in SUBSET {d \in Deliveries :
               /\ row[d].status = "failed" /\ row[d].acked = "no"
               /\ row[d].payload = "event" /\ AgedOut(d)} :
           row' = [d \in Deliveries |->
                 IF d \in S THEN [row[d] EXCEPT !.payload = "empty"] ELSE row[d]]
    BY <1>5 DEF Compact
  <2>2. ASSUME NEW d \in Deliveries, NEW new, new = [row[d] EXCEPT !.payload = "empty"]
        PROVE  new.idle = row[d].idle /\ new.status = row[d].status
    BY <1>0, <2>2 DEF Row
  <2>3. \A d \in S : row[d].status # "none"
    BY <2>1
  <2>. QED
    BY <1>1, <2>1, <2>2, <2>3, RowsInTime
<1>. QED
  BY <1>2, <1>3, <1>4, <1>5 DEF Retain

(* Tick: the row gets older by no more than the phase does. *)
LEMMA TickInTime == ASSUME GraceInd, DeliveryInd', Tick PROVE GraceInd'
<1>0. /\ row \in [Deliveries -> Row] /\ job \in [Senders -> [Deliveries -> JobState]]
      /\ "dispatch" \in Senders /\ "redrive" \in Senders /\ IdleCap \in Nat
  BY DeliveryTypes, TypeAssumption DEF GraceInd, DeliveryInd, Senders, IdleCap, Greatest
<1>1. ASSUME NEW d \in Deliveries
      PROVE  /\ row'[d].status = row[d].status
             /\ row'[d].idle \in Nat /\ row'[d].idle <= row[d].idle + 1
             /\ row[d].status = "none" => row'[d] = row[d]
  <2>1. row[d] \in Row /\ row[d].idle \in Nat /\ row[d].age \in Nat
    BY <1>0 DEF Row
  <2>2. PICK i, a : i = Least(row[d].idle + 1, IdleCap) /\ a = Least(row[d].age + 1, AgeCap)
    OBVIOUS
  <2>3. i \in Nat /\ i <= row[d].idle + 1
    BY <1>0, <2>1, <2>2 DEF Least
  <2>4. row'[d] = IF Exists(d) THEN [row[d] EXCEPT !.idle = i, !.age = a] ELSE row[d]
    BY <2>2, Zenon DEF Tick
  <2>. QED
    BY <2>1, <2>3, <2>4 DEF Row, Exists, Stored
<1>2. ASSUME NEW k \in Senders, NEW d \in Deliveries
      PROVE  /\ job'[k][d].pc = job[k][d].pc /\ job'[k][d].attempt = job[k][d].attempt
             /\ job[k][d].pc \in Timed => job'[k][d].took = job[k][d].took + 1
  <2>1. job[k][d] \in JobState /\ job[k][d].took \in Nat
    BY <1>0 DEF JobState
  <2>2. PICK t : t = job[k][d].took + 1
    OBVIOUS
  <2>3. job'[k][d] = IF job[k][d].pc \in Timed THEN [job[k][d] EXCEPT !.took = t] ELSE job[k][d]
    BY <2>2, Zenon DEF Tick
  <2>. QED
    BY <2>1, <2>2, <2>3 DEF JobState
<1>3. ASSUME NEW d \in Deliveries PROVE InTime(d)'
  <2>1. row'[d].status = "none" => row'[d].idle = 0 /\ \A k \in Senders : job'[k][d].pc = "idle"
    BY <1>1, <1>2 DEF GraceInd, InTime
  <2>2. ASSUME job'["dispatch"][d].pc # "idle"
        PROVE  /\ OnSchedule(job'["dispatch"][d])
               /\ row'[d].idle <= InlineBound(job'["dispatch"][d])
               /\ job'["redrive"][d].pc = "idle"
    <3>1. PICK i, j : i = job["dispatch"][d] /\ j = job'["dispatch"][d]
      OBVIOUS
    <3>2. i.pc # "idle" /\ j.pc = i.pc /\ j.attempt = i.attempt
      BY <1>0, <1>2, <2>2, <3>1
    <3>3. /\ i \in JobState /\ OnSchedule(i) /\ row[d].idle <= InlineBound(i)
          /\ i.took \in Nat /\ row[d].idle \in Nat /\ ResolveTime \in Nat
          /\ RetryDelays[i.attempt - 1] \in Nat
          /\ (i.attempt - 1) * Timeout \in Nat /\ i.attempt * Timeout \in Nat
      BY <3>1, <3>2, AtWork
    <3>4. i.pc \in Timed
      BY <3>2, <3>3 DEF Timed, JobState, OnSchedule
    <3>5. j.took = i.took + 1 /\ i.took < PhaseLimit("dispatch", i)
      BY <1>0, <1>2, <3>1, <3>4 DEF Tick
    <3>6. PhaseLimit("dispatch", j) = PhaseLimit("dispatch", i) /\ PhaseLimit("dispatch", i) \in Nat
      <4>1. RetryCeiling(i.attempt) \in Nat /\ Timeout \in Nat
        BY <3>1, <3>2, AtWork
      <4>. QED
        BY <3>2, <3>3, <4>1 DEF PhaseLimit
    <3>7. OnSchedule(j)
      <4>1. j.took <= PhaseLimit("dispatch", j)
        BY <3>3, <3>5, <3>6
      <4>. QED
        BY <3>2, <3>3, <4>1 DEF OnSchedule
    <3>8. InlineBound(j) = InlineBound(i) + 1
      BY <3>2, <3>3, <3>5 DEF InlineBound
    <3>9. InlineBound(i) \in Nat
      BY <3>2, <3>3, BoundedByWorstCase
    <3>10. row'[d].idle <= InlineBound(j)
      BY <1>1, <3>3, <3>8, <3>9
    <3>11. job'["redrive"][d].pc = "idle"
      BY <1>0, <1>2, <3>1, <3>2 DEF GraceInd, InTime
    <3>. QED
      BY <3>1, <3>7, <3>10, <3>11
  <2>3. OnSchedule(job["dispatch"][d])' <=> OnSchedule(job'["dispatch"][d])
    BY DEF OnSchedule, PhaseLimit
  <2>4. InlineBound(job["dispatch"][d])' = InlineBound(job'["dispatch"][d])
    BY DEF InlineBound
  <2>. QED
    BY <2>1, <2>2, <2>3, <2>4 DEF InTime
<1>. QED
  BY <1>3 DEF GraceInd

(* Restart: no dispatch() survives. *)
LEMMA RestartInTime == ASSUME GraceInd, DeliveryInd', Restart PROVE GraceInd'
<1>1. row' = row /\ \A k \in Senders, d \in Deliveries : job'[k][d].pc = "idle"
  BY DEF Restart, NoJob
<1>2. \A d \in Deliveries : Calm(d)
  BY <1>1, StillCalm DEF GraceInd, DeliveryInd
<1>3. \A d \in Deliveries : InTime(d)'
  BY <1>1, <1>2, InTimeEnds DEF Senders
<1>. QED
  BY <1>3 DEF GraceInd

(* With a grace that is enough, the invariant is inductive. *)
LEMMA GraceStep == ASSUME GraceIsEnough PROVE GraceInd /\ [Next]_vars => GraceInd'
<1>. SUFFICES ASSUME GraceInd, [Next]_vars PROVE GraceInd'
  OBVIOUS
<1>0. DeliveryInd'
  BY DeliveryStep DEF GraceInd
<1>1. ASSUME NEW k \in Senders, NEW d \in Deliveries, Request(k, d) PROVE GraceInd'
  BY <1>0, <1>1, ResolveInTime, PostInTime, EndInTime DEF Request
<1>2. CASE UNCHANGED vars
  <2>1. row' = row /\ job' = job
    BY <1>2 DEF vars
  <2>. QED
    BY <1>0, <2>1, RowsInTime
<1>3. CASE Redrive
  BY <1>0, <1>1, <1>3, ListInTime, StartInTime DEF Redrive, Senders
<1>4. ASSUME NEW d \in Deliveries, Inline(d) PROVE GraceInd'
  BY <1>0, <1>1, <1>4, SleepInTime DEF Inline, Senders
<1>5. CASE Next
  BY <1>0, <1>1, <1>3, <1>4, <1>5, DispatchInTime, StartInTime, EndInTime, RewriteInTime,
     TickInTime, RestartInTime DEF Next, Senders
<1>. QED
  BY <1>2, <1>5

(* Nobody is at work at first. *)
LEMMA GraceInit == Init => GraceInd
<1>. SUFFICES ASSUME Init PROVE GraceInd
  OBVIOUS
<1>1. \A d \in Deliveries : InTime(d)
  BY DEF Init, InTime, NoRow, NoJob, Senders
<1>. QED
  BY <1>1, DeliveryInit DEF GraceInd

-----------------------------------------------------------------------------
(* Theorems. *)

(* The invariant holds throughout. *)
THEOREM DeliveryInductive == Spec => []DeliveryInd
  BY DeliveryInit, DeliveryStep, PTL DEF Spec

(* No order of dispatch(), redrive_one and a manual redelivery leaves a    *)
(* pending row with its attempts spent, which nobody would pick up again.  *)
THEOREM NoRowIsStranded == Spec => []DeliveryInv
  BY DeliveryInductive, DeliveryIndImplies, PTL

(* A row says "delivered" only if the receiver has the event, or accepted  *)
(* the empty body of a row that had been compacted.                        *)
THEOREM DeliveredIsTrue == Spec => []DeliveredWasHeard
  BY DeliveryInductive, DeliveryIndImplies, PTL

(* Retention deletes no row of an event that is lost and unacknowledged.   *)
THEOREM RetentionKeepsEvidence == Spec => []LostIsKept
  BY DeliveryInductive, DeliveryIndImplies, PTL

(* While dispatch() talks to the receiver, the redrive worker does not     *)
(* send the same event: the worker's window, counted from the row's last   *)
(* write, outlasts every attempt, every delay and the one resolution.      *)
(* validate_timing demands the grace without the resolution, so the bound  *)
(* is a hypothesis; the defaults (60 s against 48 s) have it.              *)
THEOREM RedriveWaitsForDispatch == ASSUME GraceIsEnough PROVE Spec => []GraceKeepsApart
<1>1. Spec => []GraceInd
  BY GraceInit, GraceStep, PTL DEF Spec
<1>2. GraceInd => GraceKeepsApart
  BY DEF GraceInd, InTime, GraceKeepsApart
<1>. QED
  BY <1>1, <1>2, PTL
=============================================================================
