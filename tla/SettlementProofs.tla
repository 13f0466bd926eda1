-------------------------- MODULE SettlementProofs --------------------------
(***************************************************************************)
(* Theorems about Settlement, for every set of intents, every history of   *)
(* payments and every bound.                                               *)
(***************************************************************************)
EXTENDS Settlement, FiniteSetTheorems, TLAPS

-----------------------------------------------------------------------------
(* The sum over the ledger. *)

(* Inserting a row adds that row's stroops and no others. *)
LEMMA StroopsInsert ==
    ASSUME NEW rows, NEW row
    PROVE  Stroops(rows \cup {row}) = Stroops(rows) \cup ({row} \X (1 .. row.amount))
  BY DEF Stroops

(* A ledger of finitely many stroops keeps finitely many after an insert. *)
LEMMA InsertFinite ==
    ASSUME NEW rows, NEW row \in LedgerRow, IsFiniteSet(Stroops(rows))
    PROVE  IsFiniteSet(Stroops(InsertRow(rows, row)))
<1>1. IsFiniteSet({row} \X (1 .. row.amount))
  <2>1. IsFiniteSet({row})
    BY FS_Singleton
  <2>2. row.amount \in Int
    BY DEF LedgerRow
  <2>3. IsFiniteSet(1 .. row.amount)
    BY <2>2, FS_Interval
  <2>. QED
    BY <2>1, <2>3, FS_Product
<1>2. IsFiniteSet(Stroops(rows \cup {row}))
  <2>1. IsFiniteSet(Stroops(rows) \cup ({row} \X (1 .. row.amount)))
    BY <1>1, FS_Union
  <2>. QED
    BY <2>1, StroopsInsert, Zenon
<1>. QED
  BY <1>2 DEF InsertRow

(* A sum over a ledger is a number. *)
LEMMA TotalType ==
    ASSUME NEW rows, IsFiniteSet(Stroops(rows))
    PROVE  Total(rows) \in Nat
  BY FS_CardinalityType DEF Total

(* A ledger that only grows never sums to less. *)
LEMMA TotalMonotone ==
    ASSUME NEW rows, NEW more, rows \subseteq more, IsFiniteSet(Stroops(more))
    PROVE  Total(rows) <= Total(more)
<1>1. Stroops(rows) \in SUBSET Stroops(more)
  BY DEF Stroops
<1>. QED
  BY <1>1, FS_Subset DEF Total

(* An insert keeps every row and takes a hash at most once. *)
LEMMA InsertRowFacts ==
    ASSUME NEW rows, NEW row
    PROVE  /\ rows \subseteq InsertRow(rows, row)
           /\ HasHash(InsertRow(rows, row), row.hash)
           /\ InsertRow(rows, row) \subseteq rows \cup {row}
  BY DEF InsertRow, HasHash

-----------------------------------------------------------------------------
(* Types. *)

(* The row a reconciler is about to insert is a row of the table. *)
LEMMA RowOfPaying ==
    ASSUME NEW r \in Records, NEW p \in Intents, Pays(r, p)
    PROVE  RowOf(r) \in LedgerRow
  BY HistoryAssumption DEF Pays, Verify, RowOf, LedgerRow, HorizonPayment

(* Every hash in the ledger already: the backfill of migrate adds nothing.  *)
LEMMA BackfillNothing ==
    ASSUME NEW p \in Intents, txHash[p] # NoHash => HasHash(ledger[p], txHash[p])
    PROVE  Backfilled(p) = ledger[p]
  BY DEF Backfilled, InsertRow, BackfillRow, HasHash

(* The local states a task starts from. *)
LEMMA RestingTypes ==
    Idle \in WorkerState /\ PollAsleep \in PollState /\ StreamDown \in StreamState
  BY HistoryAssumption
     DEF Idle, WorkerState, WorkerPc, PollAsleep, PollState, PollPc, StreamDown,
         StreamState

(* A reconciler that picks up a record. *)
LEMMA PickedUpType ==
    ASSUME NEW r \in 0 .. NumRecords
    PROVE  PickedUp(r) \in WorkerState
  BY DEF PickedUp, WorkerState, WorkerPc

(* A poller with a cursor to fetch from; a stream that lost its connection. *)
LEMMA FetchingType ==
    ASSUME NEW c \in 0 .. NumRecords
    PROVE  Fetching(c) \in PollState
  BY HistoryAssumption DEF Fetching, PollState, PollPc

(* A poller that asks where to begin, or is about to save the answer. *)
LEMMA AskingType ==
    /\ [PollAsleep EXCEPT !.pc = "ask"] \in PollState
    /\ \A c \in 0 .. NumRecords : [Fetching(c) EXCEPT !.pc = "save"] \in PollState
  BY HistoryAssumption DEF PollAsleep, Fetching, PollState, PollPc

(* A stream whose connection is gone is a stream again. *)
LEMMA DroppedType ==
    ASSUME NEW s \in StreamState
    PROVE  [s EXCEPT !.conn = "down", !.sent = 0] \in StreamState
<1>1. 0 \in 0 .. NumRecords
  BY HistoryAssumption
<1>. QED
  BY <1>1 DEF StreamState

(* A reconciler that moves on, with an intent or a total if it has one. *)
LEMMA MovedOnType ==
    ASSUME NEW me \in WorkerState, NEW pc \in WorkerPc,
           NEW p \in Intents, NEW n \in Nat
    PROVE  /\ [me EXCEPT !.pc = pc] \in WorkerState
           /\ [me EXCEPT !.pc = pc, !.intent = p] \in WorkerState
           /\ [me EXCEPT !.pc = pc, !.total = n] \in WorkerState
  BY DEF WorkerState

(* The places of reconcile_payment. *)
LEMMA WorkerPcs ==
    {"idle", "lookup", "record", "sum", "settle", "dispatch"} \subseteq WorkerPc
  BY DEF WorkerPc, Holding

(* A failure is taken from what is left of the budget. *)
LEMMA SpentType ==
    ASSUME NEW b \in Budget
    PROVE  /\ b.crashes > 0 => [b EXCEPT !.crashes = @ - 1] \in Budget
           /\ b.dbErrors > 0 => [b EXCEPT !.dbErrors = @ - 1] \in Budget
           /\ b.outages > 0 => [b EXCEPT !.outages = @ - 1] \in Budget
  BY DEF Budget

(* A fresh database and tasks that have not started have their types. *)
LEMMA InitTypeOK == Init => TypeOK
  BY HistoryAssumption, SettlementAssumption
     DEF Init, TypeOK, Idle, PollAsleep, StreamDown, Open, Terminal, WorkerPc,
         Holding, PollPc, Cursors, Records, WorkerState, PollState, StreamState, Budget

(* Every statement of the three tasks, the crash and the restart keeps the  *)
(* types; a step per action.                                               *)
LEMMA TypeStep == SettlementInv /\ [Next]_vars => TypeOK'
<1>. SUFFICES ASSUME SettlementInv, [Next]_vars PROVE TypeOK'
  OBVIOUS
<1>. USE DEF chainVars, rowVars, dbVars
<1>0. TypeOK
  BY DEF SettlementInv
<1>N. NumRecords \in Nat /\ PageLimit \in Nat
  BY HistoryAssumption, SettlementAssumption
<1>1. CASE Land
  BY <1>N, <1>0, <1>1 DEF TypeOK, Land
<1>2. CASE Tick
  BY <1>0, <1>2 DEF TypeOK, Tick
<1>3. ASSUME NEW w \in Workers, FindPending(w) PROVE TypeOK'
  <2>1. worker' \in [Workers -> WorkerState]
    <3>1. ASSUME NEW p \in Intents,
                 worker' = [worker EXCEPT ![w] = [@ EXCEPT !.pc = "record", !.intent = p]]
          PROVE  worker' \in [Workers -> WorkerState]
      <4>1. worker[w] \in WorkerState
        BY <1>0 DEF TypeOK
      <4>2. [worker[w] EXCEPT !.pc = "record", !.intent = p] \in WorkerState
        BY <4>1, MovedOnType, WorkerPcs
      <4>. QED
        BY <1>0, <3>1, <4>2 DEF TypeOK
    <3>2. ASSUME worker' = [worker EXCEPT ![w] = Idle]
          PROVE  worker' \in [Workers -> WorkerState]
      BY <1>0, <3>2, RestingTypes DEF TypeOK
    <3>. QED
      BY <1>3, <3>1, <3>2 DEF FindPending
  <2>. QED
    BY <1>0, <1>3, <2>1 DEF TypeOK, FindPending
<1>4. ASSUME NEW w \in Workers, RecordProcessedTx(w) PROVE TypeOK'
  <2>1. worker' \in [Workers -> WorkerState]
    <3>1. [worker[w] EXCEPT !.pc = "sum"] \in WorkerState
      BY <1>0, WorkerPcs DEF TypeOK, WorkerState
    <3>. QED
      BY <1>0, <1>4, <3>1, RestingTypes DEF TypeOK, RecordProcessedTx
  <2>2. /\ worker[w].intent \in Intents
        /\ worker[w].rec \in Records
        /\ Pays(worker[w].rec, worker[w].intent)
    BY <1>N, <1>0, <1>4 DEF TypeOK, RecordProcessedTx, SettlementInv, WorkerSound,
       StillTrue, Holding, Records
  <2>3. RowOf(worker[w].rec) \in LedgerRow
    BY <2>2, RowOfPaying
  <2>4. ledger' \in [Intents -> SUBSET LedgerRow]
    BY <1>0, <1>4, <2>2, <2>3 DEF TypeOK, RecordProcessedTx, InsertRow
  <2>. QED
    BY <1>0, <1>4, <2>1, <2>4 DEF TypeOK, RecordProcessedTx
<1>5. ASSUME NEW w \in Workers, SumProcessed(w) PROVE TypeOK'
  <2>1. worker[w].intent \in Intents
    BY <1>5 DEF SumProcessed, SettlementInv, WorkerSound, StillTrue, Holding
  <2>2. Total(ledger[worker[w].intent]) \in Nat
    BY <2>1, TotalType DEF SettlementInv, LedgerSound
  <2>3. [worker[w] EXCEPT !.pc = "settle", !.total = Total(ledger[worker[w].intent])]
          \in WorkerState
    BY <1>0, <2>2, WorkerPcs DEF TypeOK, WorkerState
  <2>. QED
    BY <1>0, <1>5, <2>3 DEF TypeOK, SumProcessed
<1>6. ASSUME NEW w \in Workers, UpdateStatus(w) PROVE TypeOK'
  <2>1. worker[w].intent \in Intents /\ worker[w].rec \in 1 .. landed
    BY <1>6 DEF UpdateStatus, SettlementInv, WorkerSound, StillTrue, Holding
  <2>2. worker[w].total \in Nat
    BY <1>0 DEF TypeOK, WorkerState
  <2>3. worker[w].rec \in Records
    BY <1>N, <1>0, <2>1 DEF TypeOK, Records
  <2>4. Chain[worker[w].rec].hash \in Hashes
    BY <2>3, HistoryAssumption DEF HorizonPayment
  <2>5. worker' \in [Workers -> WorkerState]
    <3>1. [worker[w] EXCEPT !.pc = "dispatch"] \in WorkerState
      BY <1>0, WorkerPcs DEF TypeOK, WorkerState
    <3>. QED
      BY <1>0, <1>6, <3>1, RestingTypes DEF TypeOK, UpdateStatus
  <2>6. /\ status' \in [Intents -> Open \cup Terminal]
        /\ txHash' \in [Intents -> Hashes \cup {NoHash}]
        /\ paid' \in [Intents -> Nat]
    BY <1>0, <1>6, <2>1, <2>2, <2>4 DEF TypeOK, UpdateStatus, Outcome, Open, Terminal
  <2>. QED
    BY <1>0, <1>6, <2>5, <2>6 DEF TypeOK, UpdateStatus
<1>7. ASSUME NEW w \in Workers, DispatchSettled(w) PROVE TypeOK'
  <2>1. worker[w].intent \in Intents
    BY <1>7 DEF DispatchSettled, SettlementInv, WorkerSound, StillTrue, Holding
  <2>2. worker[w].total \in Nat /\ Intent[worker[w].intent].amount \in Nat
    BY <1>0, <2>1, IntentAssumption DEF TypeOK, WorkerState, IntentRow
  <2>3. EventFor(worker[w].total, Intent[worker[w].intent].amount) \in Events
    BY <2>2 DEF EventFor, Events
  <2>4. Notice(EventFor(worker[w].total, Intent[worker[w].intent].amount),
               worker[w].total) \in NoticeRow
    BY <2>2, <2>3 DEF Notice, NoticeRow
  <2>5. worker' \in [Workers -> WorkerState]
    BY <1>0, <1>7, RestingTypes DEF TypeOK, DispatchSettled
  <2>6. deliveries' \in [Intents -> Seq(NoticeRow)]
    BY <1>0, <1>7, <2>1, <2>4 DEF TypeOK, DispatchSettled
  <2>. QED
    BY <1>0, <1>7, <2>5, <2>6 DEF TypeOK, DispatchSettled
<1>8. ASSUME NEW w \in Workers, ReconcileError(w) PROVE TypeOK'
  BY <1>0, <1>8, RestingTypes, SpentType DEF TypeOK, ReconcileError
<1>9. CASE PollStart
  BY <1>0, <1>9, FetchingType, RestingTypes, AskingType DEF TypeOK, PollStart, dbVars, Cursors
<1>9a. CASE PollBaseline
  <2>1. landed \in 0 .. NumRecords /\ 0 \in 0 .. NumRecords /\ baseline.first \in Cursors
    BY <1>N, <1>0 DEF TypeOK
  <2>2. poll' \in PollState
    BY <1>9a, <2>1, FetchingType, AskingType DEF PollBaseline
  <2>3. baseline' \in [first : Cursors, kept : Cursors]
    BY <1>9a, <2>1 DEF PollBaseline, Cursors
  <2>. QED
    BY <1>0, <1>9a, <2>2, <2>3 DEF TypeOK, PollBaseline, dbVars
<1>9b. CASE PollKeep
  <2>1. poll.cursor \in Cursors /\ poll' \in PollState
    BY <1>0, <1>9b DEF TypeOK, PollKeep, PollState, PollPc, Cursors
  <2>. QED
    BY <1>0, <1>9b, <2>1 DEF TypeOK, PollKeep
<1>10. CASE PollFetch
  <2>1. /\ Least(landed, poll.cursor + PageLimit) \in 0 .. NumRecords
        /\ Least(landed, poll.cursor + PageLimit) - poll.cursor \in Int
    BY <1>N, <1>0 DEF TypeOK, PollState, Least
  <2>2. poll' \in PollState
    BY <1>0, <1>10, <2>1 DEF TypeOK, PollFetch, PollState, PollPc
  <2>. QED
    BY <1>0, <1>10, <2>2 DEF TypeOK, PollFetch
<1>11. CASE PollRecord
  <2>1. poll.cursor + 1 \in 0 .. NumRecords
    BY <1>N, <1>0, <1>11 DEF TypeOK, PollState, PollRecord
  <2>2. poll' \in PollState
    BY <1>0, <1>11, <2>1 DEF TypeOK, PollRecord, PollState
  <2>3. worker' \in [Workers -> WorkerState]
    BY <1>0, <1>11, <2>1, PickedUpType DEF TypeOK, PollRecord
  <2>. QED
    BY <1>0, <1>11, <2>2, <2>3 DEF TypeOK, PollRecord
<1>12. CASE PollCheckpoint
  <2>1. poll' \in PollState
    BY <1>0, <1>12, RestingTypes DEF TypeOK, PollCheckpoint, PollState, PollPc
  <2>2. poll.cursor \in 0 .. NumRecords
    BY <1>0 DEF TypeOK, PollState
  <2>. QED
    BY <1>0, <1>12, <2>1, <2>2 DEF TypeOK, PollCheckpoint, Cursors
<1>13. CASE PollOutage
  BY <1>0, <1>13, RestingTypes, SpentType DEF TypeOK, PollOutage
<1>14. CASE CursorError
  BY <1>0, <1>14, RestingTypes, SpentType DEF TypeOK, CursorError
<1>15. CASE StreamConnect
  <2>1. stream' \in StreamState
    BY <1>0, <1>15 DEF TypeOK, StreamConnect, StreamState
  <2>. QED
    BY <1>0, <1>15, <2>1 DEF TypeOK, StreamConnect
<1>16. CASE StreamRecord
  <2>1. stream.sent + 1 \in 0 .. NumRecords
    BY <1>N, <1>0, <1>16 DEF TypeOK, StreamState, StreamRecord
  <2>2. stream' \in StreamState
    BY <1>0, <1>16, <2>1 DEF TypeOK, StreamRecord, StreamState
  <2>3. worker' \in [Workers -> WorkerState]
    BY <1>0, <1>16, <2>1, PickedUpType DEF TypeOK, StreamRecord
  <2>. QED
    BY <1>0, <1>16, <2>2, <2>3 DEF TypeOK, StreamRecord
<1>17. CASE StreamDrop
  BY <1>0, <1>17, DroppedType, SpentType DEF TypeOK, StreamDrop
<1>18. CASE ExpireOverdue
  BY <1>0, <1>18 DEF TypeOK, ExpireOverdue, OverdueIntents, Terminal
<1>19. CASE DispatchExpired
  <2>1. PICK p \in sweeping :
           deliveries' = [deliveries EXCEPT
              ![p] = Append(@, Notice("payment.expired", paid[p]))]
    BY <1>19 DEF DispatchExpired
  <2>2. Notice("payment.expired", paid[p]) \in NoticeRow
    BY <1>0, <2>1 DEF TypeOK, Notice, Events, NoticeRow
  <2>3. deliveries' \in [Intents -> Seq(NoticeRow)]
    BY <1>0, <2>1, <2>2 DEF TypeOK
  <2>. QED
    BY <1>0, <1>19, <2>3 DEF TypeOK, DispatchExpired
<1>20. CASE ExpiredNoticeError
  BY <1>0, <1>20, SpentType DEF TypeOK, ExpiredNoticeError
<1>21. CASE Restart
  <2>1. \A p \in Intents : Backfilled(p) = ledger[p]
    BY BackfillNothing DEF SettlementInv, LedgerSound
  <2>2. ledger' \in [Intents -> SUBSET LedgerRow]
    BY <1>0, <1>21, <2>1 DEF TypeOK, Restart
  <2>. QED
    BY <1>0, <1>21, <2>2, RestingTypes, SpentType DEF TypeOK, Restart
<1>22. CASE UNCHANGED vars
  BY <1>0, <1>22 DEF TypeOK, vars
<1>. QED
  BY <1>1, <1>2, <1>3, <1>4, <1>5, <1>6, <1>7, <1>8, <1>9, <1>9a, <1>9b, <1>10, <1>11,
     <1>12, <1>13, <1>14, <1>15, <1>16, <1>17, <1>18, <1>19, <1>20, <1>21, <1>22
     DEF Next, Reconcile

-----------------------------------------------------------------------------
(* History and ledger only grow. *)

(* Only an insert and the backfill of a restart touch the ledger. *)
LEMMA LedgerFrame ==
    ASSUME [Next]_vars
    PROVE  \/ UNCHANGED ledger
           \/ Restart
           \/ \E w \in Workers : RecordProcessedTx(w)
  BY DEF Next, vars, chainVars, rowVars, dbVars, Reconcile, Land, Tick, FindPending,
     SumProcessed, UpdateStatus, DispatchSettled, ReconcileError, PollStart,
     PollBaseline, PollKeep, PollFetch, PollRecord, PollCheckpoint, PollOutage, CursorError,
     StreamConnect, StreamRecord, StreamDrop, ExpireOverdue, DispatchExpired,
     ExpiredNoticeError

(* Only the network appends to the history of payments. *)
LEMMA LandedFrame == ASSUME [Next]_vars PROVE landed' = landed \/ Land
  BY DEF Next, vars, chainVars, rowVars, dbVars, Reconcile, Tick, FindPending,
     RecordProcessedTx, SumProcessed, UpdateStatus, DispatchSettled, ReconcileError,
     PollStart, PollBaseline, PollKeep, PollFetch, PollRecord, PollCheckpoint, PollOutage, CursorError,
     StreamConnect, StreamRecord, StreamDrop, ExpireOverdue, DispatchExpired,
     ExpiredNoticeError, Restart

(* No step forgets a payment, a ledger row or a stroop. *)
LEMMA Growth ==
    ASSUME SettlementInv, [Next]_vars
    PROVE  /\ landed <= landed'
           /\ \A p \in Intents :
                 /\ ledger[p] \subseteq ledger'[p]
                 /\ IsFiniteSet(Stroops(ledger'[p]))
                 /\ Total(ledger[p]) \in Nat
                 /\ Total(ledger'[p]) \in Nat
                 /\ Total(ledger[p]) <= Total(ledger'[p])
<1>1. landed <= landed'
  BY LandedFrame DEF SettlementInv, TypeOK, Land
<1>2. ASSUME NEW p \in Intents
      PROVE  ledger[p] \subseteq ledger'[p] /\ IsFiniteSet(Stroops(ledger'[p]))
  <2>0. IsFiniteSet(Stroops(ledger[p]))
    BY DEF SettlementInv, LedgerSound
  <2>1. CASE UNCHANGED ledger
    BY <2>0, <2>1
  <2>2. CASE Restart
    <3>1. Backfilled(p) = ledger[p]
      BY BackfillNothing DEF SettlementInv, LedgerSound
    <3>2. ledger'[p] = ledger[p]
      BY <2>2, <3>1 DEF Restart
    <3>. QED
      BY <2>0, <3>2
  <2>3. ASSUME NEW w \in Workers, RecordProcessedTx(w)
        PROVE  ledger[p] \subseteq ledger'[p] /\ IsFiniteSet(Stroops(ledger'[p]))
    <3>1. /\ worker[w].intent \in Intents
          /\ worker[w].rec \in Records
          /\ Pays(worker[w].rec, worker[w].intent)
      BY <2>3, HistoryAssumption
         DEF RecordProcessedTx, SettlementInv, TypeOK, WorkerSound, StillTrue,
             Holding, Records
    <3>2. RowOf(worker[w].rec) \in LedgerRow
      BY <3>1, RowOfPaying
    <3>3. \/ ledger'[p] = ledger[p]
          \/ ledger'[p] = InsertRow(ledger[p], RowOf(worker[w].rec))
      BY <2>3 DEF RecordProcessedTx, SettlementInv, TypeOK
    <3>4. IsFiniteSet(Stroops(InsertRow(ledger[p], RowOf(worker[w].rec))))
      BY <2>0, <3>2, InsertFinite
    <3>. QED
      BY <2>0, <3>3, <3>4, InsertRowFacts
  <2>. QED
    BY <2>1, <2>2, <2>3, LedgerFrame
<1>. QED
  <2>. SUFFICES ASSUME NEW p \in Intents
                PROVE  /\ Total(ledger[p]) \in Nat
                       /\ Total(ledger'[p]) \in Nat
                       /\ Total(ledger[p]) <= Total(ledger'[p])
    BY <1>1, <1>2
  <2>1. IsFiniteSet(Stroops(ledger[p]))
    BY DEF SettlementInv, LedgerSound
  <2>. QED
    BY <1>2, <2>1, TotalType, TotalMonotone

-----------------------------------------------------------------------------
(* What a reconciler holds. *)

(* A reconciler that does not move still holds the truth after the step. *)
LEMMA StillTrueStable ==
    ASSUME SettlementInv, [Next]_vars, NEW me \in WorkerState, StillTrue(me)
    PROVE  StillTrue(me)'
<1>1. landed \in Nat /\ landed' \in Nat
  BY TypeStep DEF SettlementInv, TypeOK
<1>2. me.pc # "idle" => me.rec \in 1 .. landed'
  BY <1>1, Growth DEF StillTrue
<1>3. ASSUME me.pc \in {"sum", "settle", "dispatch"}
      PROVE  HasHash(ledger'[me.intent], Chain[me.rec].hash)
  <2>1. me.intent \in Intents /\ HasHash(ledger[me.intent], Chain[me.rec].hash)
    BY <1>3 DEF StillTrue, Holding
  <2>. QED
    BY <2>1, Growth DEF HasHash
<1>4. ASSUME me.pc \in {"settle", "dispatch"}
      PROVE  me.total <= Total(ledger'[me.intent])
  <2>1. me.intent \in Intents /\ me.total <= Total(ledger[me.intent])
    BY <1>4 DEF StillTrue, Holding
  <2>2. me.total \in Nat
    BY DEF WorkerState
  <2>. QED
    BY <2>1, <2>2, Growth
<1>. QED
  BY <1>2, <1>3, <1>4 DEF StillTrue

(* A reconciler at rest holds nothing. *)
LEMMA IdleStillTrue == StillTrue(Idle) /\ StillTrue(Idle)'
  BY DEF StillTrue, Idle, Holding

(* What reconcile_payment holds between its awaits (the intent it found, the *)
(* insert it made, the total it read) stays true under everybody's steps.   *)
LEMMA WorkerStep == SettlementInv /\ [Next]_vars => WorkerSound'
<1>. SUFFICES ASSUME SettlementInv, [Next]_vars, NEW v \in Workers
              PROVE  StillTrue(worker[v])'
  BY DEF WorkerSound
<1>0. /\ TypeOK /\ TypeOK'
      /\ worker[v] \in WorkerState
      /\ StillTrue(worker[v])
  BY TypeStep DEF SettlementInv, WorkerSound, TypeOK
<1>a. ASSUME worker'[v] = worker[v] PROVE StillTrue(worker[v])'
  <2>1. ASSUME NEW me \in WorkerState, me = worker[v], StillTrue(me)
        PROVE  StillTrue(worker[v])'
    BY <1>a, <2>1, StillTrueStable DEF StillTrue
  <2>. QED
    BY <1>0, <2>1
<1>b. ASSUME worker'[v] = Idle PROVE StillTrue(worker[v])'
  BY <1>b, IdleStillTrue DEF StillTrue
<1>c. ASSUME NEW r \in 1 .. landed', worker'[v] = PickedUp(r)
      PROVE  StillTrue(worker[v])'
  BY <1>c DEF StillTrue, PickedUp, Holding
<1>1. ASSUME NEW w \in Workers, FindPending(w) PROVE StillTrue(worker[v])'
  <2>1. CASE v # w
    BY <1>0, <1>1, <1>a, <2>1 DEF FindPending, TypeOK
  <2>2. ASSUME v = w, worker' = [worker EXCEPT ![w] = Idle]
        PROVE  StillTrue(worker[v])'
    BY <1>0, <1>b, <2>2 DEF TypeOK
  <2>3. ASSUME v = w, NEW p \in Intents, Verify(Intent[p], Chain[worker[w].rec]),
               worker' = [worker EXCEPT ![w] = [@ EXCEPT !.pc = "record", !.intent = p]]
        PROVE  StillTrue(worker[v])'
    <3>1. /\ worker'[v].pc = "record"
          /\ worker'[v].intent = p
          /\ worker'[v].rec = worker[v].rec
      BY <1>0, <2>3 DEF TypeOK, WorkerState
    <3>2. worker[v].rec \in 1 .. landed'
      <4>1. worker[v].rec \in 1 .. landed
        BY <1>0, <1>1, <2>3 DEF FindPending, StillTrue
      <4>. QED
        BY <1>1, <4>1 DEF FindPending, chainVars
    <3>. QED
      BY <2>3, <3>1, <3>2 DEF StillTrue, Holding, Pays
  <2>. QED
    BY <1>1, <2>1, <2>2, <2>3 DEF FindPending
<1>2. ASSUME NEW w \in Workers, RecordProcessedTx(w) PROVE StillTrue(worker[v])'
  <2>1. CASE v # w
    BY <1>0, <1>2, <1>a, <2>1 DEF RecordProcessedTx, TypeOK
  <2>2. CASE v = w /\ HasHash(ledger[worker[w].intent], RowOf(worker[w].rec).hash)
    BY <1>0, <1>2, <1>b, <2>2 DEF RecordProcessedTx, TypeOK
  <2>3. CASE v = w /\ ~HasHash(ledger[worker[w].intent], RowOf(worker[w].rec).hash)
    <3>1. /\ worker'[v].pc = "sum"
          /\ worker'[v].intent = worker[v].intent
          /\ worker'[v].rec = worker[v].rec
      BY <1>0, <1>2, <2>3 DEF RecordProcessedTx, TypeOK, WorkerState
    <3>2. /\ worker[v].rec \in 1 .. landed
          /\ worker[v].intent \in Intents
          /\ Pays(worker[v].rec, worker[v].intent)
      BY <1>0, <1>2, <2>3 DEF RecordProcessedTx, StillTrue, Holding
    <3>3. landed' = landed
      BY <1>2 DEF RecordProcessedTx, chainVars
    <3>4. HasHash(ledger'[worker[v].intent], Chain[worker[v].rec].hash)
      <4>1. ledger'[worker[v].intent]
              = InsertRow(ledger[worker[v].intent], RowOf(worker[v].rec))
        BY <1>0, <1>2, <2>3, <3>2 DEF RecordProcessedTx, TypeOK
      <4>2. RowOf(worker[v].rec).hash = Chain[worker[v].rec].hash
        BY DEF RowOf
      <4>. QED
        BY <4>1, <4>2, InsertRowFacts
    <3>. QED
      BY <3>1, <3>2, <3>3, <3>4 DEF StillTrue, Holding
  <2>. QED
    BY <2>1, <2>2, <2>3
<1>3. ASSUME NEW w \in Workers, SumProcessed(w) PROVE StillTrue(worker[v])'
  <2>1. CASE v # w
    BY <1>0, <1>3, <1>a, <2>1 DEF SumProcessed, TypeOK
  <2>2. CASE v = w
    <3>1. /\ worker'[v].pc = "settle"
          /\ worker'[v].intent = worker[v].intent
          /\ worker'[v].rec = worker[v].rec
          /\ worker'[v].total = Total(ledger[worker[v].intent])
      BY <1>0, <1>3, <2>2 DEF SumProcessed, TypeOK, WorkerState
    <3>2. /\ worker[v].rec \in 1 .. landed
          /\ worker[v].intent \in Intents
          /\ Pays(worker[v].rec, worker[v].intent)
          /\ HasHash(ledger[worker[v].intent], Chain[worker[v].rec].hash)
      BY <1>0, <1>3, <2>2 DEF SumProcessed, StillTrue, Holding
    <3>3. landed' = landed /\ ledger' = ledger
      BY <1>3 DEF SumProcessed, chainVars, dbVars
    <3>4. Total(ledger[worker[v].intent]) \in Nat
      BY <3>2, Growth
    <3>. QED
      BY <3>1, <3>2, <3>3, <3>4 DEF StillTrue, Holding
  <2>. QED
    BY <2>1, <2>2
<1>4. ASSUME NEW w \in Workers, UpdateStatus(w) PROVE StillTrue(worker[v])'
  <2>1. CASE v # w
    BY <1>0, <1>4, <1>a, <2>1 DEF UpdateStatus, TypeOK
  <2>2. ASSUME v = w, worker' = [worker EXCEPT ![w] = Idle]
        PROVE  StillTrue(worker[v])'
    BY <1>0, <1>b, <2>2 DEF TypeOK
  <2>3. ASSUME v = w, worker' = [worker EXCEPT ![w].pc = "dispatch"]
        PROVE  StillTrue(worker[v])'
    <3>1. /\ worker'[v].pc = "dispatch"
          /\ worker'[v].intent = worker[v].intent
          /\ worker'[v].rec = worker[v].rec
          /\ worker'[v].total = worker[v].total
      BY <1>0, <2>3 DEF TypeOK, WorkerState
    <3>2. landed' = landed /\ ledger' = ledger
      BY <1>4 DEF UpdateStatus, chainVars
    <3>. QED
      BY <1>0, <1>4, <2>3, <3>1, <3>2 DEF UpdateStatus, StillTrue, Holding
  <2>. QED
    BY <1>4, <2>1, <2>2, <2>3 DEF UpdateStatus
<1>5. ASSUME NEW w \in Workers, DispatchSettled(w) \/ ReconcileError(w)
      PROVE  StillTrue(worker[v])'
  BY <1>0, <1>5, <1>a, <1>b DEF DispatchSettled, ReconcileError, TypeOK
<1>6. CASE PollRecord
  <2>1. poll.cursor + 1 \in 1 .. landed'
    BY <1>0, <1>6 DEF PollRecord, TypeOK, PollState, SettlementInv, LedgerSound, chainVars
  <2>. QED
    BY <1>0, <1>6, <1>a, <1>c, <2>1 DEF PollRecord, TypeOK
<1>7. CASE StreamRecord
  <2>1. stream.sent + 1 \in 1 .. landed'
    BY <1>0, <1>7 DEF StreamRecord, TypeOK, StreamState, chainVars
  <2>. QED
    BY <1>0, <1>7, <1>a, <1>c, <2>1 DEF StreamRecord, TypeOK
<1>8. CASE Restart
  BY <1>8, <1>b DEF Restart
<1>9. CASE UNCHANGED worker
  BY <1>9, <1>a
<1>. QED
  BY <1>1, <1>2, <1>3, <1>4, <1>5, <1>6, <1>7, <1>8, <1>9
     DEF Next, vars, Reconcile, Land, Tick, PollStart, PollBaseline, PollKeep, PollFetch, PollCheckpoint,
         PollOutage, CursorError, StreamConnect, StreamDrop, ExpireOverdue,
         DispatchExpired, ExpiredNoticeError

-----------------------------------------------------------------------------
(* The ledger and the rows it justifies. *)

(* Only a settlement changes tx_hash or paid_amount. *)
LEMMA RowFrame ==
    ASSUME [Next]_vars
    PROVE  \/ UNCHANGED <<txHash, paid>>
           \/ \E w \in Workers : UpdateStatus(w)
  BY DEF Next, vars, chainVars, rowVars, dbVars, Reconcile, Land, Tick, FindPending,
     RecordProcessedTx, SumProcessed, DispatchSettled, ReconcileError, PollStart,
     PollBaseline, PollKeep, PollFetch, PollRecord, PollCheckpoint, PollOutage, CursorError,
     StreamConnect, StreamRecord, StreamDrop, ExpireOverdue, DispatchExpired,
     ExpiredNoticeError, Restart

(* Only a settlement and the sweeper change a status. *)
LEMMA StatusFrame ==
    ASSUME [Next]_vars
    PROVE  \/ UNCHANGED status
           \/ ExpireOverdue
           \/ \E w \in Workers : UpdateStatus(w)
  BY DEF Next, vars, chainVars, rowVars, dbVars, Reconcile, Land, Tick, FindPending,
     RecordProcessedTx, SumProcessed, DispatchSettled, ReconcileError, PollStart,
     PollBaseline, PollKeep, PollFetch, PollRecord, PollCheckpoint, PollOutage, CursorError,
     StreamConnect, StreamRecord, StreamDrop, DispatchExpired,
     ExpiredNoticeError, Restart

(* What a settlement writes into the row it settles, and into no other. *)
LEMMA SettlementWrites ==
    ASSUME SettlementInv, NEW w \in Workers, UpdateStatus(w), NEW p \in Intents
    PROVE  \/ /\ status'[p] = status[p] /\ txHash'[p] = txHash[p]
              /\ paid'[p] = paid[p]
           \/ /\ p = worker[w].intent /\ status[p] \in Open
              /\ status'[p] = Outcome(worker[w].total, Intent[p].amount)
              /\ txHash'[p] = Chain[worker[w].rec].hash
              /\ paid'[p] = worker[w].total
              /\ worker' = [worker EXCEPT ![w].pc = "dispatch"]
  BY DEF SettlementInv, TypeOK, UpdateStatus, rowVars

(* The page the poller walks lies in the history. *)
LEMMA PageStep ==
    ASSUME SettlementInv, [Next]_vars PROVE poll'.last <= landed'
<1>0. /\ landed \in Nat /\ landed' \in Nat /\ landed <= landed'
      /\ poll \in PollState /\ poll.last <= landed
  BY Growth, TypeStep DEF SettlementInv, TypeOK, LedgerSound
<1>1. CASE PollFetch
  <2>1. Least(landed, poll.cursor + PageLimit) <= landed
    BY <1>0, SettlementAssumption DEF PollState, Least
  <2>. QED
    BY <1>0, <1>1, <2>1 DEF PollFetch, chainVars
<1>2. CASE poll'.last = poll.last
  BY <1>0, <1>2 DEF PollState
<1>3. CASE poll' = PollAsleep \/ \E c : poll' = Fetching(c)
  BY <1>0, <1>3 DEF PollAsleep, Fetching
<1>3a. CASE \/ poll' = [PollAsleep EXCEPT !.pc = "ask"]
           \/ \E c : poll' = [Fetching(c) EXCEPT !.pc = "save"]
  <2>1. poll'.last = 0
    BY <1>3a DEF PollAsleep, Fetching
  <2>. QED
    BY <1>0, <2>1
<1>3b. PollKeep => poll'.last = poll.last
  BY <1>0 DEF PollKeep, PollState
<1>4. PollRecord => poll'.last = poll.last
  BY <1>0 DEF PollRecord, PollState
<1>5. PollCheckpoint => poll'.last = poll.last \/ poll' = PollAsleep
  BY <1>0 DEF PollCheckpoint, PollState
<1>. QED
  BY <1>1, <1>2, <1>3, <1>3a, <1>3b, <1>4, <1>5
     DEF Next, vars, Reconcile, Land, Tick, FindPending, RecordProcessedTx,
         SumProcessed, UpdateStatus, DispatchSettled, ReconcileError, PollStart,
         PollBaseline, PollOutage, CursorError, StreamConnect, StreamRecord, StreamDrop,
         ExpireOverdue, DispatchExpired, ExpiredNoticeError, Restart

(* A row the insert of record_processed_tx adds comes from a landed payment *)
(* that verify accepted for the intent it credits.                         *)
LEMMA CreditStep ==
    ASSUME SettlementInv, [Next]_vars PROVE NoDoubleCredit'
<1>. SUFFICES ASSUME NEW p \in Intents, NEW row \in ledger'[p]
              PROVE  /\ \E r \in 1 .. landed' : Pays(r, p) /\ row = RowOf(r)
                     /\ \A other \in ledger'[p] : other.hash = row.hash => other = row
  BY DEF NoDoubleCredit
<1>0. /\ NoDoubleCredit /\ TypeOK
      /\ landed \in Nat /\ landed' \in Nat /\ landed <= landed'
  BY Growth, TypeStep DEF SettlementInv, TypeOK, LedgerSound
<1>1. CASE ledger'[p] = ledger[p]
  BY <1>0, <1>1 DEF NoDoubleCredit
<1>2. ASSUME NEW w \in Workers, RecordProcessedTx(w), ledger'[p] # ledger[p]
      PROVE  /\ \E r \in 1 .. landed' : Pays(r, p) /\ row = RowOf(r)
             /\ \A other \in ledger'[p] : other.hash = row.hash => other = row
  <2>1. /\ worker[w].intent = p
        /\ ledger'[p] = InsertRow(ledger[p], RowOf(worker[w].rec))
    BY <1>0, <1>2 DEF RecordProcessedTx, TypeOK
  <2>2. /\ ~HasHash(ledger[p], RowOf(worker[w].rec).hash)
        /\ ledger'[p] = ledger[p] \cup {RowOf(worker[w].rec)}
    BY <1>2, <2>1 DEF InsertRow
  <2>3. worker[w].rec \in 1 .. landed' /\ Pays(worker[w].rec, p)
    <3>1. worker[w].rec \in 1 .. landed /\ Pays(worker[w].rec, worker[w].intent)
      BY <1>2 DEF SettlementInv, WorkerSound, StillTrue, RecordProcessedTx, Holding
    <3>. QED
      BY <1>0, <2>1, <3>1
  <2>. QED
    BY <1>0, <2>2, <2>3 DEF NoDoubleCredit, HasHash
<1>3. Restart => ledger'[p] = ledger[p]
  BY BackfillNothing DEF Restart, SettlementInv, LedgerSound
<1>. QED
  BY <1>1, <1>2, <1>3, LedgerFrame

(* The ledger and the payments table agree after every step: one row per    *)
(* hash, and a completed intent's rows reach its price.                    *)
LEMMA LedgerStep == SettlementInv /\ [Next]_vars => LedgerSound'
<1>. SUFFICES ASSUME SettlementInv, [Next]_vars PROVE LedgerSound'
  OBVIOUS
<1>0. TypeOK /\ TypeOK' /\ LedgerSound
  BY TypeStep DEF SettlementInv
<1>1. ASSUME NEW p \in Intents, txHash'[p] # NoHash
      PROVE  HasHash(ledger'[p], txHash'[p])
  <2>1. CASE txHash'[p] = txHash[p]
    BY <1>0, <1>1, <2>1, Growth DEF LedgerSound, HasHash
  <2>2. ASSUME NEW w \in Workers, UpdateStatus(w), p = worker[w].intent,
               txHash'[p] = Chain[worker[w].rec].hash
        PROVE  HasHash(ledger'[p], txHash'[p])
    <3>1. HasHash(ledger[p], txHash'[p])
      BY <2>2 DEF SettlementInv, WorkerSound, StillTrue, UpdateStatus
    <3>. QED
      BY <3>1, Growth DEF HasHash
  <2>. QED
    BY <2>1, <2>2, RowFrame, SettlementWrites
<1>2. ASSUME NEW p \in Intents
      PROVE  /\ paid'[p] <= Total(ledger'[p])
             /\ status'[p] = "completed" => Intent[p].amount <= paid'[p]
  <2>0. /\ paid[p] \in Nat /\ paid[p] <= Total(ledger[p])
        /\ status[p] = "completed" => Intent[p].amount <= paid[p]
        /\ Intent[p].amount \in Nat
    BY <1>0, IntentAssumption DEF TypeOK, LedgerSound, CompletedIsFunded, IntentRow
  <2>1. CASE status'[p] = status[p] /\ paid'[p] = paid[p]
    BY <2>0, <2>1, Growth
  <2>2. CASE ExpireOverdue /\ status'[p] # status[p]
    <3>1. status'[p] = "expired"
      BY <1>0, <2>2 DEF ExpireOverdue, TypeOK
    <3>2. paid'[p] = paid[p]
      BY <2>2 DEF ExpireOverdue
    <3>. QED
      BY <2>0, <3>1, <3>2, Growth
  <2>3. ASSUME NEW w \in Workers, UpdateStatus(w), p = worker[w].intent,
               status'[p] = Outcome(worker[w].total, Intent[p].amount),
               paid'[p] = worker[w].total
        PROVE  /\ paid'[p] <= Total(ledger'[p])
               /\ status'[p] = "completed" => Intent[p].amount <= paid'[p]
    <3>1. worker[w].total \in Nat /\ worker[w].total <= Total(ledger[p])
      BY <1>0, <2>3 DEF SettlementInv, WorkerSound, StillTrue, UpdateStatus, TypeOK,
         WorkerState
    <3>. QED
      BY <2>0, <2>3, <3>1, Growth DEF Outcome
  <2>4. ExpireOverdue => paid'[p] = paid[p]
    BY DEF ExpireOverdue
  <2>. QED
    BY <2>1, <2>2, <2>3, <2>4, RowFrame, StatusFrame, SettlementWrites
<1>. QED
  BY <1>1, <1>2, PageStep, CreditStep, Growth DEF LedgerSound, CompletedIsFunded

-----------------------------------------------------------------------------
(* Notices. *)

(* The entries of an extended sequence. *)
LEMMA AppendFacts ==
    ASSUME NEW S, NEW s \in Seq(S), NEW n \in S
    PROVE  /\ DOMAIN Append(s, n) = DOMAIN s \cup {Len(s) + 1}
           /\ \A i \in DOMAIN s : Append(s, n)[i] = s[i]
           /\ Append(s, n)[Len(s) + 1] = n
  OBVIOUS

(* Reporting a part payment tells no outcome. *)
LEMMA TellNothing ==
    ASSUME NEW s \in Seq(NoticeRow), NEW n \in NoticeRow, ~IsTerminalNotice(n),
           NEW st, NEW amount
    PROVE  /\ Silent(s) => Silent(Append(s, n))
           /\ TellsOnce(s, st, amount) => TellsOnce(Append(s, n), st, amount)
  BY AppendFacts DEF Silent, TellsOnce

(* The first outcome told is the only one. *)
LEMMA TellFirst ==
    ASSUME NEW s \in Seq(NoticeRow), NEW n \in NoticeRow, Silent(s)
    PROVE  TellsOnce(Append(s, n), StatusOfEvent(n.event), n.paid)
  BY AppendFacts DEF Silent, TellsOnce

(* As long as nothing is told, the row may become anything; while the      *)
(* intent is open, nothing is told.                                        *)
LEMMA SilentWhileOpen ==
    ASSUME NEW s, NEW st, NEW amount
    PROVE  /\ Silent(s) => TellsOnce(s, st, amount)
           /\ TellsOnce(s, st, amount) /\ st \in Open => Silent(s)
  BY DEF Silent, TellsOnce, StatusOfEvent, Open

(* What has been told and what a task still owes fit the row's status after *)
(* every step of settle, sweep_once and a restart.                         *)
LEMMA NoticeStep == SettlementInv /\ [Next]_vars => NoticeSound'
<1>. SUFFICES ASSUME SettlementInv, [Next]_vars PROVE NoticeSound'
  OBVIOUS
<1>0. TypeOK /\ TypeOK' /\ NoticeSound
  BY TypeStep DEF SettlementInv
<1>f. ASSUME UNCHANGED <<status, paid, deliveries>>, sweeping' \subseteq sweeping,
             \A v \in Workers : Owes(v)' =>
                /\ Owes(v)
                /\ worker'[v].intent = worker[v].intent
                /\ worker'[v].total = worker[v].total
      PROVE  NoticeSound'
  BY <1>0, <1>f DEF NoticeSound, OneTerminalNotice
<1>1. ASSUME NEW w \in Workers, DispatchSettled(w) PROVE NoticeSound'
  <2>. DEFINE p == worker[w].intent
              n == Notice(EventFor(worker[w].total, Intent[p].amount), worker[w].total)
  <2>1. /\ p \in Intents
        /\ worker[w].total \in Nat
        /\ Intent[p].amount \in Nat
        /\ deliveries[p] \in Seq(NoticeRow)
    BY <1>0, <1>1, IntentAssumption
       DEF DispatchSettled, SettlementInv, WorkerSound, StillTrue, Holding, TypeOK,
           WorkerState, IntentRow
  <2>2. n \in NoticeRow
    <3>1. EventFor(worker[w].total, Intent[p].amount) \in Events
      BY <2>1 DEF EventFor, Events
    <3>. QED
      BY <2>1, <3>1 DEF Notice, NoticeRow
  <2>3. /\ deliveries' = [deliveries EXCEPT ![p] = Append(@, n)]
        /\ UNCHANGED <<status, paid, sweeping>>
        /\ worker' = [worker EXCEPT ![w] = Idle]
    BY <1>1 DEF DispatchSettled, rowVars
  <2>4. \A q \in Intents :
           deliveries'[q] = IF q = p THEN Append(deliveries[p], n) ELSE deliveries[q]
    BY <1>0, <2>1, <2>3 DEF TypeOK
  <2>5. ASSUME NEW v \in Workers, Owes(v)'
        PROVE  v # w /\ Owes(v) /\ worker'[v] = worker[v]
    BY <1>0, <2>3, <2>5 DEF Owes, Idle, TypeOK
  <2>6. CASE worker[w].total < Intent[p].amount
    <3>1. ~IsTerminalNotice(n)
      BY <2>1, <2>6 DEF IsTerminalNotice, EventFor, Notice, TerminalEvents, Events
    <3>2. \A q \in Intents :
             /\ Silent(deliveries[q]) => Silent(deliveries'[q])
             /\ TellsOnce(deliveries'[q], status[q], paid[q])
      BY <1>0, <2>1, <2>2, <2>4, <3>1, TellNothing DEF NoticeSound, OneTerminalNotice
    <3>3. OneTerminalNotice'
      BY <2>3, <3>2 DEF OneTerminalNotice
    <3>4. \A q \in sweeping' : status'[q] = "expired" /\ Silent(deliveries'[q])
      BY <1>0, <2>3, <3>2 DEF NoticeSound, TypeOK
    <3>5. \A v \in Workers : Owes(v)' =>
             /\ status'[worker'[v].intent] = "completed"
             /\ paid'[worker'[v].intent] = worker'[v].total
             /\ Silent(deliveries'[worker'[v].intent])
      BY <1>0, <2>3, <2>5, <3>2 DEF NoticeSound, SettlementInv, WorkerSound, StillTrue,
         Owes, Holding
    <3>. QED
      BY <1>0, <2>5, <3>3, <3>4, <3>5 DEF NoticeSound
  <2>7. CASE worker[w].total >= Intent[p].amount
    <3>1. Owes(w)
      BY <1>1, <2>7 DEF Owes, DispatchSettled
    <3>2. status[p] = "completed" /\ paid[p] = worker[w].total /\ Silent(deliveries[p])
      BY <1>0, <3>1 DEF NoticeSound
    <3>3. StatusOfEvent(n.event) = "completed" /\ n.paid = worker[w].total
      BY <2>1, <2>7 DEF StatusOfEvent, EventFor, Notice
    <3>4. TellsOnce(Append(deliveries[p], n), status[p], paid[p])
      BY <2>1, <2>2, <3>2, <3>3, TellFirst
    <3>5. OneTerminalNotice'
      BY <1>0, <2>3, <2>4, <3>4 DEF NoticeSound, OneTerminalNotice
    <3>6. \A q \in sweeping' : status'[q] = "expired" /\ Silent(deliveries'[q])
      BY <1>0, <2>3, <2>4, <3>2 DEF NoticeSound, TypeOK
    <3>7. ASSUME NEW v \in Workers, Owes(v)'
          PROVE  /\ status'[worker'[v].intent] = "completed"
                 /\ paid'[worker'[v].intent] = worker'[v].total
                 /\ Silent(deliveries'[worker'[v].intent])
      <4>1. worker[v].intent # p
        BY <1>0, <2>5, <3>1, <3>7 DEF NoticeSound
      <4>2. worker[v].intent \in Intents
        BY <2>5, <3>7 DEF SettlementInv, WorkerSound, StillTrue, Owes, Holding
      <4>. QED
        BY <1>0, <2>3, <2>4, <2>5, <3>7, <4>1, <4>2 DEF NoticeSound
    <3>. QED
      BY <1>0, <2>5, <3>5, <3>6, <3>7 DEF NoticeSound
  <2>. QED
    BY <2>1, <2>6, <2>7
<1>2. CASE DispatchExpired
  <2>1. PICK p \in sweeping :
           /\ deliveries' = [deliveries EXCEPT
                 ![p] = Append(@, Notice("payment.expired", paid[p]))]
           /\ sweeping' = sweeping \ {p}
           /\ UNCHANGED <<status, paid, worker>>
    BY <1>2 DEF DispatchExpired, rowVars
  <2>. DEFINE n == Notice("payment.expired", paid[p])
  <2>2. /\ p \in Intents /\ paid[p] \in Nat
        /\ deliveries[p] \in Seq(NoticeRow)
        /\ status[p] = "expired" /\ Silent(deliveries[p])
    BY <1>0, <2>1 DEF TypeOK, NoticeSound
  <2>3. n \in NoticeRow /\ StatusOfEvent(n.event) = "expired" /\ n.paid = paid[p]
    BY <2>2 DEF Notice, NoticeRow, Events, StatusOfEvent
  <2>4. TellsOnce(Append(deliveries[p], n), status[p], paid[p])
    BY <2>2, <2>3, TellFirst
  <2>5. \A q \in Intents :
           deliveries'[q] = IF q = p THEN Append(deliveries[p], n) ELSE deliveries[q]
    BY <1>0, <2>1, <2>2 DEF TypeOK
  <2>6. OneTerminalNotice'
    BY <1>0, <2>1, <2>4, <2>5 DEF NoticeSound, OneTerminalNotice
  <2>7. \A q \in sweeping' : status'[q] = "expired" /\ Silent(deliveries'[q])
    BY <1>0, <2>1, <2>5 DEF NoticeSound, TypeOK
  <2>8. ASSUME NEW v \in Workers, Owes(v)'
        PROVE  /\ status'[worker'[v].intent] = "completed"
               /\ paid'[worker'[v].intent] = worker'[v].total
               /\ Silent(deliveries'[worker'[v].intent])
    <3>1. Owes(v)
      BY <2>1, <2>8 DEF Owes
    <3>2. worker[v].intent \in Intents
      BY <3>1 DEF SettlementInv, WorkerSound, StillTrue, Owes, Holding
    <3>3. worker[v].intent # p
      BY <1>0, <2>2, <3>1 DEF NoticeSound
    <3>. QED
      BY <1>0, <2>1, <2>5, <3>1, <3>2, <3>3 DEF NoticeSound
  <2>9. \A v, w \in Workers :
           Owes(v)' /\ Owes(w)' /\ worker'[v].intent = worker'[w].intent => v = w
    BY <1>0, <2>1 DEF NoticeSound, Owes
  <2>. QED
    BY <2>6, <2>7, <2>8, <2>9 DEF NoticeSound
<1>3. ASSUME NEW w \in Workers, UpdateStatus(w) PROVE NoticeSound'
  <2>. DEFINE p == worker[w].intent
  <2>0. UNCHANGED <<deliveries, sweeping>> /\ worker[w].pc = "settle"
    BY <1>3 DEF UpdateStatus
  <2>1. CASE status[p] \notin Open
    <3>1. UNCHANGED <<status, paid>> /\ worker' = [worker EXCEPT ![w] = Idle]
      BY <1>3, <2>1 DEF UpdateStatus, rowVars
    <3>2. ASSUME NEW v \in Workers, Owes(v)'
          PROVE  Owes(v) /\ worker'[v] = worker[v]
      BY <1>0, <3>1, <3>2 DEF Owes, Idle, TypeOK
    <3>. QED
      BY <1>f, <2>0, <3>1, <3>2
  <2>2. CASE status[p] \in Open
    <3>1. /\ status' = [status EXCEPT ![p] = Outcome(worker[w].total, Intent[p].amount)]
          /\ paid' = [paid EXCEPT ![p] = worker[w].total]
          /\ worker' = [worker EXCEPT ![w].pc = "dispatch"]
      BY <1>3, <2>2 DEF UpdateStatus
    <3>2. p \in Intents /\ worker[w].total \in Nat /\ Intent[p].amount \in Nat
      BY <1>0, <1>3, IntentAssumption
         DEF UpdateStatus, SettlementInv, WorkerSound, StillTrue, Holding, TypeOK,
             WorkerState, IntentRow
    <3>3. Silent(deliveries[p])
      BY <1>0, <2>2, <3>2, SilentWhileOpen DEF NoticeSound, OneTerminalNotice
    <3>4. /\ \A q \in Intents : q # p => status'[q] = status[q] /\ paid'[q] = paid[q]
          /\ status'[p] = Outcome(worker[w].total, Intent[p].amount)
          /\ paid'[p] = worker[w].total
      BY <1>0, <3>1, <3>2 DEF TypeOK
    <3>5. /\ worker'[w].intent = p /\ worker'[w].total = worker[w].total
          /\ \A v \in Workers : v # w => worker'[v] = worker[v]
      BY <1>0, <3>1 DEF TypeOK, WorkerState
    <3>6. p \notin sweeping /\ \A v \in Workers : Owes(v) => worker[v].intent # p
      BY <1>0, <2>2 DEF NoticeSound, Open
    <3>7. OneTerminalNotice'
      BY <1>0, <2>0, <3>3, <3>4, SilentWhileOpen DEF NoticeSound, OneTerminalNotice
    <3>8. \A q \in sweeping' : status'[q] = "expired" /\ Silent(deliveries'[q])
      BY <1>0, <2>0, <3>4, <3>6 DEF NoticeSound, TypeOK
    <3>9. ASSUME NEW v \in Workers, Owes(v)', v # w
          PROVE  Owes(v) /\ worker[v].intent # p /\ worker[v].intent \in Intents
      <4>1. Owes(v)
        BY <3>5, <3>9 DEF Owes
      <4>. QED
        BY <3>6, <4>1 DEF SettlementInv, WorkerSound, StillTrue, Owes, Holding
    <3>10. ASSUME NEW v \in Workers, Owes(v)'
           PROVE  /\ status'[worker'[v].intent] = "completed"
                  /\ paid'[worker'[v].intent] = worker'[v].total
                  /\ Silent(deliveries'[worker'[v].intent])
      <4>1. CASE v = w
        <5>1. worker[w].total >= Intent[p].amount
          BY <3>5, <3>10, <4>1 DEF Owes
        <5>2. status'[p] = "completed"
          BY <3>2, <3>4, <5>1 DEF Outcome
        <5>. QED
          BY <2>0, <3>3, <3>4, <3>5, <4>1, <5>2
      <4>2. CASE v # w
        BY <1>0, <2>0, <3>4, <3>5, <3>9, <3>10, <4>2 DEF NoticeSound
      <4>. QED
        BY <4>1, <4>2
    <3>11. \A u, v \in Workers :
              Owes(u)' /\ Owes(v)' /\ worker'[u].intent = worker'[v].intent => u = v
      BY <1>0, <3>5, <3>9 DEF NoticeSound
    <3>. QED
      BY <3>7, <3>8, <3>10, <3>11 DEF NoticeSound
  <2>. QED
    BY <2>1, <2>2
<1>4. CASE ExpireOverdue
  <2>1. PICK S \in SUBSET OverdueIntents :
           /\ status' = [q \in Intents |-> IF q \in S THEN "expired" ELSE status[q]]
           /\ sweeping' = S
           /\ UNCHANGED <<paid, deliveries, worker>>
    BY <1>4 DEF ExpireOverdue
  <2>2. \A q \in S : q \in Intents /\ status[q] \in Open
    BY <2>1 DEF OverdueIntents
  <2>3. \A q \in S : Silent(deliveries[q])
    BY <1>0, <2>2, SilentWhileOpen DEF NoticeSound, OneTerminalNotice
  <2>4. OneTerminalNotice'
    BY <1>0, <2>1, <2>3, SilentWhileOpen DEF NoticeSound, OneTerminalNotice
  <2>5. \A q \in sweeping' : status'[q] = "expired" /\ Silent(deliveries'[q])
    BY <2>1, <2>2, <2>3
  <2>6. ASSUME NEW v \in Workers, Owes(v)'
        PROVE  /\ status'[worker'[v].intent] = "completed"
               /\ paid'[worker'[v].intent] = worker'[v].total
               /\ Silent(deliveries'[worker'[v].intent])
    <3>1. Owes(v) /\ worker' = worker
      BY <2>1, <2>6 DEF Owes
    <3>2. worker[v].intent \in Intents
      BY <3>1 DEF SettlementInv, WorkerSound, StillTrue, Owes, Holding
    <3>3. worker[v].intent \notin S
      BY <1>0, <2>2, <3>1 DEF NoticeSound, Open
    <3>. QED
      BY <1>0, <2>1, <3>1, <3>2, <3>3 DEF NoticeSound
  <2>7. \A v, w \in Workers :
           Owes(v)' /\ Owes(w)' /\ worker'[v].intent = worker'[w].intent => v = w
    BY <1>0, <2>1 DEF NoticeSound, Owes
  <2>. QED
    BY <2>4, <2>5, <2>6, <2>7 DEF NoticeSound
<1>5. ASSUME UNCHANGED <<status, paid, deliveries>>, sweeping' \subseteq sweeping,
             NEW w \in Workers, worker'[w].pc # "dispatch",
             \A v \in Workers : v # w => worker'[v] = worker[v]
      PROVE  NoticeSound'
  <2>1. ASSUME NEW v \in Workers, Owes(v)' PROVE Owes(v) /\ worker'[v] = worker[v]
    BY <1>5, <2>1 DEF Owes
  <2>. QED
    BY <1>5, <1>f, <2>1
<1>6. ASSUME NEW w \in Workers,
             FindPending(w) \/ RecordProcessedTx(w) \/ SumProcessed(w) \/ ReconcileError(w)
      PROVE  NoticeSound'
  <2>1. worker'[w].pc # "dispatch" /\ \A v \in Workers : v # w => worker'[v] = worker[v]
    <3>0. worker \in [Workers -> WorkerState]
      BY <1>0 DEF TypeOK
    <3>1. CASE FindPending(w)
      <4>1. \/ \E p \in Intents : worker' =
                  [worker EXCEPT ![w] = [@ EXCEPT !.pc = "record", !.intent = p]]
            \/ worker' = [worker EXCEPT ![w] = Idle]
        BY <3>1, Zenon DEF FindPending
      <4>2. CASE worker' = [worker EXCEPT ![w] = Idle]
        BY <3>0, <4>2 DEF Idle
      <4>3. ASSUME NEW p \in Intents, worker' =
                      [worker EXCEPT ![w] = [@ EXCEPT !.pc = "record", !.intent = p]]
            PROVE  worker'[w].pc = "record" /\ \A v \in Workers : v # w => worker'[v] = worker[v]
        BY <3>0, <4>3 DEF WorkerState
      <4>. QED
        BY <4>1, <4>2, <4>3
    <3>2. CASE RecordProcessedTx(w)
      BY <3>0, <3>2 DEF RecordProcessedTx, Idle, WorkerState
    <3>3. CASE SumProcessed(w)
      BY <3>0, <3>3 DEF SumProcessed, WorkerState
    <3>4. CASE ReconcileError(w)
      BY <3>0, <3>4 DEF ReconcileError, Idle
    <3>. QED
      BY <1>6, <3>1, <3>2, <3>3, <3>4
  <2>. QED
    BY <1>5, <1>6, <2>1 DEF FindPending, RecordProcessedTx, SumProcessed, ReconcileError,
       dbVars, rowVars
<1>7. CASE PollRecord \/ StreamRecord
  <2>0. \E w \in Workers : \E r : worker' = [worker EXCEPT ![w] = PickedUp(r)]
    BY <1>7, Zenon DEF PollRecord, StreamRecord, Workers
  <2>1. PICK w \in Workers : /\ worker'[w].pc # "dispatch"
                            /\ \A v \in Workers : v # w => worker'[v] = worker[v]
    BY <1>0, <2>0 DEF PickedUp, TypeOK
  <2>2. UNCHANGED <<status, paid, deliveries, sweeping>>
    BY <1>0, <1>7 DEF PollRecord, StreamRecord, dbVars, TypeOK, PollState, StreamState
  <2>. QED
    BY <1>5, <2>1, <2>2
<1>8. CASE Restart
  BY <1>8, <1>f DEF Restart, Owes, Idle, rowVars
<1>9. CASE UNCHANGED <<status, paid, deliveries, worker>> /\ sweeping' \subseteq sweeping
  BY <1>9, <1>f DEF Owes
<1>. QED
  BY <1>1, <1>2, <1>3, <1>4, <1>6, <1>7, <1>8, <1>9
     DEF Next, vars, chainVars, rowVars, dbVars, Reconcile, Land, Tick, PollStart,
         PollBaseline, PollKeep, PollFetch, PollCheckpoint, PollOutage, CursorError, StreamConnect,
         StreamDrop, ExpiredNoticeError

-----------------------------------------------------------------------------
(* The theorems. *)

(* A fresh database with nothing landed and nobody at work. *)
LEMMA InitInv == Init => SettlementInv
<1>. SUFFICES ASSUME Init PROVE SettlementInv
  OBVIOUS
<1>1. TypeOK
  BY InitTypeOK
<1>2. WorkerSound
  BY DEF Init, WorkerSound, StillTrue, Idle, Holding
<1>3. LedgerSound
  <2>1. /\ poll.last = 0 /\ landed = 0
        /\ \A p \in Intents : /\ ledger[p] = {} /\ txHash[p] = NoHash /\ paid[p] = 0
                              /\ status[p] = "pending"
    BY DEF Init, PollAsleep
  <2>2. Stroops({}) = {} /\ IsFiniteSet({}) /\ 0 <= Total({})
    BY FS_EmptySet DEF Stroops, Total
  <2>3. NoDoubleCredit
    BY <2>1 DEF NoDoubleCredit
  <2>4. CompletedIsFunded
    BY <2>1, <2>2 DEF CompletedIsFunded
  <2>5. \A p \in Intents : IsFiniteSet(Stroops(ledger[p]))
    BY <2>1, <2>2
  <2>6. \A p \in Intents : txHash[p] # NoHash => HasHash(ledger[p], txHash[p])
    BY <2>1
  <2>7. poll.last <= landed
    BY <2>1
  <2>. QED
    BY <2>3, <2>4, <2>5, <2>6, <2>7 DEF LedgerSound
<1>4. NoticeSound
  BY DEF Init, NoticeSound, OneTerminalNotice, TellsOnce, Owes, Idle
<1>. QED
  BY <1>1, <1>2, <1>3, <1>4 DEF SettlementInv

(* Whatever the intents, the history, the page size, the batch size and    *)
(* the number of crashes and failures, what reconcile_payment, sweep_once  *)
(* and migrate rely on between their statements holds in every state.      *)
THEOREM Inductive == Spec => []SettlementInv
<1>1. SettlementInv /\ [Next]_vars => SettlementInv'
  BY TypeStep, WorkerStep, LedgerStep, NoticeStep DEF SettlementInv
<1>. QED
  BY InitInv, <1>1, PTL DEF Spec

(* Every variable of the settlement keeps its type. *)
THEOREM Types == Spec => []TypeOK
<1>1. SettlementInv => TypeOK
  BY DEF SettlementInv
<1>. QED
  BY Inductive, <1>1, PTL

(* No transaction is credited twice and no foreign payment is credited,    *)
(* whoever of the poller, the stream and a restart gets there first.       *)
THEOREM CreditedOnce == Spec => []NoDoubleCredit
<1>1. SettlementInv => NoDoubleCredit
  BY DEF SettlementInv, LedgerSound
<1>. QED
  BY Inductive, <1>1, PTL

(* No intent is completed below its price, even on a total that was stale  *)
(* when settle wrote it.                                                   *)
THEOREM NeverUnderfunded == Spec => []CompletedIsFunded
<1>1. SettlementInv => CompletedIsFunded
  BY DEF SettlementInv, LedgerSound
<1>. QED
  BY Inductive, <1>1, PTL

(* No intent is told two outcomes, or another outcome than its row's.      *)
THEOREM ToldOnce == Spec => []OneTerminalNotice
<1>1. SettlementInv => OneTerminalNotice
  BY DEF SettlementInv, NoticeSound
<1>. QED
  BY Inductive, <1>1, PTL

(* Running the migrations again credits nothing. *)
THEOREM RestartCreditsNothing == Spec => []BackfillAddsNothing
<1>1. SettlementInv => BackfillAddsNothing
  BY BackfillNothing DEF SettlementInv, LedgerSound, BackfillAddsNothing
<1>. QED
  BY Inductive, <1>1, PTL

(* A completed or expired row is never written again. *)
THEOREM Final == Spec => TerminalIsFinal
<1>1. ASSUME SettlementInv, [Next]_vars, NEW p \in Intents, status[p] \in Terminal
      PROVE  status'[p] = status[p] /\ txHash'[p] = txHash[p] /\ paid'[p] = paid[p]
  <2>0. status[p] \notin Open
    BY <1>1 DEF Open, Terminal
  <2>1. CASE ExpireOverdue
    BY <1>1, <2>0, <2>1 DEF ExpireOverdue, OverdueIntents
  <2>2. ASSUME NEW w \in Workers, UpdateStatus(w)
        PROVE  status'[p] = status[p] /\ txHash'[p] = txHash[p] /\ paid'[p] = paid[p]
    BY <1>1, <2>0, <2>2, SettlementWrites
  <2>. QED
    BY <1>1, <2>1, <2>2, RowFrame, StatusFrame
<1>2. SettlementInv /\ [Next]_vars =>
         [\A p \in Intents : status[p] \in Terminal =>
            status'[p] = status[p] /\ txHash'[p] = txHash[p] /\ paid'[p] = paid[p]]_vars
  BY <1>1
<1>. QED
  BY Inductive, <1>2, PTL DEF Spec, TerminalIsFinal

(* What is credited to an intent is an operation the network reported as a *)
(* successful payment of that asset, to that address, with that memo.      *)
THEOREM OnlyGenuineCredit == Spec => []CreditIsGenuine
<1>1. ASSUME SettlementInv, NEW p \in Intents, NEW row \in ledger[p]
      PROVE  \E r \in 1 .. landed :
                Chain[r] = [kind |-> "payment", to |-> Intent[p].destination,
                            memoType |-> "text", memo |-> Intent[p].memo,
                            successful |-> "true", asset |-> Intent[p].asset,
                            issuer |-> Intent[p].issuer,
                            amount |-> row.amount, hash |-> row.hash]
  <2>1. PICK r \in 1 .. landed : Pays(r, p) /\ row = RowOf(r)
    BY <1>1 DEF SettlementInv, LedgerSound, NoDoubleCredit
  <2>2. Chain[r] \in HorizonPayment
    BY <1>1, HistoryAssumption DEF SettlementInv, TypeOK, Records
  <2>3. /\ Chain[r].kind = "payment" /\ Chain[r].to = Intent[p].destination
        /\ Chain[r].memoType = "text" /\ Chain[r].memo = Intent[p].memo
        /\ Chain[r].successful = "true" /\ Chain[r].asset = Intent[p].asset
        /\ Chain[r].issuer = Intent[p].issuer
    BY <2>1 DEF Pays, Verify, CarriesMemo, IsSuccessful, AssetMatches
  <2>4. Chain[r].amount = row.amount /\ Chain[r].hash = row.hash
    BY <2>1 DEF RowOf
  <2>5. Chain[r] = [kind |-> Chain[r].kind, to |-> Chain[r].to,
                    memoType |-> Chain[r].memoType, memo |-> Chain[r].memo,
                    successful |-> Chain[r].successful, asset |-> Chain[r].asset,
                    issuer |-> Chain[r].issuer, amount |-> Chain[r].amount,
                    hash |-> Chain[r].hash]
    BY <2>2 DEF HorizonPayment
  <2>. QED
    BY <2>3, <2>4, <2>5
<1>2. SettlementInv => CreditIsGenuine
  BY <1>1 DEF CreditIsGenuine
<1>. QED
  BY Inductive, <1>2, PTL

-----------------------------------------------------------------------------
(* Refinement: the life of an intent. *)

(* What has been told is read off the one terminal notice. *)
LEMMA ToldNothing ==
    ASSUME NEW notices, Silent(notices) PROVE Told(notices) = "nothing"
  BY DEF Silent, Told

(* With one terminal notice, that is what has been told. *)
LEMMA ToldSomething ==
    ASSUME NEW notices, NEW st, NEW amount, TellsOnce(notices, st, amount), ~Silent(notices)
    PROVE  Told(notices) = st
<1>. DEFINE terminal == {i \in DOMAIN notices : IsTerminalNotice(notices[i])}
<1>1. terminal # {}
  BY DEF Silent
<1>2. (CHOOSE i \in terminal : TRUE) \in terminal
  BY <1>1
<1>. QED
  BY <1>1, <1>2 DEF Told, TellsOnce

(* A notice of a part payment is not an outcome. *)
LEMMA ToldNoMore ==
    ASSUME NEW notices \in Seq(NoticeRow), NEW n \in NoticeRow, ~IsTerminalNotice(n)
    PROVE  Told(Append(notices, n)) = Told(notices)
<1>. DEFINE Term(ns) == {i \in DOMAIN ns : IsTerminalNotice(ns[i])}
<1>1. /\ DOMAIN Append(notices, n) = DOMAIN notices \cup {Len(notices) + 1}
      /\ \A i \in DOMAIN notices : Append(notices, n)[i] = notices[i]
      /\ Append(notices, n)[Len(notices) + 1] = n
  OBVIOUS
<1>2. Term(Append(notices, n)) = Term(notices)
  BY <1>1
<1>3. CASE Term(notices) = {}
  BY <1>2, <1>3 DEF Told
<1>4. CASE Term(notices) # {}
  <2>1. (CHOOSE i \in Term(notices) : TRUE) \in Term(notices)
    BY <1>4
  <2>2. Append(notices, n)[CHOOSE i \in Term(notices) : TRUE]
          = notices[CHOOSE i \in Term(notices) : TRUE]
    BY <1>1, <2>1
  <2>3. ASSUME NEW ns, Term(ns) # {}
        PROVE  Told(ns) = StatusOfEvent(ns[CHOOSE i \in Term(ns) : TRUE].event)
    BY <2>3, Zenon DEF Told
  <2>4. /\ Told(notices) = StatusOfEvent(notices[CHOOSE i \in Term(notices) : TRUE].event)
        /\ Told(Append(notices, n)) = StatusOfEvent(
              Append(notices, n)[CHOOSE i \in Term(Append(notices, n)) : TRUE].event)
    BY <1>2, <1>4, <2>3
  <2>. HIDE DEF Term
  <2>. QED
    BY <1>2, <2>2, <2>4
<1>. QED
  BY <1>3, <1>4

(* The first outcome is told. *)
LEMMA ToldFirst ==
    ASSUME NEW notices \in Seq(NoticeRow), NEW n \in NoticeRow, IsTerminalNotice(n),
           Silent(notices)
    PROVE  Told(Append(notices, n)) = StatusOfEvent(n.event)
<1>1. TellsOnce(Append(notices, n), StatusOfEvent(n.event), n.paid)
  BY TellFirst
<1>2. ~Silent(Append(notices, n))
  BY DEF Silent
<1>. QED
  BY <1>1, <1>2, ToldSomething

(* Only the two dispatches record a notice. *)
LEMMA DeliveriesFrame ==
    ASSUME [Next]_vars
    PROVE  \/ UNCHANGED deliveries
           \/ DispatchExpired
           \/ \E w \in Workers : DispatchSettled(w)
  BY DEF Next, vars, chainVars, rowVars, dbVars, Reconcile, Land, Tick, FindPending,
     RecordProcessedTx, SumProcessed, UpdateStatus, ReconcileError, PollStart,
     PollBaseline, PollKeep, PollFetch, PollRecord, PollCheckpoint, PollOutage, CursorError,
     StreamConnect, StreamRecord, StreamDrop, ExpireOverdue, ExpiredNoticeError, Restart

(* A fresh intent is open and nothing is told. *)
LEMMA LifecycleInit == Init => Lifecycle!Init
<1>. SUFFICES ASSUME Init PROVE Lifecycle!Init
  OBVIOUS
<1>1. \A p \in Intents : OutcomeOf(p) = "open"
  BY DEF Init, OutcomeOf, Open
<1>2. \A p \in Intents : Told(deliveries[p]) = "nothing"
  BY DEF Init, Told
<1>. QED
  BY <1>1, <1>2 DEF Lifecycle!Init

(* Telling an intent's outcome, in terms of the abstract life. *)
LEMMA TellStep ==
    ASSUME SettlementInv, NEW p \in Intents, NEW n \in NoticeRow,
           deliveries' = [deliveries EXCEPT ![p] = Append(@, n)], status' = status,
           IsTerminalNotice(n), Silent(deliveries[p]),
           status[p] = StatusOfEvent(n.event)
    PROVE  Lifecycle!Tell(p)
<1>0. deliveries \in [Intents -> Seq(NoticeRow)]
  BY DEF SettlementInv, TypeOK
<1>1. status[p] \notin Open /\ OutcomeOf(p) = status[p]
  BY DEF StatusOfEvent, Open, OutcomeOf
<1>2. Told(deliveries[p]) = "nothing"
  BY ToldNothing
<1>3. /\ Told(deliveries'[p]) = OutcomeOf(p)
      /\ \A q \in Intents \ {p} : deliveries'[q] = deliveries[q]
  <2>1. deliveries'[p] = Append(deliveries[p], n)
    BY <1>0
  <2>2. deliveries[p] \in Seq(NoticeRow)
    BY <1>0
  <2>. QED
    BY <1>0, <1>1, <2>1, <2>2, ToldFirst
<1>4. [q \in Intents |-> Told(deliveries[q])]'
        = [[q \in Intents |-> Told(deliveries[q])] EXCEPT ![p] = OutcomeOf(p)]
  <2>1. \A q \in Intents :
           Told(deliveries'[q]) = IF q = p THEN OutcomeOf(p) ELSE Told(deliveries[q])
    BY <1>3
  <2>. QED
    BY <2>1
<1>5. [q \in Intents |-> OutcomeOf(q)]' = [q \in Intents |-> OutcomeOf(q)]
  BY DEF OutcomeOf
<1>6. OutcomeOf(p) # "open"
  BY <1>1 DEF StatusOfEvent
<1>. QED
  BY <1>2, <1>4, <1>5, <1>6 DEF Lifecycle!Tell

(* Every step is a step of the abstract life, or leaves it alone. *)
LEMMA LifecycleStep ==
    ASSUME SettlementInv, [Next]_vars PROVE [Lifecycle!Next]_(Lifecycle!vars)
<1>0. TypeOK /\ NoticeSound
  BY DEF SettlementInv
<1>1. CASE UNCHANGED <<status, deliveries>>
  BY <1>1 DEF Lifecycle!vars, OutcomeOf
<1>2. CASE ExpireOverdue
  <2>1. PICK S \in SUBSET OverdueIntents :
           status' = [q \in Intents |-> IF q \in S THEN "expired" ELSE status[q]]
    BY <1>2 DEF ExpireOverdue
  <2>2. S \in SUBSET Intents /\ \A q \in S : status[q] \in Open
    BY <2>1 DEF OverdueIntents
  <2>3. \A q \in Intents : OutcomeOf(q)' = IF q \in S THEN "expired" ELSE OutcomeOf(q)
    BY <2>1 DEF OutcomeOf, Open
  <2>4. deliveries' = deliveries
    BY <1>2 DEF ExpireOverdue
  <2>5. Lifecycle!Expire(S)
    BY <2>2, <2>3, <2>4 DEF Lifecycle!Expire, OutcomeOf
  <2>. QED
    BY <2>2, <2>5 DEF Lifecycle!Next
<1>3. ASSUME NEW w \in Workers, UpdateStatus(w) PROVE [Lifecycle!Next]_(Lifecycle!vars)
  <2>0. deliveries' = deliveries
    BY <1>3 DEF UpdateStatus
  <2>1. PICK p \in Intents : p = worker[w].intent
    BY <1>3 DEF UpdateStatus, SettlementInv, WorkerSound, StillTrue, Holding
  <2>a. worker[w].total \in Nat /\ Intent[p].amount \in Nat
    BY <1>0, <2>1, IntentAssumption DEF TypeOK, WorkerState, IntentRow
  <2>2. CASE status[p] \notin Open
    BY <1>1, <1>3, <2>0, <2>1, <2>2 DEF UpdateStatus, rowVars
  <2>3. CASE status[p] \in Open
    <3>1. status' = [status EXCEPT ![p] = Outcome(worker[w].total, Intent[p].amount)]
      BY <1>3, <2>1, <2>3 DEF UpdateStatus
    <3>2. \A q \in Intents : q # p => OutcomeOf(q)' = OutcomeOf(q)
      BY <1>0, <2>1, <3>1 DEF OutcomeOf, TypeOK
    <3>3. status'[p] = Outcome(worker[w].total, Intent[p].amount)
      BY <1>0, <2>1, <3>1 DEF TypeOK
    <3>4. CASE worker[w].total < Intent[p].amount
      <4>1. OutcomeOf(p)' = OutcomeOf(p)
        BY <2>1, <2>a, <2>3, <3>3, <3>4 DEF OutcomeOf, Outcome, Open
      <4>. QED
        BY <2>0, <3>2, <4>1 DEF Lifecycle!vars
    <3>5. CASE ~(worker[w].total < Intent[p].amount)
      <4>1. OutcomeOf(p) = "open" /\ OutcomeOf(p)' = "completed"
        BY <2>1, <2>a, <2>3, <3>3, <3>5 DEF OutcomeOf, Outcome, Open
      <4>2. [q \in Intents |-> OutcomeOf(q)]'
              = [[q \in Intents |-> OutcomeOf(q)] EXCEPT ![p] = "completed"]
        BY <2>1, <3>2, <4>1
      <4>3. Lifecycle!Complete(p)
        BY <2>0, <2>1, <4>1, <4>2 DEF Lifecycle!Complete
      <4>. QED
        BY <2>1, <4>3 DEF Lifecycle!Next
    <3>. QED
      BY <3>4, <3>5
  <2>. QED
    BY <2>2, <2>3
<1>4. ASSUME NEW w \in Workers, DispatchSettled(w) PROVE [Lifecycle!Next]_(Lifecycle!vars)
  <2>. DEFINE p == worker[w].intent
              n == Notice(EventFor(worker[w].total, Intent[p].amount), worker[w].total)
  <2>1. p \in Intents /\ worker[w].total \in Nat /\ Intent[p].amount \in Nat
    BY <1>0, <1>4, IntentAssumption
       DEF DispatchSettled, SettlementInv, WorkerSound, StillTrue, Holding, TypeOK,
           WorkerState, IntentRow
  <2>2. deliveries' = [deliveries EXCEPT ![p] = Append(@, n)] /\ status' = status
    BY <1>4 DEF DispatchSettled, rowVars
  <2>3. CASE worker[w].total < Intent[p].amount
    <3>1. n \in NoticeRow /\ ~IsTerminalNotice(n)
      BY <2>1, <2>3 DEF Notice, EventFor, NoticeRow, Events, IsTerminalNotice, TerminalEvents
    <3>2. \A q \in Intents : Told(deliveries'[q]) = Told(deliveries[q])
      BY <1>0, <2>1, <2>2, <3>1, ToldNoMore DEF TypeOK
    <3>. QED
      BY <2>2, <3>2 DEF Lifecycle!vars, OutcomeOf
  <2>4. CASE ~(worker[w].total < Intent[p].amount)
    <3>1. Owes(w)
      BY <1>4, <2>1, <2>4 DEF Owes, DispatchSettled
    <3>2. status[p] = "completed" /\ Silent(deliveries[p])
      BY <1>0, <3>1 DEF NoticeSound
    <3>3. /\ n \in NoticeRow /\ IsTerminalNotice(n)
          /\ StatusOfEvent(n.event) = "completed"
      BY <2>1, <2>4 DEF Notice, EventFor, NoticeRow, Events, IsTerminalNotice,
         TerminalEvents, StatusOfEvent
    <3>4. Lifecycle!Tell(p)
      BY <2>1, <2>2, <3>2, <3>3, TellStep
    <3>. QED
      BY <2>1, <3>4 DEF Lifecycle!Next
  <2>. QED
    BY <2>3, <2>4
<1>5. CASE DispatchExpired
  <2>1. PICK p \in sweeping :
           /\ deliveries' = [deliveries EXCEPT
                 ![p] = Append(@, Notice("payment.expired", paid[p]))]
           /\ status' = status
    BY <1>5 DEF DispatchExpired, rowVars
  <2>2. p \in Intents /\ status[p] = "expired" /\ Silent(deliveries[p]) /\ paid[p] \in Nat
    BY <1>0 DEF NoticeSound, TypeOK
  <2>. DEFINE n == Notice("payment.expired", paid[p])
  <2>3. /\ n \in NoticeRow /\ IsTerminalNotice(n) /\ StatusOfEvent(n.event) = "expired"
    BY <2>2 DEF Notice, NoticeRow, Events, IsTerminalNotice, TerminalEvents, StatusOfEvent
  <2>4. Lifecycle!Tell(p)
    BY <2>1, <2>2, <2>3, TellStep
  <2>. QED
    BY <2>2, <2>4 DEF Lifecycle!Next
<1>6. UNCHANGED deliveries /\ ~UNCHANGED status =>
         ExpireOverdue \/ \E w \in Workers : UpdateStatus(w)
  BY StatusFrame
<1>. QED
  BY <1>1, <1>2, <1>3, <1>4, <1>5, <1>6, DeliveriesFrame

(* Settlement implements the life of an intent: whatever the two           *)
(* reconcilers, the sweeper and restarts do, each intent is decided at     *)
(* most once and its outcome told at most once, after it was decided.      *)
THEOREM Refinement == Spec => ImplementsLifecycle
<1>1. SettlementInv /\ [Next]_vars => [Lifecycle!Next]_(Lifecycle!vars)
  BY LifecycleStep
<1>. QED
  BY LifecycleInit, Inductive, <1>1, PTL DEF Spec, ImplementsLifecycle, Lifecycle!Spec

-----------------------------------------------------------------------------
(* The durable cursor. *)

(* Every watchable intent that record r pays has it in its ledger. *)
Recorded(r) ==
    \A p \in Intents : Watchable(p) /\ Pays(r, p) => HasHash(ledger[p], Chain[r].hash)

(* The poller holds record r and has not tried to insert it yet. *)
InHand(r) ==
    worker["poller"].rec = r /\ worker["poller"].pc \in {"lookup", "record"}

(* The poller reconciles the record its cursor has just passed; what lies  *)
(* behind its cursor, saved or in memory, is recorded or in its hand.      *)
PollerSound ==
    /\ budget.dbErrors <= MaxDbErrors
    /\ worker["poller"].pc # "idle" =>
          poll.pc = "walk" /\ worker["poller"].rec = poll.cursor
    /\ poll.pc \in {"ask", "save"} => savedCursor = NoCursor
    /\ budget.dbErrors = MaxDbErrors =>
          /\ savedCursor # NoCursor =>
                \A r \in Records : baseline.kept < r /\ r <= savedCursor => Recorded(r)
          /\ poll.pc \in {"save", "fetch", "walk"} =>
                \A r \in Records : baseline.kept < r /\ r <= poll.cursor =>
                   Recorded(r) \/ InHand(r)

(* No step makes an intent watchable again. *)
LEMMA WatchableStep ==
    ASSUME SettlementInv, [Next]_vars, NEW p \in Intents, Watchable(p)'
    PROVE  Watchable(p)
<1>0. /\ TypeOK /\ now \in Nat /\ Intent[p].expiresAt \in Nat
      /\ status \in [Intents -> Open \cup Terminal]
  BY IntentAssumption DEF SettlementInv, TypeOK, IntentRow
<1>1. now' = now \/ now' = now + 1
  BY DEF Next, vars, chainVars, rowVars, dbVars, Reconcile, Land, Tick, FindPending,
     RecordProcessedTx, SumProcessed, UpdateStatus, DispatchSettled, ReconcileError,
     PollStart, PollBaseline, PollKeep, PollFetch, PollRecord, PollCheckpoint, PollOutage, CursorError,
     StreamConnect, StreamRecord, StreamDrop, ExpireOverdue, DispatchExpired,
     ExpiredNoticeError, Restart
<1>2. status[p] \in Open
  <2>1. ASSUME NEW w \in Workers, UpdateStatus(w) PROVE status[p] \in Open
    BY <2>1, SettlementWrites DEF Watchable
  <2>2. ASSUME ExpireOverdue PROVE status[p] \in Open
    BY <2>2 DEF ExpireOverdue, OverdueIntents, Watchable
  <2>. QED
    BY <2>1, <2>2, StatusFrame DEF Watchable
<1>. QED
  BY <1>0, <1>1, <1>2 DEF Watchable, Overdue

(* What is recorded stays recorded. *)
LEMMA RecordedStep ==
    ASSUME SettlementInv, [Next]_vars, NEW r, Recorded(r) PROVE Recorded(r)'
  BY WatchableStep, Growth DEF Recorded, HasHash

(* A failing statement and a crash are counted. *)
LEMMA BudgetStep ==
    ASSUME SettlementInv, [Next]_vars
    PROVE  /\ budget.dbErrors \in Nat /\ budget'.dbErrors \in Nat
           /\ budget.crashes \in Nat /\ budget'.crashes \in Nat
           /\ budget'.dbErrors <= budget.dbErrors /\ budget'.crashes <= budget.crashes
           /\ budget'.dbErrors = budget.dbErrors =>
                 ~CursorError /\ \A w \in Workers : ~ReconcileError(w)
           /\ budget'.crashes = budget.crashes => ~Restart
<1>0. budget \in Budget
  BY DEF SettlementInv, TypeOK
<1>1. ASSUME budget' = [budget EXCEPT !.dbErrors = @ - 1]
      PROVE  budget'.dbErrors = budget.dbErrors - 1 /\ budget'.crashes = budget.crashes
  BY <1>0, <1>1 DEF Budget
<1>2. ASSUME budget' = [budget EXCEPT !.crashes = @ - 1]
      PROVE  budget'.crashes = budget.crashes - 1 /\ budget'.dbErrors = budget.dbErrors
  BY <1>0, <1>2 DEF Budget
<1>3. ASSUME budget' = [budget EXCEPT !.outages = @ - 1]
      PROVE  budget'.crashes = budget.crashes /\ budget'.dbErrors = budget.dbErrors
  BY <1>0, <1>3 DEF Budget
<1>4. \/ budget' = budget
      \/ budget' = [budget EXCEPT !.outages = @ - 1]
      \/ budget.dbErrors > 0 /\ budget' = [budget EXCEPT !.dbErrors = @ - 1]
      \/ budget.crashes > 0 /\ budget' = [budget EXCEPT !.crashes = @ - 1]
  BY DEF Next, vars, Reconcile, Land, Tick, FindPending,
     RecordProcessedTx, SumProcessed, UpdateStatus, DispatchSettled, ReconcileError,
     PollStart, PollBaseline, PollKeep, PollFetch, PollRecord, PollCheckpoint, PollOutage, CursorError,
     StreamConnect, StreamRecord, StreamDrop, ExpireOverdue, DispatchExpired,
     ExpiredNoticeError, Restart
<1>5. /\ CursorError => budget' = [budget EXCEPT !.dbErrors = @ - 1]
      /\ \A w \in Workers : ReconcileError(w) => budget' = [budget EXCEPT !.dbErrors = @ - 1]
      /\ Restart => budget' = [budget EXCEPT !.crashes = @ - 1]
  BY DEF CursorError, ReconcileError, Restart
<1>6. budget.dbErrors \in Nat /\ budget.crashes \in Nat
  BY <1>0 DEF Budget
<1>. QED
  BY <1>1, <1>2, <1>3, <1>4, <1>5, <1>6

(* The cursor passes nothing, whatever the other tasks do meanwhile. *)
LEMMA PollerStep == SettlementInv /\ PollerSound /\ [Next]_vars => PollerSound'
<1>. SUFFICES ASSUME SettlementInv, PollerSound, [Next]_vars PROVE PollerSound'
  OBVIOUS
<1>. DEFINE me == worker["poller"]
<1>0. /\ TypeOK /\ worker \in [Workers -> WorkerState] /\ poll \in PollState
      /\ "poller" \in Workers /\ "stream" \in Workers /\ MaxDbErrors \in Nat
      /\ poll.cursor \in Nat
  BY SettlementAssumption DEF SettlementInv, TypeOK, Workers, PollState
<1>1. /\ budget'.dbErrors <= MaxDbErrors
      /\ budget'.dbErrors = MaxDbErrors =>
            /\ budget.dbErrors = MaxDbErrors /\ ~CursorError
            /\ \A w \in Workers : ~ReconcileError(w)
  BY <1>0, BudgetStep DEF PollerSound
<1>2. ASSUME UNCHANGED <<poll, savedCursor, baseline>>,
             me'.pc # "idle" => me.pc # "idle" /\ me'.rec = me.rec,
             budget'.dbErrors = MaxDbErrors =>
                \A r \in Records : InHand(r) => Recorded(r)' \/ InHand(r)'
      PROVE  PollerSound'
  BY <1>1, <1>2, RecordedStep DEF PollerSound
<1>3. ASSUME UNCHANGED <<poll, savedCursor, baseline>>, me' = me PROVE PollerSound'
  BY <1>2, <1>3 DEF InHand
<1>4. ASSUME FindPending("poller") PROVE PollerSound'
  <2>1. UNCHANGED <<poll, savedCursor, baseline>> /\ me.pc = "lookup"
    BY <1>4 DEF FindPending, dbVars
  <2>2. ASSUME NEW p \in Intents,
               worker' = [worker EXCEPT !["poller"] = [@ EXCEPT !.pc = "record", !.intent = p]]
        PROVE  PollerSound'
    <3>1. me'.pc = "record" /\ me'.rec = me.rec
      BY <1>0, <2>2 DEF WorkerState
    <3>. QED
      BY <1>2, <2>1, <3>1 DEF InHand
  <2>3. ASSUME worker' = [worker EXCEPT !["poller"] = Idle],
               \A p \in Intents : ~(/\ Watchable(p)
                                   /\ CarriesMemo(Chain[me.rec], Intent[p].memo)
                                   /\ Verify(Intent[p], Chain[me.rec]))
        PROVE  PollerSound'
    <3>1. me'.pc = "idle"
      BY <1>0, <2>3 DEF Idle
    <3>2. Recorded(me.rec)
      BY <2>3 DEF Recorded, Pays, Verify
    <3>3. \A r \in Records : InHand(r) => Recorded(r)'
      BY <3>2, RecordedStep DEF InHand
    <3>. QED
      BY <1>2, <2>1, <3>1, <3>3
  <2>. QED
    BY <1>4, <2>2, <2>3, Zenon DEF FindPending
<1>5. ASSUME RecordProcessedTx("poller") PROVE PollerSound'
  <2>1. UNCHANGED <<poll, savedCursor, baseline>> /\ me.pc = "record"
    BY <1>5 DEF RecordProcessedTx
  <2>2. me.intent \in Intents /\ me.rec \in 1 .. landed /\ Pays(me.rec, me.intent)
    BY <1>0, <2>1 DEF SettlementInv, WorkerSound, StillTrue, Holding
  <2>3. me'.pc = "idle" \/ (me'.pc = "sum" /\ me'.rec = me.rec)
    <3>1. \/ worker' = [worker EXCEPT !["poller"] = Idle]
          \/ worker' = [worker EXCEPT !["poller"] = [@ EXCEPT !.pc = "sum"]]
      BY <1>5 DEF RecordProcessedTx
    <3>2. ASSUME worker' = [worker EXCEPT !["poller"] = Idle] PROVE me'.pc = "idle"
      BY <1>0, <3>2 DEF Idle
    <3>3. CASE worker' = [worker EXCEPT !["poller"] = [@ EXCEPT !.pc = "sum"]]
      BY <1>0, <3>3 DEF WorkerState
    <3>. QED
      BY <3>1, <3>2, <3>3
  <2>4. HasHash(ledger'[me.intent], Chain[me.rec].hash)
    <3>1. ledger'[me.intent] = InsertRow(ledger[me.intent], RowOf(me.rec))
      BY <1>0, <1>5, <2>2 DEF RecordProcessedTx, TypeOK
    <3>2. RowOf(me.rec).hash = Chain[me.rec].hash
      BY DEF RowOf
    <3>. QED
      BY <3>1, <3>2, InsertRowFacts
  <2>5. ASSUME NEW p \in Intents, Pays(me.rec, p) PROVE p = me.intent
    BY <2>2, <2>5, MemoUnique DEF Pays, Verify, CarriesMemo
  <2>6. \A r \in Records : InHand(r) => Recorded(r)'
    BY <2>4, <2>5 DEF InHand, Recorded
  <2>. QED
    BY <1>2, <2>1, <2>3, <2>6
<1>6. ASSUME SumProcessed("poller") \/ UpdateStatus("poller") PROVE PollerSound'
  <2>1. /\ UNCHANGED <<poll, savedCursor, baseline>> /\ me.pc \notin {"idle", "lookup", "record"}
    BY <1>6 DEF SumProcessed, UpdateStatus, dbVars
  <2>2. me'.pc # "idle" => me'.rec = me.rec
    <3>1. \/ worker' = [worker EXCEPT !["poller"] = Idle]
          \/ worker' = [worker EXCEPT !["poller"].pc = "dispatch"]
          \/ worker' = [worker EXCEPT !["poller"] = [@ EXCEPT !.pc = "settle",
                                          !.total = Total(ledger[worker["poller"].intent])]]
      BY <1>6 DEF SumProcessed, UpdateStatus
    <3>2. CASE worker' = [worker EXCEPT !["poller"] = Idle]
      BY <1>0, <3>2 DEF Idle
    <3>3. CASE worker' = [worker EXCEPT !["poller"].pc = "dispatch"]
      BY <1>0, <3>3 DEF WorkerState
    <3>4. CASE worker' = [worker EXCEPT !["poller"] = [@ EXCEPT !.pc = "settle",
                                          !.total = Total(ledger[worker["poller"].intent])]]
      BY <1>0, <3>4 DEF WorkerState
    <3>. QED
      BY <3>1, <3>2, <3>3, <3>4
  <2>. QED
    BY <1>2, <2>1, <2>2 DEF InHand
<1>7. ASSUME DispatchSettled("poller") \/ ReconcileError("poller") PROVE PollerSound'
  <2>1. /\ UNCHANGED <<poll, savedCursor, baseline>> /\ me'.pc = "idle"
        /\ me.pc = "dispatch" \/ ReconcileError("poller")
    BY <1>0, <1>7 DEF DispatchSettled, ReconcileError, dbVars, Idle
  <2>. QED
    BY <1>0, <1>1, <1>2, <2>1 DEF InHand
<1>8. ASSUME Reconcile("stream") \/ ReconcileError("stream") PROVE PollerSound'
  <2>1. UNCHANGED <<poll, savedCursor, baseline>>
    BY <1>8 DEF Reconcile, FindPending, RecordProcessedTx, SumProcessed, UpdateStatus,
       DispatchSettled, ReconcileError, dbVars
  <2>2. me' = me
    BY <1>0, <1>8 DEF Reconcile, FindPending, RecordProcessedTx, SumProcessed, UpdateStatus,
       DispatchSettled, ReconcileError
  <2>. QED
    BY <1>3, <2>1, <2>2
<1>9. CASE PollStart
  <2>1. poll.pc = "sleep" /\ UNCHANGED <<worker, budget>> /\ me.pc = "idle"
    BY <1>9 DEF PollStart, PollerSound
  <2>2. UNCHANGED <<savedCursor, baseline>>
    BY <1>9 DEF PollStart, dbVars
  <2>3. CASE savedCursor # NoCursor
    <3>1. poll'.pc = "fetch" /\ poll'.cursor = savedCursor
      BY <1>9, <2>3 DEF PollStart, Fetching
    <3>. QED
      BY <1>1, <2>1, <2>2, <2>3, <3>1, RecordedStep DEF PollerSound
  <2>4. CASE savedCursor = NoCursor
    <3>1. poll'.pc = "ask"
      BY <1>9, <2>4 DEF PollStart, PollAsleep
    <3>. QED
      BY <1>1, <2>1, <2>2, <2>4, <3>1 DEF PollerSound
  <2>. QED
    BY <2>3, <2>4
<1>9a. CASE PollBaseline
  <2>1. /\ savedCursor' = NoCursor /\ me.pc = "idle" /\ UNCHANGED <<worker, budget>>
        /\ baseline'.kept = landed
    BY <1>9a DEF PollBaseline, PollerSound, dbVars
  <2>2. poll'.cursor = landed /\ poll'.pc \in {"save", "fetch"}
    BY <1>9a DEF PollBaseline, Fetching
  <2>3. landed \in Nat /\ Records \subseteq Nat
    BY <1>0 DEF TypeOK, Records
  <2>4. \A r \in Records : ~(landed < r /\ r <= landed)
    BY <2>3
  <2>. QED
    BY <1>1, <2>1, <2>2, <2>4 DEF PollerSound
<1>9b. CASE PollKeep
  <2>1. /\ poll.pc = "save" /\ me.pc = "idle" /\ savedCursor' = poll.cursor
        /\ UNCHANGED <<worker, budget, baseline>>
    BY <1>9b DEF PollKeep, PollerSound
  <2>2. poll'.pc = "fetch" /\ poll'.cursor = poll.cursor
    BY <1>0, <1>9b DEF PollKeep, PollState
  <2>. QED
    BY <1>1, <2>1, <2>2, RecordedStep DEF PollerSound, InHand
<1>10. CASE PollFetch
  <2>1. poll.pc = "fetch" /\ UNCHANGED <<worker, budget, savedCursor, baseline>>
    BY <1>10 DEF PollFetch, dbVars
  <2>2. poll'.cursor = poll.cursor /\ poll'.pc = "walk"
    BY <1>10 DEF PollFetch
  <2>. QED
    BY <1>1, <2>1, <2>2, RecordedStep DEF PollerSound, InHand
<1>11. CASE PollRecord
  <2>1. poll.pc = "walk" /\ me.pc = "idle" /\ UNCHANGED <<budget, savedCursor, baseline>>
    BY <1>11 DEF PollRecord, dbVars
  <2>2. /\ poll'.cursor = poll.cursor + 1 /\ poll'.pc = "walk"
        /\ me'.pc = "lookup" /\ me'.rec = poll.cursor + 1
    BY <1>0, <1>11, <2>1 DEF PollRecord, PickedUp, PollState
  <2>3. \A r \in Records : r <= poll.cursor + 1 => r <= poll.cursor \/ r = poll.cursor + 1
    BY <1>0 DEF Records
  <2>. QED
    BY <1>1, <2>1, <2>2, <2>3, RecordedStep DEF PollerSound, InHand
<1>12. CASE PollCheckpoint
  <2>1. /\ poll.pc = "walk" /\ me.pc = "idle" /\ savedCursor' = poll.cursor
        /\ UNCHANGED <<worker, budget, baseline>>
    BY <1>12 DEF PollCheckpoint
  <2>2. poll'.pc = "sleep" \/ (poll'.pc = "fetch" /\ poll'.cursor = poll.cursor)
    <3>1. poll' = PollAsleep \/ poll' = [poll EXCEPT !.pc = "fetch"]
      BY <1>12 DEF PollCheckpoint
    <3>2. ASSUME poll' = PollAsleep PROVE poll'.pc = "sleep"
      BY <3>2 DEF PollAsleep
    <3>3. CASE poll' = [poll EXCEPT !.pc = "fetch"]
      BY <1>0, <3>3 DEF PollState
    <3>. QED
      BY <3>1, <3>2, <3>3
  <2>. QED
    BY <1>1, <2>1, <2>2, RecordedStep DEF PollerSound, InHand
<1>13. CASE PollOutage \/ CursorError
  <2>1. /\ me.pc = "idle" /\ me' = me /\ poll'.pc = "sleep"
        /\ UNCHANGED <<savedCursor, baseline>>
    BY <1>13 DEF PollOutage, CursorError, PollerSound, PollAsleep, dbVars
  <2>. QED
    BY <1>1, <2>1, RecordedStep DEF PollerSound
<1>14. CASE StreamRecord
  <2>1. me' = me
    BY <1>0, <1>14 DEF StreamRecord
  <2>. QED
    BY <1>3, <1>14, <2>1 DEF StreamRecord, dbVars
<1>15. CASE Restart
  <2>1. me'.pc = "idle" /\ poll'.pc = "sleep" /\ UNCHANGED <<savedCursor, baseline>>
    BY <1>0, <1>15 DEF Restart, Idle, PollAsleep
  <2>. QED
    BY <1>1, <2>1, RecordedStep DEF PollerSound
<1>16. CASE UNCHANGED <<poll, savedCursor, baseline, worker>>
  BY <1>3, <1>16
<1>17. ASSUME NEW w \in Workers, Reconcile(w) \/ ReconcileError(w) PROVE PollerSound'
  BY <1>4, <1>5, <1>6, <1>7, <1>8, <1>17 DEF Reconcile, Workers
<1>. QED
  BY <1>9, <1>9a, <1>9b, <1>10, <1>11, <1>12, <1>13, <1>14, <1>15, <1>16, <1>17
     DEF Next, vars, dbVars, Land, Tick, StreamConnect, StreamDrop, ExpireOverdue,
         DispatchExpired, ExpiredNoticeError

(* Once a cursor is kept, crashes and outages between a page's records and *)
(* its checkpoint lose no payment: while every statement succeeds, of what *)
(* came after the cycle that kept it began it passes only what is in the   *)
(* ledger.  Before a cursor is kept the code promises more than this       *)
(* (FirstPaymentIsCaptured) and does not hold it.                          *)
THEOREM CursorIsSafe == Spec => []OnlyErrorsSkip
<1>1. Init => PollerSound
  BY SettlementAssumption DEF Init, PollerSound, Workers, Idle, PollAsleep
<1>2. PollerSound => OnlyErrorsSkip
  BY DEF PollerSound, OnlyErrorsSkip, NothingSkippedAfter, Recorded
<1>. QED
  BY <1>1, <1>2, Inductive, PollerStep, PTL DEF Spec

-----------------------------------------------------------------------------
(* Whoever records the payment that reaches the price settles the intent. *)

(* Reconciler w will complete intent p: it has yet to sum a ledger that    *)
(* covers the price, or has read such a sum.                               *)
WillSettle(w, p) ==
    /\ worker[w].intent = p
    /\ \/ worker[w].pc = "sum"
       \/ worker[w].pc = "settle" /\ worker[w].total >= Intent[p].amount

SettlerSound ==
    /\ budget.dbErrors <= MaxDbErrors /\ budget.crashes <= MaxCrashes
    /\ budget.dbErrors = MaxDbErrors /\ budget.crashes = MaxCrashes =>
          \A p \in Intents : status[p] \in Open /\ Total(ledger[p]) >= Intent[p].amount =>
             \E w \in Workers : WillSettle(w, p)

(* A reconciler that still has to settle goes on, or has settled. *)
LEMMA SettlingStep ==
    ASSUME SettlementInv, [Next]_vars, NEW p \in Intents, NEW w \in Workers,
           WillSettle(w, p), Total(ledger[p]) >= Intent[p].amount,
           ~Restart, \A v \in Workers : ~ReconcileError(v)
    PROVE  WillSettle(w, p)' \/ status'[p] \notin Open
<1>0. /\ TypeOK /\ worker \in [Workers -> WorkerState] /\ worker[w] \in WorkerState
      /\ worker[w].pc \in {"sum", "settle"} /\ worker[w].intent = p
  BY DEF SettlementInv, TypeOK, WillSettle
<1>1. CASE worker'[w] = worker[w]
  BY <1>1 DEF WillSettle
<1>2. ASSUME SumProcessed(w) PROVE WillSettle(w, p)'
  <2>1. /\ worker'[w].pc = "settle" /\ worker'[w].intent = worker[w].intent
        /\ worker'[w].total = Total(ledger[worker[w].intent])
    BY <1>0, <1>2 DEF SumProcessed, WorkerState
  <2>. QED
    BY <1>0, <2>1 DEF WillSettle
<1>3. ASSUME UpdateStatus(w) PROVE status'[p] \notin Open
  <2>1. worker[w].pc = "settle" /\ worker[w].total >= Intent[p].amount
    BY <1>3 DEF UpdateStatus, WillSettle
  <2>2. worker[w].total \in Nat /\ Intent[p].amount \in Nat
    BY <1>0, IntentAssumption DEF WorkerState, IntentRow
  <2>3. Outcome(worker[w].total, Intent[p].amount) = "completed"
    BY <2>1, <2>2 DEF Outcome
  <2>4. CASE status[p] \notin Open
    BY <1>0, <1>3, <2>4 DEF UpdateStatus, rowVars
  <2>5. CASE status[p] \in Open
    <3>1. status' = [status EXCEPT ![p] = Outcome(worker[w].total, Intent[p].amount)]
      BY <1>0, <1>3, <2>5 DEF UpdateStatus
    <3>. QED
      BY <1>0, <2>3, <3>1 DEF TypeOK, Open
  <2>. QED
    BY <2>4, <2>5
<1>4. ASSUME NEW v \in Workers, Reconcile(v), v # w PROVE worker'[w] = worker[w]
  BY <1>0, <1>4 DEF Reconcile, FindPending, RecordProcessedTx, SumProcessed, UpdateStatus,
     DispatchSettled
<1>5. PollRecord \/ StreamRecord => worker'[w] = worker[w]
  BY <1>0 DEF PollRecord, StreamRecord
<1>6. ~FindPending(w) /\ ~RecordProcessedTx(w) /\ ~DispatchSettled(w)
  BY <1>0 DEF FindPending, RecordProcessedTx, DispatchSettled
<1>. QED
  BY <1>1, <1>2, <1>3, <1>4, <1>5, <1>6
     DEF Next, vars, Reconcile, Land, Tick, PollStart, PollBaseline, PollKeep, PollFetch, PollCheckpoint,
         PollOutage, CursorError, StreamConnect, StreamDrop, ExpireOverdue,
         DispatchExpired, ExpiredNoticeError

(* The ledger reaches the price with somebody who will notice. *)
LEMMA SettlerStep == SettlementInv /\ SettlerSound /\ [Next]_vars => SettlerSound'
<1>. SUFFICES ASSUME SettlementInv, SettlerSound, [Next]_vars PROVE SettlerSound'
  OBVIOUS
<1>0. /\ budget.dbErrors \in Nat /\ budget'.dbErrors \in Nat
      /\ budget.crashes \in Nat /\ budget'.crashes \in Nat
      /\ budget'.dbErrors <= budget.dbErrors /\ budget'.crashes <= budget.crashes
      /\ MaxDbErrors \in Nat /\ MaxCrashes \in Nat
  BY BudgetStep, SettlementAssumption
<1>1. budget'.dbErrors <= MaxDbErrors /\ budget'.crashes <= MaxCrashes
  BY <1>0 DEF SettlerSound
<1>2. ASSUME budget'.dbErrors = MaxDbErrors, budget'.crashes = MaxCrashes,
             NEW p \in Intents, status'[p] \in Open,
             Total(ledger'[p]) >= Intent[p].amount
      PROVE  \E w \in Workers : WillSettle(w, p)'
  <2>1. budget.dbErrors = MaxDbErrors /\ budget.crashes = MaxCrashes
    BY <1>0, <1>2 DEF SettlerSound
  <2>2. ~Restart /\ \A v \in Workers : ~ReconcileError(v)
    BY <1>2, <2>1, BudgetStep
  <2>3. TypeOK /\ status[p] \in Open
    <3>1. ASSUME NEW w \in Workers, UpdateStatus(w) PROVE status[p] \in Open
      BY <1>2, <3>1, SettlementWrites
    <3>2. ASSUME ExpireOverdue PROVE status[p] \in Open
      BY <1>2, <3>2 DEF ExpireOverdue, OverdueIntents
    <3>. QED
      BY <1>2, <3>1, <3>2, StatusFrame DEF SettlementInv
  <2>4. CASE Total(ledger[p]) >= Intent[p].amount
    <3>1. PICK w \in Workers : WillSettle(w, p)
      BY <2>1, <2>3, <2>4 DEF SettlerSound
    <3>2. WillSettle(w, p)'
      BY <1>2, <2>2, <2>4, <3>1, SettlingStep
    <3>. QED
      BY <3>2
  <2>5. CASE ~(Total(ledger[p]) >= Intent[p].amount)
    <3>1. ledger'[p] # ledger[p]
      BY <1>2, <2>5
    <3>2. PICK w \in Workers : RecordProcessedTx(w)
      BY <2>2, <3>1, LedgerFrame
    <3>3. /\ worker[w].intent = p
          /\ ledger'[p] = InsertRow(ledger[p], RowOf(worker[w].rec))
      BY <2>3, <3>1, <3>2 DEF RecordProcessedTx, TypeOK
    <3>4. ~HasHash(ledger[p], RowOf(worker[w].rec).hash)
      BY <3>1, <3>3 DEF InsertRow
    <3>5. worker'[w].pc = "sum" /\ worker'[w].intent = p
      <4>1. worker' = [worker EXCEPT ![w] = [@ EXCEPT !.pc = "sum"]]
        BY <3>2, <3>3, <3>4 DEF RecordProcessedTx
      <4>. QED
        BY <2>3, <3>3, <4>1 DEF TypeOK, WorkerState
    <3>. QED
      BY <3>5 DEF WillSettle
  <2>. QED
    BY <2>4, <2>5
<1>. QED
  BY <1>1, <1>2 DEF SettlerSound

(* Every order of the two reconcilers' statements settles what the ledger  *)
(* covers, although each may write a total that is stale by then.          *)
THEOREM RacesAreSettled == Spec => []RacesSettle
<1>1. Init => SettlerSound
  <2>. SUFFICES ASSUME Init PROVE SettlerSound
    OBVIOUS
  <2>1. Stroops({}) = {}
    BY DEF Stroops
  <2>2. Total({}) = 0
    BY <2>1, FS_EmptySet DEF Total
  <2>3. \A p \in Intents : ledger[p] = {} /\ Intent[p].amount \in Nat \ {0}
    BY IntentAssumption DEF Init, IntentRow
  <2>. QED
    BY <2>2, <2>3, SettlementAssumption DEF Init, SettlerSound
<1>2. SettlerSound => RacesSettle
  BY DEF SettlerSound, RacesSettle, FundedIsSettled, Resting, WillSettle
<1>. QED
  BY <1>1, <1>2, Inductive, SettlerStep, PTL DEF Spec
=============================================================================
