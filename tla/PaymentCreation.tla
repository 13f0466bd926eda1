--------------------------- MODULE PaymentCreation ---------------------------
(***************************************************************************)
(* POST /payments for requests whose body is valid: the look-up and the    *)
(* reservation of the Idempotency-Key, the draw of an unused memo and the  *)
(* insertion of the intent.  Requests run concurrently, every SQLite       *)
(* statement is one atomic step, and a request may be dropped at any       *)
(* await: its statement fails, it times out or the process dies.           *)
(*                                                                         *)
(* A request is also the id it would mint: each draws its own UUID.  Keys  *)
(* stand for (merchant, Idempotency-Key) pairs.                            *)
(***************************************************************************)
EXTENDS Integers, FiniteSets

CONSTANTS
    Requests,    \* the requests, by the payment id they draw
    Keys,        \* (merchant_id, idempotency_key)
    NoKey,       \* a request without one
    NoId,        \* no payment id
    Memos,       \* memos that can be drawn
    NoMemo,      \* no row in payments
    WaitPolls,   \* polls of a request that lost the reservation
    MemoDraws,   \* draws of generate_unique_memo
    MaxPrunes    \* bound: keys removed by the retention worker

ASSUME CreationAssumption ==
    /\ NoKey \notin Keys /\ NoId \notin Requests /\ NoMemo \notin Memos
    /\ {WaitPolls, MemoDraws} \subseteq Nat \ {0} /\ MaxPrunes \in Nat

VARIABLES
    key,       \* the Idempotency-Key each request carries, if any
    keyed,     \* idempotency_keys: the payment id of each key
    memoOf,    \* payments: the memo of each id
    request,   \* the progress of each request
    answer,    \* what each request was answered
    history    \* keys whose mapping was deleted, requests that met another one

vars == <<key, keyed, memoOf, request, answer, history>>

Greatest(a, b) == IF a > b THEN a ELSE b

(* get_payment. *)
Exists(id) == id # NoId /\ memoOf[id] # NoMemo
MemoTaken(m) == \E id \in Requests : memoOf[id] = m

Fresh == [pc |-> "new", other |-> NoId, memo |-> NoMemo, count |-> 0]
NoAnswer == [code |-> "none", id |-> NoId]

Init ==
    /\ key \in [Requests -> Keys \cup {NoKey}]
    /\ keyed = [k \in Keys |-> NoId]
    /\ memoOf = [r \in Requests |-> NoMemo]
    /\ request = [r \in Requests |-> Fresh]
    /\ answer = [r \in Requests |-> NoAnswer]
    /\ history = [deleted |-> {}, met |-> {}, prunes |-> 0]

At(r, pc) == request[r].pc = pc
GoTo(r, pc) == request' = [request EXCEPT ![r].pc = pc]
Active(r) == request[r].pc \notin {"new", "done"}

Answer(r, code, id) ==
    /\ answer' = [answer EXCEPT ![r] = [code |-> code, id |-> id]]
    /\ GoTo(r, "done")

(* Requests with r's key that are under way when r starts. *)
Rivals(r) == {s \in Requests \ {r} : key[s] = key[r] /\ key[s] # NoKey /\ Active(s)}

-----------------------------------------------------------------------------

(* find_payment_id_by_idempotency_key. *)
LookUp(r) ==
    /\ At(r, "new")
    /\ \/ key[r] = NoKey /\ GoTo(r, "draw")
       \/ key[r] # NoKey /\ keyed[key[r]] = NoId /\ GoTo(r, "reserve")
       \/ /\ key[r] # NoKey /\ keyed[key[r]] # NoId
          /\ request' = [request EXCEPT ![r].pc = "replay", ![r].other = keyed[key[r]]]
    /\ history' = [history EXCEPT !.met = IF Rivals(r) = {} THEN @ ELSE @ \cup Rivals(r) \cup {r}]
    /\ UNCHANGED <<keyed, memoOf, answer>>

(* The mapped payment is returned; a mapping without one is taken to be    *)
(* left over by a crash.                                                   *)
Replay(r) ==
    /\ At(r, "replay")
    /\ \/ Exists(request[r].other) /\ Answer(r, "ok", request[r].other)
       \/ ~Exists(request[r].other) /\ GoTo(r, "forget") /\ UNCHANGED answer
    /\ UNCHANGED <<keyed, memoOf, history>>

(* DELETE FROM idempotency_keys: by key, whatever it maps to by now. *)
Forget(r) ==
    /\ At(r, "forget")
    /\ keyed' = [keyed EXCEPT ![key[r]] = NoId]
    /\ history' = [history EXCEPT !.deleted = @ \cup {key[r]}]
    /\ GoTo(r, "reserve")
    /\ UNCHANGED <<memoOf, answer>>

(* save_idempotency_key: INSERT ... ON CONFLICT DO NOTHING. *)
Reserve(r) ==
    /\ At(r, "reserve")
    /\ keyed' = IF keyed[key[r]] = NoId THEN [keyed EXCEPT ![key[r]] = r] ELSE keyed
    /\ GoTo(r, "reread")
    /\ UNCHANGED <<memoOf, answer, history>>

(* Mutant: the reservation is not checked. *)
RereadIgnored(r) ==
    /\ At(r, "reread")
    /\ GoTo(r, "draw")
    /\ UNCHANGED <<keyed, memoOf, answer, history>>

(* ... and its second read; a mapping gone by now counts as one's own. *)
Reread(r) ==
    /\ At(r, "reread")
    /\ \/ keyed[key[r]] \in {r, NoId} /\ GoTo(r, "draw")
       \/ /\ keyed[key[r]] \notin {r, NoId}
          /\ request' = [request EXCEPT ![r].pc = "wait", ![r].other = keyed[key[r]]]
    /\ UNCHANGED <<keyed, memoOf, answer, history>>

(* Mutant: no bound on the polls. *)
AwaitWinnerForever(r) ==
    /\ At(r, "wait") /\ Exists(request[r].other)
    /\ Answer(r, "ok", request[r].other)
    /\ UNCHANGED <<keyed, memoOf, history>>

(* The loser waits a bounded time for the winner's payment. *)
AwaitWinner(r) ==
    /\ At(r, "wait")
    /\ \/ Exists(request[r].other) /\ Answer(r, "ok", request[r].other)
       \/ /\ ~Exists(request[r].other) /\ request[r].count < WaitPolls - 1
          /\ request' = [request EXCEPT ![r].count = @ + 1]
          /\ UNCHANGED answer
       \/ /\ ~Exists(request[r].other) /\ request[r].count = WaitPolls - 1
          /\ Answer(r, "conflict", NoId)
    /\ UNCHANGED <<keyed, memoOf, history>>

(* generate_unique_memo: a taken memo is drawn again, a few times. *)
DrawMemo(r) ==
    /\ At(r, "draw")
    /\ \E m \in Memos :
          \/ /\ ~MemoTaken(m)
             /\ request' = [request EXCEPT ![r].pc = "mint", ![r].memo = m]
             /\ UNCHANGED answer
          \/ /\ MemoTaken(m) /\ request[r].count < MemoDraws - 1
             /\ request' = [request EXCEPT ![r].count = @ + 1]
             /\ UNCHANGED answer
          \/ /\ MemoTaken(m) /\ request[r].count = MemoDraws - 1
             /\ Answer(r, "no memo", NoId)
    /\ UNCHANGED <<keyed, memoOf, history>>

(* Mutant: no UNIQUE index on memo. *)
MintUnchecked(r) ==
    /\ At(r, "mint")
    /\ memoOf' = [memoOf EXCEPT ![r] = request[r].memo]
    /\ Answer(r, "created", r)
    /\ UNCHANGED <<keyed, history>>

(* create_payment; the UNIQUE index on memo may still refuse the row. *)
Mint(r) ==
    LET m == request[r].memo
    IN /\ At(r, "mint")
       /\ \/ /\ ~MemoTaken(m)
             /\ memoOf' = [memoOf EXCEPT ![r] = m]
             /\ Answer(r, "created", r)
          \/ /\ MemoTaken(m)
             /\ Answer(r, "no memo", NoId)
             /\ UNCHANGED memoOf
       /\ UNCHANGED <<keyed, history>>

(* A failing statement, the request timeout, a client that went away. *)
Drop(r) ==
    /\ Active(r)
    /\ Answer(r, "dropped", NoId)
    /\ UNCHANGED <<key, keyed, memoOf, history>>

(* The process dies under all of them. *)
Crash ==
    /\ \E r \in Requests : Active(r)
    /\ request' = [r \in Requests |-> IF Active(r) THEN [request[r] EXCEPT !.pc = "done"]
                                                   ELSE request[r]]
    /\ answer' = [r \in Requests |-> IF Active(r) THEN [code |-> "dropped", id |-> NoId]
                                                  ELSE answer[r]]
    /\ UNCHANGED <<key, keyed, memoOf, history>>

(* prune_idempotency_keys: a key is days old, no request spans that.       *)
PruneKey(k) ==
    /\ keyed[k] # NoId /\ history.prunes < MaxPrunes
    /\ \A r \in Requests : key[r] = k => ~Active(r)
    /\ keyed' = [keyed EXCEPT ![k] = NoId]
    /\ history' = [history EXCEPT !.deleted = @ \cup {k}, !.prunes = @ + 1]
    /\ UNCHANGED <<key, memoOf, request, answer>>

-----------------------------------------------------------------------------

Step(r) ==
    /\ \/ LookUp(r) \/ Replay(r) \/ Forget(r) \/ Reserve(r) \/ Reread(r)
       \/ AwaitWinner(r) \/ DrawMemo(r) \/ Mint(r)
    /\ UNCHANGED key

Served == \A r \in Requests : request[r].pc = "done"

(* Every request has been served; clients may still come back. *)
AllServed == Served /\ UNCHANGED vars

Next ==
    \/ \E r \in Requests : Step(r) \/ Drop(r)
    \/ \E k \in Keys : PruneKey(k)
    \/ Crash \/ AllServed

Spec == Init /\ [][Next]_vars

(* The runtime polls every live request. *)
FairSpec == Spec /\ \A r \in Requests : WF_vars(Active(r) /\ Step(r))

-----------------------------------------------------------------------------
(* Properties. *)

(* Types of every variable. *)
TypeOK ==
    /\ key \in [Requests -> Keys \cup {NoKey}]
    /\ keyed \in [Keys -> Requests \cup {NoId}]
    /\ memoOf \in [Requests -> Memos \cup {NoMemo}]
    /\ request \in [Requests ->
          [pc : {"new", "replay", "forget", "reserve", "reread", "wait", "draw",
                 "mint", "done"},
           other : Requests \cup {NoId}, memo : Memos \cup {NoMemo},
           count : 0 .. (Greatest(WaitPolls, MemoDraws) - 1)]]
    /\ answer \in [Requests ->
          [code : {"none", "ok", "created", "conflict", "no memo", "dropped"},
           id : Requests \cup {NoId}]]
    /\ history \in [deleted : SUBSET Keys, met : SUBSET Requests, prunes : Nat]

SameKey(r, s) == key[r] = key[s] /\ key[r] # NoKey

(* The memo settlement matches payments by is unique, although two         *)
(* requests may both have found the same memo unused.                      *)
MemosDistinct == \A r, s \in Requests : Exists(r) /\ memoOf[r] = memoOf[s] => r = s

(* As long as no mapping was deleted the primary key serialises the        *)
(* creates: one intent per key, and everybody is answered with that one.   *)
SerialisedByKey ==
    \A r, s \in Requests : SameKey(r, s) /\ key[r] \notin history.deleted =>
       /\ Exists(r) /\ Exists(s) => r = s
       /\ answer[r].id # NoId /\ answer[s].id # NoId => answer[r].id = answer[s].id

(* A key is not wedged by a request that died between reserving it and     *)
(* minting: a later request that meets no other one gets an intent, unless *)
(* it is dropped itself or draws no memo.                                  *)
LoneRequestSucceeds ==
    \A r \in Requests : At(r, "done") /\ r \notin history.met =>
       answer[r].code \in {"ok", "created", "dropped", "no memo"}

(* An answer names an intent that exists and was created under this key.   *)
AnswerIsReal ==
    \A r \in Requests : answer[r].id # NoId =>
       Exists(answer[r].id) /\ (answer[r].id = r \/ SameKey(r, answer[r].id))

(* The types, unique memos, real answers and no wedged key. *)
CreationInv == TypeOK /\ MemosDistinct /\ AnswerIsReal /\ LoneRequestSucceeds

(* Nobody waits for ever: losers stop waiting for a winner that died.      *)
EveryRequestAnswered == \A r \in Requests : Active(r) ~> At(r, "done")
=============================================================================
