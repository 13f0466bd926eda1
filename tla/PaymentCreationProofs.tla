------------------------ MODULE PaymentCreationProofs ------------------------
(***************************************************************************)
(* Theorems about PaymentCreation, for any requests, keys, memos, numbers  *)
(* of polls and draws, and any number of crashes.                          *)
(***************************************************************************)
EXTENDS PaymentCreation, TLAPS

-----------------------------------------------------------------------------
(* The inductive invariant. *)

(* The places of a request that carries a key and has not reserved it yet. *)
ByKey == {"replay", "forget", "reserve", "reread", "wait"}

(* What a request holds between its statements: the payment it would       *)
(* return was mapped under its own key, the memo it would insert is one.   *)
Holds(r) ==
    /\ request[r].pc \in ByKey => key[r] # NoKey
    /\ request[r].pc \in {"replay", "wait"} =>
          request[r].other \in Requests /\ key[request[r].other] = key[r]
    /\ request[r].pc = "mint" => request[r].memo \in Memos
    /\ request[r].pc = "done" => answer[r].code # "none"
    /\ answer[r].code = "conflict" => r \in history.met

(* A key is mapped to a request that carries it. *)
KeyedSound == \A k \in Keys : keyed[k] # NoId => key[keyed[k]] = k

(* A request that has met no other with its key has the mapping to itself: *)
(* it finds the key free when it reserves it, and its own afterwards.      *)
Alone(r) ==
    Active(r) /\ key[r] # NoKey /\ r \notin history.met =>
       /\ \A s \in Requests \ {r} : key[s] = key[r] => ~Active(s)
       /\ request[r].pc = "reserve" => keyed[key[r]] = NoId
       /\ request[r].pc = "reread" => keyed[key[r]] = r
       /\ request[r].pc # "wait"

(* While the mapping of a key was never deleted, it is what every request  *)
(* with that key goes by.                                                  *)
Serialised(r) ==
    key[r] # NoKey /\ key[r] \notin history.deleted =>
       /\ request[r].pc = "reread" => keyed[key[r]] # NoId
       /\ request[r].pc \in {"replay", "wait"} => keyed[key[r]] = request[r].other
       /\ request[r].pc \in {"draw", "mint"} => keyed[key[r]] = r
       /\ Exists(r) => keyed[key[r]] = r
       /\ answer[r].id # NoId => keyed[key[r]] = answer[r].id

(* AnswerIsReal, of one request. *)
Answered(r) ==
    answer[r].id # NoId =>
       Exists(answer[r].id) /\ (answer[r].id = r \/ SameKey(r, answer[r].id))

CreationInd ==
    /\ TypeOK /\ MemosDistinct /\ KeyedSound
    /\ \A r \in Requests : Answered(r) /\ Holds(r) /\ Alone(r) /\ Serialised(r)

(* The invariant contains what the runs check. *)
LEMMA CreationIndImplies == CreationInd => CreationInv /\ SerialisedByKey
<1>. SUFFICES ASSUME CreationInd PROVE CreationInv /\ SerialisedByKey
  OBVIOUS
<1>1. LoneRequestSucceeds
  BY DEF CreationInd, Holds, LoneRequestSucceeds, At, TypeOK
<1>2. SerialisedByKey
  BY DEF CreationInd, Serialised, SerialisedByKey, SameKey
<1>. QED
  BY <1>1, <1>2 DEF CreationInd, CreationInv, AnswerIsReal, Answered

(* Nobody has asked for anything. *)
LEMMA CreationInit == Init => CreationInd
<1>. SUFFICES ASSUME Init PROVE CreationInd
  OBVIOUS
<1>1. TypeOK
  BY CreationAssumption DEF Init, TypeOK, Fresh, NoAnswer, Greatest
<1>2. \A r \in Requests : /\ request[r].pc = "new" /\ memoOf[r] = NoMemo
                          /\ answer[r].id = NoId /\ answer[r].code = "none"
  BY DEF Init, Fresh, NoAnswer
<1>3. \A k \in Keys : keyed[k] = NoId
  BY DEF Init
<1>. QED
  BY <1>1, <1>2, <1>3
     DEF CreationInd, MemosDistinct, Answered, Holds, KeyedSound, Alone, Serialised,
         Exists, Active, ByKey

-----------------------------------------------------------------------------
(* What an action does to the requests and the answers, field by field. *)

Places == {"new", "replay", "forget", "reserve", "reread", "wait", "draw", "mint", "done"}
RequestState ==
    [pc : Places, other : Requests \cup {NoId}, memo : Memos \cup {NoMemo},
     count : 0 .. (Greatest(WaitPolls, MemoDraws) - 1)]
AnswerState ==
    [code : {"none", "ok", "created", "conflict", "no memo", "dropped"},
     id : Requests \cup {NoId}]

(* Request r goes to pc, with these values; the others stay. *)
Moves(r, pc, other, memo, count) ==
    /\ request' \in [Requests -> RequestState]
    /\ request'[r].pc = pc /\ request'[r].other = other
    /\ request'[r].memo = memo /\ request'[r].count = count
    /\ \A s \in Requests \ {r} : request'[s] = request[s]

Answers(r, code, id) ==
    /\ answer' \in [Requests -> AnswerState]
    /\ answer'[r].code = code /\ answer'[r].id = id
    /\ \A s \in Requests \ {r} : answer'[s] = answer[s]

(* The assignments of the actions are such moves. *)
LEMMA Moving ==
    ASSUME request \in [Requests -> RequestState], NEW r \in Requests, NEW pc \in Places,
           NEW other \in Requests \cup {NoId}, NEW memo \in Memos \cup {NoMemo},
           NEW count \in 0 .. (Greatest(WaitPolls, MemoDraws) - 1)
    PROVE  /\ request' = [request EXCEPT ![r].pc = pc] =>
                Moves(r, pc, request[r].other, request[r].memo, request[r].count)
           /\ request' = [request EXCEPT ![r].pc = pc, ![r].other = other] =>
                Moves(r, pc, other, request[r].memo, request[r].count)
           /\ request' = [request EXCEPT ![r].pc = pc, ![r].memo = memo] =>
                Moves(r, pc, request[r].other, memo, request[r].count)
           /\ request' = [request EXCEPT ![r].count = count] =>
                Moves(r, request[r].pc, request[r].other, request[r].memo, count)
<1>1. request[r] \in RequestState
  OBVIOUS
<1>2. ASSUME NEW new \in RequestState, request' = [request EXCEPT ![r] = new]
      PROVE  Moves(r, new.pc, new.other, new.memo, new.count)
  BY <1>2 DEF Moves
<1>3. /\ [request[r] EXCEPT !.pc = pc] \in RequestState
      /\ [request[r] EXCEPT !.pc = pc, !.other = other] \in RequestState
      /\ [request[r] EXCEPT !.pc = pc, !.memo = memo] \in RequestState
      /\ [request[r] EXCEPT !.count = count] \in RequestState
  BY <1>1 DEF RequestState
<1>4. request' = [request EXCEPT ![r].pc = pc] =>
        Moves(r, pc, request[r].other, request[r].memo, request[r].count)
  BY <1>1, <1>2, <1>3 DEF RequestState
<1>5. request' = [request EXCEPT ![r].pc = pc, ![r].other = other] =>
        Moves(r, pc, other, request[r].memo, request[r].count)
  BY <1>1, <1>2, <1>3 DEF RequestState
<1>6. request' = [request EXCEPT ![r].pc = pc, ![r].memo = memo] =>
        Moves(r, pc, request[r].other, memo, request[r].count)
  BY <1>1, <1>2, <1>3 DEF RequestState
<1>7. request' = [request EXCEPT ![r].count = count] =>
        Moves(r, request[r].pc, request[r].other, request[r].memo, count)
  BY <1>1, <1>2, <1>3 DEF RequestState
<1>. QED
  BY <1>4, <1>5, <1>6, <1>7

(* The type invariant in these terms. *)
LEMMA CreationTypes ==
    /\ TypeOK <=> /\ key \in [Requests -> Keys \cup {NoKey}]
                  /\ keyed \in [Keys -> Requests \cup {NoId}]
                  /\ memoOf \in [Requests -> Memos \cup {NoMemo}]
                  /\ request \in [Requests -> RequestState]
                  /\ answer \in [Requests -> AnswerState]
                  /\ history \in [deleted : SUBSET Keys, met : SUBSET Requests, prunes : Nat]
    /\ TypeOK' <=> /\ key' \in [Requests -> Keys \cup {NoKey}]
                   /\ keyed' \in [Keys -> Requests \cup {NoId}]
                   /\ memoOf' \in [Requests -> Memos \cup {NoMemo}]
                   /\ request' \in [Requests -> RequestState]
                   /\ answer' \in [Requests -> AnswerState]
                   /\ history' \in [deleted : SUBSET Keys, met : SUBSET Requests, prunes : Nat]
  BY DEF TypeOK, RequestState, AnswerState, Places

(* A request that is answered. *)
LEMMA Answering ==
    ASSUME TypeOK, NEW r \in Requests,
           NEW code \in {"ok", "created", "conflict", "no memo", "dropped"},
           NEW id \in Requests \cup {NoId}, Answer(r, code, id)
    PROVE  /\ Answers(r, code, id)
           /\ Moves(r, "done", request[r].other, request[r].memo, request[r].count)
<1>1. answer \in [Requests -> AnswerState] /\ request \in [Requests -> RequestState]
  BY CreationTypes
<1>2. [code |-> code, id |-> id] \in AnswerState
  BY DEF AnswerState
<1>3. Answers(r, code, id)
  BY <1>1, <1>2 DEF Answer, Answers
<1>4. /\ request[r].other \in Requests \cup {NoId} /\ request[r].memo \in Memos \cup {NoMemo}
      /\ request[r].count \in 0 .. (Greatest(WaitPolls, MemoDraws) - 1) /\ "done" \in Places
  BY <1>1 DEF RequestState, Places
<1>5. Moves(r, "done", request[r].other, request[r].memo, request[r].count)
  BY <1>1, <1>4, Moving DEF Answer, GoTo
<1>. QED
  BY <1>3, <1>5

(* A request that goes on to pc, holding what it held. *)
Goes(r, pc) == Moves(r, pc, request[r].other, request[r].memo, request[r].count)

(* GoTo keeps what the request holds. *)
LEMMA Going ==
    ASSUME TypeOK, NEW r \in Requests, NEW pc \in Places, GoTo(r, pc)
    PROVE  Goes(r, pc)
<1>1. request \in [Requests -> RequestState]
  BY CreationTypes
<1>2. /\ request[r].other \in Requests \cup {NoId} /\ request[r].memo \in Memos \cup {NoMemo}
      /\ request[r].count \in 0 .. (Greatest(WaitPolls, MemoDraws) - 1)
  BY <1>1 DEF RequestState
<1>. QED
  BY <1>1, <1>2, Moving DEF GoTo, Goes

(* ... or taking on the payment its key is mapped to. *)
LEMMA TakingOther ==
    ASSUME TypeOK, NEW r \in Requests, NEW pc \in Places, NEW other \in Requests \cup {NoId},
           request' = [request EXCEPT ![r].pc = pc, ![r].other = other]
    PROVE  Moves(r, pc, other, request[r].memo, request[r].count)
<1>1. request \in [Requests -> RequestState]
  BY CreationTypes
<1>2. /\ request[r].memo \in Memos \cup {NoMemo}
      /\ request[r].count \in 0 .. (Greatest(WaitPolls, MemoDraws) - 1)
  BY <1>1 DEF RequestState
<1>. QED
  BY <1>1, <1>2, Moving

(* The history of a step: what was deleted, who met whom. *)
HistoryTyped == history' \in [deleted : SUBSET Keys, met : SUBSET Requests, prunes : Nat]

-----------------------------------------------------------------------------
(* The effect of each action. *)

(* LookUp reads the mapping and notes the rivals. *)
LEMMA LookUpEffect ==
    ASSUME TypeOK, NEW r \in Requests, LookUp(r)
    PROVE  /\ request[r].pc = "new" /\ UNCHANGED <<keyed, memoOf, answer>>
           /\ \/ key[r] = NoKey /\ Goes(r, "draw")
              \/ key[r] # NoKey /\ keyed[key[r]] = NoId /\ Goes(r, "reserve")
              \/ /\ key[r] # NoKey /\ keyed[key[r]] \in Requests
                 /\ Moves(r, "replay", keyed[key[r]], request[r].memo, request[r].count)
           /\ HistoryTyped /\ history'.deleted = history.deleted
           /\ history'.met = IF Rivals(r) = {} THEN history.met
                             ELSE history.met \cup Rivals(r) \cup {r}
<1>0. {"draw", "reserve", "replay"} \subseteq Places
  BY DEF Places
<1>1. key[r] # NoKey => keyed[key[r]] \in Requests \cup {NoId}
  BY DEF TypeOK
<1>2. \/ key[r] = NoKey /\ Goes(r, "draw")
      \/ key[r] # NoKey /\ keyed[key[r]] = NoId /\ Goes(r, "reserve")
      \/ /\ key[r] # NoKey /\ keyed[key[r]] \in Requests
         /\ Moves(r, "replay", keyed[key[r]], request[r].memo, request[r].count)
  BY <1>0, <1>1, Going, TakingOther DEF LookUp
<1>3. /\ HistoryTyped /\ history'.deleted = history.deleted
      /\ history'.met = IF Rivals(r) = {} THEN history.met
                        ELSE history.met \cup Rivals(r) \cup {r}
  BY DEF LookUp, TypeOK, HistoryTyped, Rivals
<1>. QED
  BY <1>2, <1>3 DEF LookUp, At

(* Replay answers with the mapped payment, or gives the mapping up. *)
LEMMA ReplayEffect ==
    ASSUME TypeOK, NEW r \in Requests, Replay(r)
    PROVE  /\ request[r].pc = "replay" /\ UNCHANGED <<keyed, memoOf, history>>
           /\ \/ /\ Exists(request[r].other) /\ request[r].other \in Requests
                 /\ Answers(r, "ok", request[r].other) /\ Goes(r, "done")
              \/ ~Exists(request[r].other) /\ Goes(r, "forget") /\ answer' = answer
<1>1. request[r].other \in Requests \cup {NoId} /\ "forget" \in Places
  BY DEF TypeOK, Places
<1>. QED
  BY <1>1, Going, Answering DEF Replay, At, Exists, Goes

(* Forget frees the key. *)
LEMMA ForgetEffect ==
    ASSUME TypeOK, NEW r \in Requests, Forget(r), key[r] # NoKey
    PROVE  /\ request[r].pc = "forget" /\ UNCHANGED <<memoOf, answer>>
           /\ keyed' \in [Keys -> Requests \cup {NoId}] /\ keyed'[key[r]] = NoId
           /\ \A k \in Keys \ {key[r]} : keyed'[k] = keyed[k]
           /\ HistoryTyped /\ history'.met = history.met
           /\ history'.deleted = history.deleted \cup {key[r]}
           /\ Goes(r, "reserve")
<1>1. key[r] \in Keys /\ "reserve" \in Places
  BY DEF TypeOK, Places
<1>2. /\ HistoryTyped /\ history'.met = history.met
      /\ history'.deleted = history.deleted \cup {key[r]}
  BY <1>1 DEF Forget, TypeOK, HistoryTyped
<1>3. /\ keyed' \in [Keys -> Requests \cup {NoId}] /\ keyed'[key[r]] = NoId
      /\ \A k \in Keys \ {key[r]} : keyed'[k] = keyed[k]
  BY <1>1 DEF Forget, TypeOK
<1>. QED
  BY <1>1, <1>2, <1>3, Going DEF Forget, At

(* Reserve takes the key if it is free. *)
LEMMA ReserveEffect ==
    ASSUME TypeOK, NEW r \in Requests, Reserve(r), key[r] # NoKey
    PROVE  /\ request[r].pc = "reserve" /\ UNCHANGED <<memoOf, answer, history>>
           /\ keyed' \in [Keys -> Requests \cup {NoId}]
           /\ keyed'[key[r]] = IF keyed[key[r]] = NoId THEN r ELSE keyed[key[r]]
           /\ \A k \in Keys \ {key[r]} : keyed'[k] = keyed[k]
           /\ Goes(r, "reread")
<1>1. key[r] \in Keys /\ "reread" \in Places
  BY DEF TypeOK, Places
<1>2. /\ keyed' \in [Keys -> Requests \cup {NoId}]
      /\ keyed'[key[r]] = IF keyed[key[r]] = NoId THEN r ELSE keyed[key[r]]
      /\ \A k \in Keys \ {key[r]} : keyed'[k] = keyed[k]
  BY <1>1 DEF Reserve, TypeOK
<1>. QED
  BY <1>1, <1>2, Going DEF Reserve, At

(* Reread goes on with a key of its own, or waits for its holder. *)
LEMMA RereadEffect ==
    ASSUME TypeOK, NEW r \in Requests, Reread(r), key[r] # NoKey
    PROVE  /\ request[r].pc = "reread" /\ UNCHANGED <<keyed, memoOf, answer, history>>
           /\ \/ keyed[key[r]] \in {r, NoId} /\ Goes(r, "draw")
              \/ /\ keyed[key[r]] \in Requests \ {r}
                 /\ Moves(r, "wait", keyed[key[r]], request[r].memo, request[r].count)
<1>1. keyed[key[r]] \in Requests \cup {NoId} /\ {"draw", "wait"} \subseteq Places
  BY DEF TypeOK, Places
<1>. QED
  BY <1>1, Going, TakingOther DEF Reread, At

(* AwaitWinner answers with the payment, polls again or gives up. *)
LEMMA AwaitEffect ==
    ASSUME TypeOK, NEW r \in Requests, AwaitWinner(r)
    PROVE  /\ request[r].pc = "wait" /\ UNCHANGED <<keyed, memoOf, history>>
           /\ \/ /\ Exists(request[r].other) /\ request[r].other \in Requests
                 /\ Answers(r, "ok", request[r].other) /\ Goes(r, "done")
              \/ /\ \E n \in Nat : Moves(r, "wait", request[r].other, request[r].memo, n)
                 /\ answer' = answer
              \/ Answers(r, "conflict", NoId) /\ Goes(r, "done")
<1>1. /\ request[r] \in RequestState /\ request \in [Requests -> RequestState]
      /\ request[r].other \in Requests \cup {NoId} /\ request[r].count \in Nat
      /\ request[r].memo \in Memos \cup {NoMemo}
  BY CreationTypes DEF RequestState
<1>2. CASE /\ request[r].count < WaitPolls - 1
           /\ request' = [request EXCEPT ![r].count = @ + 1] /\ answer' = answer
  <2>1. request[r].count + 1 \in 0 .. (Greatest(WaitPolls, MemoDraws) - 1)
    BY <1>1, <1>2, CreationAssumption DEF Greatest
  <2>2. request[r].pc = "wait" /\ "wait" \in Places
    BY DEF AwaitWinner, At, Places
  <2>3. Moves(r, "wait", request[r].other, request[r].memo, request[r].count + 1)
    BY <1>1, <1>2, <2>1, <2>2, Moving
  <2>4. \E n \in Nat : Moves(r, "wait", request[r].other, request[r].memo, n)
    BY <1>1, <2>3
  <2>. QED
    BY <1>2, <2>4 DEF AwaitWinner, At
<1>3. CASE Exists(request[r].other) /\ Answer(r, "ok", request[r].other)
  <2>1. request[r].other \in Requests
    BY <1>1, <1>3 DEF Exists
  <2>2. Answers(r, "ok", request[r].other) /\ Goes(r, "done")
    BY <1>3, <2>1, Answering DEF Goes
  <2>. QED
    BY <1>3, <2>1, <2>2 DEF AwaitWinner, At
<1>4. CASE Answer(r, "conflict", NoId)
  <2>1. Answers(r, "conflict", NoId) /\ Goes(r, "done")
    BY <1>4, Answering DEF Goes
  <2>. QED
    BY <2>1 DEF AwaitWinner, At
<1>. QED
  BY <1>2, <1>3, <1>4 DEF AwaitWinner, At

(* DrawMemo draws an unused memo, draws again or gives up. *)
LEMMA DrawEffect ==
    ASSUME TypeOK, NEW r \in Requests, DrawMemo(r)
    PROVE  /\ request[r].pc = "draw" /\ UNCHANGED <<keyed, memoOf, history>>
           /\ \/ \E m \in Memos : /\ ~MemoTaken(m) /\ answer' = answer
                                  /\ Moves(r, "mint", request[r].other, m, request[r].count)
              \/ /\ \E n \in Nat : Moves(r, "draw", request[r].other, request[r].memo, n)
                 /\ answer' = answer
              \/ Answers(r, "no memo", NoId) /\ Goes(r, "done")
<1>1. /\ request[r] \in RequestState /\ request \in [Requests -> RequestState]
      /\ request[r].other \in Requests \cup {NoId} /\ request[r].count \in Nat
      /\ request[r].memo \in Memos \cup {NoMemo} /\ {"mint", "draw"} \subseteq Places
      /\ request[r].count \in 0 .. (Greatest(WaitPolls, MemoDraws) - 1)
  BY CreationTypes DEF RequestState, Places
<1>2. PICK m \in Memos :
          \/ /\ ~MemoTaken(m)
             /\ request' = [request EXCEPT ![r].pc = "mint", ![r].memo = m]
             /\ UNCHANGED answer
          \/ /\ MemoTaken(m) /\ request[r].count < MemoDraws - 1
             /\ request' = [request EXCEPT ![r].count = @ + 1]
             /\ UNCHANGED answer
          \/ /\ MemoTaken(m) /\ request[r].count = MemoDraws - 1
             /\ Answer(r, "no memo", NoId)
  BY DEF DrawMemo
<1>3. CASE ~MemoTaken(m) /\ request' = [request EXCEPT ![r].pc = "mint", ![r].memo = m]
             /\ UNCHANGED answer
  <2>1. Moves(r, "mint", request[r].other, m, request[r].count)
    BY <1>1, <1>3, Moving
  <2>. QED
    BY <1>3, <2>1 DEF DrawMemo, At
<1>4. CASE request[r].count < MemoDraws - 1 /\ request' = [request EXCEPT ![r].count = @ + 1]
             /\ UNCHANGED answer
  <2>1. request[r].count + 1 \in 0 .. (Greatest(WaitPolls, MemoDraws) - 1)
    BY <1>1, <1>4, CreationAssumption DEF Greatest
  <2>2. Moves(r, request[r].pc, request[r].other, request[r].memo, request[r].count + 1)
    BY <1>1, <1>4, <2>1, Moving
  <2>3. \E n \in Nat : Moves(r, request[r].pc, request[r].other, request[r].memo, n)
    BY <1>1, <2>2
  <2>. QED
    BY <1>4, <2>3 DEF DrawMemo, At
<1>5. CASE Answer(r, "no memo", NoId)
  <2>1. Answers(r, "no memo", NoId) /\ Goes(r, "done")
    BY <1>5, Answering DEF Goes
  <2>. QED
    BY <2>1 DEF DrawMemo, At
<1>. QED
  BY <1>2, <1>3, <1>4, <1>5

(* Mint inserts the payment unless the memo was taken meanwhile. *)
LEMMA MintEffect ==
    ASSUME TypeOK, NEW r \in Requests, Mint(r), request[r].memo \in Memos
    PROVE  /\ request[r].pc = "mint" /\ UNCHANGED <<keyed, history>> /\ Goes(r, "done")
           /\ \/ /\ ~MemoTaken(request[r].memo) /\ Answers(r, "created", r)
                 /\ memoOf' \in [Requests -> Memos \cup {NoMemo}]
                 /\ memoOf'[r] = request[r].memo
                 /\ \A s \in Requests \ {r} : memoOf'[s] = memoOf[s]
              \/ memoOf' = memoOf /\ Answers(r, "no memo", NoId)
<1>1. CASE ~MemoTaken(request[r].memo) /\ Answer(r, "created", r)
             /\ memoOf' = [memoOf EXCEPT ![r] = request[r].memo]
  <2>1. /\ memoOf' \in [Requests -> Memos \cup {NoMemo}]
        /\ memoOf'[r] = request[r].memo
        /\ \A s \in Requests \ {r} : memoOf'[s] = memoOf[s]
    BY <1>1 DEF TypeOK
  <2>. QED
    BY <1>1, <2>1, Answering DEF Mint, At, Goes
<1>. QED
  BY <1>1, Answering DEF Mint, At, Goes

(* Drop ends one request. *)
LEMMA DropEffect ==
    ASSUME TypeOK, NEW r \in Requests, Drop(r)
    PROVE  /\ Active(r) /\ UNCHANGED <<key, keyed, memoOf, history>>
           /\ Answers(r, "dropped", NoId) /\ Goes(r, "done")
  BY Answering DEF Drop, Goes

(* Crash ends every request under way. *)
LEMMA CrashEffect ==
    ASSUME TypeOK, Crash
    PROVE  /\ UNCHANGED <<key, keyed, memoOf, history>>
           /\ request' \in [Requests -> RequestState] /\ answer' \in [Requests -> AnswerState]
           /\ \A r \in Requests :
                 \/ ~Active(r) /\ request'[r] = request[r] /\ answer'[r] = answer[r]
                 \/ /\ Active(r) /\ request'[r].pc = "done"
                    /\ answer'[r].code = "dropped" /\ answer'[r].id = NoId
<1>0. request \in [Requests -> RequestState] /\ answer \in [Requests -> AnswerState]
  BY CreationTypes
<1>1. ASSUME NEW r \in Requests
      PROVE  /\ [request[r] EXCEPT !.pc = "done"] \in RequestState
             /\ [request[r] EXCEPT !.pc = "done"].pc = "done"
             /\ [code |-> "dropped", id |-> NoId] \in AnswerState
  BY <1>0 DEF RequestState, AnswerState, Places
<1>2. request' \in [Requests -> RequestState]
  BY <1>0, <1>1 DEF Crash
<1>3. answer' \in [Requests -> AnswerState]
  BY <1>0, <1>1 DEF Crash
<1>4. ASSUME NEW r \in Requests
      PROVE  \/ ~Active(r) /\ request'[r] = request[r] /\ answer'[r] = answer[r]
             \/ /\ Active(r) /\ request'[r].pc = "done"
                /\ answer'[r].code = "dropped" /\ answer'[r].id = NoId
  <2>1. CASE Active(r)
    BY <1>1, <2>1 DEF Crash
  <2>2. CASE ~Active(r)
    BY <2>2 DEF Crash
  <2>. QED
    BY <2>1, <2>2
<1>. QED
  BY <1>2, <1>3, <1>4 DEF Crash

(* PruneKey frees a key nobody uses. *)
LEMMA PruneEffect ==
    ASSUME TypeOK, NEW k \in Keys, PruneKey(k)
    PROVE  /\ UNCHANGED <<key, memoOf, request, answer>>
           /\ \A r \in Requests : key[r] = k => ~Active(r)
           /\ keyed' \in [Keys -> Requests \cup {NoId}] /\ keyed'[k] = NoId
           /\ \A j \in Keys \ {k} : keyed'[j] = keyed[j]
           /\ HistoryTyped /\ history'.met = history.met
           /\ history'.deleted = history.deleted \cup {k}
<1>0. /\ history \in [deleted : SUBSET Keys, met : SUBSET Requests, prunes : Nat]
      /\ history' = [history EXCEPT !.deleted = @ \cup {k}, !.prunes = @ + 1]
  BY DEF PruneKey, TypeOK
<1>1. /\ HistoryTyped /\ history'.met = history.met
      /\ history'.deleted = history.deleted \cup {k}
  <2>1. history.prunes + 1 \in Nat /\ history.deleted \cup {k} \in SUBSET Keys
    BY <1>0
  <2>2. ASSUME NEW d \in SUBSET Keys, NEW n \in Nat,
               history' = [history EXCEPT !.deleted = d, !.prunes = n]
        PROVE  HistoryTyped /\ history'.met = history.met /\ history'.deleted = d
    BY <1>0, <2>2 DEF HistoryTyped
  <2>. QED
    BY <1>0, <2>1, <2>2
<1>. QED
  BY <1>1 DEF PruneKey, TypeOK

-----------------------------------------------------------------------------
(* Every step keeps the invariant. *)

(* What a step never does, whichever it is: change the key of a request,   *)
(* take a payment away, forget that a mapping was deleted or who met.      *)
Onward ==
    /\ key' = key
    /\ \A r \in Requests : memoOf[r] # NoMemo => memoOf'[r] # NoMemo
    /\ history.deleted \subseteq history'.deleted /\ history.met \subseteq history'.met

(* A request that a step leaves alone keeps what it relies on, if the      *)
(* mapping of its key stays, it mints nothing and nobody with its key      *)
(* starts without meeting it.                                              *)
LEMMA Bystander ==
    ASSUME CreationInd, Onward, NEW s \in Requests,
           request'[s] = request[s], answer'[s] = answer[s], memoOf'[s] = memoOf[s],
           key[s] # NoKey => keyed'[key[s]] = keyed[key[s]],
           \A t \in Requests \ {s} :
              key[t] = key[s] /\ Active(t)' /\ ~Active(t) => s \in history'.met \/ ~Active(s)
    PROVE  Answered(s)' /\ Holds(s)' /\ Alone(s)' /\ Serialised(s)'
<1>0. Answered(s) /\ Holds(s) /\ Alone(s) /\ Serialised(s) /\ TypeOK
  BY DEF CreationInd
<1>1. Answered(s)'
  BY <1>0 DEF Answered, Onward, Exists, SameKey, TypeOK
<1>2. Holds(s)'
  BY <1>0 DEF Holds, Onward
<1>3. Alone(s)'
  BY <1>0 DEF Alone, Onward, Active
<1>4. Serialised(s)'
  BY <1>0 DEF Serialised, Onward, Exists
<1>. QED
  BY <1>1, <1>2, <1>3, <1>4

(* A step of one request under way that writes neither table. *)
LEMMA Private ==
    ASSUME CreationInd, NEW r \in Requests, Active(r),
           UNCHANGED <<key, keyed, memoOf, history>>,
           request' \in [Requests -> RequestState], answer' \in [Requests -> AnswerState],
           \A s \in Requests \ {r} : request'[s] = request[s] /\ answer'[s] = answer[s],
           Answered(r)' /\ Holds(r)' /\ Alone(r)' /\ Serialised(r)'
    PROVE  CreationInd'
<1>1. TypeOK'
  BY CreationTypes DEF CreationInd
<1>2. MemosDistinct' /\ KeyedSound'
  BY DEF CreationInd, MemosDistinct, KeyedSound, Exists
<1>3. Onward
  BY DEF Onward
<1>4. ASSUME NEW s \in Requests \ {r}
      PROVE  Answered(s)' /\ Holds(s)' /\ Alone(s)' /\ Serialised(s)'
  <2>1. \A t \in Requests : Active(t)' => Active(t)
    BY DEF Active
  <2>. QED
    BY <1>3, <2>1, Bystander
<1>. QED
  BY <1>1, <1>2, <1>4 DEF CreationInd

(* The same step, when it ends the request with an answer. *)
LEMMA Ending ==
    ASSUME CreationInd, NEW r \in Requests, Active(r),
           UNCHANGED <<key, keyed, memoOf, history>>, Goes(r, "done"),
           NEW code \in {"ok", "conflict", "no memo", "dropped"},
           NEW id \in Requests \cup {NoId}, Answers(r, code, id),
           code = "conflict" => r \in history.met,
           id # NoId => /\ Exists(id) /\ SameKey(r, id)
                        /\ key[r] \notin history.deleted => keyed[key[r]] = id
    PROVE  CreationInd'
<1>1. Answered(r)'
  BY DEF Answered, Answers, Exists, SameKey
<1>2. Holds(r)'
  BY DEF Holds, Answers, Goes, Moves, ByKey
<1>3. Alone(r)'
  BY DEF Alone, Goes, Moves, Active
<1>4. Serialised(r)'
  BY DEF CreationInd, Serialised, Goes, Moves, Answers, Exists
<1>. QED
  BY <1>1, <1>2, <1>3, <1>4, Private DEF Goes, Moves, Answers

(* Replay: the mapping it read is still there, or has been deleted since. *)
LEMMA ReplayStep ==
    ASSUME CreationInd, NEW r \in Requests, Replay(r), key' = key
    PROVE  CreationInd'
<1>0. TypeOK /\ Holds(r) /\ Alone(r) /\ Serialised(r) /\ Answered(r)
  BY DEF CreationInd
<1>1. /\ request[r].pc = "replay" /\ UNCHANGED <<keyed, memoOf, history>>
      /\ \/ /\ Exists(request[r].other) /\ request[r].other \in Requests
            /\ Answers(r, "ok", request[r].other) /\ Goes(r, "done")
         \/ ~Exists(request[r].other) /\ Goes(r, "forget") /\ answer' = answer
  BY <1>0, ReplayEffect
<1>2. Active(r) /\ SameKey(r, request[r].other)
  BY <1>0, <1>1 DEF Active, Holds, SameKey, ByKey
<1>3. CASE /\ Exists(request[r].other) /\ request[r].other \in Requests
           /\ Answers(r, "ok", request[r].other) /\ Goes(r, "done")
  <2>1. key[r] \notin history.deleted => keyed[key[r]] = request[r].other
    BY <1>0, <1>1, <1>2 DEF Serialised, SameKey
  <2>. QED
    BY <1>1, <1>2, <1>3, <2>1, Ending
<1>4. CASE Goes(r, "forget") /\ answer' = answer
  <2>1. Answered(r)' /\ Holds(r)'
    BY <1>0, <1>1, <1>2, <1>4 DEF Answered, Holds, Goes, Moves, Exists, SameKey, ByKey
  <2>2. Alone(r)'
    BY <1>0, <1>1, <1>2, <1>4 DEF Alone, Goes, Moves, Active
  <2>3. Serialised(r)'
    BY <1>0, <1>1, <1>4 DEF Serialised, Goes, Moves, Exists
  <2>4. answer \in [Requests -> AnswerState]
    BY <1>0, CreationTypes
  <2>. QED
    BY <1>1, <1>2, <1>4, <2>1, <2>2, <2>3, <2>4, Private DEF Goes, Moves
<1>. QED
  BY <1>1, <1>3, <1>4

(* Reread: what it reads is its own, or another request with its key was   *)
(* under way at the same time.                                             *)
LEMMA RereadStep ==
    ASSUME CreationInd, NEW r \in Requests, Reread(r), key' = key
    PROVE  CreationInd'
<1>0. TypeOK /\ Holds(r) /\ Alone(r) /\ Serialised(r) /\ Answered(r) /\ KeyedSound
  BY DEF CreationInd
<1>1. request[r].pc = "reread" /\ key[r] # NoKey /\ key[r] \in Keys
  BY <1>0 DEF Reread, At, Holds, ByKey, TypeOK
<1>2. /\ UNCHANGED <<keyed, memoOf, answer, history>>
      /\ \/ keyed[key[r]] \in {r, NoId} /\ Goes(r, "draw")
         \/ /\ keyed[key[r]] \in Requests \ {r}
            /\ Moves(r, "wait", keyed[key[r]], request[r].memo, request[r].count)
  BY <1>0, <1>1, RereadEffect
<1>3. Active(r) /\ answer \in [Requests -> AnswerState]
  BY <1>0, <1>1, CreationTypes DEF Active
<1>4. Answered(r)'
  BY <1>0, <1>2 DEF Answered, Exists, SameKey
<1>5. CASE keyed[key[r]] \in {r, NoId} /\ Goes(r, "draw")
  <2>1. Holds(r)'
    BY <1>0, <1>1, <1>2, <1>5 DEF Holds, Goes, Moves, ByKey
  <2>2. Alone(r)'
    BY <1>0, <1>2, <1>3, <1>5 DEF Alone, Goes, Moves, Active
  <2>3. Serialised(r)'
    BY <1>0, <1>1, <1>2, <1>5 DEF Serialised, Goes, Moves, Exists
  <2>. QED
    BY <1>2, <1>3, <1>4, <1>5, <2>1, <2>2, <2>3, Private DEF Goes, Moves
<1>6. CASE /\ keyed[key[r]] \in Requests \ {r}
           /\ Moves(r, "wait", keyed[key[r]], request[r].memo, request[r].count)
  <2>1. keyed[key[r]] # NoId
    BY <1>6, CreationAssumption
  <2>2. Holds(r)'
    BY <1>0, <1>1, <1>2, <1>6, <2>1 DEF Holds, Moves, ByKey, KeyedSound
  <2>3. Alone(r)'
    BY <1>0, <1>1, <1>2, <1>3, <1>6 DEF Alone, Moves, Active
  <2>4. Serialised(r)'
    BY <1>0, <1>1, <1>2, <1>6 DEF Serialised, Moves, Exists
  <2>. QED
    BY <1>2, <1>3, <1>4, <1>6, <2>2, <2>3, <2>4, Private DEF Moves
<1>. QED
  BY <1>2, <1>5, <1>6

(* AwaitWinner: only a request that met the winner waits for it. *)
LEMMA AwaitStep ==
    ASSUME CreationInd, NEW r \in Requests, AwaitWinner(r), key' = key
    PROVE  CreationInd'
<1>0. TypeOK /\ Holds(r) /\ Alone(r) /\ Serialised(r) /\ Answered(r)
  BY DEF CreationInd
<1>1. /\ request[r].pc = "wait" /\ UNCHANGED <<keyed, memoOf, history>>
      /\ \/ /\ Exists(request[r].other) /\ request[r].other \in Requests
            /\ Answers(r, "ok", request[r].other) /\ Goes(r, "done")
         \/ /\ \E n \in Nat : Moves(r, "wait", request[r].other, request[r].memo, n)
            /\ answer' = answer
         \/ Answers(r, "conflict", NoId) /\ Goes(r, "done")
  BY <1>0, AwaitEffect
<1>2. Active(r) /\ SameKey(r, request[r].other)
  BY <1>0, <1>1 DEF Active, Holds, SameKey, ByKey
<1>3. r \in history.met
  BY <1>0, <1>1, <1>2 DEF Alone, SameKey
<1>4. CASE /\ Exists(request[r].other) /\ request[r].other \in Requests
           /\ Answers(r, "ok", request[r].other) /\ Goes(r, "done")
  <2>1. key[r] \notin history.deleted => keyed[key[r]] = request[r].other
    BY <1>0, <1>1, <1>2 DEF Serialised, SameKey
  <2>. QED
    BY <1>1, <1>2, <1>4, <2>1, Ending
<1>5. CASE /\ \E n \in Nat : Moves(r, "wait", request[r].other, request[r].memo, n)
           /\ answer' = answer
  <2>0. PICK n \in Nat : Moves(r, "wait", request[r].other, request[r].memo, n)
    BY <1>5
  <2>1. Answered(r)' /\ Holds(r)'
    BY <1>0, <1>1, <1>2, <1>5, <2>0 DEF Answered, Holds, Moves, Exists, SameKey, ByKey
  <2>2. Alone(r)'
    BY <1>1, <1>3 DEF Alone
  <2>3. Serialised(r)'
    BY <1>0, <1>1, <1>5, <2>0 DEF Serialised, Moves, Exists
  <2>4. answer \in [Requests -> AnswerState]
    BY <1>0, CreationTypes
  <2>. QED
    BY <1>1, <1>2, <1>5, <2>0, <2>1, <2>2, <2>3, <2>4, Private DEF Moves
<1>6. CASE Answers(r, "conflict", NoId) /\ Goes(r, "done")
  BY <1>1, <1>2, <1>3, <1>6, Ending
<1>. QED
  BY <1>1, <1>4, <1>5, <1>6

(* DrawMemo. *)
LEMMA DrawStep ==
    ASSUME CreationInd, NEW r \in Requests, DrawMemo(r), key' = key
    PROVE  CreationInd'
<1>0. TypeOK /\ Holds(r) /\ Alone(r) /\ Serialised(r) /\ Answered(r)
  BY DEF CreationInd
<1>1. /\ request[r].pc = "draw" /\ UNCHANGED <<keyed, memoOf, history>>
      /\ \/ \E m \in Memos : /\ ~MemoTaken(m) /\ answer' = answer
                             /\ Moves(r, "mint", request[r].other, m, request[r].count)
         \/ /\ \E n \in Nat : Moves(r, "draw", request[r].other, request[r].memo, n)
            /\ answer' = answer
         \/ Answers(r, "no memo", NoId) /\ Goes(r, "done")
  BY <1>0, DrawEffect
<1>2. Active(r) /\ answer \in [Requests -> AnswerState]
  BY <1>0, <1>1, CreationTypes DEF Active
<1>3. ASSUME NEW pc \in {"draw", "mint"}, NEW other, NEW memo, NEW n,
             Moves(r, pc, other, memo, n), pc = "mint" => memo \in Memos, answer' = answer
      PROVE  CreationInd'
  <2>1. Answered(r)'
    BY <1>0, <1>1, <1>3 DEF Answered, Exists, SameKey
  <2>2. Holds(r)'
    BY <1>0, <1>1, <1>3 DEF Holds, Moves, ByKey
  <2>3. Alone(r)'
    BY <1>0, <1>1, <1>2, <1>3 DEF Alone, Moves, Active
  <2>4. Serialised(r)'
    BY <1>0, <1>1, <1>3 DEF Serialised, Moves, Exists
  <2>. QED
    BY <1>1, <1>2, <1>3, <2>1, <2>2, <2>3, <2>4, Private DEF Moves
<1>4. CASE \E m \in Memos : /\ ~MemoTaken(m) /\ answer' = answer
                            /\ Moves(r, "mint", request[r].other, m, request[r].count)
  BY <1>3, <1>4
<1>5. CASE /\ \E n \in Nat : Moves(r, "draw", request[r].other, request[r].memo, n)
           /\ answer' = answer
  BY <1>3, <1>5
<1>6. CASE Answers(r, "no memo", NoId) /\ Goes(r, "done")
  BY <1>1, <1>2, <1>6, Ending
<1>. QED
  BY <1>1, <1>4, <1>5, <1>6

(* Mint: the UNIQUE index keeps the memos apart, and a request that mints  *)
(* under an undeleted key is the one the key is mapped to.                 *)
LEMMA MintStep ==
    ASSUME CreationInd, NEW r \in Requests, Mint(r), key' = key
    PROVE  CreationInd'
<1>0. TypeOK /\ Holds(r) /\ Alone(r) /\ Serialised(r) /\ Answered(r)
  BY DEF CreationInd
<1>1. request[r].pc = "mint" /\ request[r].memo \in Memos /\ Active(r)
  BY <1>0 DEF Mint, At, Holds, Active
<1>2. /\ UNCHANGED <<keyed, history>> /\ Goes(r, "done")
      /\ \/ /\ ~MemoTaken(request[r].memo) /\ Answers(r, "created", r)
            /\ memoOf' \in [Requests -> Memos \cup {NoMemo}]
            /\ memoOf'[r] = request[r].memo
            /\ \A s \in Requests \ {r} : memoOf'[s] = memoOf[s]
         \/ memoOf' = memoOf /\ Answers(r, "no memo", NoId)
  BY <1>0, <1>1, MintEffect
<1>3. CASE memoOf' = memoOf /\ Answers(r, "no memo", NoId)
  BY <1>1, <1>2, <1>3, Ending
<1>4. CASE /\ ~MemoTaken(request[r].memo) /\ Answers(r, "created", r)
           /\ memoOf' \in [Requests -> Memos \cup {NoMemo}]
           /\ memoOf'[r] = request[r].memo
           /\ \A s \in Requests \ {r} : memoOf'[s] = memoOf[s]
  <2>1. memoOf'[r] # NoMemo /\ r # NoId
    BY <1>1, <1>4, CreationAssumption
  <2>2. TypeOK'
    BY <1>0, <1>2, <1>4, CreationTypes DEF Goes, Moves, Answers
  <2>3. MemosDistinct'
    BY <1>4, <2>1 DEF CreationInd, MemosDistinct, MemoTaken, Exists
  <2>4. KeyedSound'
    BY <1>2 DEF CreationInd, KeyedSound
  <2>5. Answered(r)' /\ Holds(r)'
    BY <1>2, <1>4, <2>1 DEF Answered, Holds, Answers, Goes, Moves, Exists, ByKey
  <2>6. Alone(r)'
    BY <1>2 DEF Alone, Goes, Moves, Active
  <2>7. Serialised(r)'
    BY <1>0, <1>1, <1>2, <1>4 DEF Serialised, Goes, Moves, Answers
  <2>8. ASSUME NEW s \in Requests \ {r}
        PROVE  Answered(s)' /\ Holds(s)' /\ Alone(s)' /\ Serialised(s)'
    <3>1. Onward
      BY <1>2, <1>4, <2>1 DEF Onward
    <3>2. \A t \in Requests : Active(t)' => Active(t)
      BY <1>1, <1>2 DEF Goes, Moves, Active
    <3>3. request'[s] = request[s] /\ answer'[s] = answer[s]
      BY <1>2, <1>4 DEF Goes, Moves, Answers
    <3>. QED
      BY <1>2, <1>4, <3>1, <3>2, <3>3, Bystander
  <2>. QED
    BY <2>2, <2>3, <2>4, <2>5, <2>6, <2>7, <2>8 DEF CreationInd
<1>. QED
  BY <1>2, <1>3, <1>4

(* Drop. *)
LEMMA DropStep ==
    ASSUME CreationInd, NEW r \in Requests, Drop(r)
    PROVE  CreationInd'
<1>1. TypeOK
  BY DEF CreationInd
<1>2. /\ Active(r) /\ UNCHANGED <<key, keyed, memoOf, history>>
      /\ Answers(r, "dropped", NoId) /\ Goes(r, "done")
  BY <1>1, DropEffect
<1>. QED
  BY <1>2, Ending

(* Crash: the mappings of the requests that die stay behind. *)
LEMMA CrashStep ==
    ASSUME CreationInd, Crash
    PROVE  CreationInd'
<1>0. TypeOK
  BY DEF CreationInd
<1>1. /\ UNCHANGED <<key, keyed, memoOf, history>>
      /\ request' \in [Requests -> RequestState] /\ answer' \in [Requests -> AnswerState]
      /\ \A r \in Requests :
            \/ ~Active(r) /\ request'[r] = request[r] /\ answer'[r] = answer[r]
            \/ /\ Active(r) /\ request'[r].pc = "done"
               /\ answer'[r].code = "dropped" /\ answer'[r].id = NoId
  BY <1>0, CrashEffect
<1>2. TypeOK'
  BY <1>0, <1>1, CreationTypes
<1>3. MemosDistinct' /\ KeyedSound'
  BY <1>1 DEF CreationInd, MemosDistinct, KeyedSound, Exists
<1>4. ASSUME NEW r \in Requests
      PROVE  Answered(r)' /\ Holds(r)' /\ Alone(r)' /\ Serialised(r)'
  <2>1. CASE ~Active(r) /\ request'[r] = request[r] /\ answer'[r] = answer[r]
    <3>1. Onward
      BY <1>1 DEF Onward
    <3>. QED
      BY <1>1, <2>1, <3>1, Bystander
  <2>2. CASE /\ Active(r) /\ request'[r].pc = "done"
             /\ answer'[r].code = "dropped" /\ answer'[r].id = NoId
    <3>1. Answered(r)' /\ Holds(r)' /\ Alone(r)'
      BY <2>2 DEF Answered, Holds, Alone, Active, ByKey
    <3>2. Serialised(r)'
      BY <1>1, <2>2 DEF CreationInd, Serialised, Exists
    <3>. QED
      BY <3>1, <3>2
  <2>. QED
    BY <1>1, <2>1, <2>2
<1>. QED
  BY <1>2, <1>3, <1>4 DEF CreationInd

(* PruneKey: nobody is at work under the key that goes. *)
LEMMA PruneStep ==
    ASSUME CreationInd, NEW k \in Keys, PruneKey(k)
    PROVE  CreationInd'
<1>0. TypeOK
  BY DEF CreationInd
<1>1. /\ UNCHANGED <<key, memoOf, request, answer>>
      /\ \A r \in Requests : key[r] = k => ~Active(r)
      /\ keyed' \in [Keys -> Requests \cup {NoId}] /\ keyed'[k] = NoId
      /\ \A j \in Keys \ {k} : keyed'[j] = keyed[j]
      /\ HistoryTyped /\ history'.met = history.met
      /\ history'.deleted = history.deleted \cup {k}
  BY <1>0, PruneEffect
<1>2. TypeOK'
  BY <1>0, <1>1, CreationTypes DEF HistoryTyped
<1>3. MemosDistinct' /\ KeyedSound'
  BY <1>1 DEF CreationInd, MemosDistinct, KeyedSound, Exists
<1>4. Onward
  BY <1>1 DEF Onward
<1>5. ASSUME NEW r \in Requests
      PROVE  Answered(r)' /\ Holds(r)' /\ Alone(r)' /\ Serialised(r)'
  <2>1. CASE key[r] # k
    <3>1. key[r] # NoKey => keyed'[key[r]] = keyed[key[r]]
      BY <1>0, <1>1, <2>1 DEF TypeOK
    <3>2. \A t \in Requests : Active(t)' => Active(t)
      BY <1>1 DEF Active
    <3>. QED
      BY <1>1, <1>4, <3>1, <3>2, Bystander
  <2>2. CASE key[r] = k
    <3>1. Answered(r)' /\ Holds(r)'
      BY <1>0, <1>1 DEF CreationInd, Answered, Holds, Exists, SameKey
    <3>2. Alone(r)'
      BY <1>1, <2>2 DEF Alone, Active
    <3>3. Serialised(r)'
      BY <1>1, <2>2 DEF Serialised
    <3>. QED
      BY <3>1, <3>2, <3>3
  <2>. QED
    BY <2>1, <2>2
<1>. QED
  BY <1>2, <1>3, <1>5 DEF CreationInd

(* LookUp: a request that starts meets every rival that is under way. *)
LEMMA LookUpStep ==
    ASSUME CreationInd, NEW r \in Requests, LookUp(r), key' = key
    PROVE  CreationInd'
<1>0. TypeOK /\ Holds(r) /\ Answered(r) /\ Serialised(r) /\ KeyedSound
  BY DEF CreationInd
<1>1. /\ request[r].pc = "new" /\ UNCHANGED <<keyed, memoOf, answer>>
      /\ \/ key[r] = NoKey /\ Goes(r, "draw")
         \/ key[r] # NoKey /\ keyed[key[r]] = NoId /\ Goes(r, "reserve")
         \/ /\ key[r] # NoKey /\ keyed[key[r]] \in Requests
            /\ Moves(r, "replay", keyed[key[r]], request[r].memo, request[r].count)
      /\ HistoryTyped /\ history'.deleted = history.deleted
      /\ history'.met = IF Rivals(r) = {} THEN history.met
                        ELSE history.met \cup Rivals(r) \cup {r}
  BY <1>0, LookUpEffect
<1>2. TypeOK'
  BY <1>0, <1>1, CreationTypes DEF Goes, Moves, HistoryTyped
<1>3. MemosDistinct' /\ KeyedSound'
  BY <1>1 DEF CreationInd, MemosDistinct, KeyedSound, Exists
<1>4. Onward
  BY <1>1 DEF Onward
<1>5. \A s \in Requests \ {r} : request'[s] = request[s]
  BY <1>1 DEF Goes, Moves
<1>6. ASSUME NEW s \in Requests \ {r}
      PROVE  Answered(s)' /\ Holds(s)' /\ Alone(s)' /\ Serialised(s)'
  <2>1. CASE key[s] = NoKey
    <3>1. Alone(s)' /\ Serialised(s)'
      BY <2>1 DEF Alone, Serialised
    <3>2. Answered(s)'
      BY <1>1 DEF CreationInd, Answered, Exists, SameKey
    <3>3. Holds(s)'
      BY <1>1, <1>4, <1>5 DEF CreationInd, Holds, Onward
    <3>. QED
      BY <3>1, <3>2, <3>3
  <2>2. CASE key[s] # NoKey
    <3>1. ASSUME NEW t \in Requests \ {s}, key[t] = key[s], Active(t)', ~Active(t)
          PROVE  s \in history'.met \/ ~Active(s)
      <4>1. t = r
        BY <1>5, <3>1 DEF Active
      <4>2. Active(s) => s \in Rivals(r)
        BY <2>2, <3>1, <4>1 DEF Rivals
      <4>. QED
        BY <1>1, <4>2
    <3>. QED
      BY <1>1, <1>4, <1>5, <3>1, Bystander
  <2>. QED
    BY <2>1, <2>2
<1>7. Answered(r)'
  BY <1>0, <1>1 DEF Answered, Exists, SameKey
<1>8. Holds(r)'
  <2>1. answer[r].code = "conflict" => r \in history'.met
    BY <1>0, <1>4 DEF Holds, Onward
  <2>2. key[r] # NoKey => key[r] \in Keys
    BY <1>0 DEF TypeOK
  <2>. QED
    BY <1>0, <1>1, <2>1, <2>2, CreationAssumption DEF Holds, Goes, Moves, ByKey, KeyedSound
<1>9. Alone(r)'
  <2>. SUFFICES ASSUME key[r] # NoKey, r \notin history'.met
                PROVE  /\ \A s \in Requests \ {r} : key[s] = key[r] => ~Active(s)'
                       /\ request'[r].pc = "reserve" => keyed[key[r]] = NoId
                       /\ request'[r].pc \notin {"reread", "wait"}
    BY <1>1 DEF Alone
  <2>1. Rivals(r) = {}
    BY <1>1
  <2>2. \A s \in Requests \ {r} : key[s] = key[r] => ~Active(s)'
    BY <1>5, <2>1 DEF Rivals, Active
  <2>3. /\ request'[r].pc = "reserve" => keyed[key[r]] = NoId
        /\ request'[r].pc \notin {"reread", "wait"}
    BY <1>1 DEF Goes, Moves
  <2>. QED
    BY <2>2, <2>3
<1>10. Serialised(r)'
  BY <1>0, <1>1 DEF Serialised, Goes, Moves, Exists
<1>. QED
  BY <1>2, <1>3, <1>6, <1>7, <1>8, <1>9, <1>10 DEF CreationInd

(* Forget deletes the mapping under everybody with the same key; a request *)
(* that is under way with it has met this one.                             *)
LEMMA ForgetStep ==
    ASSUME CreationInd, NEW r \in Requests, Forget(r), key' = key
    PROVE  CreationInd'
<1>0. TypeOK /\ Holds(r) /\ Alone(r) /\ Answered(r)
  BY DEF CreationInd
<1>1. request[r].pc = "forget" /\ key[r] # NoKey /\ key[r] \in Keys /\ Active(r)
  BY <1>0 DEF Forget, At, Holds, ByKey, TypeOK, Active
<1>2. /\ UNCHANGED <<memoOf, answer>>
      /\ keyed' \in [Keys -> Requests \cup {NoId}] /\ keyed'[key[r]] = NoId
      /\ \A k \in Keys \ {key[r]} : keyed'[k] = keyed[k]
      /\ HistoryTyped /\ history'.met = history.met
      /\ history'.deleted = history.deleted \cup {key[r]}
      /\ Goes(r, "reserve")
  BY <1>0, <1>1, ForgetEffect
<1>3. TypeOK'
  BY <1>0, <1>2, CreationTypes DEF Goes, Moves, HistoryTyped
<1>4. MemosDistinct' /\ KeyedSound'
  BY <1>1, <1>2 DEF CreationInd, MemosDistinct, KeyedSound, Exists
<1>5. Onward
  BY <1>2 DEF Onward
<1>6. \A s \in Requests : Active(s)' <=> Active(s)
  BY <1>1, <1>2 DEF Goes, Moves, Active
<1>7. ASSUME NEW s \in Requests
      PROVE  Answered(s)'
  BY <1>2 DEF CreationInd, Answered, Exists, SameKey
<1>8. ASSUME NEW s \in Requests \ {r}
      PROVE  Holds(s)' /\ Alone(s)' /\ Serialised(s)'
  <2>0. request'[s] = request[s]
    BY <1>2 DEF Goes, Moves
  <2>1. CASE key[s] # key[r]
    <3>1. key[s] # NoKey => keyed'[key[s]] = keyed[key[s]]
      BY <1>0, <1>2, <2>1 DEF TypeOK
    <3>. QED
      BY <1>2, <1>5, <1>6, <2>0, <3>1, Bystander
  <2>2. CASE key[s] = key[r]
    <3>1. Holds(s)'
      BY <1>2, <2>0 DEF CreationInd, Holds
    <3>2. Alone(s)'
      <4>1. Active(s) => s \in history.met
        BY <1>1, <2>2 DEF CreationInd, Alone
      <4>. QED
        BY <1>2, <1>6, <4>1 DEF Alone
    <3>3. Serialised(s)'
      BY <1>2, <2>2 DEF Serialised
    <3>. QED
      BY <3>1, <3>2, <3>3
  <2>. QED
    BY <2>1, <2>2
<1>9. Holds(r)'
  BY <1>0, <1>1, <1>2 DEF Holds, Goes, Moves, ByKey
<1>10. Alone(r)'
  BY <1>0, <1>1, <1>2, <1>6 DEF Alone, Goes, Moves
<1>11. Serialised(r)'
  BY <1>2 DEF Serialised
<1>. QED
  BY <1>3, <1>4, <1>7, <1>8, <1>9, <1>10, <1>11 DEF CreationInd

(* Reserve: the primary key lets the first request in; a mapping that is   *)
(* there stays.                                                            *)
LEMMA ReserveStep ==
    ASSUME CreationInd, NEW r \in Requests, Reserve(r), key' = key
    PROVE  CreationInd'
<1>0. TypeOK /\ Holds(r) /\ Alone(r) /\ Answered(r) /\ Serialised(r)
  BY DEF CreationInd
<1>1. /\ request[r].pc = "reserve" /\ key[r] # NoKey /\ key[r] \in Keys /\ Active(r)
      /\ r # NoId
  BY <1>0, CreationAssumption DEF Reserve, At, Holds, ByKey, TypeOK, Active
<1>2. /\ UNCHANGED <<memoOf, answer, history>>
      /\ keyed' \in [Keys -> Requests \cup {NoId}]
      /\ keyed'[key[r]] = IF keyed[key[r]] = NoId THEN r ELSE keyed[key[r]]
      /\ \A k \in Keys \ {key[r]} : keyed'[k] = keyed[k]
      /\ Goes(r, "reread")
  BY <1>0, <1>1, ReserveEffect
<1>3. TypeOK'
  BY <1>0, <1>2, CreationTypes DEF Goes, Moves
<1>4. MemosDistinct' /\ KeyedSound'
  BY <1>1, <1>2 DEF CreationInd, MemosDistinct, KeyedSound, Exists
<1>5. Onward
  BY <1>2 DEF Onward
<1>6. \A s \in Requests : Active(s)' <=> Active(s)
  BY <1>1, <1>2 DEF Goes, Moves, Active
<1>7. ASSUME NEW s \in Requests
      PROVE  Answered(s)'
  BY <1>2 DEF CreationInd, Answered, Exists, SameKey
<1>8. ASSUME NEW s \in Requests \ {r}
      PROVE  Holds(s)' /\ Alone(s)' /\ Serialised(s)'
  <2>0. request'[s] = request[s]
    BY <1>2 DEF Goes, Moves
  <2>1. CASE key[s] # key[r]
    <3>1. key[s] # NoKey => keyed'[key[s]] = keyed[key[s]]
      BY <1>0, <1>2, <2>1 DEF TypeOK
    <3>. QED
      BY <1>2, <1>5, <1>6, <2>0, <3>1, Bystander
  <2>2. CASE key[s] = key[r]
    <3>1. Holds(s)'
      BY <1>2, <2>0 DEF CreationInd, Holds
    <3>2. Alone(s)'
      <4>1. Active(s) => s \in history.met
        BY <1>1, <2>2 DEF CreationInd, Alone
      <4>. QED
        BY <1>2, <1>6, <4>1 DEF Alone
    <3>3. Serialised(s)'
      <4>1. /\ Serialised(s) /\ Holds(s) /\ s # NoId
            /\ request[s].pc \in {"replay", "wait"} => request[s].other # NoId
        BY CreationAssumption DEF CreationInd, Holds
      <4>. QED
        BY <1>1, <1>2, <2>0, <2>2, <4>1 DEF Serialised, Exists
    <3>. QED
      BY <3>1, <3>2, <3>3
  <2>. QED
    BY <2>1, <2>2
<1>9. Holds(r)'
  BY <1>0, <1>1, <1>2 DEF Holds, Goes, Moves, ByKey
<1>10. Alone(r)'
  BY <1>0, <1>1, <1>2, <1>6 DEF Alone, Goes, Moves
<1>11. Serialised(r)'
  BY <1>0, <1>1, <1>2 DEF Serialised, Goes, Moves, Exists
<1>. QED
  BY <1>3, <1>4, <1>7, <1>8, <1>9, <1>10, <1>11 DEF CreationInd

(* The invariant is inductive. *)
LEMMA CreationStep == CreationInd /\ [Next]_vars => CreationInd'
<1>. SUFFICES ASSUME CreationInd, [Next]_vars PROVE CreationInd'
  OBVIOUS
<1>1. ASSUME NEW r \in Requests, Step(r) PROVE CreationInd'
  BY <1>1, LookUpStep, ReplayStep, ForgetStep, ReserveStep, RereadStep, AwaitStep, DrawStep,
     MintStep DEF Step
<1>2. ASSUME UNCHANGED vars PROVE CreationInd'
  BY <1>2 DEF vars, CreationInd, TypeOK, MemosDistinct, KeyedSound, Answered, Holds, Alone,
              Serialised, Exists, SameKey, Active
<1>. QED
  BY <1>1, <1>2, DropStep, CrashStep, PruneStep DEF Next, AllServed

-----------------------------------------------------------------------------
(* Theorems. *)

(* The invariant holds throughout. *)
THEOREM CreationInductive == Spec => []CreationInd
  BY CreationInit, CreationStep, PTL DEF Spec

(* Whatever races or dies: the memos settlement goes by are distinct, an   *)
(* answer names an intent that exists and was created under the same key,  *)
(* and a key left reserved by a request that died does not wedge the next. *)
THEOREM CreationIsSound == Spec => []CreationInv
  BY CreationInductive, CreationIndImplies, PTL

(* An Idempotency-Key whose mapping was never deleted yields one intent,   *)
(* and everybody who uses it is answered with that one.                    *)
THEOREM OneIntentPerKey == Spec => []SerialisedByKey
  BY CreationInductive, CreationIndImplies, PTL
=============================================================================
