--------------------------- MODULE RateLimitProofs ---------------------------
(***************************************************************************)
(* Proofs about the rate limiter: a client is charged for its own requests *)
(* alone unless a proxy passes on a header it wrote, and the waiting times *)
(* it is told are long enough.  They hold for every rate, burst, number of clients and    *)
(* proxies and every size of the cache.                                    *)
(***************************************************************************)
EXTENDS RateLimit, WellFoundedInduction, TLAPS

(* A debt decays while its limiter is idle, so that it is gone before the  *)
(* limiter is.                                                             *)
DebtsDecay ==
    \A k \in DOMAIN cache : cache[k].debt > 0 => cache[k].debt + cache[k].idle <= Burst(k[1])

(* A promise that is yet to come due is long enough. *)
RetryIsEnough == told.retry >= 0 => WaitTime(watched) <= told.retry
ResetIsEnough == told.reset >= 0 => DebtOf(watched) <= told.reset

LimiterInd ==
    TypeOK /\ ChargedForItsOwn /\ DebtsDecay /\ RetryIsEnough /\ ResetIsEnough

-----------------------------------------------------------------------------
(* Arithmetic. *)

(* What a floored division leaves out is not negative. *)
LEMMA FloorBelow ==
    ASSUME NEW a \in Nat, NEW b \in Nat \ {0}
    PROVE  /\ a \div b \in Nat
           /\ b * (a \div b) <= a
BY SMT

(* Rounding up to whole seconds never shortens a wait. *)
LEMMA CeilAbove ==
    ASSUME NEW a \in Nat, NEW b \in Nat \ {0}
    PROVE  /\ CeilDiv(a, b) \in Nat
           /\ CeilDiv(a, b) * b >= a
BY SMT DEF CeilDiv

(* A bucket admits at least one request at a time, and a full burst is a   *)
(* second's.                                                               *)
LEMMA Quotas ==
    ASSUME NEW b \in Buckets
    PROVE  /\ Rps(b) \in Nat \ {0} /\ Interval(b) \in Nat \ {0}
           /\ Burst(b) = Second /\ Burst(b) \in Nat \ {0} /\ Burst(b) <= IdleTtl
           /\ Interval(b) <= Burst(b)
           /\ Interval(b) * Rps(b) = Burst(b)
<1>1. Rps(b) \in Nat \ {0}
  <2>1. Larger(BaseRps, 1) \in Nat \ {0}
    BY LimitAssumption DEF Larger
  <2>2. ReadMultiplier \in Nat \ {0}
    BY LimitAssumption
  <2>3. \A x, y \in Nat \ {0} : x * y \in Nat \ {0}
    BY SMT
  <2> QED BY <2>1, <2>2, <2>3 DEF Rps
<1>2. Second \in Nat \ {0} /\ IdleTtl \in Nat
  BY LimitAssumption
<1>3. Interval(b) \in Nat
  BY <1>1, <1>2, FloorBelow DEF Interval
<1>4. Burst(b) = Second /\ Burst(b) <= IdleTtl
  BY DecayAssumption
<1>5. ASSUME NEW x \in Nat \ {0}, NEW y \in Nat, NEW z \in Nat \ {0}, x * y = z
      PROVE  y # 0 /\ y <= z /\ y * x = z
  BY <1>5, SMT
<1> QED BY <1>1, <1>2, <1>3, <1>4, <1>5 DEF Burst

-----------------------------------------------------------------------------
(* Whose request it is. *)

(* The last of the hops that satisfy a condition, where one of them is     *)
(* known to come after all others.                                         *)
LEMMA MaxIs ==
    ASSUME NEW S \in SUBSET Int, NEW n \in S, \A m \in S : m <= n
    PROVE  Max(S) = n
<1>1. \E x \in S : \A y \in S : x >= y
  BY SMT
<1>2. Max(S) \in S /\ \A y \in S : Max(S) >= y
  BY <1>1, Zenon DEF Max
<1>3. Max(S) \in Int /\ n \in Int /\ Max(S) <= n /\ Max(S) >= n
  BY <1>2
<1>4. ASSUME NEW x \in Int, NEW y \in Int, x <= y, x >= y PROVE x = y
  BY <1>4
<1> QED BY <1>3, <1>4

(* A set of places has a last one. *)
LEMMA LastExists ==
    ASSUME NEW n \in Nat, NEW S \in SUBSET (1 .. n), S # {}
    PROVE  Max(S) \in S
<1> DEFINE T == {n - x : x \in S}
<1>1. T \in SUBSET Nat
  OBVIOUS
<1>2. PICK t \in T : \A y \in T : t <= y
  <2>1. T # {}
    OBVIOUS
  <2> HIDE DEF T
  <2>2. PICK t \in T : \A y \in T : ~(<<y, t>> \in OpToRel(<, Nat))
    BY <1>1, <2>1, NatLessThanWellFounded, WFMin
  <2>3. ASSUME NEW y \in T PROVE t <= y
    <3>1. t \in Nat /\ y \in Nat
      BY <1>1
    <3>2. ~(y < t)
      BY <2>2, <3>1 DEF OpToRel
    <3> QED BY <3>1, <3>2
  <2> QED BY <2>3
<1>3. PICK x \in S : t = n - x
  OBVIOUS
<1>4. \A y \in S : n - x <= n - y
  BY <1>2, <1>3
<1> HIDE DEF T
<1>5. \A y \in S : x >= y
  BY <1>4
<1>6. \E z \in S : \A y \in S : z >= y
  BY <1>5
<1> QED BY <1>6, Zenon DEF Max

(* The hop client_ip_key takes is one of those it was given. *)
LEMMA KeyIsAHop ==
    ASSUME NEW req, req.peer \in Hops \cup {NoHeader}, req.xff \in Seq(Hops),
           req.realIp \in Hops \cup {NoHeader}
    PROVE  ClientIpKey(req) \in Hops \cup {Unknown}
<1> DEFINE clients == {n \in DOMAIN req.xff : req.xff[n] \notin Proxies}
<1>1. /\ Len(req.xff) \in Nat /\ DOMAIN req.xff = 1 .. Len(req.xff)
      /\ \A n \in DOMAIN req.xff : req.xff[n] \in Hops
  OBVIOUS
<1>2. clients # {} => Max(clients) \in clients
  <2>1. clients \in SUBSET (1 .. Len(req.xff))
    BY <1>1
  <2> HIDE DEF clients
  <2> QED BY <1>1, <2>1, LastExists
<1>3. clients # {} => req.xff[Max(clients)] \in Hops
  BY <1>1, <1>2
<1> QED BY <1>3 DEF ClientIpKey

(* Behind trusted proxies that append to the header client_ip_key finds    *)
(* the client itself, whatever the client wrote in front.                  *)
LEMMA AppendedIsTheClients ==
    ASSUME NEW c \in Clients, NEW xff \in Seq(Hops), NEW req, req.peer \in Proxies,
           \/ req.xff = Append(xff, c)
           \/ \E q \in Proxies : req.xff = xff \o <<c, q>>
    PROVE  ClientIpKey(req) = c
<1> DEFINE clients == {n \in DOMAIN req.xff : req.xff[n] \notin Proxies}
<1>1. /\ c \notin Proxies /\ c # NoHeader /\ c # Garbage /\ NoHeader \notin Proxies
      /\ c \in Hops /\ Proxies \subseteq Hops
  BY LimitAssumption DEF Hops
<1>2. /\ Len(xff) \in Nat /\ Len(xff) + 1 \in DOMAIN req.xff /\ req.xff[Len(xff) + 1] = c
      /\ \A m \in clients : m \in Nat /\ m <= Len(xff) + 1
  <2>1. CASE req.xff = Append(xff, c)
    BY <1>1, <2>1
  <2>2. ASSUME NEW q \in Proxies, req.xff = xff \o <<c, q>> PROVE <1>2!:
    <3>1. <<c, q>> \in Seq(Hops) /\ Len(<<c, q>>) = 2 /\ <<c, q>>[1] = c /\ <<c, q>>[2] = q
      BY <1>1
    <3>2. /\ Len(xff) \in Nat /\ DOMAIN req.xff = 1 .. Len(xff) + 2
          /\ req.xff[Len(xff) + 1] = c /\ req.xff[Len(xff) + 2] = q
      BY <1>1, <2>2, <3>1
    <3>3. Len(xff) + 2 \notin clients
      BY <3>2
    <3>4. \A m \in clients : m \in 1 .. Len(xff) + 2
      BY <3>2
    <3> HIDE DEF clients
    <3> QED BY <3>2, <3>3, <3>4
  <2> QED BY <2>1, <2>2
<1>3. Max(clients) = Len(xff) + 1 /\ clients # {}
  <2>1. clients \in SUBSET Int /\ Len(xff) + 1 \in clients
    BY <1>1, <1>2
  <2> HIDE DEF clients
  <2> QED BY <1>2, <2>1, MaxIs
<1> QED BY <1>1, <1>2, <1>3 DEF ClientIpKey

(* Whatever way a request comes, it is charged to its own client unless a  *)
(* proxy passed on what the client wrote.                                  *)
LEMMA KeyOfRequest ==
    ASSUME NEW t \in Traffic, NEW w \in Written, NEW req \in Received(t[1], w),
           peerKnown \in BOOLEAN
    PROVE  /\ Bucket(t[2]) \in Buckets /\ t[1] \in Clients
           /\ ClientIpKey(req) \in Hops \cup {Unknown}
           /\ req.passedOn => peerKnown
           /\ ~req.passedOn => ClientIpKey(req) = IF peerKnown THEN t[1] ELSE Unknown
<1> DEFINE c == t[1]
           direct == [peer |-> c, xff |-> w.xff, realIp |-> w.realIp, passedOn |-> FALSE]
           appended == {[direct EXCEPT !.peer = p, !.xff = Append(w.xff, c)] : p \in Proxies}
           chained == {[direct EXCEPT !.peer = last[1], !.xff = w.xff \o <<c, last[2]>>] :
                          last \in Proxies \X Proxies}
           lined == {[direct EXCEPT !.peer = p, !.xff = IF w.xff = <<>> THEN <<c>> ELSE w.xff,
                                    !.passedOn = w.xff # <<>>] : p \in Proxies}
           real == {[direct EXCEPT !.peer = p, !.realIp = c,
                       !.passedOn = \E n \in DOMAIN w.xff : w.xff[n] \notin Proxies] : p \in Proxies}
           Goal == /\ ClientIpKey(req) \in Hops \cup {Unknown}
                   /\ req.passedOn => peerKnown
                   /\ ~req.passedOn => ClientIpKey(req) = IF peerKnown THEN c ELSE Unknown
<1>0. Bucket(t[2]) \in Buckets /\ c \in Clients
  BY LimitAssumption DEF Buckets
<1>1. /\ c \notin Proxies /\ c # NoHeader /\ c # Garbage /\ NoHeader \notin Proxies
      /\ c \in Hops /\ Proxies \subseteq Hops
      /\ w.xff \in Seq(Hops) /\ w.realIp \in Hops \cup {NoHeader}
  BY <1>0, LimitAssumption DEF Hops
<1>2. /\ ~peerKnown => req = [direct EXCEPT !.peer = NoHeader]
      /\ peerKnown => \/ req = direct \/ req \in appended \/ req \in chained
                      \/ req \in lined \/ req \in real
  BY Zenon DEF Received
<1>3. CASE ~peerKnown
  <2>1. req.peer = NoHeader /\ req.passedOn = FALSE
    BY <1>2, <1>3
  <2> QED BY <1>0, <1>3, <2>1 DEF ClientIpKey
<1>4. ASSUME peerKnown, req = direct PROVE Goal
  <2>1. req.peer = c /\ req.passedOn = FALSE
    BY <1>4
  <2> QED BY <1>1, <1>4, <2>1 DEF ClientIpKey
<1>5. ASSUME peerKnown, req \in appended \/ req \in chained PROVE Goal
  <2>1. /\ req.peer \in Proxies /\ req.passedOn = FALSE
        /\ req.xff = Append(w.xff, c) \/ \E q \in Proxies : req.xff = w.xff \o <<c, q>>
    <3>1. CASE req \in appended
      BY <3>1
    <3>2. CASE req \in chained
      BY <3>2
    <3> QED BY <1>5, <3>1, <3>2
  <2>2. ClientIpKey(req) = c
    BY <1>0, <1>1, <2>1, AppendedIsTheClients
  <2> QED BY <1>1, <1>5, <2>1, <2>2
<1>6. ASSUME peerKnown, req \in lined PROVE Goal
  <2>1. /\ req.peer \in Proxies /\ req.realIp = w.realIp /\ req.passedOn = (w.xff # <<>>)
        /\ req.xff = IF w.xff = <<>> THEN <<c>> ELSE w.xff
    BY <1>6
  <2>2. CASE w.xff = <<>>
    <3>1. req.xff = Append(<<>>, c) /\ <<>> \in Seq(Hops)
      BY <2>1, <2>2
    <3>2. ClientIpKey(req) = c
      BY <1>0, <2>1, <3>1, AppendedIsTheClients
    <3> QED BY <1>1, <1>6, <2>1, <2>2, <3>2
  <2>3. CASE w.xff # <<>>
    <3>1. ClientIpKey(req) \in Hops \cup {Unknown}
      BY <1>1, <2>1, <2>3, KeyIsAHop
    <3> QED BY <1>6, <2>1, <2>3, <3>1
  <2> QED BY <2>2, <2>3
<1>7. ASSUME peerKnown, req \in real PROVE Goal
  <2>1. /\ req.peer \in Proxies /\ req.realIp = c /\ req.xff = w.xff
        /\ req.passedOn = (\E n \in DOMAIN w.xff : w.xff[n] \notin Proxies)
    BY <1>7
  <2>2. ClientIpKey(req) \in Hops \cup {Unknown}
    BY <1>1, <2>1, KeyIsAHop
  <2>3. ~req.passedOn => ClientIpKey(req) = c
    <3>1. ~req.passedOn => {n \in DOMAIN req.xff : req.xff[n] \notin Proxies} = {}
      BY <2>1
    <3> QED BY <1>1, <2>1, <3>1 DEF ClientIpKey
  <2> QED BY <1>7, <2>2, <2>3
<1> HIDE DEF direct, appended, chained, lined, real
<1> QED BY <1>0, <1>2, <1>3, <1>4, <1>5, <1>6, <1>7

-----------------------------------------------------------------------------
(* What a step does to the debts. *)

(* Put replaces one limiter. *)
LEMMA PutDebt ==
    ASSUME NEW k, NEW debt, Put(k, [debt |-> debt, idle |-> 0])
    PROVE  /\ DOMAIN cache' = DOMAIN cache \cup {k}
           /\ cache'[k].debt = debt /\ cache'[k].idle = 0
           /\ \A j \in DOMAIN cache : j # k => cache'[j] = cache[j]
           /\ DebtOf(k)' = debt
           /\ \A j : j # k => DebtOf(j)' = DebtOf(j)
BY DEF Put, DebtOf

(* A debt is a number within the burst. *)
LEMMA DebtType ==
    ASSUME TypeOK, NEW k \in Keys
    PROVE  DebtOf(k) \in 0 .. Burst(k[1]) /\ k[1] \in Buckets
<1>1. k[1] \in Buckets
  BY DEF Keys
<1>2. Burst(k[1]) \in Nat
  BY <1>1, Quotas
<1> QED BY <1>1, <1>2 DEF TypeOK, DebtOf

(* The first state: nothing is owed and nothing is promised. *)
LEMMA LimiterInit == Init => LimiterInd
<1> SUFFICES ASSUME Init PROVE LimiterInd
  OBVIOUS
<1>1. cache = [k \in {} |-> {}] /\ DOMAIN cache = {}
  BY DEF Init
<1>2. watched \in Keys
  <2>1. \A t \in Traffic : t[1] \in Clients
    BY LimitAssumption
  <2> QED BY <2>1 DEF Init, KeysInUse, Keys, Buckets, Hops
<1>3. TypeOK
  BY <1>1, <1>2 DEF Init, TypeOK, NoPromise
<1>4. ChargedForItsOwn
  BY <1>1 DEF Init, ChargedForItsOwn, Charged, DebtOf
<1>5. DebtsDecay /\ RetryIsEnough /\ ResetIsEnough
  BY <1>1 DEF Init, DebtsDecay, RetryIsEnough, ResetIsEnough, NoPromise
<1> QED BY <1>3, <1>4, <1>5 DEF LimiterInd

-----------------------------------------------------------------------------
(* What a client is told. *)

(* Retry-After covers the wait. *)
LEMMA RetryCovers ==
    ASSUME NEW wait \in Nat
    PROVE  RetryAfterSecs(wait) * Second \in Nat /\ RetryAfterSecs(wait) * Second >= wait
<1>1. Second \in Nat \ {0}
  BY LimitAssumption
<1>2. CeilDiv(wait, Second) \in Nat /\ CeilDiv(wait, Second) * Second >= wait
  BY <1>1, CeilAbove
<1>3. ASSUME NEW x \in Nat, NEW s \in Nat \ {0}, x * s >= wait
      PROVE  Larger(x, 1) * s \in Nat /\ Larger(x, 1) * s >= wait
  <2>1. CASE x > 1
    BY <1>3, <2>1, SMT DEF Larger
  <2>2. CASE x = 1
    BY <1>3, <2>2, SMT DEF Larger
  <2>3. CASE x = 0
    BY <1>3, <2>3, SMT DEF Larger
  <2> QED BY <1>3, <2>1, <2>2, <2>3
<1> QED BY <1>1, <1>2, <1>3 DEF RetryAfterSecs

(* X-RateLimit-Reset covers the debt the snapshot shows: rounding the      *)
(* remaining requests down never hides a part of it.                       *)
LEMMA ResetCovers ==
    ASSUME NEW b \in Buckets, NEW debt \in 0 .. Burst(b), NEW left \in Nat, NEW wait \in Nat,
           left \in {0, Remaining(b, debt)}
    PROVE  /\ ResetSecs(b, left, wait) * Second \in Nat
           /\ ResetSecs(b, left, wait) * Second >= debt
<1>1. /\ Second \in Nat \ {0} /\ Rps(b) \in Nat /\ Interval(b) \in Nat \ {0}
      /\ Burst(b) \in Nat /\ Interval(b) * Rps(b) = Burst(b)
  BY LimitAssumption, Quotas
<1> DEFINE owed == Interval(b) * (Rps(b) - left)
<1>2. owed \in Nat /\ owed >= debt
  <2>1. Interval(b) * left <= Burst(b) - debt
    <3>1. CASE left = 0
      BY <1>1, <3>1
    <3>2. CASE left = Remaining(b, debt)
      <4>1. Burst(b) - debt \in Nat
        BY <1>1
      <4> QED BY <1>1, <3>2, <4>1, FloorBelow DEF Remaining
    <3> QED BY <3>1, <3>2
  <2>2. ASSUME NEW n \in Nat, NEW r \in Nat, NEW l \in Nat, NEW u \in Nat, NEW d \in 0 .. u,
               n * r = u, n * l <= u - d
        PROVE  n * (r - l) \in Int /\ n * (r - l) >= d
    BY <2>2, SMT
  <2>3. owed \in Int /\ owed >= debt
    BY <1>1, <2>1, <2>2
  <2> HIDE DEF owed
  <2> QED BY <1>1, <2>3
<1>3. Larger(owed, wait) \in Nat /\ Larger(owed, wait) >= debt
  <2> HIDE DEF owed
  <2> QED BY <1>1, <1>2 DEF Larger
<1> DEFINE most == Larger(owed, wait)
<1>4. CeilDiv(most, Second) \in Nat /\ CeilDiv(most, Second) * Second >= most
  <2> HIDE DEF most
  <2> QED BY <1>1, <1>3, CeilAbove DEF most
<1>5. ASSUME NEW x \in Nat, NEW s \in Nat PROVE x * s \in Nat
  BY <1>5, SMT
<1>6. ResetSecs(b, left, wait) = CeilDiv(most, Second)
  BY DEF ResetSecs
<1> HIDE DEF most
<1>7. CeilDiv(most, Second) * Second \in Nat
  BY <1>1, <1>4, <1>5
<1>8. most \in Nat /\ most >= debt /\ debt \in Nat
  BY <1>1, <1>3 DEF most
<1> HIDE DEF owed
<1>9. ASSUME NEW x \in Nat, NEW y \in Nat, NEW z \in Nat, x >= y, y >= z PROVE x >= z
  BY <1>9
<1> QED BY <1>4, <1>6, <1>7, <1>8, <1>9, Zenon

-----------------------------------------------------------------------------
(* The steps. *)

(* A request within the rate: the debt it adds is its client's own. *)
LEMMA AdmitStep ==
    ASSUME LimiterInd, NEW b \in Buckets, NEW c \in Clients, NEW k \in Keys, k[1] = b,
           NEW on, ~on => k = <<b, IF peerKnown THEN c ELSE Unknown>>,
           Admit(c, k, on), UNCHANGED <<peerKnown, watched, evicted>>
    PROVE  LimiterInd'
<1>0. PICK debt : debt = DebtOf(k) + Interval(b)
  OBVIOUS
<1>1. k \in Keys /\ k[1] = b /\ <<b, c>> \in Keys
  BY DEF Keys, Hops
<1>2. /\ DebtOf(k) \in 0 .. Burst(b) /\ Interval(b) \in Nat \ {0} /\ Burst(b) \in Nat \ {0}
      /\ DebtOf(k) + Interval(b) <= Burst(b)
  BY <1>1, DebtType, Quotas DEF LimiterInd, Admit, Available
<1>3. debt \in 1 .. Burst(b)
  BY <1>0, <1>2
<1>4. /\ Put(k, [debt |-> debt, idle |-> 0])
      /\ told' = IF k = watched
                 THEN [retry |-> -1, reset |-> ResetSecs(b, Remaining(b, debt), 0) * Second]
                 ELSE told
      /\ spent' = [spent EXCEPT ![b][c] = IF @ > Burst(b) THEN @ ELSE @ + Interval(b)]
      /\ strayed' = IF on THEN strayed \cup {k, <<b, c>>} ELSE strayed
  BY <1>0, <1>1 DEF Admit, Promise
<1>5. /\ DOMAIN cache' = DOMAIN cache \cup {k}
      /\ cache'[k].debt = debt /\ cache'[k].idle = 0
      /\ \A j \in DOMAIN cache : j # k => cache'[j] = cache[j]
      /\ DebtOf(k)' = debt
      /\ \A j : j # k => DebtOf(j)' = DebtOf(j)
  BY <1>4, PutDebt
<1>6. /\ spent' \in [Buckets -> [Clients -> Nat]]
      /\ spent'[b][c] = IF spent[b][c] > Burst(b) THEN spent[b][c] ELSE spent[b][c] + Interval(b)
      /\ \A bb \in Buckets, cc \in Clients :
            <<bb, cc>> # <<b, c>> => spent'[bb][cc] = spent[bb][cc]
      /\ spent[b][c] \in Nat
  <2>1. spent \in [Buckets -> [Clients -> Nat]]
    BY DEF LimiterInd, TypeOK
  <2>2. \A n \in Nat : (IF n > Burst(b) THEN n ELSE n + Interval(b)) \in Nat
    BY <1>2
  <2> QED BY <1>4, <2>1, <2>2
<1>7. /\ Remaining(b, debt) \in Nat
      /\ ResetSecs(b, Remaining(b, debt), 0) * Second \in Nat
      /\ ResetSecs(b, Remaining(b, debt), 0) * Second >= debt
  <2>1. Remaining(b, debt) \in Nat
    <3>1. Burst(b) - debt \in Nat
      BY <1>2, <1>3
    <3> QED BY <1>2, <3>1, FloorBelow DEF Remaining
  <2> QED BY <1>2, <1>3, <2>1, ResetCovers
<1>8. TypeOK'
  <2>1. \A j \in DOMAIN cache' : /\ cache'[j].debt \in 0 .. Burst(j[1])
                                 /\ cache'[j].idle \in 0 .. IdleTtl - 1
    <3>1. IdleTtl - 1 \in Nat
      BY LimitAssumption
    <3>2. cache'[k].debt \in 0 .. Burst(k[1]) /\ cache'[k].idle \in 0 .. IdleTtl - 1
      BY <1>1, <1>2, <1>3, <1>5, <3>1
    <3> QED BY <1>5, <3>2 DEF LimiterInd, TypeOK
  <2>2. told' \in [retry : Int, reset : Int]
    BY <1>4, <1>7 DEF LimiterInd, TypeOK
  <2>3. strayed' \subseteq Keys
    BY <1>1, <1>4 DEF LimiterInd, TypeOK
  <2> QED BY <1>1, <1>5, <1>6, <2>1, <2>2, <2>3 DEF LimiterInd, TypeOK
<1>9. ChargedForItsOwn'
  <2> SUFFICES ASSUME peerKnown, NEW bb \in Buckets, NEW cc \in Clients,
                      <<bb, cc>> \notin strayed'
               PROVE  /\ DebtOf(<<bb, cc>>)' <= spent'[bb][cc]
                      /\ <<bb, cc>> \notin evicted => DebtOf(<<bb, cc>>)' = spent'[bb][cc]
    BY DEF ChargedForItsOwn, Charged
  <2>1. /\ <<bb, cc>> \notin strayed
        /\ on => <<bb, cc>> # k /\ <<bb, cc>> # <<b, c>>
        /\ ~on => k = <<b, c>>
    BY <1>4
  <2>2. /\ DebtOf(<<bb, cc>>) <= spent[bb][cc]
        /\ <<bb, cc>> \notin evicted => DebtOf(<<bb, cc>>) = spent[bb][cc]
    BY <2>1 DEF LimiterInd, ChargedForItsOwn, Charged
  <2>3. CASE <<bb, cc>> # k /\ <<bb, cc>> # <<b, c>>
    BY <1>5, <1>6, <2>2, <2>3
  <2>4. CASE <<bb, cc>> = k /\ k = <<b, c>>
    BY <1>0, <1>2, <1>5, <1>6, <2>2, <2>4
  <2> QED BY <2>1, <2>3, <2>4
<1>10. DebtsDecay'
  BY <1>1, <1>2, <1>3, <1>5 DEF LimiterInd, DebtsDecay
<1>11. RetryIsEnough'
  <2>1. CASE watched = k
    BY <1>4, <2>1 DEF RetryIsEnough
  <2>2. CASE watched # k
    BY <1>4, <1>5, <2>2 DEF LimiterInd, RetryIsEnough, WaitTime
  <2> QED BY <2>1, <2>2
<1>12. ResetIsEnough'
  <2>1. CASE watched = k
    BY <1>4, <1>5, <1>7, <2>1 DEF ResetIsEnough
  <2>2. CASE watched # k
    BY <1>4, <1>5, <2>2 DEF LimiterInd, ResetIsEnough
  <2> QED BY <2>1, <2>2
<1> QED BY <1>8, <1>9, <1>10, <1>11, <1>12 DEF LimiterInd

(* A request over the rate: nothing is charged, and its limiter is no      *)
(* longer idle.                                                            *)
LEMMA RejectStep ==
    ASSUME LimiterInd, NEW b \in Buckets, NEW k \in Keys, k[1] = b,
           Reject(k), UNCHANGED <<peerKnown, watched, evicted>>
    PROVE  LimiterInd'
<1>0. PICK debt, wait : debt = DebtOf(k) /\ wait = WaitTime(k)
  OBVIOUS
<1>1. /\ debt \in 0 .. Burst(b) /\ Interval(b) \in Nat \ {0} /\ Burst(b) \in Nat \ {0}
      /\ Interval(b) <= Burst(b)
  BY <1>0, DebtType, Quotas DEF LimiterInd
<1>2. wait \in Nat /\ wait = debt + Interval(b) - Burst(b)
  BY <1>0, <1>1 DEF WaitTime, Reject, Available
<1>3. /\ Put(k, [debt |-> debt, idle |-> 0])
      /\ told' = IF k = watched
                 THEN [retry |-> RetryAfterSecs(wait) * Second,
                       reset |-> ResetSecs(b, 0, wait) * Second]
                 ELSE told
      /\ spent' = spent /\ strayed' = strayed
  BY <1>0 DEF Reject, Promise
<1>4. /\ DOMAIN cache' = DOMAIN cache \cup {k}
      /\ cache'[k].debt = debt /\ cache'[k].idle = 0
      /\ \A j \in DOMAIN cache : j # k => cache'[j] = cache[j]
      /\ \A j : DebtOf(j)' = DebtOf(j)
  BY <1>0, <1>3, PutDebt
<1>5. /\ RetryAfterSecs(wait) * Second \in Nat /\ RetryAfterSecs(wait) * Second >= wait
      /\ ResetSecs(b, 0, wait) * Second \in Nat /\ ResetSecs(b, 0, wait) * Second >= debt
  BY <1>1, <1>2, RetryCovers, ResetCovers
<1>6. TypeOK'
  <2>1. \A j \in DOMAIN cache' : /\ cache'[j].debt \in 0 .. Burst(j[1])
                                 /\ cache'[j].idle \in 0 .. IdleTtl - 1
    <3>1. IdleTtl - 1 \in Nat
      BY LimitAssumption
    <3> QED BY <1>1, <1>4, <3>1 DEF LimiterInd, TypeOK
  <2>2. told' \in [retry : Int, reset : Int]
    BY <1>3, <1>5 DEF LimiterInd, TypeOK
  <2> QED BY <1>3, <1>4, <2>1, <2>2 DEF LimiterInd, TypeOK
<1>7. ChargedForItsOwn'
  BY <1>3, <1>4 DEF LimiterInd, ChargedForItsOwn, Charged
<1>8. DebtsDecay'
  BY <1>1, <1>4 DEF LimiterInd, DebtsDecay
<1>9. RetryIsEnough'
  <2>1. CASE watched = k
    <3>1. WaitTime(watched)' = wait
      BY <1>0, <1>4, <2>1 DEF WaitTime
    <3> QED BY <1>3, <1>5, <2>1, <3>1 DEF RetryIsEnough
  <2>2. CASE watched # k
    BY <1>3, <1>4, <2>2 DEF LimiterInd, RetryIsEnough, WaitTime
  <2> QED BY <2>1, <2>2
<1>10. ResetIsEnough'
  <2>1. CASE watched = k
    BY <1>0, <1>3, <1>4, <1>5, <2>1 DEF ResetIsEnough
  <2>2. CASE watched # k
    BY <1>3, <1>4, <2>2 DEF LimiterInd, ResetIsEnough
  <2> QED BY <2>1, <2>2
<1> QED BY <1>6, <1>7, <1>8, <1>9, <1>10 DEF LimiterInd

(* Time passes: debts, what was spent and what was promised shrink         *)
(* together, and a limiter that is forgotten owes nothing by then.         *)
LEMMA TickStep ==
    ASSUME LimiterInd, Tick
    PROVE  LimiterInd'
<1> DEFINE aged == [k \in DOMAIN cache |->
                       [debt |-> Sub(cache[k].debt), idle |-> cache[k].idle + 1]]
<1>1. /\ cache' = [k \in {j \in DOMAIN cache : ~Expired(aged[j])} |-> aged[k]]
      /\ told' = [retry |-> Sub(told.retry), reset |-> Sub(told.reset)]
      /\ spent' = [bb \in Buckets |-> [c \in Clients |-> Sub(spent[bb][c])]]
      /\ evicted' = {k \in evicted : \E c \in Clients :
                        k[2] \in {c, Unknown} /\ spent[k[1]][c] > 1}
      /\ strayed' = {k \in strayed : k[2] \in Clients /\
                        (DebtOf(k) > 1 \/ spent[k[1]][k[2]] > 1)}
      /\ peerKnown' = peerKnown /\ watched' = watched
  BY DEF Tick
<1>2. ASSUME NEW k \in DOMAIN cache
      PROVE  /\ aged[k].debt = Sub(cache[k].debt) /\ aged[k].idle = cache[k].idle + 1
             /\ cache[k].debt \in 0 .. Burst(k[1]) /\ cache[k].idle \in 0 .. IdleTtl - 1
             /\ k \in Keys /\ Burst(k[1]) \in Nat /\ Burst(k[1]) <= IdleTtl /\ IdleTtl \in Nat
             /\ cache[k].debt > 0 => cache[k].debt + cache[k].idle <= Burst(k[1])
  <2>1. k \in Keys /\ k[1] \in Buckets
    BY DEF LimiterInd, TypeOK, Keys
  <2>2. IdleTtl \in Nat
    BY LimitAssumption
  <2> QED BY <2>1, <2>2, Quotas DEF LimiterInd, TypeOK, DebtsDecay
<1>3. ASSUME NEW k \in DOMAIN cache'
      PROVE  /\ k \in DOMAIN cache /\ cache'[k].debt = Sub(cache[k].debt)
             /\ cache'[k].idle = cache[k].idle + 1 /\ cache'[k].idle < IdleTtl
  <2>1. k \in DOMAIN cache /\ cache'[k] = aged[k] /\ ~Expired(aged[k])
    BY <1>1
  <2> HIDE DEF aged
  <2> QED BY <1>2, <2>1 DEF Expired
<1>4. ASSUME NEW k \in Keys
      PROVE  DebtOf(k)' = Sub(DebtOf(k)) /\ DebtOf(k) \in Nat
  <2>1. CASE k \in DOMAIN cache'
    <3>1. k \in DOMAIN cache /\ cache'[k].debt = Sub(cache[k].debt)
      BY <1>3, <2>1
    <3>2. cache[k].debt \in Nat
      <4>1. cache[k].debt \in 0 .. Burst(k[1])
        BY <1>2, <3>1, Zenon
      <4> QED BY <4>1
    <3> QED BY <2>1, <3>1, <3>2 DEF DebtOf
  <2>2. CASE k \notin DOMAIN cache
    <3>1. k \notin DOMAIN cache'
      BY <1>3, <2>2
    <3> QED BY <2>2, <3>1 DEF DebtOf, Sub
  <2>3. CASE k \in DOMAIN cache /\ k \notin DOMAIN cache'
    <3>1. Expired(aged[k])
      BY <1>1, <2>3
    <3> HIDE DEF aged
    <3>2. cache[k].idle + 1 >= IdleTtl
      BY <1>2, <2>3, <3>1 DEF Expired
    <3> QED BY <1>2, <2>3, <3>2 DEF DebtOf, Sub
  <2> QED BY <2>1, <2>2, <2>3
<1> HIDE DEF aged
<1>5. ASSUME NEW bb \in Buckets, NEW c \in Clients
      PROVE  spent'[bb][c] = Sub(spent[bb][c]) /\ spent[bb][c] \in Nat
  BY <1>1 DEF LimiterInd, TypeOK
<1>6. \A n \in Nat : Sub(n) \in Nat
  BY DEF Sub
<1>7. TypeOK'
  <2>1. DOMAIN cache' \subseteq Keys
    BY <1>2, <1>3
  <2>2. \A k \in DOMAIN cache' : /\ cache'[k].debt \in 0 .. Burst(k[1])
                                 /\ cache'[k].idle \in 0 .. IdleTtl - 1
    BY <1>2, <1>3 DEF Sub
  <2>3. told' \in [retry : Int, reset : Int]
    <3>1. told.retry \in Int /\ told.reset \in Int
      BY DEF LimiterInd, TypeOK
    <3>2. \A n \in Int : Sub(n) \in Int
      BY DEF Sub
    <3> QED BY <1>1, <3>1, <3>2
  <2>4. spent' \in [Buckets -> [Clients -> Nat]]
    BY <1>1, <1>6 DEF LimiterInd, TypeOK
  <2>5. evicted' \subseteq Keys /\ strayed' \subseteq Keys /\ watched' \in Keys /\ peerKnown' \in BOOLEAN
    BY <1>1 DEF LimiterInd, TypeOK
  <2> QED BY <2>1, <2>2, <2>3, <2>4, <2>5 DEF TypeOK
<1>8. ChargedForItsOwn'
  <2> SUFFICES ASSUME peerKnown, NEW bb \in Buckets, NEW c \in Clients,
                      <<bb, c>> \notin strayed'
               PROVE  /\ DebtOf(<<bb, c>>)' <= spent'[bb][c]
                      /\ <<bb, c>> \notin evicted' => DebtOf(<<bb, c>>)' = spent'[bb][c]
    BY <1>1 DEF ChargedForItsOwn, Charged
  <2>1. <<bb, c>> \notin strayed =>
           /\ DebtOf(<<bb, c>>) <= spent[bb][c]
           /\ <<bb, c>> \notin evicted => DebtOf(<<bb, c>>) = spent[bb][c]
    BY DEF LimiterInd, ChargedForItsOwn, Charged
  <2>2. <<bb, c>> \in Keys
    BY DEF Keys, Hops
  <2>3. <<bb, c>> \in evicted /\ <<bb, c>> \notin evicted' => spent[bb][c] <= 1
    BY <1>1, <1>5
  <2>4. CASE <<bb, c>> \in strayed
    <3>1. DebtOf(<<bb, c>>) <= 1 /\ spent[bb][c] <= 1
      BY <1>1, <1>4, <1>5, <2>2, <2>4
    <3> QED BY <1>4, <1>5, <2>2, <3>1 DEF Sub
  <2>5. CASE <<bb, c>> \notin strayed
    BY <1>4, <1>5, <2>1, <2>2, <2>3, <2>5 DEF Sub
  <2> QED BY <2>4, <2>5
<1>9. DebtsDecay'
  BY <1>2, <1>3 DEF DebtsDecay, Sub
<1>10. /\ watched \in Keys /\ watched[1] \in Buckets
       /\ DebtOf(watched)' = Sub(DebtOf(watched)) /\ DebtOf(watched) \in Nat
       /\ Interval(watched[1]) \in Nat /\ Burst(watched[1]) \in Nat
       /\ Interval(watched[1]) <= Burst(watched[1])
       /\ told.retry \in Int /\ told.reset \in Int
       /\ told'.retry = Sub(told.retry) /\ told'.reset = Sub(told.reset)
  <2>1. watched \in Keys /\ watched[1] \in Buckets
    BY DEF LimiterInd, TypeOK, Keys
  <2> QED BY <1>1, <1>4, <2>1, Quotas DEF LimiterInd, TypeOK
<1>11. RetryIsEnough'
  BY <1>1, <1>10 DEF LimiterInd, RetryIsEnough, WaitTime, Sub
<1>12. ResetIsEnough'
  BY <1>1, <1>10 DEF LimiterInd, ResetIsEnough, Sub
<1> QED BY <1>7, <1>8, <1>9, <1>11, <1>12 DEF LimiterInd

(* A limiter lost to the capacity of the cache: its debt is forgiven. *)
LEMMA EvictStep ==
    ASSUME LimiterInd, NEW k \in DOMAIN cache, Evict(k)
    PROVE  LimiterInd'
<1>1. /\ DOMAIN cache' = DOMAIN cache \ {k}
      /\ \A j \in DOMAIN cache' : cache'[j] = cache[j]
      /\ evicted' = evicted \cup {k}
      /\ UNCHANGED <<peerKnown, watched, told, spent, strayed>>
  BY DEF Evict
<1>2. DebtOf(k)' = 0 /\ \A j : j # k => DebtOf(j)' = DebtOf(j)
  BY <1>1 DEF DebtOf
<1>3. k \in Keys /\ DebtOf(k) \in Nat
  BY DebtType, Quotas DEF LimiterInd, TypeOK
<1>4. TypeOK'
  BY <1>1, <1>3 DEF LimiterInd, TypeOK
<1>5. ChargedForItsOwn'
  <2> SUFFICES ASSUME peerKnown, NEW bb \in Buckets, NEW c \in Clients,
                      <<bb, c>> \notin strayed
               PROVE  /\ DebtOf(<<bb, c>>)' <= spent[bb][c]
                      /\ <<bb, c>> \notin evicted' => DebtOf(<<bb, c>>)' = spent[bb][c]
    BY <1>1 DEF ChargedForItsOwn, Charged
  <2>1. spent[bb][c] \in Nat
    BY DEF LimiterInd, TypeOK
  <2> QED BY <1>1, <1>2, <2>1 DEF LimiterInd, ChargedForItsOwn, Charged
<1>6. DebtsDecay'
  BY <1>1 DEF LimiterInd, DebtsDecay
<1>7. /\ watched[1] \in Buckets /\ DebtOf(watched) \in Nat /\ DebtOf(watched)' \in Nat
      /\ DebtOf(watched)' <= DebtOf(watched)
      /\ Interval(watched[1]) \in Nat /\ Burst(watched[1]) \in Nat /\ told \in [retry : Int, reset : Int]
  <2>1. watched \in Keys /\ watched[1] \in Buckets /\ told \in [retry : Int, reset : Int]
    BY DEF LimiterInd, TypeOK, Keys
  <2>2. DebtOf(watched) \in Nat /\ Interval(watched[1]) \in Nat /\ Burst(watched[1]) \in Nat
    BY <2>1, DebtType, Quotas DEF LimiterInd
  <2>3. DebtOf(watched)' = DebtOf(watched) \/ DebtOf(watched)' = 0
    <3>1. watched' = watched
      BY <1>1
    <3> QED BY <1>2, <3>1 DEF DebtOf
  <2> QED BY <2>1, <2>2, <2>3
<1>8. RetryIsEnough' /\ ResetIsEnough'
  BY <1>1, <1>7 DEF LimiterInd, RetryIsEnough, ResetIsEnough, WaitTime
<1> QED BY <1>4, <1>5, <1>6, <1>8 DEF LimiterInd

(* Every step of the limiter and of time. *)
LEMMA LimiterStep == LimiterInd /\ [Next]_vars => LimiterInd'
<1> SUFFICES ASSUME LimiterInd, [Next]_vars PROVE LimiterInd'
  OBVIOUS
<1>1. ASSUME NEW t \in Traffic, NEW w \in Written, NEW req \in Received(t[1], w),
             Request(t[1], t[2], req)
      PROVE  LimiterInd'
  <2> DEFINE b == Bucket(t[2])
             k == <<b, ClientIpKey(req)>>
  <2>1. /\ b \in Buckets /\ t[1] \in Clients /\ ClientIpKey(req) \in Hops \cup {Unknown}
        /\ ~req.passedOn => k = <<b, IF peerKnown THEN t[1] ELSE Unknown>>
    BY KeyOfRequest DEF LimiterInd, TypeOK
  <2>2. k \in Keys /\ k[1] = b
    BY <2>1 DEF Keys
  <2>3. /\ Admit(t[1], k, req.passedOn) \/ Reject(k)
        /\ UNCHANGED <<peerKnown, watched, evicted>>
    BY <1>1 DEF Request
  <2> HIDE DEF b, k
  <2> QED BY <2>1, <2>2, <2>3, AdmitStep, RejectStep
<1>2. ASSUME NEW k \in DOMAIN cache, Evict(k) PROVE LimiterInd'
  BY <1>2, EvictStep
<1>3. CASE Tick
  BY <1>3, TickStep
<1>4. CASE UNCHANGED vars
  BY <1>4 DEF vars, LimiterInd, TypeOK, ChargedForItsOwn, Charged, DebtsDecay, RetryIsEnough,
              ResetIsEnough, WaitTime, DebtOf
<1> QED BY <1>1, <1>2, <1>3, <1>4 DEF Next

(* The inductive invariant of the limiter. *)
THEOREM LimiterInductive == Spec => []LimiterInd
BY LimiterInit, LimiterStep, PTL DEF Spec

(* However requests, idle expiry and evictions interleave, a client is     *)
(* charged for its own admitted requests and for no one else's, and only   *)
(* the cache's capacity forgives, except for the keys that a header passed *)
(* on by a proxy touched, until their debts have decayed.                  *)
THEOREM LimiterIsSound == Spec => []LimiterInv
<1>1. LimiterInd => LimiterInv
  BY DEF LimiterInd, LimiterInv
<1> QED BY <1>1, LimiterInductive, PTL

(* Retry-After and X-RateLimit-Reset are never too short.  The proof needs *)
(* the bound a pending promise sets at every moment, not only when it      *)
(* comes due.                                                              *)
THEOREM PromisesHold == Spec => []PromisesAreKept
<1>1. ASSUME LimiterInd PROVE PromisesAreKept
  <2>1. /\ watched[1] \in Buckets /\ DebtOf(watched) \in Nat
        /\ Interval(watched[1]) \in Nat /\ Burst(watched[1]) \in Nat
    BY <1>1, DebtType, Quotas DEF LimiterInd, TypeOK
  <2> QED BY <1>1, <2>1 DEF LimiterInd, PromisesAreKept, RetryIsEnough, ResetIsEnough,
                            WaitTime, Available
<1> QED BY <1>1, LimiterInductive, PTL
=============================================================================
