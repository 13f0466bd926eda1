------------------------------ MODULE RateLimit ------------------------------
(***************************************************************************)
(* rate_limit_middleware: every request is charged to a limiter chosen by  *)
(* its route's bucket and by the client's address, which for a request of  *)
(* a trusted proxy is found in the forwarding headers.  The limiters live  *)
(* in a cache that forgets a key when it is idle and may forget any key    *)
(* when it is over its capacity.                                           *)
(*                                                                         *)
(* Time is counted in ticks, Second of them in a second.  A limiter is     *)
(* governor's: it owes a debt that decays with time, a request adds one    *)
(* interval to it, and the debt never exceeds the burst.  There is no      *)
(* await between the lookup of a limiter and its check, and an entry just  *)
(* looked up is not idle, so the two are one step.                         *)
(***************************************************************************)
EXTENDS Integers, FiniteSets, Sequences, FiniteSetsExt

CONSTANTS
    Clients,        \* addresses of clients
    Proxies,        \* addresses in TRUSTED_PROXY_CIDRS
    Garbage,        \* a hop that is no address
    Traffic,        \* bound: which client calls which route
    Written,        \* what a client writes into the forwarding headers
    NoHeader,       \* an absent header, or an absent peer address
    BaseRps,        \* RATE_LIMIT_REQUESTS_PER_SEC
    ReadMultiplier, \* the multiplier of the default bucket
    Second,         \* ticks of a second
    IdleTtl,        \* RATE_LIMITER_IDLE_TTL, in ticks
    MaxKeys         \* RATE_LIMITER_MAX_KEYS

Larger(a, b) == IF a > b THEN a ELSE b
CeilDiv(a, b) == (a + b - 1) \div b

(* The routes a request can name, by what the bucket depends on. *)
Routes == {"POST /payments", "POST /v1/payments", "POST /merchants",
           "POST /payments/../redeliver", "GET"}

(* rate_limited_bucket: paths are compared without their /v1 prefix        *)
(* removed.                                                                *)
Bucket(route) ==
    CASE route = "POST /payments" -> "payments"
      [] route = "POST /merchants" -> "merchants"
      [] route = "POST /payments/../redeliver" -> "redeliver"
      [] OTHER -> "default"

Buckets == {Bucket(t[2]) : t \in Traffic}

(* bucket_rate_multiplier and RateLimitState::new, which raises 0 to 1.    *)
Rps(b) == Larger(BaseRps, 1) * (IF b = "default" THEN ReadMultiplier ELSE 1)

(* Quota::per_second: the burst is a second's requests. *)
Interval(b) == Second \div Rps(b)
Burst(b) == Rps(b) * Interval(b)

(* What a forwarding header names, hop by hop. *)
Hops == Clients \cup Proxies \cup {Garbage}

ASSUME LimitAssumption ==
    /\ BaseRps \in Nat /\ {ReadMultiplier, Second, IdleTtl, MaxKeys} \subseteq Nat \ {0}
    /\ Traffic \subseteq Clients \X Routes
    /\ Clients \cap Proxies = {} /\ Garbage \notin Clients \cup Proxies
    /\ NoHeader \notin Clients \cup Proxies \cup {Garbage}
    /\ Written \subseteq [xff : Seq(Hops), realIp : Hops \cup {NoHeader}]

(* An interval is a whole number of ticks, and an idle limiter has decayed *)
(* before it is forgotten: 60 seconds against the one of a full burst.     *)
ASSUME DecayAssumption ==
    \A b \in Buckets : Burst(b) = Second /\ Burst(b) <= IdleTtl

VARIABLES
    peerKnown,   \* the router is served with the peers' addresses
    cache,       \* the limiters, by key; absent keys are not in its domain
    watched,     \* history: the key whose answers are watched,
    told,        \*   and what the last of them promised, in ticks from now
    spent,       \* history: what each client has really used of each bucket
    evicted,     \* history: keys whose limiter was lost to capacity
    strayed      \* history: keys touched by a header a proxy passed on

vars == <<peerKnown, cache, watched, told, spent, evicted, strayed>>

Unknown == "unknown"
Keys == Buckets \X (Hops \cup {Unknown})
KeysInUse == {<<Bucket(t[2]), IF peerKnown THEN t[1] ELSE Unknown>> : t \in Traffic}
NoPromise == [retry |-> -1, reset |-> -1]

Init ==
    /\ peerKnown \in BOOLEAN
    /\ cache = [k \in {} |-> {}]
    /\ watched \in KeysInUse
    /\ told = NoPromise
    /\ spent = [b \in Buckets |-> [c \in Clients |-> 0]]
    /\ evicted = {} /\ strayed = {}

-----------------------------------------------------------------------------
(* Whose request it is. *)

(* Mutant: the leftmost hop is taken. *)
ClientIpKeyLeftmost(req) ==
    IF req.peer = NoHeader THEN Unknown
    ELSE IF req.peer \notin Proxies \/ req.xff = <<>> THEN req.peer
    ELSE req.xff[1]

(* client_ip_key: the peer, or for a trusted peer the rightmost hop that   *)
(* is no trusted proxy, then X-Real-IP.                                    *)
ClientIpKey(req) ==
    LET clients == {n \in DOMAIN req.xff : req.xff[n] \notin Proxies}
    IN IF req.peer = NoHeader THEN Unknown
       ELSE IF req.peer \notin Proxies THEN req.peer
       ELSE IF clients # {} THEN req.xff[Max(clients)]
       ELSE IF req.realIp \in {NoHeader, Garbage} \cup Proxies THEN req.peer
       ELSE req.realIp

(* How the request of client c, which wrote the header w itself, reaches   *)
(* the gateway: directly; through proxies that append the address they     *)
(* were called from to X-Forwarded-For; through one that adds it on a      *)
(* header line of its own, where headers().get reads the first line only;  *)
(* through one that sets X-Real-IP alone.  The last two pass on what the   *)
(* client wrote to where client_ip_key looks first.                        *)
Received(c, w) ==
    LET direct == [peer |-> c, xff |-> w.xff, realIp |-> w.realIp, passedOn |-> FALSE]
        appended == {[direct EXCEPT !.peer = p, !.xff = Append(w.xff, c)] : p \in Proxies}
        chained == {[direct EXCEPT !.peer = last[1], !.xff = w.xff \o <<c, last[2]>>] :
                       last \in Proxies \X Proxies}
        lined == {[direct EXCEPT !.peer = p, !.xff = IF w.xff = <<>> THEN <<c>> ELSE w.xff,
                                 !.passedOn = w.xff # <<>>] : p \in Proxies}
        real == {[direct EXCEPT !.peer = p, !.realIp = c,
                      !.passedOn = \E n \in DOMAIN w.xff : w.xff[n] \notin Proxies] : p \in Proxies}
    IN IF peerKnown THEN {direct} \cup appended \cup chained \cup lined \cup real
       ELSE {[direct EXCEPT !.peer = NoHeader]}

-----------------------------------------------------------------------------
(* A limiter: Quota, check(), wait_time_from and the snapshot. *)

Fresh == [debt |-> 0, idle |-> 0]
DebtOf(k) == IF k \in DOMAIN cache THEN cache[k].debt ELSE 0
Available(k) == DebtOf(k) + Interval(k[1]) <= Burst(k[1])
WaitTime(k) == DebtOf(k) + Interval(k[1]) - Burst(k[1])
Remaining(b, debt) == (Burst(b) - debt) \div Interval(b)

(* Mutant: truncated, with no floor. *)
RetryAfterTruncated(wait) == wait \div Second

RetryAfterSecs(wait) == Larger(CeilDiv(wait, Second), 1)

ResetSecs(b, remaining, wait) ==
    CeilDiv(Larger(Interval(b) * (Rps(b) - remaining), wait), Second)

-----------------------------------------------------------------------------

Put(k, entry) == cache' = [j \in DOMAIN cache \cup {k} |-> IF j = k THEN entry ELSE cache[j]]

Promise(k, retry, reset) ==
    told' = IF k = watched THEN [retry |-> retry, reset |-> reset] ELSE told

Admit(c, k, passedOn) ==
    LET debt == DebtOf(k) + Interval(k[1])
        reset == ResetSecs(k[1], Remaining(k[1], debt), 0)
    IN /\ Available(k)
       /\ Put(k, [debt |-> debt, idle |-> 0])
       /\ Promise(k, -1, reset * Second)
       /\ spent' = [spent EXCEPT ![k[1]][c] = IF @ > Burst(k[1]) THEN @ ELSE @ + Interval(k[1])]
       /\ strayed' = IF passedOn THEN strayed \cup {k, <<k[1], c>>} ELSE strayed

Reject(k) ==
    /\ ~Available(k)
    /\ Put(k, [debt |-> DebtOf(k), idle |-> 0])
    /\ Promise(k, RetryAfterSecs(WaitTime(k)) * Second, ResetSecs(k[1], 0, WaitTime(k)) * Second)
    /\ UNCHANGED <<spent, strayed>>

(* rate_limit_middleware. *)
Request(c, route, req) ==
    LET k == <<Bucket(route), ClientIpKey(req)>>
    IN /\ Admit(c, k, req.passedOn) \/ Reject(k)
       /\ UNCHANGED <<peerKnown, watched, evicted>>

Expired(entry) == entry.idle >= IdleTtl

Sub(n) == IF n > 0 THEN n - 1 ELSE n

(* A tick: debts decay, promises come due, idle limiters are forgotten.    *)
Tick ==
    LET aged == [k \in DOMAIN cache |-> [debt |-> Sub(cache[k].debt), idle |-> cache[k].idle + 1]]
    IN /\ cache' = [k \in {j \in DOMAIN cache : ~Expired(aged[j])} |-> aged[k]]
       /\ told' = [retry |-> Sub(told.retry), reset |-> Sub(told.reset)]
       /\ spent' = [b \in Buckets |-> [c \in Clients |-> Sub(spent[b][c])]]
       /\ evicted' = {k \in evicted : \E c \in Clients :
                       k[2] \in {c, Unknown} /\ spent[k[1]][c] > 1}
       /\ strayed' = {k \in strayed : k[2] \in Clients /\
                       (DebtOf(k) > 1 \/ spent[k[1]][k[2]] > 1)}
       /\ UNCHANGED <<peerKnown, watched>>

(* moka makes room in its own time, by a policy of its own. *)
Evict(k) ==
    /\ k \in DOMAIN cache
    /\ Cardinality(DOMAIN cache) > MaxKeys
    /\ cache' = [j \in DOMAIN cache \ {k} |-> cache[j]]
    /\ evicted' = evicted \cup {k}
    /\ UNCHANGED <<peerKnown, watched, told, spent, strayed>>

-----------------------------------------------------------------------------

Next ==
    \/ \E t \in Traffic, w \in Written :
          \E req \in Received(t[1], w) : Request(t[1], t[2], req)
    \/ \E k \in DOMAIN cache : Evict(k)
    \/ Tick

Spec == Init /\ [][Next]_vars

-----------------------------------------------------------------------------
(* Properties. *)

(* Types of every variable. *)
TypeOK ==
    /\ peerKnown \in BOOLEAN
    /\ DOMAIN cache \subseteq Keys
    /\ \A k \in DOMAIN cache : /\ cache[k].debt \in 0 .. Burst(k[1])
                               /\ cache[k].idle \in 0 .. IdleTtl - 1
    /\ watched \in Keys /\ told \in [retry : Int, reset : Int]
    /\ spent \in [Buckets -> [Clients -> Nat]]
    /\ evicted \subseteq Keys /\ strayed \subseteq Keys

(* What client c owes in bucket b is what it was admitted to, or less if   *)
(* the cache was over its capacity.                                        *)
Charged(b, c) ==
    /\ DebtOf(<<b, c>>) <= spent[b][c]
    /\ <<b, c>> \notin evicted => DebtOf(<<b, c>>) = spent[b][c]

(* A client is charged for all it was admitted to and for nothing else.    *)
(* The expiry of idle limiters forgives nothing.  A header moves a request *)
(* to another key only where a trusted proxy passes on the client's        *)
(* X-Forwarded-For without appending to that line, and the keys it touched *)
(* are right again when their debts have decayed.                          *)
ChargedForItsOwn ==
    peerKnown => \A b \in Buckets, c \in Clients : <<b, c>> \notin strayed => Charged(b, c)

(* The types, and that every client is charged for its own requests. *)
LimiterInv == TypeOK /\ ChargedForItsOwn

(* Retry-After and X-RateLimit-Reset are promises: a client that waits as  *)
(* long as it was told, with no other request of its key in between, is    *)
(* admitted, or finds the bucket full.                                     *)
PromisesAreKept ==
    /\ told.retry = 0 => Available(watched)
    /\ told.reset = 0 => DebtOf(watched) = 0
=============================================================================
