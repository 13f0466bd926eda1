---------------------------- MODULE ApiKeysProofs ----------------------------
(***************************************************************************)
(* Theorems about ApiKeys, for any merchants, keys, operators and clients. *)
(***************************************************************************)
EXTENDS ApiKeys, FiniteSetTheorems, TLAPS

-----------------------------------------------------------------------------
(* The inductive invariants. *)

(* A call was told "revoked" exactly for the rows that have a revoked_at.  *)
ToldIsRevoked == \A k \in KeyIds : answered[k] = IF k \in revoked THEN 1 ELSE 0

(* A key that was looked up is an issued one and was not revoked then; the *)
(* full view of a payment needs such a key, of the payment's merchant.     *)
ClientSound ==
    \A c \in Clients :
       /\ client[c].key # NoKey =>
             /\ client[c].merchant = owner[client[c].key]
             /\ client[c].merchant # NoMerchant
             /\ ~client[c].tooLate
       /\ client[c].seen = "full" =>
             client[c].key # NoKey /\ client[c].asked = client[c].merchant

(* A call under way is about a merchant that exists. *)
AdminSound == \A o \in Operators : admin[o].pc # "ready" => admin[o].merchant \in merchants

KeysInd == TypeOK /\ ToldIsRevoked /\ ClientSound /\ AdminSound

(* The invariant contains what the runs check. *)
LEMMA KeysIndImplies == KeysInd => KeysInv
<1>. SUFFICES ASSUME KeysInd PROVE KeysInv
  OBVIOUS
<1>1. OneRevocation
  BY DEF KeysInd, ToldIsRevoked, OneRevocation
<1>2. RevocationIsImmediate
  BY DEF KeysInd, ClientSound, RevocationIsImmediate
<1>3. FullViewIsOwners
  BY DEF KeysInd, ClientSound, FullViewIsOwners
<1>. QED
  BY <1>1, <1>2, <1>3 DEF KeysInv, KeysInd

(* No merchant, no key, nobody calling. *)
LEMMA KeysInit == Init => KeysInd
  BY DEF Init, KeysInd, TypeOK, ToldIsRevoked, ClientSound, AdminSound, Ready, Unknown

-----------------------------------------------------------------------------
(* Types. *)

AdminState(ms) ==
    [pc : {"ready", "issue", "count", "update"}, merchant : ms \cup {NoMerchant},
     key : KeyIds \cup {NoKey}]
ClientState(ms) ==
    [asked : ms \cup {NoMerchant}, key : KeyIds \cup {NoKey},
     merchant : ms \cup {NoMerchant}, tooLate : BOOLEAN,
     seen : {"nothing", "public", "unauthorized", "full", "not found"}]

(* A call in progress stays well typed when merchants are added. *)
LEMMA CallsGrow ==
    ASSUME NEW ms, NEW more, ms \subseteq more
    PROVE  AdminState(ms) \subseteq AdminState(more) /\ ClientState(ms) \subseteq ClientState(more)
  BY DEF AdminState, ClientState

(* The steps of a client's call. *)
LEMMA ClientMoves ==
    ASSUME NEW ms, NEW c \in ClientState(ms), NEW m \in ms \cup {NoMerchant},
           NEW k \in KeyIds, NEW late \in BOOLEAN,
           NEW seen \in {"nothing", "public", "unauthorized", "full", "not found"}
    PROVE  /\ [c EXCEPT !.asked = m] \in ClientState(ms)
           /\ [c EXCEPT !.seen = seen] \in ClientState(ms)
           /\ [c EXCEPT !.key = k, !.merchant = m, !.tooLate = late] \in ClientState(ms)
  BY DEF ClientState

(* Where a call begins and ends. *)
LEMMA RestingCalls ==
    ASSUME NEW ms
    PROVE  Ready \in AdminState(ms) /\ Unknown \in ClientState(ms)
  BY DEF Ready, Unknown, AdminState, ClientState

Tables ==
    /\ merchants \subseteq Merchants
    /\ owner \in [KeyIds -> merchants \cup {NoMerchant}]
    /\ revoked \subseteq {k \in KeyIds : owner[k] # NoMerchant}
    /\ used \subseteq {k \in KeyIds : owner[k] # NoMerchant}
    /\ answered \in [KeyIds -> Nat]
    /\ overlapped \subseteq merchants

Calls ==
    /\ admin \in [Operators -> AdminState(merchants)]
    /\ client \in [Clients -> ClientState(merchants)]

(* The type invariant, by tables and calls. *)
LEMMA TypeParts == (TypeOK <=> Tables /\ Calls) /\ (TypeOK' <=> Tables' /\ Calls')
  BY DEF TypeOK, Tables, Calls, AdminState, ClientState

(* Every handler keeps the calls' types. *)
LEMMA CallsStep == TypeOK /\ [Next]_vars => Calls'
<1>. SUFFICES ASSUME TypeOK, [Next]_vars PROVE Calls'
  OBVIOUS
<1>0. Tables /\ Calls
  BY TypeParts
<1>1. ASSUME NEW o \in Operators, NEW m \in Merchants, NEW k \in KeyIds, Provision(o, m, k)
      PROVE  Calls'
  BY <1>0, <1>1, CallsGrow DEF Provision, Calls
<1>2. ASSUME NEW o \in Operators, NEW m \in Merchants, NEW k \in KeyIds \cup {NoKey},
             RevokeChecked(o, m, k) \/ (k = NoKey /\ IssueChecked(o, m))
      PROVE  Calls'
  <2>1. /\ [pc |-> "issue", merchant |-> m, key |-> k] \in AdminState(merchants)
        /\ [pc |-> "count", merchant |-> m, key |-> k] \in AdminState(merchants)
    BY <1>2 DEF RevokeChecked, IssueChecked, AdminState
  <2>. QED
    BY <1>0, <1>2, <2>1 DEF RevokeChecked, IssueChecked, Begin, Calls
<1>3. ASSUME NEW o \in Operators, NEW k \in KeyIds, Issue(o, k)
      PROVE  Calls'
  BY <1>0, <1>3, RestingCalls DEF Issue, Finish, Calls
<1>4. ASSUME NEW o \in Operators, RevokeCounted(o)
      PROVE  Calls'
  <2>1. admin[o] \in AdminState(merchants) /\ merchants' = merchants /\ client' = client
    BY <1>0, <1>4 DEF Calls, RevokeCounted
  <2>2. [admin[o] EXCEPT !.pc = "update"] \in AdminState(merchants)
    BY <2>1 DEF AdminState
  <2>3. admin' = [admin EXCEPT ![o] = Ready] \/ admin' = [admin EXCEPT ![o].pc = "update"]
    BY <1>4 DEF RevokeCounted, Finish, Proceed
  <2>. QED
    BY <1>0, <2>1, <2>2, <2>3, RestingCalls DEF Calls
<1>5. ASSUME NEW o \in Operators, Revoke(o) \/ Abandon(o)
      PROVE  Calls'
  BY <1>0, <1>5, RestingCalls DEF Revoke, Abandon, Finish, Calls
<1>6. ASSUME NEW c \in Clients, NEW k \in KeyIds, LookUp(c, k)
      PROVE  Calls'
  <2>1. /\ client[c] \in ClientState(merchants) /\ owner[k] \in merchants \cup {NoMerchant}
        /\ (answered[k] > 0) \in BOOLEAN /\ merchants' = merchants /\ admin' = admin
    BY <1>0, <1>6 DEF Tables, Calls, LookUp
  <2>2. [client[c] EXCEPT !.key = k, !.merchant = owner[k], !.tooLate = answered[k] > 0]
          \in ClientState(merchants)
    BY <2>1, ClientMoves
  <2>. QED
    BY <1>0, <1>6, <2>1, <2>2 DEF LookUp, Known, Calls
<1>7. ASSUME NEW c \in Clients, NEW m \in Merchants, GetPayment(c, m)
      PROVE  Calls'
  <2>1. [client[c] EXCEPT !.asked = m] \in ClientState(merchants)
    BY <1>0, <1>7 DEF GetPayment, Calls, ClientState
  <2>. QED
    BY <1>0, <1>7, <2>1 DEF GetPayment, Asks, Calls
<1>8. ASSUME NEW c \in Clients, ViewUnknown(c) \/ Serve(c) \/ Leave(c)
      PROVE  Calls'
  <2>1. \A seen \in {"public", "unauthorized", "full", "not found"} :
           [client[c] EXCEPT !.seen = seen] \in ClientState(merchants)
    BY <1>0 DEF Calls, ClientState
  <2>2. \/ client' = [client EXCEPT ![c] = Unknown]
        \/ \E seen \in {"public", "unauthorized", "full", "not found"} :
              client' = [client EXCEPT ![c].seen = seen]
    BY <1>8 DEF ViewUnknown, Serve, Leave, Sees
  <2>3. client' \in [Clients -> ClientState(merchants)]
    BY <1>0, <2>1, <2>2, RestingCalls DEF Calls
  <2>. QED
    BY <1>0, <1>8, <2>3 DEF ViewUnknown, Serve, Leave, Calls
<1>9. CASE UNCHANGED vars
  BY <1>0, <1>9 DEF vars, Calls
<1>. QED
  BY <1>1, <1>2, <1>3, <1>4, <1>5, <1>6, <1>7, <1>8, <1>9 DEF Next

(* Every handler keeps the tables' types. *)
LEMMA TablesStep == KeysInd /\ [Next]_vars => Tables'
<1>. SUFFICES ASSUME KeysInd, [Next]_vars PROVE Tables'
  OBVIOUS
<1>0. Tables /\ Calls
  BY TypeParts DEF KeysInd
<1>a. \A o \in Operators : admin[o].merchant \in merchants \cup {NoMerchant}
                             /\ admin[o].key \in KeyIds \cup {NoKey}
  BY <1>0 DEF Calls, AdminState
<1>1. ASSUME NEW o \in Operators, NEW m \in Merchants, NEW k \in KeyIds, Provision(o, m, k)
      PROVE  Tables'
  BY <1>0, <1>1, KeysAssumption DEF Provision, Tables
<1>2. ASSUME NEW o \in Operators, NEW k \in KeyIds, Issue(o, k)
      PROVE  Tables'
  <2>1. \A j \in KeyIds : owner[j] # NoMerchant => owner'[j] = owner[j]
    BY <1>0, <1>2 DEF Issue, Tables, Unissued
  <2>. QED
    BY <1>0, <1>a, <1>2, <2>1 DEF Issue, Tables
<1>3. ASSUME NEW o \in Operators, RevokeCounted(o)
      PROVE  Tables'
  <2>1. overlapped' \subseteq overlapped \cup {admin[o].merchant}
    BY <1>3 DEF RevokeCounted, Proceed
  <2>2. admin[o].merchant \in merchants
    BY <1>3 DEF RevokeCounted, KeysInd, AdminSound
  <2>. QED
    BY <1>0, <1>3, <2>1, <2>2 DEF RevokeCounted, Tables
<1>4. ASSUME NEW o \in Operators, Revoke(o)
      PROVE  Tables'
  <2>1. admin[o].merchant # NoMerchant
    BY <1>0, <1>4, KeysAssumption DEF Revoke, KeysInd, AdminSound, Tables
  <2>2. /\ revoked' \subseteq revoked \cup ActiveKeys(admin[o].merchant)
        /\ \/ answered' = answered
           \/ answered' = [answered EXCEPT ![admin[o].key] = @ + 1]
    BY <1>4 DEF Revoke
  <2>3. answered' \in [KeyIds -> Nat]
    BY <1>0, <2>2 DEF Tables
  <2>4. revoked' \subseteq {k \in KeyIds : owner[k] # NoMerchant}
    BY <1>0, <2>1, <2>2 DEF Tables, ActiveKeys
  <2>. QED
    BY <1>0, <1>4, <2>3, <2>4 DEF Revoke, Tables
<1>5. ASSUME NEW c \in Clients, Serve(c)
      PROVE  Tables'
  <2>1. client[c].key \in KeyIds /\ owner[client[c].key] # NoMerchant
    BY <1>0, <1>5 DEF Serve, Calls, ClientState, KeysInd, ClientSound
  <2>. QED
    BY <1>0, <1>5, <2>1 DEF Serve, Tables
<1>6. CASE UNCHANGED <<merchants, owner, revoked, used, answered, overlapped>>
  BY <1>0, <1>6 DEF Tables
<1>. QED
  BY <1>1, <1>2, <1>3, <1>4, <1>5, <1>6
     DEF Next, vars, RevokeChecked, IssueChecked, Abandon, LookUp, GetPayment, ViewUnknown,
         Leave

-----------------------------------------------------------------------------
(* Revocations and clients. *)

(* A row once issued keeps its merchant for ever. *)
LEMMA OwnerStays ==
    ASSUME TypeOK, [Next]_vars, NEW k \in KeyIds, owner[k] # NoMerchant
    PROVE  owner'[k] = owner[k]
<1>1. ASSUME NEW o \in Operators, NEW m \in Merchants, NEW j \in KeyIds, Provision(o, m, j)
      PROVE  owner'[k] = owner[k]
  BY <1>1 DEF Provision, Unissued, TypeOK
<1>2. ASSUME NEW o \in Operators, NEW j \in KeyIds, Issue(o, j)
      PROVE  owner'[k] = owner[k]
  BY <1>2 DEF Issue, Unissued, TypeOK
<1>3. CASE UNCHANGED owner
  BY <1>3
<1>. QED
  BY <1>1, <1>2, <1>3
     DEF Next, vars, RevokeChecked, IssueChecked, RevokeCounted, Revoke, Abandon, LookUp,
         GetPayment, ViewUnknown, Serve, Leave

(* Only the guarded UPDATE revokes, and it answers as it does. *)
LEMMA ToldStep == KeysInd /\ [Next]_vars => ToldIsRevoked'
<1>. SUFFICES ASSUME KeysInd, [Next]_vars PROVE ToldIsRevoked'
  OBVIOUS
<1>1. ASSUME NEW o \in Operators, Revoke(o) PROVE ToldIsRevoked'
  <2>1. CASE admin[o].key \in ActiveKeys(admin[o].merchant)
    <3>1. /\ revoked' = revoked \cup {admin[o].key}
          /\ answered' = [answered EXCEPT ![admin[o].key] = @ + 1]
      BY <1>1, <2>1 DEF Revoke
    <3>2. admin[o].key \in KeyIds \ revoked /\ answered \in [KeyIds -> Nat]
      BY <2>1 DEF ActiveKeys, KeysInd, TypeOK
    <3>. QED
      BY <3>1, <3>2 DEF KeysInd, ToldIsRevoked
  <2>2. CASE admin[o].key \notin ActiveKeys(admin[o].merchant)
    BY <1>1, <2>2 DEF Revoke, KeysInd, ToldIsRevoked
  <2>. QED
    BY <2>1, <2>2
<1>2. CASE UNCHANGED <<revoked, answered>>
  BY <1>2 DEF KeysInd, ToldIsRevoked
<1>. QED
  BY <1>1, <1>2
     DEF Next, vars, Provision, RevokeChecked, IssueChecked, Issue, RevokeCounted, Abandon,
         LookUp, GetPayment, ViewUnknown, Serve, Leave

(* What a client was let in for stays right while operators issue and      *)
(* revoke keys.                                                            *)
LEMMA ClientStep == KeysInd /\ [Next]_vars => ClientSound'
<1>. SUFFICES ASSUME KeysInd, [Next]_vars, NEW d \in Clients
              PROVE  /\ client'[d].key # NoKey =>
                           /\ client'[d].merchant = owner'[client'[d].key]
                           /\ client'[d].merchant # NoMerchant
                           /\ ~client'[d].tooLate
                     /\ client'[d].seen = "full" =>
                           client'[d].key # NoKey /\ client'[d].asked = client'[d].merchant
  BY DEF ClientSound
<1>0. /\ TypeOK
      /\ client \in [Clients -> ClientState(merchants)]
      /\ client[d].key # NoKey =>
            client[d].key \in KeyIds /\ owner'[client[d].key] = owner[client[d].key]
  BY OwnerStays DEF KeysInd, TypeOK, ClientState, ClientSound
<1>. USE DEF ClientState
<1>1. ASSUME NEW c \in Clients, NEW k \in KeyIds, LookUp(c, k)
      PROVE  client'[d] = client[d] \/
                /\ client'[d] = [client[d] EXCEPT !.key = k, !.merchant = owner[k],
                                                   !.tooLate = answered[k] > 0]
                /\ client[d].seen = "nothing" /\ k \notin revoked /\ owner[k] # NoMerchant
                /\ k \in KeyIds
  BY <1>0, <1>1 DEF LookUp, Known, Presents
<1>2. ASSUME NEW c \in Clients, NEW m \in Merchants, GetPayment(c, m)
      PROVE  client'[d] = client[d] \/
                /\ client[d] = Unknown
                /\ client'[d] = [client[d] EXCEPT !.asked = m]
  BY <1>0, <1>2 DEF GetPayment, Asks
<1>3. ASSUME NEW c \in Clients, ViewUnknown(c)
      PROVE  client'[d] = client[d] \/
                /\ client[d].key = NoKey
                /\ \E seen \in {"public", "unauthorized"} :
                      client'[d] = [client[d] EXCEPT !.seen = seen]
  BY <1>0, <1>3 DEF ViewUnknown, Sees, Presents
<1>4. ASSUME NEW c \in Clients, Serve(c) \/ Leave(c)
      PROVE  \/ client'[d] = client[d] \/ client'[d] = Unknown
             \/ client'[d] = [client[d] EXCEPT !.seen = "not found"]
             \/ /\ client[d].key # NoKey /\ client[d].asked = client[d].merchant
                /\ client'[d] = [client[d] EXCEPT !.seen = "full"]
  BY <1>0, <1>4 DEF Serve, Leave, Sees
<1>5. CASE client'[d] = client[d]
  BY <1>0, <1>5 DEF KeysInd, ClientSound
<1>6. CASE client'[d] = Unknown
  BY <1>6 DEF Unknown
<1>7. ASSUME NEW k \in KeyIds, k \notin revoked, owner[k] # NoMerchant,
             client[d].seen = "nothing",
             client'[d] = [client[d] EXCEPT !.key = k, !.merchant = owner[k],
                                            !.tooLate = answered[k] > 0]
      PROVE  /\ client'[d].merchant = owner'[client'[d].key]
             /\ client'[d].merchant # NoMerchant
             /\ ~client'[d].tooLate
             /\ client'[d].seen = "nothing"
  <2>1. ~(answered[k] > 0)
    BY <1>7 DEF KeysInd, ToldIsRevoked
  <2>2. owner'[k] = owner[k]
    BY <1>0, <1>7, OwnerStays
  <2>. QED
    BY <1>0, <1>7, <2>1, <2>2
<1>8. CASE client[d] = Unknown /\ \E m \in Merchants : client'[d] = [client[d] EXCEPT !.asked = m]
  BY <1>8 DEF Unknown
<1>9. ASSUME NEW seen \in {"public", "unauthorized", "not found"},
             client'[d] = [client[d] EXCEPT !.seen = seen]
      PROVE  /\ client'[d].key = client[d].key /\ client'[d].merchant = client[d].merchant
             /\ client'[d].tooLate = client[d].tooLate /\ client'[d].seen # "full"
  BY <1>0, <1>9
<1>10. CASE /\ client[d].key # NoKey /\ client[d].asked = client[d].merchant
            /\ client'[d] = [client[d] EXCEPT !.seen = "full"]
  BY <1>0, <1>10 DEF KeysInd, ClientSound
<1>. QED
  BY <1>0, <1>1, <1>2, <1>3, <1>4, <1>5, <1>6, <1>7, <1>8, <1>9, <1>10
     DEF Next, vars, Provision, RevokeChecked, IssueChecked, Issue, RevokeCounted, Revoke,
         Abandon, KeysInd, ClientSound

(* Merchants are never removed, and a call names one that exists. *)
LEMMA AdminStep == KeysInd /\ [Next]_vars => AdminSound'
<1>. SUFFICES ASSUME KeysInd, [Next]_vars, NEW p \in Operators, admin'[p].pc # "ready"
              PROVE  admin'[p].merchant \in merchants'
  BY DEF AdminSound
<1>0. /\ admin \in [Operators -> AdminState(merchants)]
      /\ admin[p].pc # "ready" => admin[p].merchant \in merchants
  BY TypeParts DEF KeysInd, AdminSound, Calls
<1>1. ASSUME NEW o \in Operators, NEW m \in Merchants, NEW k \in KeyIds, RevokeChecked(o, m, k)
      PROVE  admin'[p].merchant \in merchants'
  BY <1>0, <1>1 DEF RevokeChecked, Begin
<1>2. ASSUME NEW o \in Operators, NEW m \in Merchants, IssueChecked(o, m)
      PROVE  admin'[p].merchant \in merchants'
  BY <1>0, <1>2 DEF IssueChecked, Begin
<1>3. ASSUME NEW o \in Operators, RevokeCounted(o)
      PROVE  admin'[p].merchant \in merchants'
  <2>1. admin' = [admin EXCEPT ![o] = Ready] \/ admin' = [admin EXCEPT ![o].pc = "update"]
    BY <1>3 DEF RevokeCounted, Finish, Proceed
  <2>2. admin'[p] = admin[p] \/ admin'[p] = Ready
          \/ (p = o /\ admin'[p] = [admin[p] EXCEPT !.pc = "update"])
    BY <1>0, <2>1
  <2>3. admin[p] \in AdminState(merchants) /\ merchants' = merchants /\ admin[o].pc = "count"
    BY <1>0, <1>3 DEF RevokeCounted
  <2>. QED
    BY <1>0, <2>2, <2>3 DEF Ready, AdminState
<1>4. ASSUME NEW o \in Operators, Finish(o), merchants' = merchants
      PROVE  admin'[p].merchant \in merchants'
  BY <1>0, <1>4 DEF Finish, Ready
<1>5. CASE UNCHANGED admin /\ merchants \subseteq merchants'
  BY <1>0, <1>5
<1>. QED
  BY <1>1, <1>2, <1>3, <1>4, <1>5
     DEF Next, vars, Provision, Issue, Revoke, Abandon, LookUp, GetPayment, ViewUnknown,
         Serve, Leave

-----------------------------------------------------------------------------
(* No merchant is locked out. *)

(* Two keys besides each other. *)
Spare(m) == \E j, k \in ActiveKeys(m) : j # k

(* A merchant whose revocations never overlapped has a key, and a spare    *)
(* one while a call is past the count; at most one such call there is.     *)
KeptFor(m) ==
    /\ ActiveKeys(m) # {}
    /\ \A p \in Operators : admin[p].pc = "update" /\ admin[p].merchant = m => Spare(m)
    /\ \A p, q \in Operators :
          /\ admin[p].pc = "update" /\ admin[p].merchant = m
          /\ admin[q].pc = "update" /\ admin[q].merchant = m
          => p = q

KeptKeys == \A m \in merchants \ overlapped : KeptFor(m)

(* More than one key counted is two keys. *)
LEMMA CountedSpare ==
    ASSUME NEW m, ~(Cardinality(ActiveKeys(m)) <= 1)
    PROVE  Spare(m)
<1>1. IsFiniteSet(ActiveKeys(m))
  <2>1. ActiveKeys(m) \in SUBSET KeyIds
    BY DEF ActiveKeys
  <2>. QED
    BY <2>1, KeysAssumption, FS_Subset
<1>2. Cardinality({}) = 0
  BY FS_EmptySet
<1>3. ASSUME NEW j \in ActiveKeys(m), \A k \in ActiveKeys(m) : k = j
      PROVE  FALSE
  <2>1. ActiveKeys(m) = {j}
    BY <1>3
  <2>2. Cardinality({j}) = 1
    BY FS_Singleton
  <2>. QED
    BY <2>1, <2>2
<1>. QED
  BY <1>2, <1>3 DEF Spare

(* Rows are added or revoked one at a time, and only past the count. *)
LEMMA KeptStep == KeysInd /\ KeptKeys /\ [Next]_vars => KeptKeys'
<1>. SUFFICES ASSUME KeysInd, KeptKeys, [Next]_vars, NEW m \in merchants' \ overlapped'
              PROVE  KeptFor(m)'
  BY DEF KeptKeys
<1>0. /\ Tables /\ admin \in [Operators -> AdminState(merchants)]
      /\ \A o \in Operators : admin[o].pc # "ready" => admin[o].merchant \in merchants
      /\ Ready.pc = "ready"
  BY TypeParts DEF KeysInd, AdminSound, Calls, Ready
<1>1. ASSUME NEW o \in Operators, NEW n \in Merchants, NEW k \in KeyIds, Provision(o, n, k)
      PROVE  /\ admin' = admin /\ overlapped' = overlapped
             /\ m # n => m \in merchants
             /\ ActiveKeys(m)' = IF m = n THEN ActiveKeys(m) \cup {k} ELSE ActiveKeys(m)
             /\ m = n => m \notin merchants
  <2>1. k \notin revoked
    BY <1>0, <1>1 DEF Provision, Unissued, Tables
  <2>2. m # NoMerchant
    BY <1>0, <1>1, KeysAssumption DEF Provision, Tables
  <2>. QED
    BY <1>0, <1>1, <2>1, <2>2 DEF Provision, ActiveKeys, Unissued, Tables
<1>2. ASSUME NEW o \in Operators, NEW k \in KeyIds, Issue(o, k)
      PROVE  /\ ActiveKeys(m) \subseteq ActiveKeys(m)'
             /\ UNCHANGED <<merchants, overlapped>> /\ Finish(o)
  <2>1. m # NoMerchant
    BY <1>0, <1>2, KeysAssumption DEF Issue, Tables
  <2>. QED
    BY <1>0, <1>2, <2>1 DEF Issue, ActiveKeys, Unissued, Tables
<1>3. ASSUME m \in merchants \ overlapped, ActiveKeys(m) \subseteq ActiveKeys(m)',
             \A p \in Operators : admin'[p].pc = "update" => admin'[p] = admin[p]
      PROVE  KeptFor(m)'
  <2>1. Spare(m) => Spare(m)'
    BY <1>3 DEF Spare
  <2>. QED
    BY <1>3, <2>1 DEF KeptKeys, KeptFor
<1>4. ASSUME NEW o \in Operators, Finish(o)
      PROVE  /\ \A p \in Operators : admin'[p].pc = "update" => admin'[p] = admin[p]
             /\ admin'[o].pc # "update"
  BY <1>0, <1>4 DEF Finish
<1>5. ASSUME NEW o \in Operators, NEW n \in Merchants, NEW k \in KeyIds, Provision(o, n, k), m = n
      PROVE  KeptFor(m)'
  <2>1. \A p \in Operators : ~(admin'[p].pc = "update" /\ admin'[p].merchant = m)
    BY <1>0, <1>1, <1>5
  <2>2. ActiveKeys(m)' # {}
    BY <1>1, <1>5
  <2>. QED
    BY <2>1, <2>2 DEF KeptFor
<1>6. ASSUME NEW o \in Operators, RevokeCounted(o)
      PROVE  KeptFor(m)'
  <2>1. UNCHANGED <<merchants, owner, revoked>> /\ overlapped \subseteq overlapped'
    BY <1>6 DEF RevokeCounted, Proceed
  <2>2. m \in merchants \ overlapped /\ ActiveKeys(m)' = ActiveKeys(m)
          /\ (Spare(m) => Spare(m)')
    BY <2>1 DEF ActiveKeys, Spare
  <2>3. CASE Finish(o)
    BY <1>3, <1>4, <2>2, <2>3
  <2>4. CASE ~(Cardinality(ActiveKeys(admin[o].merchant)) <= 1) /\ Proceed(o)
    <3>1. Spare(admin[o].merchant)
      BY <2>4, CountedSpare
    <3>2. \A p \in Operators : p # o => admin'[p] = admin[p]
      BY <1>0, <2>4 DEF Proceed
    <3>3. admin'[o].merchant = admin[o].merchant
      <4>1. admin[o] \in AdminState(merchants)
        BY <1>0
      <4>2. admin'[o] = [admin[o] EXCEPT !.pc = "update"]
        BY <1>0, <2>4 DEF Proceed
      <4>. QED
        BY <4>1, <4>2 DEF AdminState
    <3>4. admin[o].merchant = m =>
             \A p \in Operators : ~(admin[p].pc = "update" /\ admin[p].merchant = m)
      BY <2>4 DEF Proceed
    <3>. QED
      BY <2>2, <3>1, <3>2, <3>3, <3>4 DEF KeptKeys, KeptFor
  <2>. QED
    BY <1>6, <2>3, <2>4 DEF RevokeCounted
<1>7. ASSUME NEW o \in Operators, Revoke(o)
      PROVE  KeptFor(m)'
  <2>1. /\ m \in merchants \ overlapped /\ Finish(o) /\ admin[o].pc = "update"
        /\ owner' = owner
        /\ revoked' = revoked \/ (/\ revoked' = revoked \cup {admin[o].key}
                                  /\ admin[o].key \in ActiveKeys(admin[o].merchant))
    BY <1>7 DEF Revoke
  <2>2. CASE admin[o].merchant = m
    <3>1. Spare(m)
      BY <2>1, <2>2 DEF KeptKeys, KeptFor
    <3>2. ActiveKeys(m) \ {admin[o].key} \subseteq ActiveKeys(m)'
      BY <2>1 DEF ActiveKeys
    <3>3. \A p \in Operators : ~(admin'[p].pc = "update" /\ admin'[p].merchant = m)
      BY <1>4, <2>1, <2>2 DEF KeptKeys, KeptFor
    <3>. QED
      BY <3>1, <3>2, <3>3 DEF Spare, KeptFor
  <2>3. CASE admin[o].merchant # m
    <3>1. ActiveKeys(m) \subseteq ActiveKeys(m)'
      BY <2>1, <2>3 DEF ActiveKeys
    <3>. QED
      BY <1>3, <1>4, <2>1, <3>1
  <2>. QED
    BY <2>2, <2>3
<1>8. ASSUME NEW o \in Operators, NEW n, NEW k, NEW pc \in {"issue", "count"}, Begin(o, pc, n, k)
      PROVE  \A p \in Operators : admin'[p].pc = "update" => admin'[p] = admin[p]
  BY <1>0, <1>8 DEF Begin
<1>9. UNCHANGED <<owner, revoked>> => ActiveKeys(m)' = ActiveKeys(m)
  BY DEF ActiveKeys
<1>10. ASSUME NEW o \in Operators, NEW n \in Merchants, NEW k \in KeyIds,
              Provision(o, n, k) \/ RevokeChecked(o, n, k)
       PROVE  KeptFor(m)'
  <2>1. CASE Provision(o, n, k)
    BY <1>1, <1>3, <1>5, <2>1
  <2>2. CASE RevokeChecked(o, n, k)
    BY <1>3, <1>8, <1>9, <2>2 DEF RevokeChecked
  <2>. QED
    BY <1>10, <2>1, <2>2
<1>13. ASSUME NEW o \in Operators, NEW n \in Merchants, IssueChecked(o, n)
       PROVE  KeptFor(m)'
  BY <1>3, <1>8, <1>9, <1>13 DEF IssueChecked
<1>14. ASSUME NEW o \in Operators, NEW k \in KeyIds, Issue(o, k)
       PROVE  KeptFor(m)'
  BY <1>2, <1>3, <1>4, <1>14
<1>11. CASE UNCHANGED <<merchants, owner, revoked, overlapped>> /\ \E o \in Operators : Finish(o)
  BY <1>3, <1>4, <1>9, <1>11
<1>12. CASE UNCHANGED <<merchants, owner, revoked, overlapped, admin>>
  BY <1>3, <1>9, <1>12
<1>. QED
  BY <1>6, <1>7, <1>10, <1>11, <1>12, <1>13, <1>14
     DEF Next, vars, Abandon, LookUp, GetPayment, ViewUnknown, Serve, Leave

-----------------------------------------------------------------------------
(* The theorems. *)

(* However the calls of operators and clients interleave, a key is         *)
(* reported revoked once and admits nobody from then on, and the full view *)
(* of a payment is its merchant's.                                         *)
THEOREM KeysAreSound == Spec => []KeysInv
<1>1. KeysInd /\ [Next]_vars => KeysInd'
  BY TypeParts, CallsStep, TablesStep, ToldStep, ClientStep, AdminStep DEF KeysInd
<1>. QED
  BY KeysInit, <1>1, KeysIndImplies, PTL DEF Spec

(* Of any number of merchants, keys and operators: only revocations past   *)
(* the count at the same time can leave a merchant without a key.          *)
THEOREM NobodyLockedOut == Spec => []OnlyOverlapLocksOut
<1>1. KeysInd /\ [Next]_vars => KeysInd'
  BY TypeParts, CallsStep, TablesStep, ToldStep, ClientStep, AdminStep DEF KeysInd
<1>2. Init => KeptKeys
  BY DEF Init, KeptKeys
<1>3. KeptKeys => OnlyOverlapLocksOut
  BY DEF KeptKeys, KeptFor, OnlyOverlapLocksOut
<1>. QED
  BY KeysInit, <1>1, <1>2, KeptStep, <1>3, PTL DEF Spec
=============================================================================
