------------------------------- MODULE ApiKeys -------------------------------
(***************************************************************************)
(* Merchants and their API keys: POST /merchants, POST and DELETE          *)
(* /merchants/:id/keys by operators who hold the admin secret, and the     *)
(* authentication of clients by key.  Handlers run concurrently; every     *)
(* SQLite statement, and the transaction that creates a merchant, is one   *)
(* atomic step, and a handler may be dropped at any await.                 *)
(*                                                                         *)
(* A key stands for its id, its secret and the digest of it: each is drawn *)
(* from 122 random bits or more, so no two keys share one.                 *)
(***************************************************************************)
EXTENDS Integers, FiniteSets

CONSTANTS
    Merchants,
    NoMerchant,
    KeyIds,      \* bound: the keys that can be issued
    NoKey,
    Operators,   \* admin calls under way at once
    Clients      \* client calls under way at once

ASSUME KeysAssumption ==
    /\ NoMerchant \notin Merchants /\ NoKey \notin KeyIds
    /\ IsFiniteSet(KeyIds)

VARIABLES
    merchants,   \* the merchants table
    owner,       \* api_keys: merchant_id of each row
    revoked,     \* api_keys: rows with a revoked_at
    used,        \* api_keys: rows with a last_used_at
    admin,       \* the progress of each operator's call
    client,      \* the progress of each client's call
    answered,    \* history: calls told "revoked", by key
    overlapped   \* history: merchants with two calls past the count at once

vars == <<merchants, owner, revoked, used, admin, client, answered, overlapped>>

ActiveKeys(m) == {k \in KeyIds : owner[k] = m /\ k \notin revoked}

Ready == [pc |-> "ready", merchant |-> NoMerchant, key |-> NoKey]
Unknown == [asked |-> NoMerchant, key |-> NoKey, merchant |-> NoMerchant,
            tooLate |-> FALSE, seen |-> "nothing"]

Init ==
    /\ merchants = {}
    /\ owner = [k \in KeyIds |-> NoMerchant]
    /\ revoked = {}
    /\ used = {}
    /\ admin = [o \in Operators |-> Ready]
    /\ client = [c \in Clients |-> Unknown]
    /\ answered = [k \in KeyIds |-> 0]
    /\ overlapped = {}

-----------------------------------------------------------------------------
(* Operators. *)

(* The draw of a key that nobody holds. *)
Unissued(k) == owner[k] = NoMerchant

Begin(o, pc, m, k) ==
    /\ admin[o] = Ready
    /\ admin' = [admin EXCEPT ![o] = [pc |-> pc, merchant |-> m, key |-> k]]

Finish(o) == admin' = [admin EXCEPT ![o] = Ready]

(* provision_merchant: the merchant and its first key in one transaction.  *)
Provision(o, m, k) ==
    /\ admin[o] = Ready
    /\ m \notin merchants /\ Unissued(k)
    /\ merchants' = merchants \cup {m}
    /\ owner' = [owner EXCEPT ![k] = m]
    /\ UNCHANGED <<revoked, used, admin, client, answered, overlapped>>

(* issue_api_key: the merchant must exist; the key is stored afterwards.   *)
IssueChecked(o, m) ==
    /\ m \in merchants
    /\ Begin(o, "issue", m, NoKey)
    /\ UNCHANGED <<merchants, owner, revoked, used, client, answered, overlapped>>

Issue(o, k) ==
    /\ admin[o].pc = "issue"
    /\ Unissued(k)
    /\ owner' = [owner EXCEPT ![k] = admin[o].merchant]
    /\ Finish(o)
    /\ UNCHANGED <<merchants, revoked, used, client, answered, overlapped>>

(* revoke_api_key: a merchant and a key id from the path, neither trusted. *)
RevokeChecked(o, m, k) ==
    /\ m \in merchants
    /\ Begin(o, "count", m, k)
    /\ UNCHANGED <<merchants, owner, revoked, used, client, answered, overlapped>>

Proceed(o) ==
    /\ admin' = [admin EXCEPT ![o].pc = "update"]
    /\ overlapped' = overlapped \cup
          {admin[p].merchant : p \in {q \in Operators : admin[q].pc = "update"
                                       /\ admin[q].merchant = admin[o].merchant}}

(* Mutant: revoked keys count too. *)
RevokeCountedAny(o) ==
    /\ admin[o].pc = "count"
    /\ IF Cardinality({k \in KeyIds : owner[k] = admin[o].merchant}) <= 1
       THEN Finish(o) /\ UNCHANGED overlapped
       ELSE Proceed(o)
    /\ UNCHANGED <<merchants, owner, revoked, used, client, answered>>

(* Only active keys count, and the last one is refused. *)
RevokeCounted(o) ==
    /\ admin[o].pc = "count"
    /\ IF Cardinality(ActiveKeys(admin[o].merchant)) <= 1
       THEN Finish(o) /\ UNCHANGED overlapped
       ELSE Proceed(o)
    /\ UNCHANGED <<merchants, owner, revoked, used, client, answered>>

(* The UPDATE is scoped to the merchant and to keys still active; a call   *)
(* that changes no row answers key_not_found.                              *)
Revoke(o) ==
    LET k == admin[o].key
    IN  /\ admin[o].pc = "update"
        /\ IF k \in ActiveKeys(admin[o].merchant)
           THEN /\ revoked' = revoked \cup {k}
                /\ answered' = [answered EXCEPT ![k] = @ + 1]
           ELSE UNCHANGED <<revoked, answered>>
        /\ Finish(o)
        /\ UNCHANGED <<merchants, owner, used, client, overlapped>>

(* A failed statement or a caller that went away. *)
Abandon(o) ==
    /\ admin[o] # Ready
    /\ Finish(o)
    /\ UNCHANGED <<merchants, owner, revoked, used, client, answered, overlapped>>

-----------------------------------------------------------------------------
(* Clients. *)

Asks(c, m) == client' = [client EXCEPT ![c].asked = m]
Sees(c, what) == client' = [client EXCEPT ![c].seen = what]
Known(c, k) ==
    client' = [client EXCEPT ![c].key = k, ![c].merchant = owner[k],
                             ![c].tooLate = answered[k] > 0]
Presents(c) == client[c].key = NoKey /\ client[c].seen = "nothing"

(* get_by_id reads the payment before it looks at any credential. *)
GetPayment(c, m) ==
    /\ client[c] = Unknown /\ m \in merchants
    /\ Asks(c, m)
    /\ UNCHANGED <<merchants, owner, revoked, used, admin, answered, overlapped>>

(* ... without a bearer token: public_view.  A token that is no active key *)
(* is refused instead of being ignored.                                    *)
ViewUnknown(c) ==
    /\ client[c].asked # NoMerchant /\ Presents(c)
    /\ \E seen \in {"public", "unauthorized"} : Sees(c, seen)
    /\ UNCHANGED <<merchants, owner, revoked, used, admin, answered, overlapped>>

(* Mutant: revoked rows are found. *)
LookUpAnyRow(c, k) ==
    /\ Presents(c)
    /\ owner[k] # NoMerchant
    /\ Known(c, k)
    /\ UNCHANGED <<merchants, owner, revoked, used, admin, answered, overlapped>>

(* find_merchant_by_key, for auth_middleware and get_by_id: the row of the *)
(* key, unless it is revoked.                                              *)
LookUp(c, k) ==
    /\ Presents(c)
    /\ owner[k] # NoMerchant /\ k \notin revoked
    /\ Known(c, k)
    /\ UNCHANGED <<merchants, owner, revoked, used, admin, answered, overlapped>>

(* The refresh of last_used_at, by id alone; then the merchant's handler,  *)
(* or the view of the payment if it is the merchant's.                     *)
Serve(c) ==
    /\ client[c].key # NoKey /\ client[c].seen = "nothing"
    /\ used' = used \cup {client[c].key}
    /\ \/ client[c].asked = NoMerchant /\ client' = [client EXCEPT ![c] = Unknown]
       \/ client[c].asked = client[c].merchant /\ Sees(c, "full")
       \/ client[c].asked \notin {NoMerchant, client[c].merchant} /\ Sees(c, "not found")
    /\ UNCHANGED <<merchants, owner, revoked, admin, answered, overlapped>>

(* The call is answered; or the refresh failed, a 500 although the key was *)
(* good.                                                                   *)
Leave(c) ==
    /\ client[c].key # NoKey \/ client[c].seen # "nothing"
    /\ client' = [client EXCEPT ![c] = Unknown]
    /\ UNCHANGED <<merchants, owner, revoked, used, admin, answered, overlapped>>

-----------------------------------------------------------------------------

Next ==
    \/ \E o \in Operators, m \in Merchants, k \in KeyIds :
          Provision(o, m, k) \/ RevokeChecked(o, m, k)
    \/ \E o \in Operators, m \in Merchants : IssueChecked(o, m)
    \/ \E o \in Operators, k \in KeyIds : Issue(o, k)
    \/ \E o \in Operators : RevokeCounted(o) \/ Revoke(o) \/ Abandon(o)
    \/ \E c \in Clients, k \in KeyIds : LookUp(c, k)
    \/ \E c \in Clients, m \in Merchants : GetPayment(c, m)
    \/ \E c \in Clients : ViewUnknown(c) \/ Serve(c) \/ Leave(c)

Spec == Init /\ [][Next]_vars

-----------------------------------------------------------------------------

(* Every table and call of the key endpoints keeps its type. *)
TypeOK ==
    /\ merchants \subseteq Merchants
    /\ owner \in [KeyIds -> merchants \cup {NoMerchant}]
    /\ revoked \subseteq {k \in KeyIds : owner[k] # NoMerchant}
    /\ used \subseteq {k \in KeyIds : owner[k] # NoMerchant}
    /\ admin \in [Operators -> [pc : {"ready", "issue", "count", "update"},
                                merchant : merchants \cup {NoMerchant},
                                key : KeyIds \cup {NoKey}]]
    /\ client \in [Clients -> [asked : merchants \cup {NoMerchant},
                               key : KeyIds \cup {NoKey},
                               merchant : merchants \cup {NoMerchant},
                               tooLate : BOOLEAN,
                               seen : {"nothing", "public", "unauthorized", "full",
                                       "not found"}]]
    /\ answered \in [KeyIds -> Nat]
    /\ overlapped \subseteq merchants

(* create_merchant's transaction and revoke_api_key's count: a merchant is *)
(* never left without a key it can call the API with, except by calls that *)
(* were past the count together.                                           *)
OnlyOverlapLocksOut == \A m \in merchants \ overlapped : ActiveKeys(m) # {}

(* The guard of the revoking UPDATE: of all the calls that revoke a key,   *)
(* however they overlap, one is told that it did.                          *)
OneRevocation == \A k \in KeyIds : answered[k] <= 1

(* Once a call has been told that a key is revoked, auth_middleware admits *)
(* no request that presents it, and none admitted acts for a merchant      *)
(* other than the key's.                                                   *)
RevocationIsImmediate ==
    \A c \in Clients : client[c].key # NoKey =>
        ~client[c].tooLate /\ client[c].merchant = owner[client[c].key]

(* get_by_id: the full record is shown only to a key of the merchant whose *)
(* payment was read, and never to a key revoked before it was looked up.   *)
FullViewIsOwners ==
    \A c \in Clients : client[c].seen = "full" =>
        owner[client[c].key] = client[c].asked /\ ~client[c].tooLate

(* The types, one revocation per key, and what a key may be used for. *)
KeysInv == TypeOK /\ OneRevocation /\ RevocationIsImmediate /\ FullViewIsOwners
=============================================================================
