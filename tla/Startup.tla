------------------------------ MODULE Startup ------------------------------
(***************************************************************************)
(* The start of the process: the configuration is read and refused or      *)
(* accepted, the database is migrated statement by statement, issuers are  *)
(* pinned, and the API serves.  The process may die between any two        *)
(* statements, and the operator may edit the environment before the next   *)
(* start.  The database begins as any earlier version left it.             *)
(*                                                                         *)
(* A timestamp is its form: "space" (the old default of SQLite), "bare" (a *)
(* T and no Z, the other legacy form of normalize_ts), "rfc" or, for a     *)
(* column that may hold it, "null".  Indexes are left out.                 *)
(***************************************************************************)
EXTENDS Integers, Sequences, FiniteSets

CONSTANTS
    Payments, Merchants,
    Codes, Native,           \* asset codes; XLM
    NoIssuer,
    AllowLists,              \* values of ACCEPTED_ASSETS, as parse_list reads them
    Typings,                 \* values of STELLAR_GATEWAY_PUBLIC
    Intended, Unconfigured,  \* the address the operator means; the placeholder
    ValidAccountId(_),       \* strkey::validate_account_id
    MaxDeaths,               \* bound: ends of the process
    MaxEdits                 \* bound: changes of the environment

Issuers == {NoIssuer} \cup UNION {{l[i].issuer : i \in DOMAIN l} : l \in AllowLists}

ASSUME StartupAssumption ==
    /\ Native \in Codes /\ {Intended, Unconfigured} \subseteq Typings
    /\ AllowLists \subseteq Seq([code : Codes, issuer : Issuers])
    /\ MaxDeaths \in Nat /\ MaxEdits \in Nat

VARIABLES
    db,      \* the database file
    env,     \* the environment: gateway key, allow-list, whether the rest is sound
    conf,    \* the configuration of the running process
    boot,    \* 0 when down, else the statement that comes next
    deaths, edits

vars == <<db, env, conf, boot, deaths, edits>>

-----------------------------------------------------------------------------
(* Config::from_env. *)

GatewayConfigured(c) == c.key # Unconfigured

ValidateAddresses(c) ==
    /\ GatewayConfigured(c) => ValidAccountId(c.key)
    /\ \A i \in DOMAIN c.assets :
          IF c.assets[i].issuer # NoIssuer THEN ValidAccountId(c.assets[i].issuer)
                                           ELSE c.assets[i].code = Native
    /\ \A i, j \in DOMAIN c.assets : i # j => c.assets[i].code # c.assets[j].code

(* sound stands for the checks whose values matter nowhere here: secrets,  *)
(* origins, numbers, CIDRs and validate_timing.                            *)
FromEnvOk(c) == c.sound /\ ValidateAddresses(c)

-----------------------------------------------------------------------------
(* db::migrate and db::backfill_asset_issuers, one operator per statement. *)

CreateTable(d, table, columns) ==
    IF table \in d.tables THEN d
    ELSE [d EXCEPT !.tables = @ \cup {table}, !.columns = @ \cup columns]

(* Mutant: the column is added without a look at the table. *)
HasColumnNot(d, column) == FALSE

(* pragma_table_info; without the column, it is added with NULL everywhere.*)
HasColumn(d, column) == column \in d.columns

EachRow(d, f(_)) == [d EXCEPT !.row = [p \in DOMAIN @ |-> f(@[p])]]

FillExpiresAt(d) ==
    EachRow(d, LAMBDA r : [r EXCEPT !.expires_at = IF @ = "null" THEN "rfc" ELSE @])

(* WHERE col NOT LIKE '%T%': what has its T is left alone, Z or not. *)
Rfc(form) == IF form = "space" THEN "rfc" ELSE form
Normalise(d, column) == EachRow(d, LAMBDA r : [r EXCEPT ![column] = Rfc(@)])
NormaliseDeliveries(d) == [d EXCEPT !.delivery = Rfc(@)]

(* Mutant: a hash that is there already is replaced by a new row. *)
CarryKeysReplacing(d) ==
    [d EXCEPT !.key = [m \in Merchants |-> IF m \in d.merchant THEN "active" ELSE @[m]]]

(* INSERT OR IGNORE: the hash of a merchant's first key is unique, and its *)
(* row stays, revoked or not.                                              *)
CarryKeys(d) ==
    [d EXCEPT !.key = [m \in Merchants |->
                         IF m \in d.merchant /\ @[m] = "none" THEN "active" ELSE @[m]]]

(* Mutant: the loop of before expires_at was normalised too. *)
MigrationShort ==
    <<"payments", "expires_at", "fill", "asset_issuer", "webhook_deliveries", "event_type",
      "acknowledged_at", "kv_state", "merchants", "api_keys", "carry", "idempotency_keys",
      "processed_transactions", "ledger", "created", "updated", "deliveries">>

Migration ==
    <<"payments", "expires_at", "fill", "asset_issuer", "webhook_deliveries", "event_type",
      "acknowledged_at", "kv_state", "merchants", "api_keys", "carry", "idempotency_keys",
      "processed_transactions", "ledger", "created", "updated", "expires", "deliveries">>

Columns == {"expires_at", "asset_issuer", "event_type", "acknowledged_at"}

Execute(statement, d) ==
    CASE statement = "payments" -> CreateTable(d, statement, {"expires_at", "asset_issuer"})
      [] statement = "webhook_deliveries" ->
            CreateTable(d, statement, {"event_type", "acknowledged_at"})
      [] statement \in {"kv_state", "merchants", "api_keys", "idempotency_keys",
                        "processed_transactions"} -> CreateTable(d, statement, {})
      [] statement \in Columns -> [d EXCEPT !.columns = @ \cup {statement}]
      [] statement = "fill" -> FillExpiresAt(d)
      [] statement = "carry" -> CarryKeys(d)
      [] statement = "created" -> Normalise(d, "created_at")
      [] statement = "updated" -> Normalise(d, "updated_at")
      [] statement = "expires" -> Normalise(d, "expires_at")
      [] statement = "deliveries" -> NormaliseDeliveries(d)

(* SQLite refuses a statement on a table or a column that is missing, and  *)
(* a second column of one name; main returns the error.                    *)
Needs(statement) ==
    CASE statement \in {"fill", "expires"} -> {"payments", "expires_at"}
      [] statement \in {"expires_at", "asset_issuer", "created", "updated"} -> {"payments"}
      [] statement \in {"event_type", "acknowledged_at", "deliveries"} -> {"webhook_deliveries"}
      [] statement = "carry" -> {"merchants", "api_keys"}
      [] statement = "ledger" -> {"payments", "processed_transactions"}
      [] OTHER -> {}

Refused(statement, d) ==
    \/ ~(Needs(statement) \subseteq d.tables \cup d.columns)
    \/ statement \in Columns /\ ~HasColumn(d, statement) /\ statement \in d.columns

(* The UPDATE of backfill_asset_issuers for one entry of the allow-list.   *)
PinIssuer(d, entry) ==
    EachRow(d, LAMBDA r : [r EXCEPT !.issuer = IF r.code = entry.code /\ @ = NoIssuer
                                               THEN entry.issuer ELSE @])

-----------------------------------------------------------------------------
(* The databases earlier versions left: none, or tables of one of the older*)
(* schemas with an intent, a delivery and a merchant in them.              *)

Fresh == [tables |-> {}, columns |-> {}, row |-> <<>>, delivery |-> "none",
          merchant |-> {}, key |-> [m \in Merchants |-> "none"], ledger |-> {}]

Forms == {"space", "bare", "rfc"}

Left(by) ==
    [Fresh EXCEPT !.tables = {"payments", "webhook_deliveries", "merchants"},
                  !.columns = by.columns,
                  !.row = [p \in {by.intent} |->
                             [code |-> by.code, issuer |-> NoIssuer, tx |-> by.tx,
                              created_at |-> by.form, updated_at |-> by.form,
                              expires_at |-> IF "expires_at" \in by.columns
                                             THEN by.form ELSE "null"]],
                  !.delivery = by.form,
                  !.merchant = {by.merchant}]

Legacy ==
    {Left(by) : by \in [columns : {{}, {"expires_at"}, {"expires_at", "event_type"}},
                        intent : Payments, merchant : Merchants, code : Codes, tx : BOOLEAN,
                        form : Forms]}

NoConf == [key |-> Unconfigured, assets |-> <<>>, sound |-> FALSE]

Init ==
    /\ db \in {Fresh} \cup Legacy
    /\ env \in [key : {Intended}, assets : AllowLists, sound : {TRUE}]
    /\ conf = NoConf
    /\ boot = 0 /\ deaths = 0 /\ edits = 0

-----------------------------------------------------------------------------
(* main. *)

Ledger == CHOOSE n \in DOMAIN Migration : Migration[n] = "ledger"
Pinning == Len(Migration) + 1          \* the first entry of the allow-list
Serving == boot = Pinning + Len(conf.assets)

(* A configuration that is refused ends main before the database is opened.*)
Start ==
    /\ boot = 0 /\ FromEnvOk(env)
    /\ conf' = env
    /\ boot' = 1
    /\ UNCHANGED <<db, env, deaths, edits>>

Statement ==
    /\ boot \in DOMAIN Migration \ {Ledger}
    /\ LET refused == Refused(Migration[boot], db)
       IN /\ db' = IF refused THEN db ELSE Execute(Migration[boot], db)
          /\ boot' = IF refused THEN 0 ELSE boot + 1
          /\ conf' = IF refused THEN NoConf ELSE conf
    /\ UNCHANGED <<env, deaths, edits>>

(* Rows that recorded only their last transaction: one INSERT each, DO     *)
(* NOTHING where the ledger has it.                                        *)
Uncredited == {p \in DOMAIN db.row : db.row[p].tx /\ p \notin db.ledger}

CreditLegacy ==
    /\ boot = Ledger
    /\ IF Uncredited = {}
       THEN boot' = boot + 1 /\ UNCHANGED db
       ELSE \E p \in Uncredited : db' = [db EXCEPT !.ledger = @ \cup {p}] /\ UNCHANGED boot
    /\ UNCHANGED <<env, conf, deaths, edits>>

BackfillIssuer ==
    /\ boot >= Pinning /\ ~Serving
    /\ LET entry == conf.assets[boot - Pinning + 1]
       IN db' = IF entry.issuer = NoIssuer THEN db ELSE PinIssuer(db, entry)
    /\ boot' = boot + 1
    /\ UNCHANGED <<env, conf, deaths, edits>>

(* The process dies, or is stopped. *)
Die ==
    /\ boot # 0 /\ deaths < MaxDeaths
    /\ boot' = 0 /\ conf' = NoConf
    /\ deaths' = deaths + 1
    /\ UNCHANGED <<db, env, edits>>

(* The operator changes one setting of a process that is down. *)
Edit ==
    /\ boot = 0 /\ edits < MaxEdits
    /\ \/ \E key \in Typings \ {env.key} : env' = [env EXCEPT !.key = key]
       \/ \E assets \in AllowLists \ {env.assets} : env' = [env EXCEPT !.assets = assets]
       \/ env' = [env EXCEPT !.sound = ~@]
    /\ edits' = edits + 1
    /\ UNCHANGED <<db, conf, boot, deaths>>

-----------------------------------------------------------------------------
(* What a serving process writes that a later start finds. *)

CreatePayment(p) ==
    /\ Serving /\ p \notin DOMAIN db.row
    /\ \E i \in DOMAIN conf.assets :
          db' = [db EXCEPT !.row =
                   [q \in DOMAIN @ \cup {p} |->
                      IF q = p THEN [code |-> conf.assets[i].code, issuer |-> conf.assets[i].issuer,
                                     tx |-> FALSE, created_at |-> "rfc", updated_at |-> "rfc",
                                     expires_at |-> "rfc"]
                      ELSE @[q]]]
    /\ UNCHANGED <<env, conf, boot, deaths, edits>>

ProvisionMerchant(m) ==
    /\ Serving /\ m \notin db.merchant
    /\ db' = [db EXCEPT !.merchant = @ \cup {m}, !.key[m] = "active"]
    /\ UNCHANGED <<env, conf, boot, deaths, edits>>

(* A merchant that has another key by now gives its first one up.          *)
RevokeApiKey(m) ==
    /\ Serving /\ db.key[m] = "active"
    /\ db' = [db EXCEPT !.key[m] = "revoked"]
    /\ UNCHANGED <<env, conf, boot, deaths, edits>>

Boot == Start \/ Statement \/ CreditLegacy \/ BackfillIssuer

Idle == (Serving \/ ~FromEnvOk(env)) /\ UNCHANGED vars

Next ==
    \/ Boot \/ Die \/ Edit \/ Idle
    \/ \E p \in Payments : CreatePayment(p)
    \/ \E m \in Merchants : ProvisionMerchant(m) \/ RevokeApiKey(m)

(* The operator's init system starts the process whenever it is down, and  *)
(* nothing in a start waits for ever.                                      *)
Spec == Init /\ [][Next]_vars /\ WF_vars(Boot)

-----------------------------------------------------------------------------
(* Properties. *)

Row == [code : Codes, issuer : Issuers,
        tx : BOOLEAN, created_at : Forms, updated_at : Forms, expires_at : {"null"} \cup Forms]

(* The database, the environment and the start keep their types.           *)
TypeOK ==
    /\ DOMAIN db.row \subseteq Payments /\ \A p \in DOMAIN db.row : db.row[p] \in Row
    /\ db.ledger \subseteq DOMAIN db.row /\ db.merchant \subseteq Merchants
    /\ db.key \in [Merchants -> {"none", "active", "revoked"}]
    /\ env.key \in Typings /\ env.assets \in AllowLists
    /\ boot \in 0 .. Pinning + Len(conf.assets)

(* migrate and backfill_asset_issuers: whatever version left the database  *)
(* and wherever earlier starts died, a process that serves finds every     *)
(* timestamp in a form that sorts by date among those its queries compare  *)
(* it with, every intent with an expiry and, if its code is accepted, an   *)
(* issuer, every legacy credit in the ledger and every merchant's key in   *)
(* the table that is looked up.                                            *)
ServesMigrated ==
    Serving =>
        /\ \A p \in DOMAIN db.row :
              /\ db.row[p].created_at # "space" /\ db.row[p].updated_at # "space"
              /\ db.row[p].expires_at \notin {"null", "space"}
              /\ db.row[p].tx => p \in db.ledger
              /\ db.row[p].code # Native =>
                    db.row[p].issuer # NoIssuer
                    \/ \A i \in DOMAIN conf.assets : conf.assets[i].code # db.row[p].code
        /\ db.delivery # "space"
        /\ \A m \in db.merchant : db.key[m] # "none"
        /\ Columns \subseteq db.columns

StartupInv == TypeOK /\ ServesMigrated

(* "a typo fails fast at boot": a process that serves for a gateway        *)
(* account serves for the one its operator means, although any one         *)
(* character may have been mistyped or two neighbours swapped.             *)
ServesAsMeant == Serving /\ GatewayConfigured(conf) => conf.key = Intended

(* Starts only add: an issuer once pinned is not changed by a later        *)
(* allow-list, a revoked key is not brought back by the rows it was        *)
(* migrated from, no credit, intent or normalised timestamp is lost.       *)
NothingIsUndone ==
    [][/\ \A p \in DOMAIN db.row :
             /\ p \in DOMAIN db'.row
             /\ db.row[p].issuer # NoIssuer => db'.row[p].issuer = db.row[p].issuer
             /\ db.row[p].expires_at = "rfc" => db'.row[p].expires_at = "rfc"
       /\ \A m \in Merchants : db.key[m] = "revoked" => db'.key[m] = "revoked"
       /\ db.ledger \subseteq db'.ledger]_vars

(* However often a start dies half way, a later one gets through to        *)
(* serving, unless its configuration is refused.                           *)
EventuallyServes == <>[](Serving \/ ~FromEnvOk(env))
=============================================================================
