--------------------------- MODULE StartupProofs ---------------------------
(***************************************************************************)
(* Proofs about the start of the process: a process that serves finds the  *)
(* database migrated, whatever version left it and wherever earlier starts *)
(* died, and no start undoes what an earlier one did.  They hold for every *)
(* set of intents, merchants and allow-lists and any number of deaths and  *)
(* edits.                                                                  *)
(***************************************************************************)
EXTENDS Startup, TLAPS

(* What a later step may do to a row, and to the database. *)
RowKept(r, q) ==
    /\ q.code = r.code /\ q.tx = r.tx
    /\ r.issuer # NoIssuer => q.issuer = r.issuer
    /\ r.created_at # "space" => q.created_at # "space"
    /\ r.updated_at # "space" => q.updated_at # "space"
    /\ r.expires_at = "rfc" => q.expires_at = "rfc"
    /\ r.expires_at # "null" => q.expires_at # "null"
    /\ r.expires_at # "space" => q.expires_at # "space"

Kept(d, e) ==
    /\ d.columns \subseteq e.columns
    /\ DOMAIN d.row \subseteq DOMAIN e.row
    /\ \A p \in DOMAIN d.row : RowKept(d.row[p], e.row[p])
    /\ d.delivery # "space" => e.delivery # "space"
    /\ \A m \in Merchants : /\ d.key[m] # "none" => e.key[m] # "none"
                            /\ d.key[m] = "revoked" => e.key[m] = "revoked"
    /\ d.ledger \subseteq e.ledger

(* A database, and one with the same intents and merchants. *)
Database(d) ==
    /\ d = [tables |-> d.tables, columns |-> d.columns, row |-> d.row, delivery |-> d.delivery,
            merchant |-> d.merchant, key |-> d.key, ledger |-> d.ledger]
    /\ DOMAIN d.row \subseteq Payments /\ \A p \in DOMAIN d.row : d.row[p] \in Row
    /\ d.delivery \in {"none"} \cup Forms
    /\ d.ledger \subseteq DOMAIN d.row /\ d.merchant \subseteq Merchants
    /\ d.key \in [Merchants -> {"none", "active", "revoked"}]
    /\ \A m \in Merchants : d.key[m] # "none" => m \in d.merchant

SameRows(d, e) == DOMAIN e.row = DOMAIN d.row /\ e.merchant = d.merchant

(* An issuer is pinned for every intent in the code of one entry. *)
PinnedFor(d, entry) ==
    \A p \in DOMAIN d.row :
        d.row[p].code = entry.code => d.row[p].issuer # NoIssuer \/ d.row[p].code = Native

(* What the statements before the n-th have done. *)
DoneBefore(n, d, assets) ==
    /\ n > 2 => "expires_at" \in d.columns
    /\ n > 3 => \A p \in DOMAIN d.row : d.row[p].expires_at # "null"
    /\ n > 4 => "asset_issuer" \in d.columns
    /\ n > 6 => "event_type" \in d.columns
    /\ n > 7 => "acknowledged_at" \in d.columns
    /\ n > 11 => \A m \in d.merchant : d.key[m] # "none"
    /\ n > 14 => \A p \in DOMAIN d.row : d.row[p].tx => p \in d.ledger
    /\ n > 15 => \A p \in DOMAIN d.row : d.row[p].created_at # "space"
    /\ n > 16 => \A p \in DOMAIN d.row : d.row[p].updated_at # "space"
    /\ n > 17 => \A p \in DOMAIN d.row : d.row[p].expires_at # "space"
    /\ n > 18 => d.delivery # "space"
    /\ \A i \in DOMAIN assets : n > 18 + i => PinnedFor(d, assets[i])

Conf == [key : Typings, assets : AllowLists, sound : BOOLEAN]

(* The configuration of a process that is up has passed its checks. *)
ConfSound ==
    /\ env \in Conf
    /\ boot = 0 => conf = NoConf
    /\ boot # 0 => conf \in Conf /\ FromEnvOk(conf)

StartupInd ==
    /\ Database(db) /\ ConfSound
    /\ boot \in 0 .. 19 + Len(conf.assets)
    /\ DoneBefore(boot, db, conf.assets)

-----------------------------------------------------------------------------
(* The statements, by number. *)

(* The order in which migrate executes them. *)
LEMMA Order ==
    /\ Len(Migration) = 18 /\ DOMAIN Migration = 1 .. 18
    /\ Migration[1] = "payments" /\ Migration[2] = "expires_at" /\ Migration[3] = "fill"
    /\ Migration[4] = "asset_issuer" /\ Migration[5] = "webhook_deliveries"
    /\ Migration[6] = "event_type" /\ Migration[7] = "acknowledged_at"
    /\ Migration[8] = "kv_state" /\ Migration[9] = "merchants" /\ Migration[10] = "api_keys"
    /\ Migration[11] = "carry" /\ Migration[12] = "idempotency_keys"
    /\ Migration[13] = "processed_transactions" /\ Migration[14] = "ledger"
    /\ Migration[15] = "created" /\ Migration[16] = "updated" /\ Migration[17] = "expires"
    /\ Migration[18] = "deliveries"
BY DEF Migration

(* The ledger's backfill is the fourteenth, the first issuer comes after   *)
(* the last statement.                                                     *)
LEMMA Places == Ledger = 14 /\ Pinning = 19
<1>1. \E n \in DOMAIN Migration : Migration[n] = "ledger"
  BY Order
<1>2. Ledger \in DOMAIN Migration /\ Migration[Ledger] = "ledger"
  BY <1>1 DEF Ledger
<1>3. \A n \in 1 .. 18 : Migration[n] = "ledger" => n = 14
  BY Order
<1> QED BY <1>2, <1>3, Order DEF Pinning

-----------------------------------------------------------------------------
(* What the statements do. *)

(* A statement that rewrites every row and keeps what each row has. *)
LEMMA RowsRewritten ==
    ASSUME NEW d, Database(d), NEW rows, DOMAIN rows = DOMAIN d.row,
           \A p \in DOMAIN d.row : rows[p] \in Row /\ RowKept(d.row[p], rows[p]),
           NEW e, e = [d EXCEPT !.row = rows]
    PROVE  Database(e) /\ Kept(d, e) /\ SameRows(d, e) /\ e.row = rows
<1>1. e = [tables |-> d.tables, columns |-> d.columns, row |-> rows, delivery |-> d.delivery,
           merchant |-> d.merchant, key |-> d.key, ledger |-> d.ledger]
  BY DEF Database
<1>2. /\ e.tables = d.tables /\ e.columns = d.columns /\ e.row = rows
      /\ e.delivery = d.delivery /\ e.merchant = d.merchant /\ e.key = d.key
      /\ e.ledger = d.ledger
  BY <1>1
<1>3. Database(e)
  BY <1>1, <1>2 DEF Database
<1> QED BY <1>2, <1>3 DEF Kept, SameRows

(* migrate fills in the expiry of rows that have none. *)
LEMMA Filled ==
    ASSUME NEW d, Database(d), NEW e, e = FillExpiresAt(d)
    PROVE  /\ Database(e) /\ Kept(d, e) /\ SameRows(d, e)
           /\ \A p \in DOMAIN e.row : e.row[p].expires_at # "null"
<1> DEFINE rows == [p \in DOMAIN d.row |->
                      [d.row[p] EXCEPT !.expires_at = IF @ = "null" THEN "rfc" ELSE @]]
<1>1. e = [d EXCEPT !.row = rows]
  BY DEF FillExpiresAt, EachRow
<1>2. ASSUME NEW p \in DOMAIN d.row
      PROVE  /\ rows[p] \in Row /\ RowKept(d.row[p], rows[p])
             /\ rows[p].expires_at # "null"
  <2>1. d.row[p] \in Row
    BY DEF Database
  <2> QED BY <2>1 DEF Row, RowKept, Forms
<1>3. DOMAIN rows = DOMAIN d.row
  OBVIOUS
<1> HIDE DEF rows
<1>4. Database(e) /\ Kept(d, e) /\ SameRows(d, e) /\ e.row = rows
  BY <1>1, <1>2, <1>3, RowsRewritten
<1> QED BY <1>2, <1>3, <1>4

(* The normalisation of one column. *)
LEMMA Normalised ==
    ASSUME NEW d, Database(d), NEW column \in {"created_at", "updated_at", "expires_at"},
           NEW e, e = Normalise(d, column)
    PROVE  /\ Database(e) /\ Kept(d, e) /\ SameRows(d, e)
           /\ \A p \in DOMAIN e.row : e.row[p][column] # "space"
<1> DEFINE rows == [p \in DOMAIN d.row |-> [d.row[p] EXCEPT ![column] = Rfc(@)]]
<1>1. e = [d EXCEPT !.row = rows]
  BY DEF Normalise, EachRow
<1>2. ASSUME NEW p \in DOMAIN d.row
      PROVE  /\ rows[p] \in Row /\ RowKept(d.row[p], rows[p])
             /\ rows[p][column] # "space"
  <2>1. d.row[p] \in Row
    BY DEF Database
  <2>2. CASE column = "created_at"
    BY <2>1, <2>2 DEF Row, RowKept, Rfc, Forms
  <2>3. CASE column = "updated_at"
    BY <2>1, <2>3 DEF Row, RowKept, Rfc, Forms
  <2>4. CASE column = "expires_at"
    BY <2>1, <2>4 DEF Row, RowKept, Rfc, Forms
  <2> QED BY <2>2, <2>3, <2>4
<1>3. DOMAIN rows = DOMAIN d.row
  OBVIOUS
<1> HIDE DEF rows
<1>4. Database(e) /\ Kept(d, e) /\ SameRows(d, e) /\ e.row = rows
  BY <1>1, <1>2, <1>3, RowsRewritten
<1> QED BY <1>2, <1>3, <1>4

(* backfill_asset_issuers pins rows of one code that have no issuer. *)
LEMMA Pinned ==
    ASSUME NEW d, Database(d), NEW entry \in [code : Codes, issuer : Issuers],
           NEW e, e = PinIssuer(d, entry), entry.issuer # NoIssuer
    PROVE  Database(e) /\ Kept(d, e) /\ SameRows(d, e) /\ PinnedFor(e, entry)
<1> DEFINE rows == [p \in DOMAIN d.row |->
                      [d.row[p] EXCEPT !.issuer = IF d.row[p].code = entry.code /\ @ = NoIssuer
                                                  THEN entry.issuer ELSE @]]
<1>1. e = [d EXCEPT !.row = rows]
  BY DEF PinIssuer, EachRow
<1>2. ASSUME NEW p \in DOMAIN d.row
      PROVE  /\ rows[p] \in Row /\ RowKept(d.row[p], rows[p])
             /\ rows[p].code = entry.code => rows[p].issuer # NoIssuer
  <2>1. d.row[p] \in Row
    BY DEF Database
  <2> QED BY <2>1 DEF Row, RowKept
<1>3. DOMAIN rows = DOMAIN d.row
  OBVIOUS
<1> HIDE DEF rows
<1>4. Database(e) /\ Kept(d, e) /\ SameRows(d, e) /\ e.row = rows
  BY <1>1, <1>2, <1>3, RowsRewritten
<1> QED BY <1>2, <1>3, <1>4 DEF PinnedFor

(* First keys are carried into the table of keys; rows that are there,     *)
(* revoked ones too, stay.                                                 *)
LEMMA Carried ==
    ASSUME NEW d, Database(d), NEW e, e = CarryKeys(d)
    PROVE  /\ Database(e) /\ Kept(d, e) /\ SameRows(d, e)
           /\ \A m \in e.merchant : e.key[m] # "none"
<1> DEFINE keys == [m \in Merchants |->
                      IF m \in d.merchant /\ d.key[m] = "none" THEN "active" ELSE d.key[m]]
<1>1. e = [d EXCEPT !.key = keys]
  BY DEF CarryKeys
<1>2. /\ keys \in [Merchants -> {"none", "active", "revoked"}]
      /\ \A m \in Merchants : /\ d.key[m] # "none" => keys[m] = d.key[m]
                              /\ m \in d.merchant <=> keys[m] # "none"
  BY DEF Database
<1> HIDE DEF keys
<1>3. e = [tables |-> d.tables, columns |-> d.columns, row |-> d.row, delivery |-> d.delivery,
           merchant |-> d.merchant, key |-> keys, ledger |-> d.ledger]
  BY <1>1 DEF Database
<1>4. /\ e.tables = d.tables /\ e.columns = d.columns /\ e.row = d.row
      /\ e.delivery = d.delivery /\ e.merchant = d.merchant /\ e.key = keys
      /\ e.ledger = d.ledger
  BY <1>3
<1>5. Database(e)
  BY <1>2, <1>3, <1>4 DEF Database
<1>6. Kept(d, e)
  BY <1>2, <1>4 DEF Kept, RowKept
<1> QED BY <1>2, <1>4, <1>5, <1>6 DEF SameRows, Database

Altered(d, tables, columns, delivery) ==
    [tables |-> tables, columns |-> columns, row |-> d.row, delivery |-> delivery,
     merchant |-> d.merchant, key |-> d.key, ledger |-> d.ledger]

(* A table or a column is added, or the deliveries are normalised. *)
LEMMA Added ==
    ASSUME NEW d, Database(d), NEW tables, NEW columns, d.columns \subseteq columns,
           NEW delivery \in {d.delivery, Rfc(d.delivery)},
           NEW e, e = Altered(d, tables, columns, delivery)
    PROVE  /\ Database(e) /\ Kept(d, e) /\ SameRows(d, e)
           /\ e.columns = columns /\ e.delivery = delivery
<1>1. e = [tables |-> tables, columns |-> columns, row |-> d.row, delivery |-> delivery,
           merchant |-> d.merchant, key |-> d.key, ledger |-> d.ledger]
  BY DEF Altered
<1>2. /\ e.tables = tables /\ e.columns = columns /\ e.row = d.row
      /\ e.delivery = delivery /\ e.merchant = d.merchant /\ e.key = d.key
      /\ e.ledger = d.ledger
  BY <1>1
<1>3. Database(e)
  BY <1>1, <1>2 DEF Database, Rfc, Forms
<1>4. Kept(d, e)
  BY <1>2 DEF Kept, RowKept, Rfc
<1> QED BY <1>2, <1>3, <1>4 DEF SameRows

(* Every statement of migrate keeps what the database has. *)
LEMMA Executed ==
    ASSUME NEW d, Database(d), NEW n \in 1 .. 18, n # 14,
           NEW e, e = Execute(Migration[n], d)
    PROVE  /\ Database(e) /\ Kept(d, e) /\ SameRows(d, e)
           /\ n \in {2, 4, 6, 7} => Migration[n] \in e.columns
           /\ n = 3 => \A p \in DOMAIN e.row : e.row[p].expires_at # "null"
           /\ n = 11 => \A m \in e.merchant : e.key[m] # "none"
           /\ n = 15 => \A p \in DOMAIN e.row : e.row[p].created_at # "space"
           /\ n = 16 => \A p \in DOMAIN e.row : e.row[p].updated_at # "space"
           /\ n = 17 => \A p \in DOMAIN e.row : e.row[p].expires_at # "space"
           /\ n = 18 => e.delivery # "space"
<1> DEFINE s == Migration[n]
<1>1. CASE n \in {2, 4, 6, 7}
  <2>1. s \in Columns /\ e = [d EXCEPT !.columns = @ \cup {s}]
    BY <1>1, Order DEF Execute, Columns
  <2> HIDE DEF s
  <2>2. e = Altered(d, d.tables, d.columns \cup {s}, d.delivery)
    BY <2>1 DEF Database, Altered
  <2>3. /\ Database(e) /\ Kept(d, e) /\ SameRows(d, e) /\ e.columns = d.columns \cup {s}
    BY <2>2, Added
  <2> QED BY <1>1, <2>3 DEF s
<1>2. CASE n \in {1, 5, 8, 9, 10, 12, 13}
  <2>1. PICK columns : e = CreateTable(d, s, columns)
    BY <1>2, Order DEF Execute, Columns
  <2> HIDE DEF s
  <2>2. CASE s \in d.tables
    <3>1. e = Altered(d, d.tables, d.columns, d.delivery)
      BY <2>1, <2>2 DEF CreateTable, Database, Altered
    <3>2. /\ Database(e) /\ Kept(d, e) /\ SameRows(d, e)
      BY <3>1, Added
    <3> QED BY <1>2, <3>2
  <2>3. CASE s \notin d.tables
    <3>1. e = Altered(d, d.tables \cup {s}, d.columns \cup columns, d.delivery)
      BY <2>1, <2>3 DEF CreateTable, Database, Altered
    <3>2. /\ Database(e) /\ Kept(d, e) /\ SameRows(d, e)
      BY <3>1, Added
    <3> QED BY <1>2, <3>2
  <2> QED BY <2>2, <2>3
<1>3. CASE n = 3
  <2>1. e = FillExpiresAt(d)
    BY <1>3, Order DEF Execute, Columns
  <2> QED BY <1>3, <2>1, Filled
<1>4. CASE n = 11
  <2>1. e = CarryKeys(d)
    BY <1>4, Order DEF Execute, Columns
  <2> QED BY <1>4, <2>1, Carried
<1>5. CASE n = 15
  <2>1. e = Normalise(d, "created_at")
    BY <1>5, Order DEF Execute, Columns
  <2> QED BY <1>5, <2>1, Normalised
<1>6. CASE n = 16
  <2>1. e = Normalise(d, "updated_at")
    BY <1>6, Order DEF Execute, Columns
  <2> QED BY <1>6, <2>1, Normalised
<1>7. CASE n = 17
  <2>1. e = Normalise(d, "expires_at")
    BY <1>7, Order DEF Execute, Columns
  <2> QED BY <1>7, <2>1, Normalised
<1>8. CASE n = 18
  <2>1. e = [d EXCEPT !.delivery = Rfc(@)]
    BY <1>8, Order DEF Execute, Columns, NormaliseDeliveries
  <2>2. e = Altered(d, d.tables, d.columns, Rfc(d.delivery))
    BY <2>1 DEF Database, Altered
  <2>3. /\ Database(e) /\ Kept(d, e) /\ SameRows(d, e) /\ e.delivery = Rfc(d.delivery)
    BY <2>2, Added
  <2> QED BY <1>8, <2>3 DEF Rfc
<1> QED BY <1>1, <1>2, <1>3, <1>4, <1>5, <1>6, <1>7, <1>8

-----------------------------------------------------------------------------
(* The steps. *)

(* What the earlier statements have done survives a step that keeps it. *)
LEMMA DoneKept ==
    ASSUME NEW n \in Nat, NEW d, NEW e, NEW assets, Database(d), Database(e),
           Kept(d, e), SameRows(d, e), DoneBefore(n, d, assets)
    PROVE  DoneBefore(n, e, assets)
<1>1. /\ n > 2 => "expires_at" \in e.columns
      /\ n > 4 => "asset_issuer" \in e.columns
      /\ n > 6 => "event_type" \in e.columns
      /\ n > 7 => "acknowledged_at" \in e.columns
      /\ n > 18 => e.delivery # "space"
  BY DEF DoneBefore, Kept
<1>2. n > 11 => \A m \in e.merchant : e.key[m] # "none"
  BY DEF DoneBefore, Kept, SameRows, Database
<1>3. ASSUME NEW p \in DOMAIN e.row
      PROVE  /\ n > 3 => e.row[p].expires_at # "null"
             /\ n > 14 => (e.row[p].tx => p \in e.ledger)
             /\ n > 15 => e.row[p].created_at # "space"
             /\ n > 16 => e.row[p].updated_at # "space"
             /\ n > 17 => e.row[p].expires_at # "space"
  <2>1. p \in DOMAIN d.row /\ RowKept(d.row[p], e.row[p])
    BY DEF Kept, SameRows
  <2> QED BY <2>1 DEF DoneBefore, Kept, RowKept
<1>4. ASSUME NEW i \in DOMAIN assets, n > 18 + i PROVE PinnedFor(e, assets[i])
  <2>1. PinnedFor(d, assets[i])
    BY <1>4 DEF DoneBefore
  <2> SUFFICES ASSUME NEW p \in DOMAIN e.row, e.row[p].code = assets[i].code
               PROVE  e.row[p].issuer # NoIssuer \/ e.row[p].code = Native
    BY DEF PinnedFor
  <2>2. p \in DOMAIN d.row /\ RowKept(d.row[p], e.row[p])
    BY DEF Kept, SameRows
  <2> QED BY <2>1, <2>2 DEF PinnedFor, RowKept
<1> QED BY <1>1, <1>2, <1>3, <1>4 DEF DoneBefore

(* Nothing is kept less than itself. *)
LEMMA KeptItself == ASSUME NEW d PROVE Kept(d, d) /\ SameRows(d, d)
BY DEF Kept, RowKept, SameRows

(* The first statement comes after nothing. *)
LEMMA NothingDone ==
    ASSUME NEW n \in {0, 1}, NEW d, NEW assets, DOMAIN assets \subseteq Nat
    PROVE  DoneBefore(n, d, assets)
<1>1. \A i \in Nat : ~(n > 18 + i)
  OBVIOUS
<1> QED BY <1>1 DEF DoneBefore

(* An allow-list is a list of entries. *)
LEMMA Lists ==
    ASSUME NEW list \in AllowLists \cup {<<>>}
    PROVE  /\ Len(list) \in Nat /\ DOMAIN list = 1 .. Len(list)
           /\ \A i \in DOMAIN list : list[i] \in [code : Codes, issuer : Issuers]
<1> DEFINE Entry == [code : Codes, issuer : Issuers]
<1>1. AllowLists \subseteq Seq(Entry)
  BY StartupAssumption
<1> HIDE DEF Entry
<1>2. list \in Seq(Entry)
  <2>1. <<>> \in Seq(Entry)
    OBVIOUS
  <2> QED BY <1>1, <2>1, Zenon
<1>3. /\ Len(list) \in Nat /\ DOMAIN list = 1 .. Len(list)
      /\ \A i \in DOMAIN list : list[i] \in Entry
  BY <1>2
<1> QED BY <1>3 DEF Entry

(* The configuration's list of assets. *)
LEMMA ConfLists ==
    ASSUME StartupInd
    PROVE  /\ Len(conf.assets) \in Nat /\ DOMAIN conf.assets = 1 .. Len(conf.assets)
           /\ \A i \in DOMAIN conf.assets :
                 /\ conf.assets[i] \in [code : Codes, issuer : Issuers]
                 /\ conf.assets[i].issuer = NoIssuer => conf.assets[i].code = Native
           /\ boot \in Nat
<1>1. conf.assets \in AllowLists \cup {<<>>}
  BY DEF StartupInd, ConfSound, NoConf, Conf
<1>2. \A i \in DOMAIN conf.assets : conf.assets[i].issuer = NoIssuer => conf.assets[i].code = Native
  <2>1. CASE boot = 0
    BY <2>1 DEF StartupInd, ConfSound, NoConf
  <2>2. CASE boot # 0
    BY <2>2 DEF StartupInd, ConfSound, FromEnvOk, ValidateAddresses
  <2> QED BY <2>1, <2>2
<1>3. Len(conf.assets) \in Nat
  BY <1>1, Lists
<1>4. boot \in Nat
  BY <1>3 DEF StartupInd
<1> QED BY <1>1, <1>2, <1>3, <1>4, Lists

(* A fresh database, or one an earlier version left. *)
LEMMA StartupInit == Init => StartupInd
<1> SUFFICES ASSUME Init PROVE StartupInd
  OBVIOUS
<1>1. Database(db)
  <2>1. CASE db = Fresh
    <3>1. db = [tables |-> {}, columns |-> {}, row |-> <<>>, delivery |-> "none",
                merchant |-> {}, key |-> [m \in Merchants |-> "none"], ledger |-> {}]
      BY <2>1 DEF Fresh
    <3> QED BY <3>1 DEF Database
  <2>2. CASE db \in Legacy
    <3>1. PICK by \in [columns : {{}, {"expires_at"}, {"expires_at", "event_type"}},
                       intent : Payments, merchant : Merchants, code : Codes, tx : BOOLEAN,
                       form : Forms] :
            db = Left(by)
      BY <2>2, Zenon DEF Legacy
    <3> DEFINE row == [code |-> by.code, issuer |-> NoIssuer, tx |-> by.tx,
                       created_at |-> by.form, updated_at |-> by.form,
                       expires_at |-> IF "expires_at" \in by.columns THEN by.form ELSE "null"]
    <3>2. row \in Row
      BY DEF Row, Issuers, Forms
    <3> HIDE DEF row
    <3>3. db = [tables |-> {"payments", "webhook_deliveries", "merchants"}, columns |-> by.columns,
                row |-> [p \in {by.intent} |-> row], delivery |-> by.form,
                merchant |-> {by.merchant}, key |-> [n \in Merchants |-> "none"], ledger |-> {}]
      BY <3>1 DEF Left, Fresh, row
    <3> QED BY <3>2, <3>3 DEF Database
  <2> QED BY <2>1, <2>2 DEF Init
<1>2. env \in Conf
  BY StartupAssumption DEF Init, Conf
<1>3. boot = 0 /\ conf = NoConf /\ conf.assets = <<>> /\ Len(conf.assets) = 0
  BY DEF Init, NoConf
<1>4. DoneBefore(boot, db, conf.assets)
  BY <1>3, NothingDone
<1> QED BY <1>1, <1>2, <1>3, <1>4 DEF StartupInd, ConfSound

(* A process starts with a configuration that passed its checks. *)
LEMMA StartStep ==
    ASSUME StartupInd, Start
    PROVE  StartupInd' /\ Kept(db, db')
<1>1. db' = db /\ env' = env /\ conf' = env /\ boot' = 1 /\ FromEnvOk(env)
  BY DEF Start
<1>2. env \in Conf
  BY DEF StartupInd, ConfSound
<1>3. /\ Len(env.assets) \in Nat /\ DOMAIN env.assets \subseteq Nat
  BY <1>2, Lists DEF Conf
<1>4. ConfSound' /\ boot' \in 0 .. 19 + Len(conf'.assets)
  BY <1>1, <1>2, <1>3 DEF ConfSound
<1>5. DoneBefore(boot', db', conf'.assets)
  BY <1>1, <1>3, NothingDone
<1> QED BY <1>1, <1>4, <1>5, KeptItself DEF StartupInd

(* A process that goes down leaves the database as it is. *)
LEMMA DownStep ==
    ASSUME StartupInd, db' = db, boot' = 0, conf' = NoConf, env' \in Conf
    PROVE  StartupInd' /\ Kept(db, db')
<1>1. NoConf.assets = <<>> /\ Len(NoConf.assets) = 0 /\ DOMAIN NoConf.assets = {}
  BY DEF NoConf
<1>2. DoneBefore(boot', db', conf'.assets)
  BY <1>1, NothingDone
<1> QED BY <1>1, <1>2, KeptItself DEF StartupInd, ConfSound

(* A step that goes on to the next statement. *)
LEMMA OnwardStep ==
    ASSUME StartupInd, conf' = conf, env' = env, boot # 0, boot' # 0,
           boot' \in 0 .. 19 + Len(conf.assets),
           Database(db'), DoneBefore(boot', db', conf.assets)
    PROVE  StartupInd'
BY DEF StartupInd, ConfSound

(* A statement of migrate, refused or executed. *)
LEMMA StatementStep ==
    ASSUME StartupInd, Statement
    PROVE  StartupInd' /\ Kept(db, db')
<1>1. boot \in 1 .. 18 /\ boot # 14 /\ env' = env
  BY Order, Places DEF Statement
<1>2. CASE Refused(Migration[boot], db)
  <2>1. db' = db /\ boot' = 0 /\ conf' = NoConf
    BY <1>2 DEF Statement
  <2>2. env' \in Conf
    BY <1>1 DEF StartupInd, ConfSound
  <2> QED BY <2>1, <2>2, DownStep
<1>3. CASE ~Refused(Migration[boot], db)
  <2>1. db' = Execute(Migration[boot], db) /\ boot' = boot + 1 /\ conf' = conf
    BY <1>3 DEF Statement
  <2>2. PICK n, e, d : n = boot /\ e = db' /\ d = db
    OBVIOUS
  <2>3. n \in 1 .. 18 /\ n # 14 /\ n \in Nat /\ Database(d) /\ e = Execute(Migration[n], d)
    BY <1>1, <2>1, <2>2 DEF StartupInd
  <2>4. /\ Database(e) /\ Kept(d, e) /\ SameRows(d, e)
        /\ n \in {2, 4, 6, 7} => Migration[n] \in e.columns
        /\ n = 3 => \A p \in DOMAIN e.row : e.row[p].expires_at # "null"
        /\ n = 11 => \A m \in e.merchant : e.key[m] # "none"
        /\ n = 15 => \A p \in DOMAIN e.row : e.row[p].created_at # "space"
        /\ n = 16 => \A p \in DOMAIN e.row : e.row[p].updated_at # "space"
        /\ n = 17 => \A p \in DOMAIN e.row : e.row[p].expires_at # "space"
        /\ n = 18 => e.delivery # "space"
    BY <2>3, Executed
  <2>5. PICK assets : assets = conf.assets
    OBVIOUS
  <2>6. DoneBefore(n, e, assets) /\ DOMAIN assets \subseteq Nat
    BY <2>2, <2>3, <2>4, <2>5, DoneKept, ConfLists DEF StartupInd
  <2>8. DoneBefore(n + 1, e, assets)
    <3>1. /\ n + 1 > 2 => "expires_at" \in e.columns
          /\ n + 1 > 4 => "asset_issuer" \in e.columns
          /\ n + 1 > 6 => "event_type" \in e.columns
          /\ n + 1 > 7 => "acknowledged_at" \in e.columns
      BY <2>3, <2>4, <2>6, Order DEF DoneBefore
    <3>2. /\ n + 1 > 3 => \A p \in DOMAIN e.row : e.row[p].expires_at # "null"
          /\ n + 1 > 11 => \A m \in e.merchant : e.key[m] # "none"
          /\ n + 1 > 14 => \A p \in DOMAIN e.row : e.row[p].tx => p \in e.ledger
          /\ n + 1 > 18 => e.delivery # "space"
      BY <2>3, <2>4, <2>6 DEF DoneBefore
    <3>3. /\ n + 1 > 15 => \A p \in DOMAIN e.row : e.row[p].created_at # "space"
          /\ n + 1 > 16 => \A p \in DOMAIN e.row : e.row[p].updated_at # "space"
          /\ n + 1 > 17 => \A p \in DOMAIN e.row : e.row[p].expires_at # "space"
      BY <2>3, <2>4, <2>6 DEF DoneBefore
    <3>4. \A i \in DOMAIN assets : n + 1 > 18 + i => PinnedFor(e, assets[i])
      <4>1. ASSUME NEW i \in Nat, n + 1 > 18 + i PROVE i = 0 /\ n = 18
        BY <2>3, <4>1
      <4>2. 0 \notin DOMAIN assets
        BY <2>5, ConfLists
      <4> QED BY <2>6, <4>1, <4>2
    <3> QED BY <3>1, <3>2, <3>3, <3>4 DEF DoneBefore
  <2>9. boot' \in 0 .. 19 + Len(conf.assets) /\ boot # 0 /\ boot' # 0
    BY <1>1, <2>1, ConfLists
  <2> QED BY <1>1, <2>1, <2>2, <2>4, <2>5, <2>8, <2>9, OnwardStep
<1> QED BY <1>2, <1>3

(* The backfill of the ledger, one credit at a time. *)
LEMMA CreditStep ==
    ASSUME StartupInd, CreditLegacy
    PROVE  StartupInd' /\ Kept(db, db')
<1>1. boot = 14 /\ env' = env /\ conf' = conf /\ Database(db) /\ DoneBefore(14, db, conf.assets)
  BY Places DEF CreditLegacy, StartupInd
<1>2. /\ Len(conf.assets) \in Nat /\ DOMAIN conf.assets \subseteq Nat
  BY ConfLists
<1>3. CASE Uncredited = {}
  <2>1. db' = db /\ boot' = 15
    BY <1>1, <1>3 DEF CreditLegacy
  <2>2. \A p \in DOMAIN db.row : db.row[p].tx => p \in db.ledger
    BY <1>3 DEF Uncredited
  <2>3. \A i \in Nat : ~(15 > 18 + i)
    OBVIOUS
  <2>4. DoneBefore(15, db, conf.assets)
    BY <1>1, <1>2, <2>2, <2>3 DEF DoneBefore
  <2>5. boot' \in 0 .. 19 + Len(conf.assets) /\ boot # 0 /\ boot' # 0
    BY <1>1, <1>2, <2>1
  <2> QED BY <1>1, <2>1, <2>4, <2>5, OnwardStep, KeptItself
<1>4. CASE Uncredited # {}
  <2>1. PICK p \in Uncredited : db' = [db EXCEPT !.ledger = @ \cup {p}] /\ boot' = boot
    BY <1>4 DEF CreditLegacy
  <2>2. p \in DOMAIN db.row
    BY DEF Uncredited
  <2>3. db' = [tables |-> db.tables, columns |-> db.columns, row |-> db.row,
               delivery |-> db.delivery, merchant |-> db.merchant, key |-> db.key,
               ledger |-> db.ledger \cup {p}]
    BY <1>1, <2>1 DEF Database
  <2>4. /\ db'.tables = db.tables /\ db'.columns = db.columns /\ db'.row = db.row
        /\ db'.delivery = db.delivery /\ db'.merchant = db.merchant /\ db'.key = db.key
        /\ db'.ledger = db.ledger \cup {p}
    BY <2>3
  <2>5. Database(db')
    BY <1>1, <2>2, <2>3, <2>4 DEF Database
  <2>6. Kept(db, db') /\ SameRows(db, db')
    BY <2>4 DEF Kept, RowKept, SameRows
  <2>7. DoneBefore(14, db', conf.assets)
    BY <1>1, <2>5, <2>6, DoneKept
  <2>8. boot' \in 0 .. 19 + Len(conf.assets) /\ boot # 0 /\ boot' # 0
    BY <1>1, <1>2, <2>1
  <2> QED BY <1>1, <2>1, <2>5, <2>6, <2>7, <2>8, OnwardStep
<1> QED BY <1>3, <1>4

(* One entry of the allow-list is pinned. *)
LEMMA BackfillStep ==
    ASSUME StartupInd, BackfillIssuer
    PROVE  StartupInd' /\ Kept(db, db')
<1>1. /\ boot \in 19 .. 19 + Len(conf.assets) /\ boot # 19 + Len(conf.assets)
      /\ env' = env /\ conf' = conf /\ boot' = boot + 1
      /\ Database(db) /\ DoneBefore(boot, db, conf.assets)
  BY Places, ConfLists DEF BackfillIssuer, StartupInd, Serving
<1>2. PICK n, assets, d, e : n = boot /\ assets = conf.assets /\ d = db /\ e = db'
  OBVIOUS
<1>3. /\ Len(assets) \in Nat /\ DOMAIN assets = 1 .. Len(assets)
      /\ \A i \in DOMAIN assets :
            /\ assets[i] \in [code : Codes, issuer : Issuers]
            /\ assets[i].issuer = NoIssuer => assets[i].code = Native
  BY <1>2, ConfLists
<1>4. /\ n - 18 \in DOMAIN assets /\ n \in Nat /\ n - 19 + 1 = n - 18
  BY <1>1, <1>2, <1>3
<1>5. PICK entry : entry = assets[n - 18]
  OBVIOUS
<1>6. e = IF entry.issuer = NoIssuer THEN d ELSE PinIssuer(d, entry)
  BY <1>2, <1>4, <1>5, Places DEF BackfillIssuer
<1>7. Database(e) /\ Kept(d, e) /\ SameRows(d, e) /\ PinnedFor(e, entry)
  <2>1. CASE entry.issuer = NoIssuer
    <3>1. entry.code = Native
      BY <1>3, <1>4, <1>5, <2>1
    <3> QED BY <1>1, <1>2, <1>6, <2>1, <3>1, KeptItself DEF PinnedFor
  <2>2. CASE entry.issuer # NoIssuer
    BY <1>1, <1>2, <1>3, <1>4, <1>5, <1>6, <2>2, Pinned
  <2> QED BY <2>1, <2>2
<1>8. DoneBefore(n, e, assets)
  BY <1>1, <1>2, <1>4, <1>7, DoneKept
<1>9. DoneBefore(n + 1, e, assets)
  <2>1. ASSUME NEW i \in DOMAIN assets, n + 1 > 18 + i PROVE PinnedFor(e, assets[i])
    <3>1. i \in Nat /\ (i = n - 18 \/ n > 18 + i)
      BY <1>3, <1>4, <2>1
    <3> QED BY <1>5, <1>7, <1>8, <3>1 DEF DoneBefore
  <2>2. \A k \in 2 .. 18 : n > k
    BY <1>1, <1>2, <1>3
  <2> QED BY <1>8, <2>1, <2>2 DEF DoneBefore
<1>10. boot' \in 0 .. 19 + Len(conf.assets) /\ boot # 0 /\ boot' # 0
  BY <1>1, ConfLists
<1> QED BY <1>1, <1>2, <1>7, <1>9, <1>10, OnwardStep

(* The operator edits the environment of a process that is down. *)
LEMMA EditStep ==
    ASSUME StartupInd, Edit
    PROVE  StartupInd' /\ Kept(db, db')
<1>1. boot = 0 /\ conf = NoConf /\ env \in Conf /\ UNCHANGED <<db, conf, boot>>
  BY DEF Edit, StartupInd, ConfSound
<1>2. env' \in Conf
  <2>1. ASSUME NEW key \in Typings, env' = [env EXCEPT !.key = key] PROVE env' \in Conf
    BY <1>1, <2>1 DEF Conf
  <2>2. ASSUME NEW assets \in AllowLists, env' = [env EXCEPT !.assets = assets] PROVE env' \in Conf
    BY <1>1, <2>2 DEF Conf
  <2>3. CASE env' = [env EXCEPT !.sound = ~@]
    BY <1>1, <2>3 DEF Conf
  <2> QED BY <2>1, <2>2, <2>3 DEF Edit
<1> QED BY <1>1, <1>2, DownStep

(* What a serving process has behind it. *)
LEMMA WhenServing ==
    ASSUME StartupInd, Serving
    PROVE  /\ boot \in Nat /\ boot > 18 /\ boot # 0 /\ boot \in 0 .. 19 + Len(conf.assets)
           /\ \A i \in DOMAIN conf.assets : boot > 18 + i
<1>1. boot = 19 + Len(conf.assets)
  BY Places DEF Serving
<1> QED BY <1>1, ConfLists

(* A new intent is born migrated. *)
LEMMA CreateStep ==
    ASSUME StartupInd, NEW p \in Payments, CreatePayment(p)
    PROVE  StartupInd' /\ Kept(db, db')
<1>1. /\ p \notin DOMAIN db.row /\ Serving /\ UNCHANGED <<env, conf, boot>>
      /\ Database(db) /\ DoneBefore(boot, db, conf.assets)
  BY DEF CreatePayment, StartupInd
<1>2. PICK i \in DOMAIN conf.assets :
         db' = [db EXCEPT !.row =
                   [q \in DOMAIN @ \cup {p} |->
                      IF q = p THEN [code |-> conf.assets[i].code, issuer |-> conf.assets[i].issuer,
                                     tx |-> FALSE, created_at |-> "rfc", updated_at |-> "rfc",
                                     expires_at |-> "rfc"]
                      ELSE @[q]]]
  BY DEF CreatePayment
<1>3. PICK new : new = [code |-> conf.assets[i].code, issuer |-> conf.assets[i].issuer,
                        tx |-> FALSE, created_at |-> "rfc", updated_at |-> "rfc",
                        expires_at |-> "rfc"]
  OBVIOUS
<1>4. /\ conf.assets[i] \in [code : Codes, issuer : Issuers]
      /\ conf.assets[i].issuer = NoIssuer => conf.assets[i].code = Native
  BY ConfLists
<1>5. /\ new \in Row /\ new.tx = FALSE /\ new.created_at = "rfc" /\ new.updated_at = "rfc"
      /\ new.expires_at = "rfc" /\ (new.issuer # NoIssuer \/ new.code = Native)
  BY <1>3, <1>4 DEF Row, Forms
<1>6. PICK rows : rows = [q \in DOMAIN db.row \cup {p} |-> IF q = p THEN new ELSE db.row[q]]
  OBVIOUS
<1>7. /\ DOMAIN rows = DOMAIN db.row \cup {p} /\ rows[p] = new
      /\ \A q \in DOMAIN db.row : rows[q] = db.row[q]
  BY <1>1, <1>6
<1>8. db' = [db EXCEPT !.row = rows]
  BY <1>2, <1>3, <1>6, Zenon
<1>9. db' = [tables |-> db.tables, columns |-> db.columns, row |-> rows,
             delivery |-> db.delivery, merchant |-> db.merchant, key |-> db.key,
             ledger |-> db.ledger]
  BY <1>1, <1>8 DEF Database
<1>10. /\ db'.tables = db.tables /\ db'.columns = db.columns /\ db'.row = rows
       /\ db'.delivery = db.delivery /\ db'.merchant = db.merchant /\ db'.key = db.key
       /\ db'.ledger = db.ledger
  BY <1>9
<1>11. Database(db')
  <2>1. DOMAIN rows \subseteq Payments /\ \A q \in DOMAIN rows : rows[q] \in Row
    BY <1>1, <1>5, <1>7 DEF Database
  <2> QED BY <1>1, <1>7, <1>9, <1>10, <2>1 DEF Database
<1>12. Kept(db, db')
  BY <1>7, <1>10 DEF Kept, RowKept
<1>13. DoneBefore(boot, db', conf.assets)
  <2>1. /\ boot > 18
        /\ \A j \in DOMAIN conf.assets : boot > 18 + j
        /\ boot \in Nat
    BY <1>1, WhenServing
  <2>2. ASSUME NEW q \in DOMAIN rows
        PROVE  /\ rows[q].expires_at # "null" /\ rows[q].expires_at # "space"
               /\ rows[q].created_at # "space" /\ rows[q].updated_at # "space"
               /\ rows[q].tx => q \in db.ledger
    <3>1. CASE q = p
      BY <1>5, <1>7, <3>1
    <3>2. CASE q \in DOMAIN db.row
      BY <1>1, <1>7, <2>1, <3>2 DEF DoneBefore
    <3> QED BY <1>7, <3>1, <3>2
  <2>3. ASSUME NEW j \in DOMAIN conf.assets PROVE PinnedFor(db', conf.assets[j])
    <3>1. PinnedFor(db, conf.assets[j])
      BY <1>1, <2>1 DEF DoneBefore
    <3>2. ASSUME NEW q \in DOMAIN rows, rows[q].code = conf.assets[j].code
          PROVE  rows[q].issuer # NoIssuer \/ rows[q].code = Native
      BY <1>5, <1>7, <3>1, <3>2 DEF PinnedFor
    <3> QED BY <1>10, <3>2 DEF PinnedFor
  <2> QED BY <1>1, <1>10, <2>1, <2>2, <2>3 DEF DoneBefore
<1>14. boot' = boot /\ conf' = conf /\ env' = env /\ boot # 0 /\ boot' \in 0 .. 19 + Len(conf.assets)
  BY <1>1, WhenServing
<1> QED BY <1>11, <1>12, <1>13, <1>14, OnwardStep

(* A merchant comes with a key, or gives its first key up. *)
LEMMA MerchantStep ==
    ASSUME StartupInd, NEW m \in Merchants, ProvisionMerchant(m) \/ RevokeApiKey(m)
    PROVE  StartupInd' /\ Kept(db, db')
<1>1. /\ Serving /\ UNCHANGED <<env, conf, boot>>
      /\ Database(db) /\ DoneBefore(boot, db, conf.assets)
  BY DEF ProvisionMerchant, RevokeApiKey, StartupInd
<1>2. \E merchants \in SUBSET Merchants, value \in {"active", "revoked"} :
         /\ db' = [db EXCEPT !.merchant = merchants, !.key[m] = value]
         /\ db.merchant \subseteq merchants /\ merchants \subseteq db.merchant \cup {m}
         /\ m \in merchants
         /\ db.key[m] = "revoked" => value = "revoked"
  <2>1. CASE RevokeApiKey(m)
    <3>1. db' = [db EXCEPT !.merchant = db.merchant, !.key[m] = "revoked"]
      BY <1>1, <2>1 DEF RevokeApiKey, Database
    <3>2. db.merchant \in SUBSET Merchants /\ m \in db.merchant
      BY <1>1, <2>1 DEF Database, RevokeApiKey
    <3> QED BY <3>1, <3>2
  <2>2. CASE ProvisionMerchant(m)
    <3>1. db' = [db EXCEPT !.merchant = db.merchant \cup {m}, !.key[m] = "active"]
      BY <2>2 DEF ProvisionMerchant
    <3>2. m \notin db.merchant
      BY <2>2 DEF ProvisionMerchant
    <3>3. db.merchant \cup {m} \in SUBSET Merchants /\ db.key[m] # "revoked"
      BY <1>1, <3>2 DEF Database
    <3> QED BY <3>1, <3>3
  <2> QED BY <2>1, <2>2
<1>3. PICK merchants \in SUBSET Merchants, value \in {"active", "revoked"} :
         /\ db' = [db EXCEPT !.merchant = merchants, !.key[m] = value]
         /\ db.merchant \subseteq merchants /\ merchants \subseteq db.merchant \cup {m}
         /\ m \in merchants
         /\ db.key[m] = "revoked" => value = "revoked"
  BY <1>2
<1>4. PICK keys : keys = [db.key EXCEPT ![m] = value]
  OBVIOUS
<1>5. /\ keys \in [Merchants -> {"none", "active", "revoked"}] /\ keys[m] = value
      /\ \A o \in Merchants : o # m => keys[o] = db.key[o]
  BY <1>1, <1>4 DEF Database
<1>6. db' = [tables |-> db.tables, columns |-> db.columns, row |-> db.row,
             delivery |-> db.delivery, merchant |-> merchants, key |-> keys,
             ledger |-> db.ledger]
  BY <1>1, <1>3, <1>4 DEF Database
<1>7. /\ db'.tables = db.tables /\ db'.columns = db.columns /\ db'.row = db.row
      /\ db'.delivery = db.delivery /\ db'.merchant = merchants /\ db'.key = keys
      /\ db'.ledger = db.ledger
  BY <1>6
<1>8. Database(db')
  BY <1>1, <1>3, <1>5, <1>6, <1>7 DEF Database
<1>9. Kept(db, db')
  BY <1>3, <1>5, <1>7 DEF Kept, RowKept
<1>10. DoneBefore(boot, db', conf.assets)
  <2>1. boot \in Nat /\ boot > 18
    BY <1>1, WhenServing
  <2>2. \A o \in db.merchant : db.key[o] # "none"
    BY <1>1, <2>1 DEF DoneBefore
  <2>3. \A o \in merchants : keys[o] # "none"
    BY <1>3, <1>5, <2>2
  <2>4. \A j \in DOMAIN conf.assets : PinnedFor(db, conf.assets[j]) => PinnedFor(db', conf.assets[j])
    BY <1>7 DEF PinnedFor
  <2> QED BY <1>1, <1>7, <2>3, <2>4 DEF DoneBefore
<1>11. boot' = boot /\ conf' = conf /\ env' = env /\ boot # 0 /\ boot' \in 0 .. 19 + Len(conf.assets)
  BY <1>1, WhenServing
<1> QED BY <1>8, <1>9, <1>10, <1>11, OnwardStep

(* Every step keeps the invariant and what the database has. *)
LEMMA StartupStep == StartupInd /\ [Next]_vars => StartupInd' /\ Kept(db, db')
<1> SUFFICES ASSUME StartupInd, [Next]_vars PROVE StartupInd' /\ Kept(db, db')
  OBVIOUS
<1>1. CASE Boot
  BY <1>1, StartStep, StatementStep, CreditStep, BackfillStep DEF Boot
<1>2. CASE Die
  <2>1. db' = db /\ boot' = 0 /\ conf' = NoConf /\ env' \in Conf
    BY <1>2 DEF Die, StartupInd, ConfSound
  <2> QED BY <2>1, DownStep
<1>3. CASE Edit
  BY <1>3, EditStep
<1>4. ASSUME NEW p \in Payments, CreatePayment(p) PROVE StartupInd' /\ Kept(db, db')
  BY <1>4, CreateStep
<1>5. ASSUME NEW m \in Merchants, ProvisionMerchant(m) \/ RevokeApiKey(m)
      PROVE  StartupInd' /\ Kept(db, db')
  BY <1>5, MerchantStep
<1>6. CASE UNCHANGED vars
  <2>1. db' = db /\ env' = env /\ conf' = conf /\ boot' = boot
    BY <1>6 DEF vars
  <2> QED BY <2>1, KeptItself DEF StartupInd, ConfSound
<1> QED BY <1>1, <1>2, <1>3, <1>4, <1>5, <1>6 DEF Next, Idle

(* The inductive invariant of the start: what the statements before the    *)
(* next one have done is still done.                                       *)
THEOREM StartupInductive == Spec => []StartupInd
BY StartupInit, StartupStep, PTL DEF Spec

(* Whatever version left the database and wherever earlier starts died, a  *)
(* process that serves finds it migrated: migrate and                      *)
(* backfill_asset_issuers.                                                 *)
THEOREM ServesOnlyMigrated == Spec => []StartupInv
<1>1. ASSUME StartupInd PROVE TypeOK
  <2>1. boot \in 0 .. Pinning + Len(conf.assets)
    BY <1>1, Places DEF StartupInd
  <2>2. env.key \in Typings /\ env.assets \in AllowLists
    BY <1>1 DEF StartupInd, ConfSound, Conf
  <2> QED BY <1>1, <2>1, <2>2 DEF StartupInd, Database, TypeOK
<1>2. ASSUME StartupInd, Serving PROVE ServesMigrated
  <2>1. /\ boot \in Nat /\ boot > 18
        /\ \A i \in DOMAIN conf.assets : boot > 18 + i
        /\ DoneBefore(boot, db, conf.assets) /\ Database(db)
    BY <1>2, WhenServing DEF StartupInd
  <2>2. ASSUME NEW p \in DOMAIN db.row
        PROVE  /\ db.row[p].created_at # "space" /\ db.row[p].updated_at # "space"
               /\ db.row[p].expires_at \notin {"null", "space"}
               /\ db.row[p].tx => p \in db.ledger
    BY <2>1, <2>2 DEF DoneBefore
  <2>3. ASSUME NEW p \in DOMAIN db.row, db.row[p].code # Native,
               NEW i \in DOMAIN conf.assets, conf.assets[i].code = db.row[p].code
        PROVE  db.row[p].issuer # NoIssuer
    BY <2>1, <2>3 DEF DoneBefore, PinnedFor
  <2>4. Columns \subseteq db.columns /\ db.delivery # "space"
    BY <2>1 DEF DoneBefore, Columns
  <2>5. \A m \in db.merchant : db.key[m] # "none"
    BY <2>1 DEF DoneBefore
  <2> QED BY <2>2, <2>3, <2>4, <2>5 DEF ServesMigrated
<1>3. StartupInd => StartupInv
  BY <1>1, <1>2 DEF StartupInv, ServesMigrated
<1> QED BY <1>3, StartupInductive, PTL

(* No start, edit or death takes back a pinned issuer, a revocation, a     *)
(* credit, an intent or a normalised expiry: INSERT OR IGNORE, DO NOTHING  *)
(* and the IS NULL guards of the updates.                                  *)
THEOREM StartsOnlyAdd == Spec => NothingIsUndone
<1> DEFINE OnlyAdded ==
      /\ \A p \in DOMAIN db.row :
             /\ p \in DOMAIN db'.row
             /\ db.row[p].issuer # NoIssuer => db'.row[p].issuer = db.row[p].issuer
             /\ db.row[p].expires_at = "rfc" => db'.row[p].expires_at = "rfc"
      /\ \A m \in Merchants : db.key[m] = "revoked" => db'.key[m] = "revoked"
      /\ db.ledger \subseteq db'.ledger
<1>1. ASSUME StartupInd, [Next]_vars PROVE OnlyAdded
  <2>1. Kept(db, db') /\ Database(db')
    BY <1>1, StartupStep DEF StartupInd
  <2>2. ASSUME NEW p \in DOMAIN db.row
        PROVE  /\ p \in DOMAIN db'.row
               /\ db.row[p].issuer # NoIssuer => db'.row[p].issuer = db.row[p].issuer
               /\ db.row[p].expires_at = "rfc" => db'.row[p].expires_at = "rfc"
    <3>1. p \in DOMAIN db'.row /\ RowKept(db.row[p], db'.row[p])
      BY <2>1 DEF Kept
    <3> QED BY <3>1 DEF RowKept
  <2> QED BY <2>1, <2>2 DEF Kept
<1> HIDE DEF OnlyAdded
<1>2. Spec => [][OnlyAdded]_vars
  BY <1>1, StartupInductive, PTL DEF Spec
<1> QED BY <1>2 DEF NothingIsUndone, OnlyAdded
=============================================================================
