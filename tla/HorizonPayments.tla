-------------------------- MODULE HorizonPayments --------------------------
(***************************************************************************)
(* What the reconciler reads: the payment intents of the database and the  *)
(* payment operations Horizon reports for the gateway account, the         *)
(* decision whether an operation pays an intent (horizon.rs, verify), and  *)
(* the received-amount ledger (db.rs, processed_transactions) as a set of  *)
(* rows.                                                                   *)
(*                                                                         *)
(* An operation is named by its place in the account's history: paging     *)
(* token n is the n-th operation, and 0 is the cursor "0".  Amounts are    *)
(* stroops; a record whose amount is missing or is rejected by             *)
(* parse_stroops (never a positive number) has amount 0.                   *)
(***************************************************************************)
EXTENDS Integers, FiniteSets

CONSTANTS
    Intents,      \* the payment intents, by id
    Intent,       \* the columns of each intent that never change
    NumRecords,   \* length of the account's payment history
    Chain,        \* the n-th payment operation of that history
    Memos,        \* memo strings
    Accounts,     \* destination addresses and asset issuers
    Codes,        \* asset codes
    Hashes,       \* transaction hashes
    NoIssuer,     \* asset_issuer IS NULL: the native asset
    NoHash        \* tx_hash IS NULL

Records == 1 .. NumRecords

(* The immutable part of db::Payment. *)
IntentRow ==
    [memo : Memos, destination : Accounts, asset : Codes,
     issuer : Accounts \cup {NoIssuer}, amount : Nat \ {0}, expiresAt : Nat]

(* HorizonPayment with its joined transaction. *)
HorizonPayment ==
    [kind : {"payment", "other"}, to : Accounts,
     memoType : {"text", "other"}, memo : Memos,
     successful : {"true", "false", "absent"},
     asset : Codes, issuer : Accounts \cup {NoIssuer},
     amount : Nat, hash : Hashes]

ASSUME HistoryAssumption ==
    /\ NumRecords \in Nat
    /\ Chain \in [Records -> HorizonPayment]

ASSUME IntentAssumption ==
    /\ Intent \in [Intents -> IntentRow]
    /\ NoIssuer \notin Accounts
    /\ NoHash \notin Hashes

(* The memo column is UNIQUE (migrations/0001_initial_schema.sql). *)
ASSUME MemoUnique ==
    \A p, q \in Intents : Intent[p].memo = Intent[q].memo => p = q

-----------------------------------------------------------------------------

(* HorizonPayment::memo: a memo of any other type is no memo at all. *)
CarriesMemo(hp, memo) == hp.memoType = "text" /\ hp.memo = memo

(* HorizonPayment::is_successful: a missing flag is not a success. *)
IsSuccessful(hp) == hp.successful = "true"

(* Mutant: any issuer's token of that code will do. *)
AssetMatchesByCode(row, hp) == row.asset = hp.asset

(* The issuer the intent was priced in; NoIssuer on both sides is XLM. *)
AssetMatches(row, hp) == row.asset = hp.asset /\ row.issuer = hp.issuer

(* verify returns Some: this operation pays this intent. *)
Verify(row, hp) ==
    /\ hp.kind = "payment"
    /\ hp.to = row.destination
    /\ CarriesMemo(hp, row.memo)
    /\ IsSuccessful(hp)
    /\ AssetMatches(row, hp)
    /\ hp.amount > 0

Pays(r, p) == Verify(Intent[p], Chain[r])

-----------------------------------------------------------------------------

(* A row of processed_transactions belonging to one intent. *)
LedgerRow == [hash : Hashes, amount : Nat \ {0}]

RowOf(r) == [hash |-> Chain[r].hash, amount |-> Chain[r].amount]

(* The primary key (payment_id, tx_hash) is taken. *)
HasHash(rows, h) == \E row \in rows : row.hash = h

(* Mutant: the insert without its conflict clause. *)
InsertRowAlways(rows, row) == rows \cup {row}

(* INSERT ... ON CONFLICT(payment_id, tx_hash) DO NOTHING. *)
InsertRow(rows, row) == IF HasHash(rows, row.hash) THEN rows ELSE rows \cup {row}

(* The stroops a set of rows stands for, each stroop named by its row and  *)
(* a number, so that the SUM over the rows is a cardinality.               *)
Stroops(rows) == UNION {{row} \X (1 .. row.amount) : row \in rows}

(* sum_processed_stroops: SUM(amount_stroops) over the intent's rows. *)
Total(rows) == Cardinality(Stroops(rows))

(* Mutants: the price is reached one stroop early. *)
OutcomeEarly(total, expected) == IF total < expected - 1 THEN "underpaid" ELSE "completed"

EventForEarly(total, expected) ==
    CASE total < expected - 1 -> "payment.underpaid"
      [] total \in {expected - 1, expected} -> "payment.completed"
      [] total > expected -> "payment.overpaid"

(* The three-way comparison of the cumulative total with the amount asked. *)
Outcome(total, expected) == IF total < expected THEN "underpaid" ELSE "completed"

EventFor(total, expected) ==
    CASE total < expected -> "payment.underpaid"
      [] total = expected -> "payment.completed"
      [] total > expected -> "payment.overpaid"
=============================================================================
