------------------------------- MODULE Money -------------------------------
(***************************************************************************)
(* Amounts as text and as stroops: parse_stroops, stroops_to_string, and   *)
(* what an amount goes through from the client's text to the row and back  *)
(* to every answer and webhook.  A text is a sequence of characters; a     *)
(* digit is its value, and three further values stand for the point, white *)
(* space and anything else (signs, letters).  The code's radix is 10, its  *)
(* decimals are 7 and its largest stroop count is 2^63 - 1.                *)
(***************************************************************************)
EXTENDS Integers, Sequences, SequencesExt, FiniteSetsExt

CONSTANTS
    MaxDecimals,     \* MAX_DECIMALS
    MaxStroops,      \* i64::MAX
    Digits,          \* the digits clients type
    MaxLength        \* bound: characters of a text

ASSUME MoneyAssumption ==
    /\ MaxDecimals \in Nat \ {0} /\ MaxStroops \in Nat \ {0} /\ MaxLength \in Nat
    /\ Digits \subseteq 0 .. 9

Point == -1
Blank == -2
Other == -3
None == -1            \* no amount

STROOPS_PER_UNIT == 10 ^ MaxDecimals

-----------------------------------------------------------------------------
(* parse_stroops. *)

Trim(text) ==
    LET kept == {i \in DOMAIN text : text[i] # Blank}
    IN IF kept = {} THEN <<>> ELSE SubSeq(text, Min(kept), Max(kept))

(* split_once('.'): a text without a point has no fraction. *)
SplitOnce(text) ==
    LET points == {i \in DOMAIN text : text[i] = Point}
    IN IF points = {} THEN <<text, <<>>>>
       ELSE <<SubSeq(text, 1, Min(points) - 1), SubSeq(text, Min(points) + 1, Len(text))>>

AllDigits(text) == \A i \in DOMAIN text : text[i] \in 0 .. 9

(* The value of a run of digits. *)
Number(digits) ==
    LET value[n \in 0 .. Len(digits)] == IF n = 0 THEN 0 ELSE 10 * value[n - 1] + digits[n]
    IN value[Len(digits)]

(* parse::<i64>, checked_mul and checked_add give up past the limit. *)
Checked(n) == IF n \in 0 .. MaxStroops THEN n ELSE None

(* Mutant: the fraction is read as it is written. *)
ParseStroopsUnpadded(input) ==
    LET parts == SplitOnce(Trim(input))
        whole == parts[1]
        frac == parts[2]
    IN IF \/ ~AllDigits(whole) \/ ~AllDigits(frac)
          \/ whole = <<>> /\ frac = <<>>
          \/ Len(frac) > MaxDecimals
       THEN None
       ELSE LET stroops == Checked(Number(whole) * STROOPS_PER_UNIT + Number(frac))
            IN IF stroops = 0 THEN None ELSE stroops

ParseStroops(input) ==
    LET parts == SplitOnce(Trim(input))
        whole == parts[1]
        frac == parts[2]
        padded == frac \o [i \in 1 .. MaxDecimals - Len(frac) |-> 0]
    IN IF \/ ~AllDigits(whole) \/ ~AllDigits(frac)
          \/ whole = <<>> /\ frac = <<>>
          \/ Len(frac) > MaxDecimals
          \/ Checked(Number(whole)) = None
          \/ Checked(Number(whole) * STROOPS_PER_UNIT) = None
       THEN None
       ELSE LET stroops == Checked(Number(whole) * STROOPS_PER_UNIT + Number(padded))
            IN IF stroops = 0 THEN None ELSE stroops

IsValidAmount(input) == ParseStroops(input) # None

-----------------------------------------------------------------------------
(* stroops_to_string. *)

(* A number in decimal; the same with leading zeros, on so many places.    *)
Decimal[n \in Nat] == IF n < 10 THEN <<n>> ELSE Append(Decimal[n \div 10], n % 10)
Places(n, width) == [i \in 1 .. width |-> (n \div 10 ^ (width - i)) % 10]

StroopsToString(n) ==
    LET whole == n \div STROOPS_PER_UNIT
        frac == n % STROOPS_PER_UNIT
    IN IF frac = 0 THEN Decimal[whole]
       ELSE LET padded == Places(frac, MaxDecimals)
            IN Decimal[whole] \o <<Point>>
               \o SubSeq(padded, 1, Max({i \in DOMAIN padded : padded[i] # 0}))

(* What to_json and build_payload show of a stored amount. *)
Canonical(text) == IF IsValidAmount(text) THEN StroopsToString(ParseStroops(text)) ELSE text

-----------------------------------------------------------------------------
(* An amount on its way: typed, stored by create_payment, shown.           *)

VARIABLES text, row, shown

vars == <<text, row, shown>>

NoRow == <<>>

Init == text = <<>> /\ row = NoRow /\ shown = <<>>

Type(c) ==
    /\ row = NoRow /\ Len(text) < MaxLength
    /\ text' = Append(text, c)
    /\ UNCHANGED <<row, shown>>

(* create refuses an invalid amount; create_payment stores the canonical   *)
(* form of a valid one.                                                    *)
Submit ==
    /\ row = NoRow /\ IsValidAmount(text)
    /\ row' = StroopsToString(ParseStroops(text))
    /\ UNCHANGED <<text, shown>>

Show ==
    /\ row # NoRow
    /\ shown' = Canonical(row)
    /\ UNCHANGED <<text, row>>

Full == row = NoRow /\ Len(text) = MaxLength /\ UNCHANGED vars

Next == (\E c \in Digits \cup {Point, Blank, Other} : Type(c)) \/ Submit \/ Show \/ Full

Spec == Init /\ [][Next]_vars

-----------------------------------------------------------------------------
(* Properties. *)

(* The number a text denotes, from the definition of decimal notation: all *)
(* its digits read as one number, scaled by the place of the point.        *)
Denotes(input) ==
    LET s == Trim(input)
        points == {i \in DOMAIN s : s[i] = Point}
        digits == SelectSeq(s, LAMBDA c : c \in 0 .. 9)
        decimals == IF points = {} THEN 0 ELSE Len(s) - Max(points)
    IN IF \/ Cardinality(points) > 1 \/ Other \in ToSet(s) \/ Blank \in ToSet(s)
          \/ digits = <<>> \/ decimals > MaxDecimals
       THEN None
       ELSE Number(digits) * 10 ^ (MaxDecimals - decimals)

(* "avoids the rounding pitfalls": a text is accepted exactly if it denotes*)
(* a positive amount of whole stroops the integer can hold, and is then    *)
(* read as that amount, whichever way it is written and however close to   *)
(* the limit it is.                                                        *)
ParsesToItsValue ==
    ParseStroops(text) = IF Denotes(text) \in 1 .. MaxStroops THEN Denotes(text) ELSE None

(* The stored text denotes what the client's does, is shown as it is       *)
(* stored, and is minimal: of its characters only the zero before a point  *)
(* can be left out without another amount or none being read.              *)
StoredAsMeant ==
    row # NoRow =>
        /\ ParseStroops(row) = ParseStroops(text)
        /\ shown # <<>> => shown = row
        /\ \A i \in DOMAIN row :
              LET shorter == SubSeq(row, 1, i - 1) \o SubSeq(row, i + 1, Len(row))
              IN ParseStroops(shorter) = ParseStroops(row) => i = 1 /\ row[1] = 0

AmountsSurvive == ParsesToItsValue /\ StoredAsMeant
=============================================================================
