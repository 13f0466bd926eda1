---------------------------- MODULE MCSettlement ----------------------------
(* Instances of Settlement for TLC. *)
EXTENDS Settlement, TLC

CONSTANTS p1, p2

Ask(memo, issuer, amount, expiresAt) ==
    [memo |-> memo, destination |-> "gateway",
     asset |-> IF issuer = NoIssuer THEN "XLM" ELSE "USDC",
     issuer |-> issuer, amount |-> amount, expiresAt |-> expiresAt]

Pay(memo, issuer, amount, hash) ==
    [kind |-> "payment", to |-> "gateway", memoType |-> "text", memo |-> memo,
     successful |-> "true", asset |-> IF issuer = NoIssuer THEN "XLM" ELSE "USDC",
     issuer |-> issuer, amount |-> amount, hash |-> hash]

MCMemos == {"m1", "m2"}
MCAccounts == {"gateway", "issuer", "impostor"}
MCCodes == {"XLM", "USDC"}
MCHashes == {"h1", "h2", "h3", "h4"}

(* One intent of price 3, retired at time 1. *)
OneIntent == p1 :> Ask("m1", "issuer", 3, 1)

(* A second one for lumens that is due at the same time. *)
TwoIntents == OneIntent @@ (p2 :> Ask("m2", NoIssuer, 2, 1))

(* A part payment, a top-up that overpays, and a late payment. *)
TopUps == <<Pay("m1", "issuer", 1, "h1"), Pay("m1", "issuer", 3, "h2"),
            Pay("m1", "issuer", 2, "h3")>>

(* p1's price in two parts, after its price in another issuer's token and  *)
(* an operation with p2's memo that is no payment.                         *)
Parts == <<Pay("m1", "impostor", 3, "h1"),
           [Pay("m2", NoIssuer, 2, "h2") EXCEPT !.kind = "other"],
           Pay("m1", "issuer", 2, "h3"), Pay("m1", "issuer", 1, "h4")>>
=============================================================================
