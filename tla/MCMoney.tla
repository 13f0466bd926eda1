------------------------------ MODULE MCMoney ------------------------------
(* Instances of Money for TLC. *)
EXTENDS Money
=============================================================================
