------------------------------ MODULE MCApiKeys ------------------------------
(* Instances of ApiKeys for TLC. *)
EXTENDS ApiKeys, TLC

Exchangeable == Permutations(Merchants) \cup Permutations(KeyIds)
                \cup Permutations(Operators)
=============================================================================
