-------------------------- MODULE MCPaymentCreation --------------------------
(* The instances of PaymentCreation for TLC are given by their cfg files.  *)
EXTENDS PaymentCreation
=============================================================================
