------------------------------ MODULE MCListing ------------------------------
(* Instances of Listing for TLC. *)
EXTENDS Listing

CONSTANTS alice, bob
=============================================================================
