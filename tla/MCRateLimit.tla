----------------------------- MODULE MCRateLimit -----------------------------
(* Instances of RateLimit for TLC. *)
EXTENDS RateLimit

CONSTANTS alice, bob, nginx

(* Both write, and bob reads. *)
TwoBuckets == {<<alice, "POST /payments">>, <<bob, "POST /payments">>, <<bob, "GET">>}

(* What a client may have written: nothing, or the way of a request of     *)
(* another client through a proxy.                                         *)
SomeWritten == {[xff |-> <<>>, realIp |-> NoHeader],
                [xff |-> <<bob, nginx>>, realIp |-> Garbage]}
=============================================================================
