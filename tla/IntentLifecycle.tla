-------------------------- MODULE IntentLifecycle --------------------------
(***************************************************************************)
(* What settlement promises about a payment intent, without saying how:    *)
(* an intent is decided at most once, completed or expired; only a decided *)
(* intent has its outcome told to the merchant; the outcome is told at     *)
(* most once and is the one decided.  Part payments may be reported while  *)
(* an intent is open and do not appear here.  A crash may keep an outcome  *)
(* from being told, so nothing says that it is.                            *)
(***************************************************************************)
CONSTANT Intents

VARIABLES
    outcome,   \* "open", "completed" or "expired"
    told       \* the outcome recorded for delivery, "nothing" before that

vars == <<outcome, told>>

Init ==
    /\ outcome = [p \in Intents |-> "open"]
    /\ told = [p \in Intents |-> "nothing"]

(* One intent is paid for, or several run out of time together. *)
Complete(p) ==
    /\ outcome[p] = "open"
    /\ outcome' = [outcome EXCEPT ![p] = "completed"]
    /\ UNCHANGED told

Expire(S) ==
    /\ \A p \in S : outcome[p] = "open"
    /\ outcome' = [p \in Intents |-> IF p \in S THEN "expired" ELSE outcome[p]]
    /\ UNCHANGED told

Tell(p) ==
    /\ outcome[p] # "open"
    /\ told[p] = "nothing"
    /\ told' = [told EXCEPT ![p] = outcome[p]]
    /\ UNCHANGED outcome

Next ==
    \/ \E p \in Intents : Complete(p) \/ Tell(p)
    \/ \E S \in SUBSET Intents : Expire(S)

Spec == Init /\ [][Next]_vars
=============================================================================
