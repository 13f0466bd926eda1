--------------------------- MODULE SupervisedTasks ---------------------------
(***************************************************************************)
(* The background tasks of the gateway as main spawns them: what their     *)
(* supervisors and the handlers that report on them go by.                 *)
(***************************************************************************)
EXTENDS Integers

CONSTANTS
    Tasks,
    Required,     \* tasks main declares with require
    Disabled,     \* tasks the configuration gives nothing to do
    Threshold     \* CRASH_LOOP_THRESHOLD

ASSUME TasksAssumption ==
    /\ Required \subseteq Tasks /\ Disabled \subseteq Tasks
    /\ Threshold \in Nat \ {0}
=============================================================================
