---------------------------- MODULE EngineLatency ----------------------------
(***************************************************************************)
(* Engine with a history variable: whether the reaper has fired while, ever *)
(* since, the best waiter is one the dispatch loop would serve if it ran.  *)
(***************************************************************************)
EXTENDS Engine

VARIABLE passedOver

LatencyInit == EngineInit /\ passedOver = FALSE

LatencyNext ==
    \/ Reaper /\ passedOver' = Dispatchable'
    \/ EngineStep /\ passedOver' = (passedOver /\ Dispatchable)

LatencySpec == LatencyInit /\ [][LatencyNext]_<<vars, passedOver>>

(* The paths that free or reorder the queue without a signal lean on the   *)
(* reaper, which signals the loop every second whether or not it reaped:   *)
(* once everybody has nothing left to do but wait, no waiter the reaper    *)
(* found in front of an open gate is still standing there.                 *)
ServedWithinAPeriod == Quiet => ~passedOver
=============================================================================
