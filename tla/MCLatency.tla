----------------------------- MODULE MCLatency -----------------------------
(***************************************************************************)
(* The instance of MCEngine, for the specification with history.           *)
(***************************************************************************)
EXTENDS EngineLatency, TLC

MCDefaults == [BucketLimit |-> 1, PolicyWindowSec |-> 1, SustainedWindowSec |-> 1]

OneSlot ==
    {[BucketLimit |-> 1, PolicyWindowSec |-> 1, SustainedWindowSec |-> 1,
      SustainedMinLimit |-> 1, SustainedMaxLimit |-> 1, SustainedLimit |-> 1]}

(* What a report says of the slot: it is used up. *)
UsedUp == {[limit |-> 1, policy |-> 1, remaining |-> 0]}

(* ... or its window has turned over since the call. *)
UsedUpOrNew == UsedUp \cup {[limit |-> 1, policy |-> 1, remaining |-> 1]}

NowStamped == {0}

Symmetry == Permutations(Appliances) \cup Permutations(Conns)
=============================================================================
