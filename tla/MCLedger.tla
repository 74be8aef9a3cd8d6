------------------------------ MODULE MCLedger ------------------------------
(***************************************************************************)
(* A small instance of Quota with its history, with every timer one or two *)
(* ticks long and penalties of three different lengths.                    *)
(***************************************************************************)
EXTENDS QuotaLedger

MCDefaults == [BucketLimit |-> 2, PolicyWindowSec |-> 1, SustainedWindowSec |-> 2]

(* An ordinary configuration, and one in which every field is unusable. *)
PenaltyConfigs ==
    {[BucketLimit |-> 2, PolicyWindowSec |-> 2, SustainedWindowSec |-> 1,
      SustainedMinLimit |-> 1, SustainedMaxLimit |-> 3, SustainedLimit |-> 2],
     [BucketLimit |-> 0, PolicyWindowSec |-> -1, SustainedWindowSec |-> 0,
      SustainedMinLimit |-> 2, SustainedMaxLimit |-> 1, SustainedLimit |-> 5]}

PenaltyHeaders ==
    {[limit |-> 0, policy |-> 0, remaining |-> -1],
     [limit |-> 2, policy |-> 1, remaining |-> 0],
     [limit |-> 1, policy |-> 2, remaining |-> 2],
     [limit |-> 2, policy |-> 0, remaining |-> 1]}

(* From a client whose clock is ahead, late, and without a stamp. *)
MCLags == {-1, 1, 2 * MaxLag + 1}
=============================================================================
