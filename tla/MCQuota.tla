------------------------------- MODULE MCQuota -------------------------------
(***************************************************************************)
(* Small instances of Quota.  The timers of the code (30 s policy window,  *)
(* 900 s sustained window) shrink to two or three ticks; what matters is   *)
(* that each can end before, with and after the others.                    *)
(***************************************************************************)
EXTENDS Quota

MCDefaults == [BucketLimit |-> 2, PolicyWindowSec |-> 1, SustainedWindowSec |-> 2]

PlainConfig ==
    {[BucketLimit |-> 2, PolicyWindowSec |-> 1, SustainedWindowSec |-> 2,
      SustainedMinLimit |-> 1, SustainedMaxLimit |-> 2, SustainedLimit |-> 2]}

PlainHeaders ==
    {[limit |-> 2, policy |-> 1, remaining |-> 0],
     [limit |-> 2, policy |-> 1, remaining |-> 2]}

(* Late, unstamped, and from a client whose clock runs a tick ahead. *)
SkewedLags == {-1, 1, 2 * MaxLag + 1}

PromptLags == {0}
=============================================================================
