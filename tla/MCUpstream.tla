------------------------------ MODULE MCUpstream ------------------------------
(***************************************************************************)
(* Two appliances before a bucket of four, the least of which a report can *)
(* imply legacy use.  The sustained allowance does not bind before the     *)
(* bucket does.                                                            *)
(***************************************************************************)
EXTENDS Upstream, TLC

MCDefaults == [BucketLimit |-> 4, PolicyWindowSec |-> 2, SustainedWindowSec |-> 1]

Steady ==
    {[BucketLimit |-> 4, PolicyWindowSec |-> 2, SustainedWindowSec |-> 1,
      SustainedMinLimit |-> 4, SustainedMaxLimit |-> 4, SustainedLimit |-> 4]}

NoHeaders == {}

Symmetry == Permutations(Appliances)

(* A call as far as it still matters: what CAS expected of it only does    *)
(* when the figure was fresh and the answer is not a 429.                  *)
Relevant(c) ==
    IF c.phase = "held" /\ ~c.known
      THEN [c EXCEPT !.expected = 0, !.foreseen = {}, !.foreign = 0]
    ELSE IF c.phase = "answered" /\ ~(c.known /\ c.accepted)
      THEN [c EXCEPT !.known = FALSE, !.expected = 0, !.foreign = 0]
    ELSE c

(* All but the class budgets, which no action here looks at. *)
Figures ==
    <<[st EXCEPT !.DemandSum = NoQuota, !.ClassRemaining = NoQuota, !.SharedRemaining = 0],
      ns, [a \in Appliances |-> Relevant(call[a])], ahead, fresh, told>>
=============================================================================
