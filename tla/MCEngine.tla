------------------------------ MODULE MCEngine ------------------------------
(***************************************************************************)
(* Small instances of Engine: a bucket of one slot, so that two appliances *)
(* already compete, and every timer one or two ticks long.                 *)
(***************************************************************************)
EXTENDS Engine, TLC

MCDefaults == [BucketLimit |-> 1, PolicyWindowSec |-> 1, SustainedWindowSec |-> 1]

OneSlot ==
    {[BucketLimit |-> 1, PolicyWindowSec |-> 1, SustainedWindowSec |-> 1,
      SustainedMinLimit |-> 1, SustainedMaxLimit |-> 1, SustainedLimit |-> 1]}

(* What a report says of the slot: it is used up. *)
UsedUp == {[limit |-> 1, policy |-> 1, remaining |-> 0]}

(* ... or its window has turned over since the call. *)
UsedUpOrNew == UsedUp \cup {[limit |-> 1, policy |-> 1, remaining |-> 1]}

NowStamped == {0}

Symmetry == Permutations(Appliances) \cup Permutations(Conns)
(* Uuids are only compared with one another, and only within an appliance: *)
(* two states that differ in which uuids they are behave alike.            *)
Uuids(a) ==
    [place \in {"ticket", "holds", "map", "loop"} |->
       CASE place = "ticket" /\ a \in DOMAIN tickets -> {tickets[a].token}
         [] place = "holds" /\ a \in DOMAIN holds -> {holds[a]}
         [] place = "map" /\ a \in DOMAIN tokenMap -> {tokenMap[a]}
         [] place = "loop" /\ loop.pc = "store" /\ loop.app = a -> {loop.token}
         [] OTHER -> {}]

Alike(a) ==
    LET u == Uuids(a)
    IN  {p \in (DOMAIN u) \X (DOMAIN u) : u[p[1]] # {} /\ u[p[1]] = u[p[2]]}

UpToUuids ==
    <<st, [a \in DOMAIN tickets |-> tickets[a].age], queue, poll, loop.pc, notify,
      reapDue, [a \in Appliances |-> Alike(a)]>>
=============================================================================
