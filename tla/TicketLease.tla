------------------------------ MODULE TicketLease ------------------------------
(***************************************************************************)
(* What the broker promises an appliance, with the queue, the budgets, the *)
(* tokens and the goroutines left out: at any time it has no business with *)
(* CAS, or waits, or holds one ticket; and it is never given a ticket      *)
(* while a penalty is being served.                                        *)
(***************************************************************************)
CONSTANT Appliances

VARIABLES
    lease,   \* what each appliance has: none, waiting or held
    locked   \* a penalty is being served

leaseVars == <<lease, locked>>

Becomes(a, from, to) == lease[a] \in from /\ lease' = [lease EXCEPT ![a] = to]

LeaseInit ==
    /\ lease = [a \in Appliances |-> "none"]
    /\ locked = FALSE

Wait(a) == Becomes(a, {"none"}, "waiting") /\ UNCHANGED locked

Grant(a) == ~locked /\ Becomes(a, {"none", "waiting"}, "held") /\ UNCHANGED locked

GiveUp(a) == Becomes(a, {"waiting"}, "none") /\ UNCHANGED locked

Return(a) == Becomes(a, {"held"}, "none") /\ UNCHANGED locked

(* A report that asks for the next ticket and has to wait for it. *)
Requeue(a) == Becomes(a, {"held"}, "waiting") /\ UNCHANGED locked

(* A ticket that comes back with a 429. *)
Punish(a) == Becomes(a, {"held"}, "none") /\ locked'

(* Some tickets expire. *)
Expire(S) ==
    /\ \A a \in S : lease[a] = "held"
    /\ lease' = [a \in Appliances |-> IF a \in S THEN "none" ELSE lease[a]]
    /\ UNCHANGED locked

PenaltyServed == locked /\ ~locked' /\ UNCHANGED lease

LeaseNext ==
    \/ \E a \in Appliances :
          \/ Wait(a) \/ Grant(a) \/ GiveUp(a)
          \/ Return(a) \/ Requeue(a) \/ Punish(a)
    \/ \E S \in SUBSET Appliances : Expire(S)
    \/ PenaltyServed

LeaseSpec == LeaseInit /\ [][LeaseNext]_leaseVars
=============================================================================
