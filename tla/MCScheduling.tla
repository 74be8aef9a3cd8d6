---------------------------- MODULE MCScheduling ----------------------------
(***************************************************************************)
(* A small instance of Scheduling: two appliances of the high class and    *)
(* one of the medium, a bucket of two, of which the high class may have    *)
(* one, and a tick of 10 s, so that a waiter gains at most 30.             *)
(***************************************************************************)
EXTENDS Scheduling

CONSTANTS a1, a2, a3

MCDefaults == [BucketLimit |-> 2, PolicyWindowSec |-> 1, SustainedWindowSec |-> 2]

PlainConfig ==
    {[BucketLimit |-> 2, PolicyWindowSec |-> 1, SustainedWindowSec |-> 2,
      SustainedMinLimit |-> 2, SustainedMaxLimit |-> 2, SustainedLimit |-> 2]}

(* NationStates counts only what CAS sends, or something more. *)
PlainHeaders ==
    {[limit |-> 2, policy |-> 1, remaining |-> 2],
     [limit |-> 2, policy |-> 1, remaining |-> 1]}

MCClassOf ==
    [a \in {a1, a2, a3} |-> IF a = a3 THEN "P2_MEDIUM" ELSE "P1_HIGH"]

MCLags == {0, 1}

Symmetry == Permutations({a1, a2})
=============================================================================
