----------------------------- MODULE QuotaLedger -----------------------------
(***************************************************************************)
(* Quota with a history variable: how many tickets were really issued      *)
(* since the current sustained window began, counted from the outside.     *)
(***************************************************************************)
EXTENDS Quota

VARIABLE issued

LedgerInit == QuotaInit /\ issued = 0

(* rollSustainedWindow starts a window when the last one has run out. *)
Carried == IF st'.SustainedLeft > st.SustainedLeft THEN 0 ELSE issued

LedgerNext ==
    \/ Grants /\ issued' = AtMost(Carried + 1, UsedCap)
    \/ Others /\ issued' = Carried
    \/ Penalties /\ issued' = 0

LedgerSpec == LedgerInit /\ [][LedgerNext]_<<st, issued>>

(* "Every path that issues a ticket must call this, or the sustained limit *)
(* stops bounding anything" (DeductSustained): whatever mix of immediate   *)
(* grants, combined grants and dispatched waiters, the tickets issued in a *)
(* sustained window are all charged to it, and stay within the allowance.  *)
TicketsWithinAllowance ==
    st.Calibrated /\ st.SustainedLeft >= 0 =>
        /\ issued <= st.SustainedUsed
        /\ issued <= st.SustainedLimit
=============================================================================
