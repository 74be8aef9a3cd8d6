-------------------------------- MODULE Quota --------------------------------
(***************************************************************************)
(* The State object as the rest of the program sees it: one variable, and  *)
(* one action per thing that can happen to it under its mutex.  Who holds  *)
(* which ticket, the wait queue and the goroutines are the business of     *)
(* module Engine, which refines this one; here a ticket is only a count.   *)
(***************************************************************************)
EXTENDS CasState

CONSTANTS
    Configs,      \* raw operator configurations
    RawClasses,   \* priority_class values requests carry, known or not
    Demands,      \* 1 + backlog of an acquire
    Headers,      \* rate-limit headers of a report, see CasState
    Lags,         \* age of api_recv_at when the report is processed
    RetryAfters,  \* Retry-After of a 429, 0 when missing
    Fleet         \* number of appliances: at most one ticket each

RawConfig == [BucketLimit : Int, PolicyWindowSec : Int, SustainedWindowSec : Int,
              SustainedMinLimit : Int, SustainedMaxLimit : Int, SustainedLimit : Int]

ASSUME InputsAssumption ==
    /\ Configs \subseteq RawConfig
    /\ Demands \subseteq Nat \ {0}
    /\ Headers \subseteq [limit : Nat, policy : Nat, remaining : Int]
    /\ \A lag \in Lags : lag \in Int /\ (lag <= MaxLag \/ lag = Unstamped)
    /\ RetryAfters \subseteq Nat
    /\ Fleet \in Nat \ {0}

VARIABLE st

QuotaInit == \E cfg \in Configs : st = New(cfg)

-----------------------------------------------------------------------------
(* /acquire: TryAcquire books the demand before it asks CanDispatch. *)

AcquireGrant(c, n) ==
    LET s == NoteDemand(st, c, n) IN
    /\ CanDispatch(s)
    /\ st' = Issue(Settle(s))

(* Queued, or turned away with 503: the demand stays booked either way. *)
AcquireDeny(c, n) ==
    LET s == NoteDemand(st, c, n) IN
    /\ ~CanDispatch(s)
    /\ st' = Settle(s)

(* /report with a matching token *)
Report(h, lag) ==
    /\ st.InFlight > 0
    /\ st' = ProcessReport(st, h, lag)

Penalty(h, lag, retryAfter) ==
    /\ st.InFlight > 0
    /\ st' = ProcessPenalty(st, h, lag, retryAfter)

(* /report-and-acquire: the next ticket in the same critical section.  On  *)
(* a 429 it stops after the report, which is Penalty.                      *)
ReportAcquireGrant(h, lag, c, n) ==
    LET s == NoteDemand(ProcessReport(st, h, lag), c, n) IN
    /\ st.InFlight > 0
    /\ CanDispatch(s)
    /\ st' = Issue(Settle(s))

ReportAcquireDeny(h, lag, c, n) ==
    LET s == NoteDemand(ProcessReport(st, h, lag), c, n) IN
    /\ st.InFlight > 0
    /\ ~CanDispatch(s)
    /\ st' = Settle(s)

\* Mutant: the budgets are checked, and nothing is charged to them.
DispatchGrantFree(c) ==
    LET s == Settle(st) IN
    /\ CanDispatch(st)
    /\ HasClassQuota(s, c) \/ HasSharedQuota(s)
    /\ st' = Issue(s)

(* One round of the dispatch loop on a waiter of class c ... *)
DispatchGrant(c) ==
    LET s == Settle(st) IN
    /\ CanDispatch(st)
    /\ HasClassQuota(s, c) \/ HasSharedQuota(s)
    /\ st' = Issue(DeductQuota(s, c))

(* ... or the loop's last round: CanDispatch said no, nobody waits, or     *)
(* neither the class nor the shared pool has quota for the best waiter.    *)
DispatchIdle == st' = Settle(st)

(* The reaper takes back k expired tickets. *)
Reap(k) ==
    /\ k \in 1 .. st.InFlight
    /\ st' = [st EXCEPT !.InFlight = @ - k]

Elapses == st' = Elapse(st)

-----------------------------------------------------------------------------
(* Steps that issue a ticket.  Fleet bounds the tickets out; the combined  *)
(* call has just given one back.                                           *)
Grants ==
    \E c \in RawClasses :
       \/ /\ st.InFlight < Fleet
          /\ \/ \E n \in Demands : AcquireGrant(c, n)
             \/ DispatchGrant(c)
       \/ \E n \in Demands, h \in Headers, lag \in Lags :
             ReportAcquireGrant(h, lag, c, n)

Penalties ==
    \E h \in Headers, lag \in Lags, ra \in RetryAfters : Penalty(h, lag, ra)

Reaps == \E k \in 1 .. Fleet : Reap(k)

(* Steps that neither issue a ticket nor punish. *)
Others ==
    \/ \E c \in RawClasses, n \in Demands :
          \/ AcquireDeny(c, n)
          \/ \E h \in Headers, lag \in Lags : ReportAcquireDeny(h, lag, c, n)
    \/ \E h \in Headers, lag \in Lags : Report(h, lag)
    \/ DispatchIdle
    \/ Reaps
    \/ Elapses

QuotaNext == Grants \/ Penalties \/ Others

QuotaSpec == QuotaInit /\ [][QuotaNext]_st

(* Time passes and the reaper's ticker fires; nobody has to call. *)
QuotaFairSpec == QuotaSpec /\ WF_st(Elapses) /\ WF_st(Reaps)

-----------------------------------------------------------------------------
(* Properties *)

(* The shape of the State object: what each counter and countdown of       *)
(* state.go can hold.  LocalRemaining may be negative, when the very first *)
(* report carries no ratelimit-remaining.                                  *)
QuotaTypeOK == st \in State

(* The adaptive allowance stays between the floor and the ceiling New      *)
(* settled on, whatever the operator configured, through every halving of  *)
(* NotePenalty and every credit of creditCleanWindow.                      *)
LimitWithinBounds ==
    /\ 0 < st.cfg.SustainedMinLimit
    /\ st.cfg.SustainedMinLimit <= st.SustainedLimit
    /\ st.SustainedLimit <= st.cfg.SustainedMaxLimit

(* Once CAS is calibrated and a sustained window is open, no sequence of   *)
(* grants, reports, penalties and credits has it spend more than the       *)
(* allowance - although NotePenalty lowers the allowance mid-window, and   *)
(* tickets were issued before the first window existed.                    *)
SustainedWithinLimit ==
    st.Calibrated /\ st.SustainedLeft >= 0 => st.SustainedUsed <= st.SustainedLimit

(* "Serve the penalty out of the sustained budget rather than a separate   *)
(* timer, so a dispatch cannot slip through the moment the sustained       *)
(* window rolls" (NotePenalty): until CanDispatch lifts the lockdown, the  *)
(* two countdowns agree, the allowance is used up and the window is marked *)
(* so that it earns nothing back.                                          *)
PenaltyHoldsBudget ==
    st.LockdownActive =>
        /\ st.Calibrated
        /\ st.LockdownLeft = st.SustainedLeft
        /\ st.SustainedUsed = st.SustainedLimit
        /\ st.penaltyInWindow

(* While a penalty is being served no path - acquire, combined report, or  *)
(* dispatch loop - adds a ticket to those already out, and no report of an *)
(* older ticket reopens the gate ("blocks all dispatch", README).          *)
NoGrantDuringLockdown ==
    [][st.LockdownActive /\ st.LockdownLeft > 0
         => /\ st'.LockdownActive
            /\ st'.InFlight <= st.InFlight
            /\ st'.SustainedUsed = st'.SustainedLimit]_st

(* "Resumes at full allowance afterwards" (README): the step that lifts    *)
(* the lockdown discards the figure the 429 brought and starts a sustained *)
(* window that has at most this one ticket on it; the halved limit earns   *)
(* nothing back for the window just served.                                *)
ResumesAtFullAllowance ==
    [][st.LockdownActive /\ ~st'.LockdownActive
         => /\ st'.LocalRemaining = st'.BucketLimit
            /\ st'.SustainedUsed <= 1
            /\ st'.SustainedLimit = st.SustainedLimit]_st

(* "Re-anchoring on every report would push the staleness horizon forward  *)
(* each time" (NoteHeaders): whatever postpones the instant at which the   *)
(* view goes stale raises the figure, lifts a lockdown, or begins a view   *)
(* no earlier than where the present one ends.  A view begins when the     *)
(* client says, which CAS believes: a clock that is ahead may end a view   *)
(* early, but reports stamped within a view never push its end forward.    *)
ViewsDoNotOverlap ==
    [][st.WindowActive /\ st'.WindowLeft > st.WindowLeft
         => \/ st'.LocalRemaining > st.LocalRemaining
            \/ st'.WindowLeft - PolicyWindow(st') >= st.WindowLeft
            \/ st.LockdownActive /\ ~st'.LockdownActive]_st

(* ResetClassBudgets hands out the bucket exactly, to the classes and the  *)
(* shared pool together, and no class more than its ceiling or its demand: *)
(* rounding the shares one by one never over-commits the bucket, so the    *)
(* clamp at the end of the function has nothing to do.                     *)
SplitExact ==
    LET r == ResetClassBudgets(st) IN
    /\ Total(r.ClassRemaining) + r.SharedRemaining = st.BucketLimit
    /\ \A c \in Classes : /\ r.ClassRemaining[c] <= st.DemandSum[c]
                          /\ r.ClassRemaining[c] <= MaxAllowed(c, st.BucketLimit)

(* "A stale 0 would otherwise wedge CAS" (refreshRemaining): with no more  *)
(* reports ever coming, after any report or penalty, the passage of time   *)
(* and the reaper alone make CAS willing to dispatch again, and again.     *)
RecoversAlone == []<>CanDispatch(st)

(* "Only one bootstrap request is permitted until the first telemetry      *)
(* calibrates real quota state" (New).                                     *)
OneBootstrapRequest == ~st.Calibrated => st.InFlight <= 1
=============================================================================
