------------------------------ MODULE CasState ------------------------------
(***************************************************************************)
(* The quota arithmetic of internal/state/state.go, and the quota part of  *)
(* the report handler of internal/handlers/engine.go, as operators on one  *)
(* record: every operator takes the State before a call made under the     *)
(* State mutex and returns the State after it.                             *)
(*                                                                         *)
(* Instants are kept as distances from now, in the unit of Tick: a field   *)
(* ...Left is (the Go instant) - now.  The program only asks whether an    *)
(* instant is still ahead, so LockdownLeft and SustainedLeft stop at 0,    *)
(* and WindowLeft, which is also compared with the stamp of a report that  *)
(* may be MaxLag old, stops at -MaxLag.  DemandSum and SustainedUsed stop  *)
(* at DemandCap and UsedCap, which exceed everything they are compared     *)
(* with.  Penalties, WindowStartTime and ratelimit-reset feed telemetry    *)
(* only and are left out.                                                  *)
(***************************************************************************)
EXTENDS Integers

CONSTANTS
    Defaults,   \* the fallbacks New substitutes (50, 30 s, 900 s in the code)
    MaxLag,     \* oldest api_recv_at a stamped report carries, in ticks
    DemandCap,  \* DemandSum saturates here
    UsedCap     \* SustainedUsed saturates here

ASSUME DefaultsAssumption ==
    Defaults \in [BucketLimit : Nat \ {0}, PolicyWindowSec : Nat \ {0},
                  SustainedWindowSec : Nat \ {0}]

ASSUME CapsAssumption == MaxLag \in Nat /\ DemandCap \in Nat \ {0} /\ UsedCap \in Nat \ {0}

AtMost(x, top) == IF x > top THEN top ELSE x
AtLeast(x, bottom) == IF x < bottom THEN bottom ELSE x

(* The lag of a report without api_recv_at: Go reads the year 1, which is  *)
(* before every instant the server ever stored, and with any policy window *)
(* added still in the past (Horizon).                                      *)
Unstamped == 2 * MaxLag + 1

-----------------------------------------------------------------------------
(* Priority classes *)

Classes == {"P1_HIGH", "P2_MEDIUM", "P3_LOW"}

Weight == [c \in Classes |->
             CASE c = "P1_HIGH" -> 4 [] c = "P2_MEDIUM" -> 2 [] OTHER -> 1]

(* floor(BucketLimit * MaxFraction).  In the floating point of the code    *)
(* the 0.7 of P2 comes out one lower for some multiples of ten from 90 on. *)
MaxAllowed(c, bucket) ==
    CASE c = "P1_HIGH" -> bucket \div 2
      [] c = "P2_MEDIUM" -> (7 * bucket) \div 10
      [] OTHER -> bucket

(* The demand of an unknown class is booked as medium. *)
DemandClass(c) == IF c \in Classes THEN c ELSE "P2_MEDIUM"

NoQuota == [c \in Classes |-> 0]

Total(f) == f["P1_HIGH"] + f["P2_MEDIUM"] + f["P3_LOW"]

-----------------------------------------------------------------------------
(* Construction *)

Positive(x, fallback) == IF x <= 0 THEN fallback ELSE x

Normalised(cfg) ==
    LET low  == Positive(cfg.SustainedMinLimit, 1)
        high == AtLeast(cfg.SustainedMaxLimit, low)
    IN  [BucketLimit        |-> Positive(cfg.BucketLimit, Defaults.BucketLimit),
         PolicyWindowSec    |-> Positive(cfg.PolicyWindowSec, Defaults.PolicyWindowSec),
         SustainedWindowSec |-> Positive(cfg.SustainedWindowSec, Defaults.SustainedWindowSec),
         SustainedMinLimit  |-> low,
         SustainedMaxLimit  |-> high,
         SustainedLimit     |->
            AtMost(AtLeast(Positive(cfg.SustainedLimit, 1), low), high)]

New(raw) ==
    LET cfg == Normalised(raw) IN
    [cfg |-> cfg,
     BucketLimit |-> cfg.BucketLimit, LocalRemaining |-> 1, InFlight |-> 0,
     PolicyWindowSec |-> cfg.PolicyWindowSec, Calibrated |-> FALSE,
     WindowActive |-> FALSE, WindowLeft |-> -MaxLag,
     SustainedWindowSec |-> cfg.SustainedWindowSec,
     SustainedLimit |-> cfg.SustainedLimit, SustainedUsed |-> 0,
     SustainedLeft |-> -1,              \* -1: SustainedWindowEnd.IsZero()
     penaltyInWindow |-> FALSE, LockdownActive |-> FALSE, LockdownLeft |-> 0,
     windowOpened |-> FALSE,
     DemandSum |-> NoQuota, ClassRemaining |-> NoQuota,
     SharedRemaining |-> cfg.BucketLimit]

-----------------------------------------------------------------------------
(* Class budgets *)

Active(s) == {c \in Classes : s.DemandSum[c] > 0}

ActiveWeight(s) == Total([c \in Classes |-> IF c \in Active(s) THEN Weight[c] ELSE 0])

\* Mutant: no ceiling.
ShareUncapped(s, c) ==
    LET w == ActiveWeight(s)
    IN  AtMost((2 * s.BucketLimit * Weight[c] + w) \div (2 * w), s.DemandSum[c])

(* math.Round(BucketLimit * weight / totalW), capped by demand and ceiling *)
Share(s, c) ==
    LET w   == ActiveWeight(s)
        raw == (2 * s.BucketLimit * Weight[c] + w) \div (2 * w)
    IN  AtMost(AtMost(raw, s.DemandSum[c]), MaxAllowed(c, s.BucketLimit))

Split(s) == [c \in Classes |-> IF c \in Active(s) THEN Share(s, c) ELSE 0]

ResetClassBudgets(s) ==
    [s EXCEPT !.ClassRemaining = Split(s),
              !.SharedRemaining = AtLeast(s.BucketLimit - Total(Split(s)), 0),
              !.DemandSum = NoQuota]

HasClassQuota(s, c) == c \in Classes /\ s.ClassRemaining[c] > 0

HasSharedQuota(s) == s.SharedRemaining > 0

\* Mutant: always charge the shared pool.
DeductSharedOnly(s, c) == [s EXCEPT !.SharedRemaining = @ - 1]

DeductQuota(s, c) ==
    IF HasClassQuota(s, c) THEN [s EXCEPT !.ClassRemaining[c] = @ - 1]
                           ELSE [s EXCEPT !.SharedRemaining = @ - 1]

NoteDemand(s, c, n) ==
    [s EXCEPT !.DemandSum[DemandClass(c)] = AtMost(@ + n, DemandCap)]

-----------------------------------------------------------------------------
(* The two windows and the decision *)

PolicyWindow(s) ==
    IF s.PolicyWindowSec > 0 THEN s.PolicyWindowSec ELSE s.cfg.PolicyWindowSec

\* Mutant: a view never ages out.
RefreshUnopened(s) ==
    IF s.WindowActive THEN s
    ELSE [ResetClassBudgets(s) EXCEPT !.LocalRemaining = s.BucketLimit,
                                      !.WindowActive = TRUE,
                                      !.WindowLeft = PolicyWindow(s),
                                      !.windowOpened = TRUE]

refreshRemaining(s) ==
    IF s.WindowActive /\ s.WindowLeft > 0 THEN s
    ELSE [ResetClassBudgets(s) EXCEPT !.LocalRemaining = s.BucketLimit,
                                      !.WindowActive = TRUE,
                                      !.WindowLeft = PolicyWindow(s),
                                      !.windowOpened = TRUE]

\* Mutant: no ceiling for the recovery.
EarnedAlways(s) == s.SustainedLeft = 0 /\ ~s.penaltyInWindow

(* creditCleanWindow: a window that ran out without a 429 earns one back. *)
Earned(s) ==
    /\ s.SustainedLeft = 0
    /\ ~s.penaltyInWindow
    /\ s.SustainedLimit < s.cfg.SustainedMaxLimit

rollSustainedWindow(s) ==
    IF s.SustainedLeft > 0 THEN s
    ELSE [s EXCEPT !.SustainedLimit = IF Earned(s) THEN @ + 1 ELSE @,
                   !.penaltyInWindow = FALSE,
                   !.SustainedUsed = 0,
                   !.SustainedLeft = s.SustainedWindowSec]

Locked(s) == s.LockdownActive /\ s.LockdownLeft > 0

\* Mutant: keep the view the 429 left behind.
LiftKeepsView(s) == [s EXCEPT !.LockdownActive = FALSE]

LiftLockdown(s) ==
    IF s.LockdownActive
      THEN [s EXCEPT !.LockdownActive = FALSE, !.WindowActive = FALSE] ELSE s

(* What CanDispatch leaves behind ... *)
Settle(s) ==
    IF Locked(s) THEN s
    ELSE IF s.Calibrated THEN rollSustainedWindow(refreshRemaining(LiftLockdown(s)))
    ELSE LiftLockdown(s)

(* ... and what it answers. *)
CanDispatch(s) ==
    LET t == Settle(s) IN
    /\ ~Locked(t)
    /\ IF t.Calibrated
         THEN t.SustainedUsed < t.SustainedLimit /\ t.LocalRemaining - t.InFlight > 0
         ELSE t.LocalRemaining > 0

DeductSustained(s) == [s EXCEPT !.SustainedUsed = AtMost(@ + 1, UsedCap)]

\* Mutant: a path that forgets DeductSustained.
IssueUncharged(s) == [s EXCEPT !.InFlight = @ + 1]

(* The quota side of issuing a ticket, the same on all three paths. *)
Issue(s) == DeductSustained([s EXCEPT !.InFlight = @ + 1])

-----------------------------------------------------------------------------
(* Reports.  h is [limit, policy, remaining] with 0 for an absent limit or *)
(* policy and a negative remaining for an absent one; lag is now - at.     *)

WasStale(s, lag) == s.WindowActive /\ s.WindowLeft + lag <= 0

\* Mutant: a report cannot lower the figure.
CappedKeepsHigher(s, h) == AtLeast(AtMost(h.remaining, s.BucketLimit), s.LocalRemaining)

Capped(s, h) == AtMost(h.remaining, s.BucketLimit)

\* Mutant: re-anchor on every report.
AnchorAlways(s, h, stale) == TRUE

Opened(s, h, stale) ==
    ~s.WindowActive \/ stale \/ Capped(s, h) > s.LocalRemaining

(* at + PolicyWindow, from now *)
Horizon(s, lag) ==
    IF lag = Unstamped THEN -MaxLag ELSE AtLeast(PolicyWindow(s) - lag, -MaxLag)

NoteHeaders(s0, h, lag) ==
    LET s1 == [s0 EXCEPT !.BucketLimit = IF h.limit > 0 THEN h.limit ELSE @,
                         !.PolicyWindowSec = IF h.policy > 0 THEN h.policy ELSE @]
        stale == WasStale(s1, lag)
        s2 == IF ~s1.Calibrated \/ stale THEN ResetClassBudgets(s1) ELSE s1
        s3 == IF h.remaining < 0 THEN s2
              ELSE IF ~Opened(s2, h, stale) THEN [s2 EXCEPT !.LocalRemaining = Capped(s2, h)]
              ELSE [s2 EXCEPT !.LocalRemaining = Capped(s2, h),
                              !.WindowActive = TRUE,
                              !.WindowLeft = Horizon(s2, lag),
                              !.windowOpened = TRUE]
    IN  [s3 EXCEPT !.Calibrated = TRUE]

\* Mutant: Retry-After is ignored.
PenaltyWindowConfigured(s, retryAfter) == s.cfg.SustainedWindowSec

PenaltyWindow(s, retryAfter) == Positive(retryAfter, s.SustainedWindowSec)

Halved(s) ==
    IF s.SustainedLimit > s.cfg.SustainedMinLimit
      THEN AtLeast(s.SustainedLimit \div 2, s.cfg.SustainedMinLimit)
      ELSE s.SustainedLimit

\* Mutant: halve the allowance and forget what was already spent of it.
PenaltyKeepsUsed(s, retryAfter) ==
    LET window == PenaltyWindow(s, retryAfter) IN
    [s EXCEPT !.SustainedWindowSec = window,
              !.SustainedLimit = Halved(s),
              !.SustainedLeft = window,
              !.penaltyInWindow = TRUE,
              !.LockdownActive = TRUE,
              !.LockdownLeft = window]

\* Mutant: a lockdown timer of its own, the sustained window left running.
PenaltyOwnTimer(s, retryAfter) ==
    LET window == PenaltyWindow(s, retryAfter) IN
    [s EXCEPT !.SustainedWindowSec = window,
              !.SustainedLimit = Halved(s),
              !.SustainedUsed = Halved(s),
              !.penaltyInWindow = TRUE,
              !.LockdownActive = TRUE,
              !.LockdownLeft = window]

NotePenalty(s, retryAfter) ==
    LET window == PenaltyWindow(s, retryAfter) IN
    [s EXCEPT !.SustainedWindowSec = window,
              !.SustainedLimit = Halved(s),
              !.SustainedUsed = Halved(s),
              !.SustainedLeft = window,
              !.penaltyInWindow = TRUE,
              !.LockdownActive = TRUE,
              !.LockdownLeft = window]

(* The slot comes back and the first report calibrates, before anything    *)
(* else is read off the report.                                            *)
Reported(s, h) ==
    [s EXCEPT !.InFlight = @ - 1,
              !.BucketLimit = IF h.limit > 0 THEN h.limit ELSE @,
              !.LocalRemaining = IF s.Calibrated THEN @ ELSE h.remaining,
              !.Calibrated = TRUE]

\* Mutant: a successful answer is taken as the end of the penalty.
ReportLifts(s, h, lag) ==
    [NoteHeaders(Reported(s, h), h, lag) EXCEPT !.windowOpened = FALSE,
                                                !.LockdownActive = FALSE]

(* A successful answer: observeQuota also consumes the window-opened flag. *)
ProcessReport(s, h, lag) ==
    [NoteHeaders(Reported(s, h), h, lag) EXCEPT !.windowOpened = FALSE]

(* A 429. *)
ProcessPenalty(s, h, lag, retryAfter) ==
    NotePenalty(NoteHeaders(Reported(s, h), h, lag), retryAfter)

-----------------------------------------------------------------------------
(* The passage of one unit of time *)

Elapse(s) ==
    [s EXCEPT !.WindowLeft = AtLeast(@ - 1, -MaxLag),
              !.SustainedLeft = IF @ > 0 THEN @ - 1 ELSE @,
              !.LockdownLeft = AtLeast(@ - 1, 0)]

-----------------------------------------------------------------------------
(* What New leaves of a configuration, and what the State can hold. *)

NormalConfig ==
    [BucketLimit : Nat \ {0}, PolicyWindowSec : Nat \ {0},
     SustainedWindowSec : Nat \ {0}, SustainedMinLimit : Nat \ {0},
     SustainedMaxLimit : Nat \ {0}, SustainedLimit : Nat \ {0}]

State ==
    [cfg : NormalConfig,
     BucketLimit : Nat \ {0}, LocalRemaining : Int, InFlight : Nat,
     PolicyWindowSec : Nat \ {0}, Calibrated : BOOLEAN,
     WindowActive : BOOLEAN, WindowLeft : Int,
     SustainedWindowSec : Nat \ {0}, SustainedLimit : Nat,
     SustainedUsed : Nat, SustainedLeft : Nat \cup {-1},
     penaltyInWindow : BOOLEAN, LockdownActive : BOOLEAN,
     LockdownLeft : Nat, windowOpened : BOOLEAN,
     DemandSum : [Classes -> Nat], ClassRemaining : [Classes -> Nat],
     SharedRemaining : Nat]
=============================================================================
