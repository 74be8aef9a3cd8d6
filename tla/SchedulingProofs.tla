--------------------------- MODULE SchedulingProofs ---------------------------
(***************************************************************************)
(* The class budgets bound the dispatch loop exactly: what it has served   *)
(* since the last split and what is left of the split add up to it, for    *)
(* any bucket, demand and number of classes in use.                        *)
(***************************************************************************)
EXTENDS Scheduling, QuotaProofs, SequenceTheorems, FiniteSetTheorems

Left(s) == Total(s.ClassRemaining) + s.SharedRemaining

SInv == IInv /\ served \in Nat /\ BudgetsBoundDispatch

SameSplit(s, t) == t.ClassRemaining = s.ClassRemaining /\ t.SharedRemaining = s.SharedRemaining

(* From s to t: the split is made anew, or kept. *)
Splits(s, t, anew) ==
    IF anew THEN Left(t) = t.BucketLimit ELSE SameSplit(s, t)

-----------------------------------------------------------------------------
(* The operators of CasState *)

LEMMA LeftType ==
    ASSUME NEW s \in State
    PROVE  Left(s) \in Nat
BY DEF State, Left, Total, Classes

LEMMA ResetSplits ==
    ASSUME NEW s \in State
    PROVE  /\ ResetClassBudgets(s) \in State
           /\ Left(ResetClassBudgets(s)) = s.BucketLimit
           /\ ResetClassBudgets(s).BucketLimit = s.BucketLimit
<1> DEFINE r == ResetClassBudgets(s)
<1>1. Total(Split(s)) \in 0 .. s.BucketLimit /\ s.BucketLimit \in Nat
  BY SplitWithinBucket DEF State
<1>2. /\ r.ClassRemaining = Split(s)
      /\ r.SharedRemaining = AtLeast(s.BucketLimit - Total(Split(s)), 0)
      /\ r.BucketLimit = s.BucketLimit
  BY DEF ResetClassBudgets, State
<1>3. Total(Split(s)) + AtLeast(s.BucketLimit - Total(Split(s)), 0) = s.BucketLimit
  BY <1>1 DEF AtLeast
<1> QED
  BY <1>2, <1>3, ResetClassBudgetsType DEF Left

LEMMA SettleSplits ==
    ASSUME NEW s, Sound(s)
    PROVE  Splits(s, Settle(s), RenewedBySettle(s))
<1> DEFINE a == LiftLockdown(s)
           b == refreshRemaining(a)
           c == rollSustainedWindow(b)
<1>1. s \in State
  BY DEF Sound
<1>2. /\ Sound(a) /\ SameSplit(s, a) /\ a.WindowLeft = s.WindowLeft
      /\ a.BucketLimit = s.BucketLimit
  BY <1>1, LiftLockdownSound DEF LiftLockdown, State, SameSplit
<1>3. RenewedBySettle(s) <=>
         ~Locked(s) /\ s.Calibrated /\ ~(a.WindowActive /\ a.WindowLeft > 0)
  BY <1>2 DEF RenewedBySettle
<1>4. CASE Locked(s) \/ ~s.Calibrated
  <2>1. Settle(s) = s \/ Settle(s) = a
    BY <1>4 DEF Settle
  <2> HIDE DEF a
  <2> QED
    BY <1>2, <1>3, <1>4, <2>1 DEF Splits, SameSplit
<1>5. CASE ~Locked(s) /\ s.Calibrated
  <2>1. Settle(s) = c
    BY <1>5 DEF Settle
  <2> HIDE DEF a
  <2>2. Sound(b)
    BY <1>2, RefreshSound
  <2>3. IF a.WindowActive /\ a.WindowLeft > 0
          THEN SameSplit(a, b) ELSE Left(b) = b.BucketLimit
    <3>1. CASE a.WindowActive /\ a.WindowLeft > 0
      BY <3>1 DEF refreshRemaining, SameSplit
    <3>2. CASE ~(a.WindowActive /\ a.WindowLeft > 0)
      <4> DEFINE r == ResetClassBudgets(a)
      <4>1. r \in State /\ Left(r) = a.BucketLimit /\ r.BucketLimit = a.BucketLimit
        BY <1>2, ResetSplits DEF Sound
      <4>2. b = [r EXCEPT !.LocalRemaining = a.BucketLimit, !.WindowActive = TRUE,
                          !.WindowLeft = PolicyWindow(a), !.windowOpened = TRUE]
        BY <3>2 DEF refreshRemaining
      <4> HIDE DEF r
      <4>3. /\ b.ClassRemaining = r.ClassRemaining
            /\ b.SharedRemaining = r.SharedRemaining
            /\ b.BucketLimit = r.BucketLimit
        BY <4>1, <4>2 DEF State
      <4> QED
        BY <3>2, <4>1, <4>3 DEF Left
    <3> QED
      BY <3>1, <3>2
  <2> HIDE DEF b
  <2>4. SameSplit(b, c) /\ c.BucketLimit = b.BucketLimit
    BY <2>2 DEF Sound, State, rollSustainedWindow, SameSplit
  <2> HIDE DEF c
  <2> QED
    BY <1>2, <1>3, <1>5, <2>1, <2>3, <2>4 DEF Splits, SameSplit, Left
<1> QED
  BY <1>4, <1>5

LEMMA DemandSplits ==
    ASSUME NEW c, NEW n \in Demands, IInv
    PROVE  LET s == NoteDemand(st, c, n)
           IN  /\ Sound(s) /\ SameSplit(st, s)
               /\ RenewedBySettle(s) = RenewedBySettle(st)
<1> DEFINE s == NoteDemand(st, c, n)
<1>1. st \in State /\ n \in Nat
  BY Inputs DEF IInv, Sound
<1>2. s \in State /\ SameBudget(st, s)
  BY <1>1, NoteDemandType
<1>3. /\ SameSplit(st, s)
      /\ s.LockdownActive = st.LockdownActive /\ s.LockdownLeft = st.LockdownLeft
      /\ s.Calibrated = st.Calibrated
      /\ s.WindowActive = st.WindowActive /\ s.WindowLeft = st.WindowLeft
  BY <1>1 DEF NoteDemand, State, SameSplit
<1>4. Sound(s)
  BY <1>2, SoundFrame DEF IInv
<1> HIDE DEF s
<1>5. LiftLockdown(s).WindowActive = LiftLockdown(st).WindowActive
  BY <1>1, <1>2, <1>3 DEF LiftLockdown, State
<1>6. RenewedBySettle(s) = RenewedBySettle(st)
  BY <1>3, <1>5 DEF RenewedBySettle, Locked
<1> QED
  BY <1>3, <1>4, <1>6 DEF s

LEMMA IssueSplits ==
    ASSUME NEW s \in State
    PROVE  SameSplit(s, Issue(s)) /\ Issue(s).BucketLimit = s.BucketLimit
BY DEF Issue, DeductSustained, State, SameSplit

(* The loop's grant takes one from the class or from the shared pool. *)
LEMMA ChargeTakesOne ==
    ASSUME NEW s \in State, NEW c, HasClassQuota(s, c) \/ HasSharedQuota(s)
    PROVE  /\ Left(DeductQuota(s, c)) = Left(s) - 1
           /\ DeductQuota(s, c).BucketLimit = s.BucketLimit
<1>1. CASE HasClassQuota(s, c)
  <2>1. c \in Classes /\ s.ClassRemaining \in [Classes -> Nat] /\ s.SharedRemaining \in Nat
    BY <1>1 DEF HasClassQuota, State
  <2>2. /\ DeductQuota(s, c).ClassRemaining = [s.ClassRemaining EXCEPT ![c] = @ - 1]
        /\ DeductQuota(s, c).SharedRemaining = s.SharedRemaining
        /\ DeductQuota(s, c).BucketLimit = s.BucketLimit
    BY <1>1 DEF DeductQuota, State
  <2>3. Total([s.ClassRemaining EXCEPT ![c] = @ - 1]) = Total(s.ClassRemaining) - 1
    BY <2>1 DEF Total, Classes
  <2>4. Total(s.ClassRemaining) \in Nat
    BY <2>1 DEF Total, Classes
  <2> QED
    BY <2>1, <2>2, <2>3, <2>4 DEF Left
<1>2. CASE ~HasClassQuota(s, c)
  <2>1. /\ DeductQuota(s, c).ClassRemaining = s.ClassRemaining
        /\ DeductQuota(s, c).SharedRemaining = s.SharedRemaining - 1
        /\ DeductQuota(s, c).BucketLimit = s.BucketLimit
    BY <1>2 DEF DeductQuota, State
  <2>2. Total(s.ClassRemaining) \in Nat /\ s.SharedRemaining \in Nat
    BY DEF State, Total, Classes
  <2> QED
    BY <2>1, <2>2 DEF Left
<1> QED
  BY <1>1, <1>2

LEMMA HeadersSplit ==
    ASSUME IInv, st.InFlight > 0, NEW h \in Headers, NEW lag \in Lags
    PROVE  LET t == NoteHeaders(Reported(st, h), h, lag)
           IN  t \in State /\ Splits(st, t, WasStale(st, lag))
<1> DEFINE a == Reported(st, h)
           bucket == IF h.limit > 0 THEN h.limit ELSE a.BucketLimit
           policy == IF h.policy > 0 THEN h.policy ELSE a.PolicyWindowSec
           s1 == [a EXCEPT !.BucketLimit = bucket, !.PolicyWindowSec = policy]
           stale == WasStale(s1, lag)
           s2 == IF ~s1.Calibrated \/ stale THEN ResetClassBudgets(s1) ELSE s1
           t == NoteHeaders(a, h, lag)
<1>1. h \in Header /\ lag \in Int /\ st \in State
  BY Inputs DEF IInv, Sound
<1>2. Sound(a) /\ a.Calibrated
  BY <1>1, ReportedSound DEF IInv
<1>3. SameSplit(st, a) /\ a.WindowActive = st.WindowActive /\ a.WindowLeft = st.WindowLeft
  BY <1>1 DEF Reported, State, SameSplit
<1>4. t \in State
  BY <1>1, <1>2, NoteHeadersSound DEF Sound
<1>5. t = [(IF h.remaining < 0 THEN s2
            ELSE IF ~Opened(s2, h, stale) THEN [s2 EXCEPT !.LocalRemaining = Capped(s2, h)]
            ELSE [s2 EXCEPT !.LocalRemaining = Capped(s2, h),
                            !.WindowActive = TRUE,
                            !.WindowLeft = Horizon(s2, lag),
                            !.windowOpened = TRUE]) EXCEPT !.Calibrated = TRUE]
  BY DEF NoteHeaders
<1> HIDE DEF a
<1>6. bucket \in Nat \ {0} /\ policy \in Nat \ {0} /\ a \in State
  BY <1>1, <1>2 DEF Sound, State, Header
<1> HIDE DEF bucket, policy
<1>7. /\ s1 \in State /\ SameSplit(a, s1) /\ s1.Calibrated
      /\ s1.WindowActive = a.WindowActive /\ s1.WindowLeft = a.WindowLeft
  BY <1>2, <1>6 DEF State, SameSplit
<1>8. stale = WasStale(st, lag)
  BY <1>3, <1>7 DEF WasStale
<1> HIDE DEF s1, stale
<1>9. /\ s2 \in State
      /\ IF WasStale(st, lag) THEN Left(s2) = s2.BucketLimit ELSE SameSplit(s1, s2)
  BY <1>7, <1>8, ResetSplits DEF SameSplit
<1> HIDE DEF s2, t
<1>10. SameSplit(s2, t) /\ t.BucketLimit = s2.BucketLimit
  <2>1. CASE h.remaining < 0
    BY <1>5, <1>9, <2>1 DEF State, SameSplit
  <2>2. CASE ~(h.remaining < 0) /\ ~Opened(s2, h, stale)
    BY <1>5, <1>9, <2>2 DEF State, SameSplit
  <2>3. CASE ~(h.remaining < 0) /\ Opened(s2, h, stale)
    BY <1>5, <1>9, <2>3 DEF State, SameSplit
  <2> QED
    BY <2>1, <2>2, <2>3
<1>11. Splits(st, t, WasStale(st, lag))
  BY <1>3, <1>7, <1>9, <1>10 DEF Splits, SameSplit, Left
<1> QED
  BY <1>4, <1>11 DEF t, a

LEMMA ReturnSplits ==
    ASSUME IInv, NEW h \in Headers, NEW lag \in Lags,
           Report(h, lag) \/ \E ra \in RetryAfters : Penalty(h, lag, ra)
    PROVE  Splits(st, st', RenewedByReport(lag))
<1> DEFINE b == NoteHeaders(Reported(st, h), h, lag)
<1>1. b \in State /\ Splits(st, b, WasStale(st, lag))
  BY HeadersSplit DEF Report, Penalty
<1>2. \/ st' = [b EXCEPT !.windowOpened = FALSE]
      \/ \E ra \in RetryAfters : st' = NotePenalty(b, ra)
  BY DEF Report, Penalty, ProcessReport, ProcessPenalty
<1> HIDE DEF b
<1>3. SameSplit(b, st') /\ st'.BucketLimit = b.BucketLimit
  <2>1. CASE st' = [b EXCEPT !.windowOpened = FALSE]
    BY <1>1, <2>1 DEF State, SameSplit
  <2>2. ASSUME NEW ra \in RetryAfters, st' = NotePenalty(b, ra)
        PROVE  SameSplit(b, st') /\ st'.BucketLimit = b.BucketLimit
    BY <1>1, <2>2 DEF NotePenalty, State, SameSplit
  <2> QED
    BY <1>2, <2>1, <2>2
<1> QED
  BY <1>1, <1>3 DEF Splits, SameSplit, Left, RenewedByReport

-----------------------------------------------------------------------------
(* The steps *)

LEMMA SplitKept ==
    ASSUME SInv, SameSplit(st, st'), UNCHANGED <<served, pool>>
    PROVE  (served \in Nat /\ BudgetsBoundDispatch)'
BY DEF SInv, BudgetsBoundDispatch, SameSplit

LEMMA TotalType ==
    ASSUME NEW s \in State
    PROVE  Total(s.ClassRemaining) \in Nat /\ s.SharedRemaining \in Nat
BY DEF State, Total, Classes

LEMMA RenewedBounds ==
    ASSUME SInv, IInv', NEW anew \in BOOLEAN, Splits(st, st', anew), Renewed(anew)
    PROVE  (served \in Nat /\ BudgetsBoundDispatch)'
<1>1. CASE anew
  <2>1. served' = 0 /\ pool' = st'.BucketLimit /\ Left(st') = st'.BucketLimit
    BY <1>1 DEF Renewed, Splits
  <2>2. Total(st'.ClassRemaining) \in Nat /\ st'.SharedRemaining \in Nat
    BY TotalType DEF IInv, Sound
  <2> QED
    BY <2>1, <2>2 DEF BudgetsBoundDispatch, Left
<1>2. CASE ~anew
  BY <1>2, SplitKept DEF Renewed, Splits
<1> QED
  BY <1>1, <1>2

(* An acquire, whether it is granted or not. *)
LEMMA AskStep ==
    ASSUME SInv, IInv', NEW c, NEW n \in Demands,
           AcquireGrant(c, n) \/ AcquireDeny(c, n), Renewed(RenewedBySettle(st))
    PROVE  (served \in Nat /\ BudgetsBoundDispatch)'
<1> DEFINE s == NoteDemand(st, c, n)
           t == Settle(s)
           anew == RenewedBySettle(st)
<1>1. /\ Sound(s) /\ SameSplit(st, s)
      /\ RenewedBySettle(s) = RenewedBySettle(st)
  BY DemandSplits DEF SInv
<1>2. st' = t \/ st' = Issue(t)
  BY DEF AcquireGrant, AcquireDeny
<1> HIDE DEF s
<1>3. Sound(t) /\ Splits(s, t, anew)
  BY <1>1, SettleSound, SettleSplits
<1> HIDE DEF t
<1>4. SameSplit(t, st') /\ st'.BucketLimit = t.BucketLimit
  BY <1>2, <1>3, IssueSplits DEF SameSplit, Sound
<1>5. anew \in BOOLEAN
  BY DEF RenewedBySettle
<1> HIDE DEF anew
<1>6. Splits(st, st', anew)
  BY <1>1, <1>3, <1>4 DEF Splits, SameSplit, Left
<1>7. Renewed(anew)
  BY DEF anew
<1> QED
  BY <1>5, <1>6, <1>7, RenewedBounds

LEMMA IdleStep ==
    ASSUME SInv, IInv', DispatchIdle, Renewed(RenewedBySettle(st))
    PROVE  (served \in Nat /\ BudgetsBoundDispatch)'
<1>1. Splits(st, st', RenewedBySettle(st))
  BY SettleSplits DEF SInv, IInv, DispatchIdle
<1>2. RenewedBySettle(st) \in BOOLEAN
  BY DEF RenewedBySettle
<1> QED
  BY <1>1, <1>2, RenewedBounds

LEMMA ReturnStep ==
    ASSUME SInv, IInv', NEW a \in Appliances, Return(a)
    PROVE  (served \in Nat /\ BudgetsBoundDispatch)'
<1>1. ASSUME NEW h \in Headers, NEW lag \in Lags,
             Report(h, lag) \/ \E ra \in RetryAfters : Penalty(h, lag, ra),
             Renewed(RenewedByReport(lag))
      PROVE  (served \in Nat /\ BudgetsBoundDispatch)'
  <2>1. Splits(st, st', RenewedByReport(lag))
    BY <1>1, ReturnSplits DEF SInv
  <2>2. RenewedByReport(lag) \in BOOLEAN
    BY DEF RenewedByReport, WasStale
  <2> QED
    BY <1>1, <2>1, <2>2, RenewedBounds
<1>2. CASE Reap(1) /\ UNCHANGED <<served, pool>>
  <2>1. SameSplit(st, st')
    BY <1>2 DEF Reap, SInv, IInv, Sound, State, SameSplit
  <2> QED
    BY <1>2, <2>1, SplitKept
<1> QED
  BY <1>1, <1>2 DEF Return

LEMMA ServeStep ==
    ASSUME SInv, IInv', NEW a \in Appliances, Serve(a)
    PROVE  (served \in Nat /\ BudgetsBoundDispatch)'
<1> DEFINE c == ClassOf[a]
           t == Settle(st)
           d == DeductQuota(t, c)
           anew == RenewedBySettle(st)
<1>1. /\ HasClassQuota(t, c) \/ HasSharedQuota(t)
      /\ st' = Issue(d)
      /\ served' = 1 + (IF anew THEN 0 ELSE served)
      /\ pool' = IF anew THEN st'.BucketLimit ELSE pool
  BY DEF Serve, DispatchGrant
<1>2. t \in State /\ Splits(st, t, anew)
  BY SettleSound, SettleSplits DEF SInv, IInv, Sound
<1> HIDE DEF t, c, anew
<1>3. d \in State /\ Left(d) = Left(t) - 1 /\ d.BucketLimit = t.BucketLimit
  BY <1>1, <1>2, DeductQuotaType, ChargeTakesOne
<1> HIDE DEF d
<1>4. SameSplit(d, st') /\ st'.BucketLimit = d.BucketLimit
  BY <1>1, <1>3, IssueSplits
<1>5. Left(st') = Left(t) - 1 /\ st'.BucketLimit = t.BucketLimit
  BY <1>3, <1>4 DEF Left, SameSplit
<1>6. /\ Left(t) \in Nat /\ served \in Nat
      /\ Total(st'.ClassRemaining) \in Nat /\ st'.SharedRemaining \in Nat
      /\ Total(st.ClassRemaining) \in Nat /\ st.SharedRemaining \in Nat
  BY <1>2, LeftType, TotalType DEF SInv, IInv, Sound
<1>7. served + Left(st) = pool
  BY <1>6 DEF SInv, BudgetsBoundDispatch, Left
<1>8. served' + Left(st') = pool'
  <2>1. CASE anew
    BY <1>1, <1>2, <1>5, <1>6, <2>1 DEF Splits
  <2>2. CASE ~anew
    <3>1. Left(t) = Left(st)
      BY <1>2, <2>2 DEF Splits, SameSplit, Left
    <3>2. served' = 1 + served /\ pool' = pool
      BY <1>1, <2>2
    <3> QED
      BY <1>5, <1>6, <1>7, <3>1, <3>2
  <2> QED
    BY <2>1, <2>2
<1>9. served' \in Nat
  BY <1>1, <1>6
<1> QED
  BY <1>6, <1>8, <1>9 DEF BudgetsBoundDispatch, Left

(* The list is served, refused and left by steps of the State object. *)
LEMMA SchedulingStepsQuota ==
    ASSUME IInv, SchedulingNext
    PROVE  IInv' \/ UNCHANGED st
<1>1. ASSUME NEW c, NEW n \in Demands, AcquireGrant(c, n) \/ AcquireDeny(c, n)
      PROVE  Sound(st')
  BY <1>1, StBefore, DemandBefore, SettleSound, GrantRespects DEF AcquireGrant, AcquireDeny
<1>2. ASSUME NEW h \in Headers, NEW lag \in Lags,
             Report(h, lag) \/ \E ra \in RetryAfters : Penalty(h, lag, ra)
      PROVE  Sound(st')
  BY <1>2, Inputs, ProcessReportSound, ProcessPenaltySound DEF IInv, Report, Penalty
<1>3. Reap(1) => Sound(st')
  BY ReapSound DEF IInv, Reap
<1>4. ASSUME NEW c, DispatchGrant(c)
      PROVE  Sound(st')
  BY <1>4, DispatchRespects DEF IInv, DispatchGrant
<1>5. DispatchIdle => Sound(st')
  BY SettleSound DEF IInv, DispatchIdle
<1>6. Elapses => Sound(st')
  BY ElapseSound DEF IInv, Elapses
<1> QED
  BY <1>1, <1>2, <1>3, <1>4, <1>5, <1>6
     DEF IInv, SchedulingNext, AskAndGo, AskAndWait, Return, Serve, Leave,
         PutBack, Rest, Tick

LEMMA BudgetsStep ==
    ASSUME SInv, IInv', SchedulingNext
    PROVE  (served \in Nat /\ BudgetsBoundDispatch)'
<1>1. ASSUME NEW a \in Appliances, NEW n \in Demands,
             AskAndGo(a, n) \/ AskAndWait(a, n)
      PROVE  (served \in Nat /\ BudgetsBoundDispatch)'
  BY <1>1, AskStep DEF AskAndGo, AskAndWait
<1>2. ASSUME NEW a \in Appliances, Leave(a)
      PROVE  (served \in Nat /\ BudgetsBoundDispatch)'
  BY <1>2, SplitKept DEF Leave, SameSplit
<1>3. PutBack \/ Rest => (served \in Nat /\ BudgetsBoundDispatch)'
  BY IdleStep DEF PutBack, Rest
<1>4. ASSUME Tick
      PROVE  (served \in Nat /\ BudgetsBoundDispatch)'
  <2>1. SameSplit(st, st')
    BY <1>4 DEF Tick, Elapses, Elapse, SInv, IInv, Sound, State, SameSplit
  <2> QED
    BY <1>4, <2>1, SplitKept DEF Tick
<1> QED
  BY <1>1, <1>2, <1>3, <1>4, ReturnStep, ServeStep DEF SchedulingNext

-----------------------------------------------------------------------------
(* Theorems *)

(* Since the last split the loop has served exactly what the class budgets *)
(* and the shared pool have given up, whatever reports, penalties and      *)
(* immediate grants came between.                                          *)
THEOREM DispatchWithinSplit == SchedulingSpec => []BudgetsBoundDispatch
<1>1. SchedulingInit => SInv
  <2> SUFFICES ASSUME SchedulingInit PROVE SInv
    OBVIOUS
  <2>1. PICK cfg \in Configs : st = New(cfg)
    BY DEF SchedulingInit, QuotaInit
  <2>2. IInv
    BY <2>1, NewSound, InputsAssumption DEF IInv, RawConfig
  <2>3. /\ st.ClassRemaining = NoQuota
        /\ st.SharedRemaining = st.BucketLimit /\ st.BucketLimit \in Nat
    BY <2>1, <2>2 DEF New, IInv, Sound, State
  <2>4. Total(NoQuota) = 0
    BY DEF Total, NoQuota, Classes
  <2> QED
    BY <2>2, <2>3, <2>4 DEF SchedulingInit, SInv, BudgetsBoundDispatch
<1>2. SInv /\ [SchedulingNext]_scheduling => SInv'
  <2> SUFFICES ASSUME SInv, [SchedulingNext]_scheduling PROVE SInv'
    OBVIOUS
  <2>1. CASE SchedulingNext
    <3>1. IInv'
      BY <2>1, SchedulingStepsQuota DEF SInv, IInv
    <3> QED
      BY <2>1, <3>1, BudgetsStep DEF SInv
  <2>2. CASE UNCHANGED scheduling
    BY <2>2 DEF scheduling, SInv, IInv, BudgetsBoundDispatch
  <2> QED
    BY <2>1, <2>2
<1>3. SInv => BudgetsBoundDispatch
  BY DEF SInv
<1> QED
  BY <1>1, <1>2, <1>3, PTL DEF SchedulingSpec

-----------------------------------------------------------------------------
(* The list.  Its apps, and those in order of arrival, are the same, each  *)
(* once; who came first is at least as old.                                *)

Waiter == [app : Appliances, age : 0 .. PollTimeout]

Places == DOMAIN items

Listed ==
    /\ items \in Seq(Waiter)
    /\ \A k, l \in Places : items[k].app = items[l].app => k = l
    /\ arrivals \in Seq(Appliances)
    /\ \A m, n \in DOMAIN arrivals : arrivals[m] = arrivals[n] => m = n
    /\ \A k \in Places : \E m \in DOMAIN arrivals : arrivals[m] = items[k].app
    /\ \A m \in DOMAIN arrivals : \E k \in Places : arrivals[m] = items[k].app
    /\ \A k, l \in Places : QueuedBefore(items[k], items[l]) => items[k].age >= items[l].age

(* Ageing that decides within a class and never between two, as with the   *)
(* defaults.                                                               *)
MildAgeing == AgingWeight > 0 /\ AgingWeight * PollTimeout < 49

LEMMA ListShape ==
    ASSUME Listed
    PROVE  /\ Len(items) \in Nat /\ Places = 1 .. Len(items)
           /\ \A k \in Places : items[k] \in Waiter
           /\ Len(arrivals) \in Nat /\ DOMAIN arrivals = 1 .. Len(arrivals)
BY LenProperties, ElementOfSeq DEF Listed, Places

LEMMA TakenOut ==
    ASSUME NEW S, NEW s \in Seq(S), NEW k \in 1 .. Len(s)
    PROVE  /\ RemoveAt(s, k) \in Seq(S)
           /\ Len(RemoveAt(s, k)) = Len(s) - 1
           /\ \A i \in 1 .. Len(s) - 1 :
                 RemoveAt(s, k)[i] = IF i < k THEN s[i] ELSE s[i + 1]
<1> DEFINE u == SubSeq(s, 1, k - 1)
           v == SubSeq(s, k + 1, Len(s))
<1>1. Len(s) \in Nat /\ \A i \in 1 .. Len(s) : s[i] \in S
  BY LenProperties, ElementOfSeq
<1>2. /\ u \in Seq(S) /\ Len(u) = k - 1
      /\ \A i \in 1 .. k - 1 : u[i] = s[i]
  <2>1. /\ SubSeq(s, 1, k - 1) \in Seq(S)
        /\ Len(SubSeq(s, 1, k - 1)) = IF 1 <= k - 1 THEN (k - 1) - 1 + 1 ELSE 0
        /\ \A i \in 1 .. (k - 1) - 1 + 1 : SubSeq(s, 1, k - 1)[i] = s[1 + i - 1]
    <3>1. \A i \in 1 .. k - 1 : s[i] \in S
      BY <1>1
    <3> QED
      BY <1>1, <3>1, SubSeqProperties
  <2> QED
    BY <1>1, <2>1
<1>3. /\ v \in Seq(S) /\ Len(v) = Len(s) - k
      /\ \A i \in 1 .. Len(s) - k : v[i] = s[k + i]
  <2>1. /\ SubSeq(s, k + 1, Len(s)) \in Seq(S)
        /\ Len(SubSeq(s, k + 1, Len(s))) = IF k + 1 <= Len(s) THEN Len(s) - (k + 1) + 1 ELSE 0
        /\ \A i \in 1 .. Len(s) - (k + 1) + 1 :
              SubSeq(s, k + 1, Len(s))[i] = s[(k + 1) + i - 1]
    <3>1. \A i \in k + 1 .. Len(s) : s[i] \in S
      BY <1>1
    <3> QED
      BY <1>1, <3>1, SubSeqProperties
  <2> QED
    BY <1>1, <2>1
<1> HIDE DEF u, v
<1> DEFINE w == u \o v
<1>4. /\ w \in Seq(S)
      /\ Len(w) = Len(u) + Len(v)
      /\ \A i \in 1 .. Len(u) + Len(v) : w[i] = IF i <= Len(u) THEN u[i] ELSE v[i - Len(u)]
  BY <1>2, <1>3, ConcatProperties
<1>5. RemoveAt(s, k) = w
  BY DEF RemoveAt, u, v
<1> HIDE DEF w
<1>6. Len(u) + Len(v) = Len(s) - 1
  BY <1>1, <1>2, <1>3
<1>7. \A i \in 1 .. Len(s) - 1 : w[i] = IF i < k THEN s[i] ELSE s[i + 1]
  <2> SUFFICES ASSUME NEW i \in 1 .. Len(s) - 1 PROVE w[i] = IF i < k THEN s[i] ELSE s[i + 1]
    OBVIOUS
  <2>1. CASE i < k
    BY <1>1, <1>2, <1>4, <1>6, <2>1
  <2>2. CASE ~(i < k)
    <3>1. i - (k - 1) \in 1 .. Len(s) - k /\ k + (i - (k - 1)) = i + 1
      BY <1>1, <2>2
    <3>2. w[i] = v[i - (k - 1)]
      BY <1>1, <1>2, <1>4, <1>6, <2>2
    <3> QED
      BY <1>3, <2>2, <3>1, <3>2
  <2> QED
    BY <2>1, <2>2
<1> QED
  BY <1>4, <1>5, <1>6, <1>7

-----------------------------------------------------------------------------
(* The sort orders the places: by priority, and then by arrival. *)

(* The place of the k-th item in the order of arrival *)
Arrived(k) == CHOOSE m \in DOMAIN arrivals : arrivals[m] = items[k].app

Priority(k) == effectivePriority(items[k])

LEMMA ArrivedFacts ==
    ASSUME Listed
    PROVE  /\ \A k \in Places : Arrived(k) \in DOMAIN arrivals
           /\ \A k \in Places : arrivals[Arrived(k)] = items[k].app
           /\ \A k, l \in Places :
                 QueuedBefore(items[k], items[l]) <=> Arrived(k) < Arrived(l)
<1>1. \A k \in Places : /\ Arrived(k) \in DOMAIN arrivals
                        /\ arrivals[Arrived(k)] = items[k].app
  BY DEF Listed, Arrived
<1>2. \A k \in Places, m \in DOMAIN arrivals : arrivals[m] = items[k].app => m = Arrived(k)
  BY <1>1 DEF Listed
<1> QED
  BY <1>1, <1>2 DEF QueuedBefore

LEMMA PriorityType ==
    ASSUME Listed
    PROVE  \A k \in Places : Priority(k) \in Int
<1> SUFFICES ASSUME NEW k \in Places PROVE Priority(k) \in Int
  OBVIOUS
<1>1. items[k].age \in Int
  BY ListShape DEF Waiter
<1>2. AgingWeight * items[k].age \in Int
  BY <1>1, SchedulingAssumption
<1>3. BasePriority(Class(items[k])) \in Int
  BY DEF BasePriority
<1> QED
  BY <1>2, <1>3 DEF Priority, effectivePriority

LEMMA PrecedesOrder ==
    ASSUME Listed, MildAgeing
    PROVE  /\ \A k \in Places : ~Precedes(k, k)
           /\ \A k, l \in Places : k # l => Precedes(k, l) \/ Precedes(l, k)
           /\ \A j, k, l \in Places : Precedes(j, k) /\ Precedes(k, l) => Precedes(j, l)
<1>1. \A k, l \in Places :
         Precedes(k, l) <=> \/ Priority(k) > Priority(l)
                            \/ Priority(k) = Priority(l) /\ Arrived(k) < Arrived(l)
  BY ArrivedFacts DEF Precedes, Priority, MildAgeing
<1>2. \A k \in Places : Priority(k) \in Int /\ Arrived(k) \in Int
  BY PriorityType, ArrivedFacts, ListShape
<1>3. \A k, l \in Places : Arrived(k) = Arrived(l) => k = l
  BY ArrivedFacts DEF Listed
<1> QED
  BY <1>1, <1>2, <1>3

(* How many items come before the k-th, which is its place in the sort *)
Ahead(k) == {l \in Places : Precedes(l, k)}

Rank(k) == Cardinality(Ahead(k))

LEMMA Ranks ==
    ASSUME Listed, MildAgeing
    PROVE  /\ \A k, l \in Places : Rank(k) = Rank(l) => k = l
           /\ \A r \in Places : \E k \in Places : Rank(k) = r - 1
<1>1. /\ Places = 1 .. Len(items) /\ Len(items) \in Nat
      /\ IsFiniteSet(Places) /\ Cardinality(Places) = Len(items)
  <2>1. Places = 1 .. Len(items) /\ Len(items) \in Nat
    BY ListShape
  <2>2. /\ IsFiniteSet(1 .. Len(items))
        /\ Cardinality(1 .. Len(items)) = IF 1 > Len(items) THEN 0 ELSE Len(items) - 1 + 1
    <3>1. 1 \in Int /\ Len(items) \in Int
      BY <2>1
    <3> QED
      BY <3>1, FS_Interval
  <2>3. (IF 1 > Len(items) THEN 0 ELSE Len(items) - 1 + 1) = Len(items)
    BY <2>1
  <2> QED
    BY <2>1, <2>2, <2>3
<1>2. ASSUME NEW k \in Places
      PROVE  /\ IsFiniteSet(Ahead(k)) /\ Rank(k) \in Nat
             /\ Rank(k) + 1 \in Places
  <2>1. Ahead(k) \in SUBSET (Places \ {k})
    BY PrecedesOrder DEF Ahead
  <2>2. IsFiniteSet(Places \ {k}) /\ Cardinality(Places \ {k}) = Len(items) - 1
    <3>1. /\ IsFiniteSet(Places \ {k})
          /\ Cardinality(Places \ {k}) =
                IF k \in Places THEN Cardinality(Places) - 1 ELSE Cardinality(Places)
      <4>1. IsFiniteSet(Places)
        BY <1>1
      <4> QED
        BY <4>1, FS_RemoveElement
    <3> QED
      BY <1>1, <3>1
  <2>3. IsFiniteSet(Ahead(k)) /\ Rank(k) \in Nat /\ Rank(k) <= Len(items) - 1
    BY <2>1, <2>2, FS_Subset, FS_CardinalityType DEF Rank
  <2> QED
    BY <1>1, <2>3
<1>3. ASSUME NEW k \in Places, NEW l \in Places, Precedes(k, l)
      PROVE  Rank(k) # Rank(l)
  <2>1. Ahead(k) \in SUBSET Ahead(l)
    BY <1>3, PrecedesOrder DEF Ahead
  <2>2. k \in Ahead(l) /\ k \notin Ahead(k)
    BY <1>3, PrecedesOrder DEF Ahead
  <2>3. IsFiniteSet(Ahead(l))
    BY <1>2
  <2> QED
    BY <2>1, <2>2, <2>3, FS_Subset DEF Rank
<1>4. \A k, l \in Places : Rank(k) = Rank(l) => k = l
  BY <1>3, PrecedesOrder
<1>5. \A r \in Places : \E k \in Places : Rank(k) = r - 1
  <2> DEFINE f == [k \in Places |-> Rank(k) + 1]
  <2>1. f \in Injection(Places, Places)
    <3>1. f \in [Places -> Places]
      BY <1>2
    <3>2. \A k, l \in Places : f[k] = f[l] => k = l
      BY <1>2, <1>4
    <3> QED
      BY <3>1, <3>2 DEF Injection, IsInjective
  <2>2. f \in Surjection(Places, Places)
    <3> HIDE DEF f
    <3>1. IsFiniteSet(Places) /\ Cardinality(Places) = Cardinality(Places)
      BY <1>1
    <3> QED
      BY <2>1, <3>1, FS_Injection
  <2>3. \A r \in Places : \E k \in Places : f[k] = r
    <3> HIDE DEF f
    <3> QED
      BY <2>2 DEF Surjection
  <2> SUFFICES ASSUME NEW r \in Places PROVE \E k \in Places : Rank(k) = r - 1
    OBVIOUS
  <2>4. PICK k \in Places : Rank(k) + 1 = r
    BY <2>3
  <2> QED
    BY <1>1, <1>2, <2>4
<1> QED
  BY <1>4, <1>5

(* The place in the list of the item that is r-th in the sort *)
Sorted(r) == CHOOSE k \in Places : Rank(k) = r - 1

LEMMA SortPermutes ==
    ASSUME Listed, MildAgeing
    PROVE  /\ \A r \in Places : Sorted(r) \in Places
           /\ \A r, q \in Places : Sorted(r) = Sorted(q) => r = q
           /\ \A k \in Places : \E r \in Places : Sorted(r) = k
           /\ sortByEffective = [r \in Places |-> items[Sorted(r)]]
           /\ \A l \in Places : 1 \in Places /\ ~Precedes(l, Sorted(1))
<1>1. Places = 1 .. Len(items) /\ Len(items) \in Nat
  BY ListShape
<1>2. \A r \in Places : Sorted(r) \in Places /\ Rank(Sorted(r)) = r - 1
  BY Ranks DEF Sorted
<1>3. \A r, q \in Places : Sorted(r) = Sorted(q) => r = q
  BY <1>1, <1>2
<1>4. \A k \in Places : \E r \in Places : Sorted(r) = k
  <2> DEFINE f == [r \in Places |-> Sorted(r)]
  <2>1. f \in Injection(Places, Places)
    <3>1. f \in [Places -> Places]
      BY <1>2
    <3>2. \A k, l \in Places : f[k] = f[l] => k = l
      BY <1>3
    <3> QED
      BY <3>1, <3>2 DEF Injection, IsInjective
  <2>2. IsFiniteSet(Places)
    BY <1>1, FS_Interval
  <2>3. \A k \in Places : \E r \in Places : f[r] = k
    <3> HIDE DEF f
    <3>1. f \in Surjection(Places, Places)
      BY <2>1, <2>2, FS_Injection
    <3> QED
      BY <3>1 DEF Surjection
  <2> QED
    BY <2>3
<1>5. sortByEffective = [r \in Places |-> items[Sorted(r)]]
  BY DEF sortByEffective, Sorted, Rank, Ahead, Places
<1>6. ASSUME NEW l \in Places
      PROVE  1 \in Places /\ ~Precedes(l, Sorted(1))
  <2>1. 1 \in Places
    BY <1>1
  <2>2. /\ IsFiniteSet(Places) /\ Ahead(Sorted(1)) \in SUBSET Places
        /\ Cardinality(Ahead(Sorted(1))) = 0
    <3>1. Rank(Sorted(1)) = 0
      BY <1>2, <2>1
    <3>2. IsFiniteSet(Places)
      BY <1>1, FS_Interval
    <3> QED
      BY <3>1, <3>2 DEF Rank, Ahead
  <2>3. Ahead(Sorted(1)) = {}
    BY <2>2, FS_Subset, FS_EmptySet
  <2> QED
    BY <2>1, <2>3 DEF Ahead
<1> QED
  BY <1>2, <1>3, <1>4, <1>5, <1>6

LEMMA Times ==
    \A w, x, y \in Nat : /\ x <= y => w * x <= w * y
                         /\ w * x \in Nat
OBVIOUS

(* With mild ageing, the item at the head of the sort is of the highest    *)
(* class there is, and in its class the one that came first.               *)
LEMMA BestFirst ==
    ASSUME Listed, MildAgeing, items # <<>>
    PROVE  /\ Sorted(1) \in Places /\ PopBest = items[Sorted(1)]
           /\ \A l \in Places \ {Sorted(1)} :
                 \/ BasePriority(Class(items[l])) < BasePriority(Class(PopBest))
                 \/ /\ BasePriority(Class(items[l])) = BasePriority(Class(PopBest))
                    /\ QueuedBefore(PopBest, items[l])
<1> DEFINE k == Sorted(1)
<1>1. 1 \in Places
  BY EmptySeq, ListShape DEF Listed
<1>2. k \in Places /\ PopBest = items[k]
  BY <1>1, SortPermutes DEF PopBest
<1> HIDE DEF k
<1>3. ASSUME NEW l \in Places, l # k
      PROVE  \/ BasePriority(Class(items[l])) < BasePriority(Class(items[k]))
             \/ /\ BasePriority(Class(items[l])) = BasePriority(Class(items[k]))
                /\ QueuedBefore(items[k], items[l])
  <2> DEFINE bk == BasePriority(Class(items[k]))
             bl == BasePriority(Class(items[l]))
             gk == AgingWeight * items[k].age
             gl == AgingWeight * items[l].age
  <2>1. bk \in {1, 50, 100} /\ bl \in {1, 50, 100}
    BY DEF BasePriority
  <2>2. /\ items[k].age \in 0 .. PollTimeout /\ items[l].age \in 0 .. PollTimeout
        /\ AgingWeight \in Nat /\ PollTimeout \in Nat
    BY <1>2, <1>3, ListShape, SchedulingAssumption DEF Waiter
  <2>3. gk \in 0 .. 48 /\ gl \in 0 .. 48
    <3>1. gk \in Nat /\ gl \in Nat
      BY <2>2, Times
    <3>2. gk <= AgingWeight * PollTimeout /\ gl <= AgingWeight * PollTimeout
      BY <2>2, Times
    <3>3. AgingWeight * PollTimeout \in Nat
      BY <2>2, Times
    <3>4. AgingWeight * PollTimeout < 49
      BY DEF MildAgeing
    <3> HIDE DEF gk, gl
    <3> QED
      BY <3>1, <3>2, <3>3, <3>4
  <2>4. items[k].age <= items[l].age => gk <= gl
    BY <2>2, Times
  <2>5. \/ bk + gk > bl + gl
        \/ bk + gk = bl + gl /\ QueuedBefore(items[k], items[l])
    <3>1. Precedes(k, l)
      BY <1>1, <1>2, <1>3, SortPermutes, PrecedesOrder DEF k
    <3> QED
      BY <3>1 DEF Precedes, MildAgeing, effectivePriority
  <2>6. items[k].age > items[l].age => QueuedBefore(items[k], items[l])
    <3>1. ~(items[l].age >= items[k].age) => ~QueuedBefore(items[l], items[k])
      BY <1>2, <1>3 DEF Listed
    <3>2. QueuedBefore(items[k], items[l]) \/ QueuedBefore(items[l], items[k])
      <4>1. /\ Arrived(k) \in 1 .. Len(arrivals) /\ Arrived(l) \in 1 .. Len(arrivals)
            /\ Len(arrivals) \in Nat
        BY <1>2, <1>3, ArrivedFacts, ListShape
      <4>2. Arrived(k) # Arrived(l)
        BY <1>2, <1>3, ArrivedFacts DEF Listed
      <4>3. Arrived(k) < Arrived(l) \/ Arrived(l) < Arrived(k)
        BY <4>1, <4>2
      <4> QED
        BY <1>2, <1>3, <4>3, ArrivedFacts
    <3> QED
      BY <2>2, <3>1, <3>2
  <2> HIDE DEF bk, bl, gk, gl
  <2>7. bl < bk \/ bl = bk
    BY <2>1, <2>3, <2>5
  <2>8. bl = bk => QueuedBefore(items[k], items[l])
    <3> SUFFICES ASSUME bl = bk, bk + gk > bl + gl PROVE QueuedBefore(items[k], items[l])
      BY <2>5
    <3>1. ~(gk <= gl)
      BY <2>1, <2>3
    <3> QED
      BY <2>2, <2>4, <2>6, <3>1
  <2> QED
    BY <2>7, <2>8 DEF bk, bl
<1> QED
  BY <1>2, <1>3 DEF k

-----------------------------------------------------------------------------
(* What becomes of the list *)

LEMMA Later ==
    \A x, y \in Int, d \in {0, 1} : x >= y => x + d >= y + d
OBVIOUS

(* The items are some of those before, in any order and all as much older; *)
(* the arrivals are some of those before, in the same order.               *)
MadeFrom(from, to, d) ==
    /\ items' \in Seq(Waiter) /\ arrivals' \in Seq(Appliances)
    /\ \A k \in Places' : /\ from[k] \in Places
                          /\ items'[k].app = items[from[k]].app
                          /\ items'[k].age = items[from[k]].age + d
    /\ \A k, l \in Places' : from[k] = from[l] => k = l
    /\ \A m \in DOMAIN arrivals' : /\ to[m] \in DOMAIN arrivals
                                   /\ arrivals'[m] = arrivals[to[m]]
    /\ \A m, n \in DOMAIN arrivals' : m < n => to[m] < to[n]
    /\ \A k \in Places' : \E m \in DOMAIN arrivals' : arrivals'[m] = items'[k].app
    /\ \A m \in DOMAIN arrivals' : \E k \in Places' : arrivals'[m] = items'[k].app

LEMMA ListedFrom ==
    ASSUME Listed, NEW from, NEW to, NEW d \in {0, 1}, MadeFrom(from, to, d)
    PROVE  Listed'
<1> USE DEF MadeFrom
<1>1. /\ \A k, l \in Places : items[k].app = items[l].app => k = l
      /\ \A m, n \in DOMAIN arrivals : arrivals[m] = arrivals[n] => m = n
      /\ \A k, l \in Places : QueuedBefore(items[k], items[l]) => items[k].age >= items[l].age
  <2>1. \A k, l \in Places : items[k].app = items[l].app => k = l
    BY DEF Listed
  <2>2. \A m, n \in DOMAIN arrivals : arrivals[m] = arrivals[n] => m = n
    BY DEF Listed
  <2>3. \A k, l \in Places : QueuedBefore(items[k], items[l]) => items[k].age >= items[l].age
    BY DEF Listed
  <2> QED
    BY <2>1, <2>2, <2>3
<1>2. \A k, l \in Places' : items'[k].app = items'[l].app => k = l
  <2> SUFFICES ASSUME NEW k \in Places', NEW l \in Places', items'[k].app = items'[l].app
               PROVE  k = l
    OBVIOUS
  <2>1. from[k] \in Places /\ from[l] \in Places /\ items[from[k]].app = items[from[l]].app
    OBVIOUS
  <2>2. from[k] = from[l]
    BY <1>1, <2>1
  <2> QED
    BY <2>2
<1>3. /\ Len(arrivals) \in Nat /\ DOMAIN arrivals = 1 .. Len(arrivals)
      /\ Len(arrivals') \in Nat /\ DOMAIN arrivals' = 1 .. Len(arrivals')
  BY LenProperties DEF Listed
<1>4. \A m, n \in DOMAIN arrivals' : arrivals'[m] = arrivals'[n] => m = n
  <2> SUFFICES ASSUME NEW m \in DOMAIN arrivals', NEW n \in DOMAIN arrivals',
                      arrivals'[m] = arrivals'[n], m # n
               PROVE  FALSE
    OBVIOUS
  <2>1. to[m] = to[n]
    BY <1>1
  <2>2. m < n \/ n < m
    BY <1>3
  <2>3. to[m] \in Int
    BY <1>3
  <2> QED
    BY <2>1, <2>2, <2>3
<1>5. \A k \in Places : items[k].age \in Int
  BY ListShape DEF Waiter
<1>6. ASSUME NEW k \in Places', NEW l \in Places', QueuedBefore(items[k], items[l])'
      PROVE  items'[k].age >= items'[l].age
  <2>1. PICK m \in DOMAIN arrivals', n \in DOMAIN arrivals' :
           m < n /\ arrivals'[m] = items'[k].app /\ arrivals'[n] = items'[l].app
    BY <1>6 DEF QueuedBefore
  <2>2. /\ to[m] < to[n] /\ to[m] \in DOMAIN arrivals /\ to[n] \in DOMAIN arrivals
        /\ arrivals[to[m]] = items[from[k]].app /\ arrivals[to[n]] = items[from[l]].app
    BY <2>1
  <2>3. QueuedBefore(items[from[k]], items[from[l]])
    BY <2>2 DEF QueuedBefore
  <2>4. items[from[k]].age >= items[from[l]].age
    BY <1>1, <2>3
  <2>5. /\ items'[k].age = items[from[k]].age + d
        /\ items'[l].age = items[from[l]].age + d
    OBVIOUS
  <2>6. items[from[k]].age \in Int /\ items[from[l]].age \in Int
    BY <1>5
  <2> DEFINE x == items[from[k]].age
             y == items[from[l]].age
  <2>7. x >= y /\ x \in Int /\ y \in Int /\ items'[k].age = x + d /\ items'[l].age = y + d
    BY <2>4, <2>5, <2>6
  <2> HIDE DEF x, y
  <2>8. x + d >= y + d
    BY <2>7, Later
  <2> QED
    BY <2>7, <2>8
<1> QED
  BY <1>2, <1>4, <1>6 DEF Listed

LEMMA Appended ==
    ASSUME NEW S, NEW s \in Seq(S), NEW e \in S
    PROVE  /\ Append(s, e) \in Seq(S)
           /\ Len(Append(s, e)) = Len(s) + 1
           /\ \A i \in 1 .. Len(s) : Append(s, e)[i] = s[i]
           /\ Append(s, e)[Len(s) + 1] = e
           /\ DOMAIN Append(s, e) = 1 .. Len(s) + 1
<1>1. Append(s, e) \in Seq(S) /\ Len(s) \in Nat
  BY AppendProperties, LenProperties
<1> QED
  BY <1>1, AppendProperties, LenProperties

(* A new waiter is the youngest and comes last in both. *)
LEMMA ListedEnqueue ==
    ASSUME Listed, NEW a \in Appliances, ~HasAppliance(a), Enqueue(a)
    PROVE  Listed'
<1> DEFINE w == [app |-> a, age |-> 0]
           L == Len(items)
           M == Len(arrivals)
<1>1. /\ L \in Nat /\ M \in Nat /\ Places = 1 .. L /\ DOMAIN arrivals = 1 .. M
      /\ \A k \in Places : items[k] \in Waiter
  BY ListShape
<1>2. w \in Waiter
  BY SchedulingAssumption DEF Waiter
<1>3. /\ items' \in Seq(Waiter) /\ Places' = 1 .. L + 1
      /\ \A k \in 1 .. L : items'[k] = items[k]
      /\ items'[L + 1] = w
  BY <1>2, Appended DEF Listed, Enqueue, Places
<1>4. /\ arrivals' \in Seq(Appliances) /\ DOMAIN arrivals' = 1 .. M + 1
      /\ \A m \in 1 .. M : arrivals'[m] = arrivals[m]
      /\ arrivals'[M + 1] = a
  BY Appended DEF Listed, Enqueue
<1>5. \A k \in 1 .. L : items[k].app # a
  BY <1>1 DEF HasAppliance, Places
<1>6. \A m \in 1 .. M : arrivals[m] # a
  <2>1. \A m \in DOMAIN arrivals : \E k \in Places : arrivals[m] = items[k].app
    BY DEF Listed
  <2> QED
    BY <1>1, <1>5, <2>1
<1>7. w.app = a /\ w.age = 0
  OBVIOUS
<1> HIDE DEF w, L, M
<1>8. \A k, l \in Places' : items'[k].app = items'[l].app => k = l
  <2> SUFFICES ASSUME NEW k \in Places', NEW l \in Places', items'[k].app = items'[l].app
               PROVE  k = l
    OBVIOUS
  <2>1. k \in 1 .. L \/ k = L + 1
    BY <1>1, <1>3
  <2>2. l \in 1 .. L \/ l = L + 1
    BY <1>1, <1>3
  <2>3. k \in 1 .. L /\ l \in 1 .. L => k = l
    BY <1>1, <1>3 DEF Listed
  <2> QED
    BY <1>3, <1>5, <1>7, <2>1, <2>2, <2>3
<1>9. \A m, n \in DOMAIN arrivals' : arrivals'[m] = arrivals'[n] => m = n
  <2> SUFFICES ASSUME NEW m \in DOMAIN arrivals', NEW n \in DOMAIN arrivals',
                      arrivals'[m] = arrivals'[n]
               PROVE  m = n
    OBVIOUS
  <2>1. m \in 1 .. M \/ m = M + 1
    BY <1>1, <1>4
  <2>2. n \in 1 .. M \/ n = M + 1
    BY <1>1, <1>4
  <2>3. m \in 1 .. M /\ n \in 1 .. M => m = n
    BY <1>1, <1>4 DEF Listed
  <2> QED
    BY <1>4, <1>6, <2>1, <2>2, <2>3
<1>10. \A k \in Places' : \E m \in DOMAIN arrivals' : arrivals'[m] = items'[k].app
  <2> SUFFICES ASSUME NEW k \in Places' PROVE \E m \in DOMAIN arrivals' : arrivals'[m] = items'[k].app
    OBVIOUS
  <2>1. CASE k = L + 1
    <3>1. M + 1 \in DOMAIN arrivals' /\ arrivals'[M + 1] = items'[k].app
      BY <1>1, <1>3, <1>4, <1>7, <2>1
    <3> QED
      BY <3>1
  <2>2. CASE k # L + 1
    <3>1. k \in 1 .. L /\ items'[k] = items[k]
      BY <1>1, <1>3, <2>2
    <3>2. PICK m \in 1 .. M : arrivals[m] = items[k].app
      BY <1>1, <3>1 DEF Listed
    <3>3. m \in DOMAIN arrivals' /\ arrivals'[m] = arrivals[m]
      BY <1>1, <1>4
    <3> QED
      BY <3>1, <3>2, <3>3
  <2> QED
    BY <2>1, <2>2
<1>11. \A m \in DOMAIN arrivals' : \E k \in Places' : arrivals'[m] = items'[k].app
  <2> SUFFICES ASSUME NEW m \in DOMAIN arrivals' PROVE \E k \in Places' : arrivals'[m] = items'[k].app
    OBVIOUS
  <2>1. CASE m = M + 1
    <3>1. L + 1 \in Places' /\ arrivals'[m] = items'[L + 1].app
      BY <1>1, <1>3, <1>4, <1>7, <2>1
    <3> QED
      BY <3>1
  <2>2. CASE m # M + 1
    <3>1. m \in 1 .. M /\ arrivals'[m] = arrivals[m]
      BY <1>1, <1>4, <2>2
    <3>2. PICK k \in 1 .. L : arrivals[m] = items[k].app
      BY <1>1, <3>1 DEF Listed
    <3>3. k \in Places' /\ items'[k] = items[k]
      BY <1>1, <1>3
    <3> QED
      BY <3>1, <3>2, <3>3
  <2> QED
    BY <2>1, <2>2
<1>12. ASSUME NEW k \in Places', NEW l \in Places', QueuedBefore(items[k], items[l])'
       PROVE  items'[k].age >= items'[l].age
  <2>1. PICK m \in DOMAIN arrivals', n \in DOMAIN arrivals' :
           m < n /\ arrivals'[m] = items'[k].app /\ arrivals'[n] = items'[l].app
    BY <1>12 DEF QueuedBefore
  <2>2. k = L + 1 => arrivals'[m] = a /\ m = M + 1
    BY <1>1, <1>3, <1>4, <1>6, <1>7, <1>9, <2>1
  <2>3. m \in 1 .. M /\ k \in 1 .. L
    BY <1>1, <1>3, <1>4, <2>1, <2>2
  <2>4. items[k].age \in Nat
    BY <1>1, <2>3, SchedulingAssumption DEF Waiter
  <2>5. CASE l = L + 1
    BY <1>3, <1>7, <2>3, <2>4, <2>5
  <2>6. CASE l # L + 1
    <3>1. l \in 1 .. L
      BY <1>1, <1>3, <2>6
    <3>2. arrivals'[n] # a
      BY <1>3, <1>5, <2>1, <3>1
    <3>3. n \in 1 .. M
      BY <1>1, <1>4, <3>2
    <3>4. arrivals[m] = items[k].app /\ arrivals[n] = items[l].app
      BY <1>3, <1>4, <2>1, <2>3, <3>1, <3>3
    <3>5. QueuedBefore(items[k], items[l])
      BY <1>1, <2>1, <2>3, <3>3, <3>4 DEF QueuedBefore
    <3>6. items[k].age >= items[l].age
      BY <1>1, <2>3, <3>1, <3>5 DEF Listed
    <3> QED
      BY <1>3, <2>3, <3>1, <3>6
  <2> QED
    BY <2>5, <2>6
<1> QED
  BY <1>3, <1>4, <1>8, <1>9, <1>10, <1>11, <1>12 DEF Listed

(* The list keeps its appliances, in another order or older by a tick. *)
Reordered(from, d) ==
    /\ items' \in Seq(Waiter) /\ UNCHANGED arrivals
    /\ \A k \in Places' : /\ from[k] \in Places
                          /\ items'[k].app = items[from[k]].app
                          /\ items'[k].age = items[from[k]].age + d
    /\ \A k, l \in Places' : from[k] = from[l] => k = l
    /\ \A k \in Places : \E l \in Places' : from[l] = k

LEMMA ListedReordered ==
    ASSUME Listed, NEW from, NEW d \in {0, 1}, Reordered(from, d)
    PROVE  Listed'
<1> USE DEF Reordered
<1> DEFINE to == [m \in DOMAIN arrivals |-> m]
<1>1. arrivals' \in Seq(Appliances) /\ DOMAIN arrivals' = DOMAIN arrivals
  BY DEF Listed
<1>2. \A m \in DOMAIN arrivals' : to[m] \in DOMAIN arrivals /\ arrivals'[m] = arrivals[to[m]]
  OBVIOUS
<1>3. \A m, n \in DOMAIN arrivals' : m < n => to[m] < to[n]
  OBVIOUS
<1>4. \A k \in Places' : \E m \in DOMAIN arrivals' : arrivals'[m] = items'[k].app
  <2>1. \A k \in Places : \E m \in DOMAIN arrivals : arrivals[m] = items[k].app
    BY DEF Listed
  <2>2. \A k \in Places' : from[k] \in Places /\ items'[k].app = items[from[k]].app
    OBVIOUS
  <2> QED
    BY <1>1, <2>1, <2>2
<1>5. \A m \in DOMAIN arrivals' : \E k \in Places' : arrivals'[m] = items'[k].app
  <2>1. \A m \in DOMAIN arrivals : \E k \in Places : arrivals[m] = items[k].app
    BY DEF Listed
  <2>2. \A k \in Places : \E l \in Places' : items'[l].app = items[k].app
    OBVIOUS
  <2> QED
    BY <1>1, <2>1, <2>2
<1> HIDE DEF to
<1>6. MadeFrom(from, to, d)
  BY <1>1, <1>2, <1>3, <1>4, <1>5 DEF MadeFrom
<1> QED
  BY <1>6, ListedFrom

(* The list loses one appliance. *)
LeftOut(a, from) ==
    /\ items' \in Seq(Waiter)
    /\ \A k \in Places' : /\ from[k] \in Places
                          /\ items'[k] = items[from[k]]
                          /\ items'[k].app # a
    /\ \A k, l \in Places' : from[k] = from[l] => k = l
    /\ \A k \in Places : items[k].app # a => \E l \in Places' : from[l] = k

LEMMA ListedDeparture ==
    ASSUME Listed, NEW a, Departs(a), NEW from, LeftOut(a, from)
    PROVE  Listed'
<1> USE DEF LeftOut
<1>1. PICK o \in DOMAIN arrivals : arrivals[o] = a /\ arrivals' = RemoveAt(arrivals, o)
  BY DEF Departs
<1> DEFINE M == Len(arrivals)
           to == [m \in 1 .. M - 1 |-> IF m < o THEN m ELSE m + 1]
<1>2. M \in Nat /\ DOMAIN arrivals = 1 .. M /\ o \in 1 .. M /\ arrivals \in Seq(Appliances)
  BY ListShape DEF Listed
<1>3. /\ arrivals' \in Seq(Appliances) /\ Len(arrivals') = M - 1
      /\ \A m \in 1 .. M - 1 : arrivals'[m] = IF m < o THEN arrivals[m] ELSE arrivals[m + 1]
  <2>1. arrivals \in Seq(Appliances) /\ o \in 1 .. Len(arrivals)
    BY <1>2
  <2>2. /\ RemoveAt(arrivals, o) \in Seq(Appliances)
        /\ Len(RemoveAt(arrivals, o)) = Len(arrivals) - 1
        /\ \A i \in 1 .. Len(arrivals) - 1 :
              RemoveAt(arrivals, o)[i] = IF i < o THEN arrivals[i] ELSE arrivals[i + 1]
    <3> DEFINE r == arrivals
    <3>1. r \in Seq(Appliances) /\ o \in 1 .. Len(r)
      BY <2>1
    <3> HIDE DEF r
    <3>2. /\ RemoveAt(r, o) \in Seq(Appliances)
          /\ Len(RemoveAt(r, o)) = Len(r) - 1
          /\ \A i \in 1 .. Len(r) - 1 :
                RemoveAt(r, o)[i] = IF i < o THEN r[i] ELSE r[i + 1]
      BY <3>1, TakenOut
    <3> QED
      BY <3>2 DEF r
  <2> QED
    BY <1>1, <2>2
<1>4. DOMAIN arrivals' = 1 .. M - 1
  BY <1>3, LenProperties
<1>5. \A m \in DOMAIN arrivals' :
         to[m] \in DOMAIN arrivals \ {o} /\ arrivals'[m] = arrivals[to[m]]
  BY <1>2, <1>3, <1>4
<1>6. \A m, n \in DOMAIN arrivals' : m < n => to[m] < to[n]
  BY <1>2, <1>4
<1>7. \A m \in DOMAIN arrivals \ {o} : \E n \in DOMAIN arrivals' : to[n] = m
  <2> SUFFICES ASSUME NEW m \in DOMAIN arrivals \ {o}
               PROVE  \E n \in DOMAIN arrivals' : to[n] = m
    OBVIOUS
  <2>1. CASE m < o
    <3>1. m \in DOMAIN arrivals' /\ to[m] = m
      BY <1>2, <1>4, <2>1
    <3> QED
      BY <3>1
  <2>2. CASE ~(m < o)
    <3>1. m - 1 \in DOMAIN arrivals' /\ to[m - 1] = m
      BY <1>2, <1>4, <2>2
    <3> QED
      BY <3>1
  <2> QED
    BY <2>1, <2>2
<1> HIDE DEF to, M
<1>8. \A m \in DOMAIN arrivals : arrivals[m] = a <=> m = o
  BY <1>1 DEF Listed
<1>9. \A k \in Places' : \E m \in DOMAIN arrivals' : arrivals'[m] = items'[k].app
  <2> SUFFICES ASSUME NEW k \in Places'
               PROVE  \E m \in DOMAIN arrivals' : arrivals'[m] = items'[k].app
    OBVIOUS
  <2>1. from[k] \in Places /\ items'[k].app = items[from[k]].app /\ items'[k].app # a
    OBVIOUS
  <2>2. PICK m \in DOMAIN arrivals : arrivals[m] = items[from[k]].app
    BY <2>1 DEF Listed
  <2>3. m # o
    BY <1>8, <2>1, <2>2
  <2>4. PICK n \in DOMAIN arrivals' : to[n] = m
    BY <1>7, <2>3
  <2> QED
    BY <1>5, <2>1, <2>2, <2>4
<1>10. \A m \in DOMAIN arrivals' : \E k \in Places' : arrivals'[m] = items'[k].app
  <2> SUFFICES ASSUME NEW m \in DOMAIN arrivals'
               PROVE  \E k \in Places' : arrivals'[m] = items'[k].app
    OBVIOUS
  <2>1. to[m] \in DOMAIN arrivals /\ to[m] # o /\ arrivals'[m] = arrivals[to[m]]
    BY <1>5
  <2>2. PICK k \in Places : arrivals[to[m]] = items[k].app
    BY <2>1 DEF Listed
  <2>3. items[k].app # a
    BY <1>8, <2>1, <2>2
  <2>4. PICK l \in Places' : from[l] = k
    BY <2>3
  <2>5. items'[l].app = items[k].app
    BY <2>4
  <2> QED
    BY <2>1, <2>2, <2>5
<1>11. \A k \in Places' : /\ from[k] \in Places
                          /\ items'[k].app = items[from[k]].app
                          /\ items'[k].age = items[from[k]].age + 0
  <2> SUFFICES ASSUME NEW k \in Places'
               PROVE  /\ from[k] \in Places
                      /\ items'[k].app = items[from[k]].app
                      /\ items'[k].age = items[from[k]].age + 0
    OBVIOUS
  <2>1. from[k] \in Places /\ items'[k] = items[from[k]]
    OBVIOUS
  <2>2. items[from[k]].age \in Int
    BY <2>1, ListShape DEF Waiter
  <2> QED
    BY <2>1, <2>2
<1>12. MadeFrom(from, to, 0)
  BY <1>3, <1>5, <1>6, <1>9, <1>10, <1>11 DEF MadeFrom
<1> QED
  BY <1>12, ListedFrom

-----------------------------------------------------------------------------
(* ... and what each action makes of it *)

LEMMA ListedTick ==
    ASSUME Listed, Tick
    PROVE  Listed'
<1> DEFINE from == [k \in Places |-> k]
<1>1. /\ items' = [k \in Places |-> [items[k] EXCEPT !.age = @ + 1]]
      /\ \A k \in Places : items[k].age < PollTimeout
      /\ UNCHANGED arrivals
  BY DEF Tick, Places
<1>2. \A k \in Places : items[k] \in Waiter
  BY ListShape
<1>3. Places' = Places
  BY <1>1 DEF Places
<1>4. \A k \in Places : items'[k] \in Waiter /\ items'[k].app = items[k].app
                                             /\ items'[k].age = items[k].age + 1
  BY <1>1, <1>2, SchedulingAssumption DEF Waiter
<1>5. items' \in Seq(Waiter)
  <2>1. Places = 1 .. Len(items) /\ Len(items) \in Nat
    BY ListShape
  <2>2. items' \in [1 .. Len(items) -> Waiter]
    BY <1>1, <1>4, <2>1
  <2> QED
    BY <2>1, <2>2
<1>6. Reordered(from, 1)
  BY <1>1, <1>3, <1>4, <1>5 DEF Reordered
<1> QED
  BY <1>6, ListedReordered

LEMMA SortedShape ==
    ASSUME Listed, MildAgeing
    PROVE  /\ sortByEffective \in Seq(Waiter)
           /\ Len(sortByEffective) = Len(items)
           /\ \A r \in Places : sortByEffective[r] = items[Sorted(r)]
<1>1. Places = 1 .. Len(items) /\ Len(items) \in Nat
  BY ListShape
<1>2. /\ sortByEffective = [r \in Places |-> items[Sorted(r)]]
      /\ \A r \in Places : Sorted(r) \in Places
  BY SortPermutes
<1>3. \A k \in Places : items[k] \in Waiter
  BY ListShape
<1>4. sortByEffective \in [1 .. Len(items) -> Waiter]
  BY <1>1, <1>2, <1>3
<1>5. sortByEffective \in Seq(Waiter)
  BY <1>1, <1>4
<1>6. Len(sortByEffective) = Len(items)
  BY <1>1, <1>4
<1> QED
  BY <1>2, <1>5, <1>6

(* What is left of the sort behind its head *)
LEMMA SortedTail ==
    ASSUME Listed, MildAgeing, items # <<>>
    PROVE  /\ Tail(sortByEffective) \in Seq(Waiter)
           /\ Len(Tail(sortByEffective)) = Len(items) - 1
           /\ \A k \in 1 .. Len(items) - 1 : Tail(sortByEffective)[k] = items[Sorted(k + 1)]
           /\ 1 \in Places
<1>1. Places = 1 .. Len(items) /\ Len(items) \in Nat
  BY ListShape
<1>2. Len(items) # 0
  BY EmptySeq DEF Listed
<1>3. sortByEffective # <<>>
  <2>1. Len(sortByEffective) # 0
    BY <1>2, SortedShape
  <2> QED
    BY <2>1, EmptySeq
<1>4. /\ Tail(sortByEffective) \in Seq(Waiter)
      /\ Len(Tail(sortByEffective)) = Len(sortByEffective) - 1
      /\ \A i \in 1 .. Len(Tail(sortByEffective)) :
            Tail(sortByEffective)[i] = sortByEffective[i + 1]
  <2>1. sortByEffective \in Seq(Waiter)
    BY SortedShape
  <2> QED
    BY <1>3, <2>1, HeadTailProperties
<1>5. Len(Tail(sortByEffective)) = Len(items) - 1
  BY <1>4, SortedShape
<1>6. \A k \in 1 .. Len(items) - 1 : Tail(sortByEffective)[k] = items[Sorted(k + 1)]
  BY <1>1, <1>4, <1>5, SortedShape
<1> QED
  BY <1>1, <1>2, <1>4, <1>5, <1>6

LEMMA ListedServe ==
    ASSUME Listed, MildAgeing, NEW a, Serve(a)
    PROVE  Listed'
<1> DEFINE L == Len(items)
           from == [k \in 1 .. L - 1 |-> Sorted(k + 1)]
<1>1. /\ Places = 1 .. L /\ L \in Nat /\ items # <<>> /\ Departs(a)
      /\ items' = Tail(sortByEffective) /\ a = PopBest.app
  BY ListShape DEF Serve
<1>2. /\ items' \in Seq(Waiter) /\ Len(items') = L - 1 /\ 1 \in Places
      /\ \A k \in 1 .. L - 1 : items'[k] = items[Sorted(k + 1)]
  BY <1>1, SortedTail
<1>3. Places' = 1 .. L - 1
  BY <1>2, LenProperties DEF Places
<1>4. /\ \A r \in Places : Sorted(r) \in Places
      /\ \A r, q \in Places : Sorted(r) = Sorted(q) => r = q
      /\ \A k \in Places : \E r \in Places : Sorted(r) = k
      /\ items[Sorted(1)].app = a
  BY <1>1, SortPermutes, BestFirst
<1>5. \A k \in Places : items[k].app = a <=> k = Sorted(1)
  BY <1>2, <1>4 DEF Listed
<1>6. \A k \in 1 .. L - 1 : k + 1 \in Places /\ k + 1 # 1 /\ from[k] = Sorted(k + 1)
  BY <1>1
<1> HIDE DEF from, L
<1>7. \A k \in Places' : /\ from[k] \in Places
                         /\ items'[k] = items[from[k]]
                         /\ items'[k].app # a
  <2> SUFFICES ASSUME NEW k \in Places'
               PROVE  /\ from[k] \in Places /\ items'[k] = items[from[k]] /\ items'[k].app # a
    OBVIOUS
  <2>1. /\ k + 1 \in Places /\ k + 1 # 1 /\ from[k] = Sorted(k + 1)
        /\ items'[k] = items[Sorted(k + 1)]
    BY <1>2, <1>3, <1>6
  <2>2. Sorted(k + 1) # Sorted(1)
    BY <1>2, <1>4, <2>1
  <2> QED
    BY <1>4, <1>5, <2>1, <2>2
<1>8. \A k, l \in Places' : from[k] = from[l] => k = l
  <2> SUFFICES ASSUME NEW k \in Places', NEW l \in Places', from[k] = from[l] PROVE k = l
    OBVIOUS
  <2>1. /\ k + 1 \in Places /\ from[k] = Sorted(k + 1)
        /\ l + 1 \in Places /\ from[l] = Sorted(l + 1)
    BY <1>3, <1>6
  <2>2. k + 1 = l + 1
    BY <1>4, <2>1
  <2> QED
    BY <1>1, <1>3, <2>2
<1>9. \A k \in Places : items[k].app # a => \E l \in Places' : from[l] = k
  <2> SUFFICES ASSUME NEW k \in Places, items[k].app # a PROVE \E l \in Places' : from[l] = k
    OBVIOUS
  <2>1. PICK r \in Places : Sorted(r) = k
    BY <1>4
  <2>2. r # 1
    BY <1>4, <2>1
  <2>3. r - 1 \in 1 .. L - 1 /\ (r - 1) + 1 = r
    BY <1>1, <2>2
  <2>4. r - 1 \in Places' /\ from[r - 1] = Sorted(r)
    BY <1>3, <1>6, <2>3
  <2> QED
    BY <2>1, <2>4
<1>10. LeftOut(a, from)
  BY <1>2, <1>7, <1>8, <1>9 DEF LeftOut
<1> QED
  BY <1>1, <1>10, ListedDeparture

LEMMA ListedPutBack ==
    ASSUME Listed, MildAgeing, PutBack
    PROVE  Listed'
<1> DEFINE L == Len(items)
           rest == Tail(sortByEffective)
           from == [k \in 1 .. L |-> IF k = L THEN Sorted(1) ELSE Sorted(k + 1)]
<1>1. /\ Places = 1 .. L /\ L \in Nat /\ items # <<>> /\ UNCHANGED arrivals
      /\ items' = Append(rest, PopBest)
  BY ListShape DEF PutBack
<1>2. /\ rest \in Seq(Waiter) /\ Len(rest) = L - 1 /\ 1 \in Places
      /\ \A k \in 1 .. L - 1 : rest[k] = items[Sorted(k + 1)]
  BY <1>1, SortedTail
<1>3. /\ \A r \in Places : Sorted(r) \in Places
      /\ \A r, q \in Places : Sorted(r) = Sorted(q) => r = q
      /\ \A k \in Places : \E r \in Places : Sorted(r) = k
      /\ PopBest = items[Sorted(1)]
  BY <1>1, SortPermutes, BestFirst
<1>4. PopBest \in Waiter
  BY <1>2, <1>3, ListShape
<1> HIDE DEF rest
<1>5. /\ items' \in Seq(Waiter)
      /\ \A k \in 1 .. L - 1 : items'[k] = rest[k]
      /\ items'[L] = PopBest /\ DOMAIN items' = 1 .. L
  <2>1. /\ Append(rest, PopBest) \in Seq(Waiter)
        /\ \A i \in 1 .. Len(rest) : Append(rest, PopBest)[i] = rest[i]
        /\ Append(rest, PopBest)[Len(rest) + 1] = PopBest
        /\ DOMAIN Append(rest, PopBest) = 1 .. Len(rest) + 1
    BY <1>2, <1>4, Appended
  <2>2. Len(rest) + 1 = L
    BY <1>1, <1>2
  <2> QED
    BY <1>1, <1>2, <2>1, <2>2
<1>6. Places' = Places
  BY <1>1, <1>5 DEF Places
<1>7. \A k \in Places : /\ from[k] \in Places
                        /\ items'[k] = items[from[k]]
  <2> SUFFICES ASSUME NEW k \in Places PROVE from[k] \in Places /\ items'[k] = items[from[k]]
    OBVIOUS
  <2>1. CASE k = L
    BY <1>1, <1>2, <1>3, <1>5, <2>1
  <2>2. CASE k # L
    <3>1. k \in 1 .. L - 1 /\ k + 1 \in Places /\ from[k] = Sorted(k + 1)
      BY <1>1, <2>2
    <3> QED
      BY <1>2, <1>3, <1>5, <3>1
  <2> QED
    BY <2>1, <2>2
<1>8. \A k, l \in Places : from[k] = from[l] => k = l
  <2> SUFFICES ASSUME NEW k \in Places, NEW l \in Places, from[k] = from[l] PROVE k = l
    OBVIOUS
  <2> DEFINE p == IF k = L THEN 1 ELSE k + 1
             q == IF l = L THEN 1 ELSE l + 1
  <2>1. from[k] = Sorted(p) /\ from[l] = Sorted(q)
    BY <1>1
  <2>2. p \in Places /\ q \in Places
    BY <1>1, <1>2
  <2>3. p = q
    <3> HIDE DEF p, q
    <3> QED
      BY <1>3, <2>1, <2>2
  <2> QED
    BY <1>1, <2>3
<1>9. \A k \in Places : \E l \in Places : from[l] = k
  <2> SUFFICES ASSUME NEW k \in Places PROVE \E l \in Places : from[l] = k
    OBVIOUS
  <2>1. PICK r \in Places : Sorted(r) = k
    BY <1>3
  <2> DEFINE l == IF r = 1 THEN L ELSE r - 1
  <2>2. l \in Places /\ from[l] = Sorted(r)
    BY <1>1, <1>2
  <2> QED
    BY <2>1, <2>2
<1> HIDE DEF from, L
<1>10. \A k \in Places : items'[k].app = items[from[k]].app /\ items'[k].age = items[from[k]].age + 0
  <2> SUFFICES ASSUME NEW k \in Places
               PROVE  /\ items'[k].app = items[from[k]].app
                      /\ items'[k].age = items[from[k]].age + 0
    OBVIOUS
  <2>1. items[from[k]] \in Waiter /\ items'[k] = items[from[k]]
    BY <1>7, ListShape
  <2>2. items[from[k]].age \in Int
    BY <2>1 DEF Waiter
  <2> QED
    BY <2>1, <2>2
<1>11. Reordered(from, 0)
  BY <1>1, <1>5, <1>6, <1>7, <1>8, <1>9, <1>10 DEF Reordered
<1> QED
  BY <1>11, ListedReordered

LEMMA ListedLeave ==
    ASSUME Listed, NEW a, Leave(a)
    PROVE  Listed'
<1>1. PICK o \in Places : items[o].app = a /\ items' = RemoveAt(items, o)
  BY DEF Leave, RemoveFromQueue, Places
<1>2. Departs(a)
  BY DEF Leave, RemoveFromQueue
<1> DEFINE L == Len(items)
           from == [k \in 1 .. L - 1 |-> IF k < o THEN k ELSE k + 1]
<1>3. L \in Nat /\ Places = 1 .. L /\ o \in 1 .. L /\ items \in Seq(Waiter)
  BY ListShape DEF Listed
<1>4. /\ items' \in Seq(Waiter) /\ Len(items') = L - 1
      /\ \A k \in 1 .. L - 1 : items'[k] = IF k < o THEN items[k] ELSE items[k + 1]
  <2>1. /\ RemoveAt(items, o) \in Seq(Waiter)
        /\ Len(RemoveAt(items, o)) = Len(items) - 1
        /\ \A i \in 1 .. Len(items) - 1 :
              RemoveAt(items, o)[i] = IF i < o THEN items[i] ELSE items[i + 1]
    BY <1>3, TakenOut
  <2> QED
    BY <1>1, <2>1
<1>5. Places' = 1 .. L - 1
  BY <1>4, LenProperties DEF Places
<1>6. \A k \in Places' : from[k] \in Places /\ from[k] # o /\ items'[k] = items[from[k]]
  BY <1>3, <1>4, <1>5
<1>7. \A k, l \in Places' : from[k] = from[l] => k = l
  BY <1>3, <1>5
<1>8. \A k \in Places \ {o} : \E l \in Places' : from[l] = k
  <2> SUFFICES ASSUME NEW k \in Places \ {o} PROVE \E l \in Places' : from[l] = k
    OBVIOUS
  <2>1. CASE k < o
    <3>1. k \in Places' /\ from[k] = k
      BY <1>3, <1>5, <2>1
    <3> QED
      BY <3>1
  <2>2. CASE ~(k < o)
    <3>1. k - 1 \in Places' /\ from[k - 1] = k
      BY <1>3, <1>5, <2>2
    <3> QED
      BY <3>1
  <2> QED
    BY <2>1, <2>2
<1> HIDE DEF from, L
<1>9. \A k \in Places : items[k].app = a => k = o
  BY <1>1 DEF Listed
<1>10. LeftOut(a, from)
  BY <1>1, <1>4, <1>6, <1>7, <1>8, <1>9 DEF LeftOut
<1> QED
  BY <1>2, <1>10, ListedDeparture

LEMMA ListedStep ==
    ASSUME Listed, MildAgeing, SchedulingNext
    PROVE  Listed'
<1>1. ASSUME UNCHANGED <<items, arrivals>>
      PROVE  Listed'
  BY <1>1 DEF Listed, Places, QueuedBefore
<1>2. ASSUME NEW a \in Appliances, NEW n \in Demands, AskAndGo(a, n) \/ AskAndWait(a, n)
      PROVE  Listed'
  <2>1. UNCHANGED <<items, arrivals>> \/ (~HasAppliance(a) /\ Enqueue(a))
    BY <1>2 DEF AskAndGo, AskAndWait, MayAsk
  <2> QED
    BY <1>1, <2>1, ListedEnqueue
<1>3. ASSUME NEW a \in Appliances, Return(a)
      PROVE  Listed'
  BY <1>1, <1>3 DEF Return
<1>4. ASSUME Rest
      PROVE  Listed'
  BY <1>1, <1>4 DEF Rest
<1> QED
  BY <1>2, <1>3, <1>4, ListedServe, ListedLeave, ListedPutBack, ListedTick DEF SchedulingNext

(* Whoever gets a ticket while waiting was the first in order. *)
ServesInOrder ==
    \A i \in ToSet(items) :
       i.app \in holders' \ holders =>
           \A j \in ToSet(items) \ {i} :
               \/ BasePriority(Class(j)) < BasePriority(Class(i))
               \/ /\ BasePriority(Class(j)) = BasePriority(Class(i))
                  /\ QueuedBefore(i, j)

LEMMA OrderedStep ==
    ASSUME Listed, MildAgeing, SchedulingNext
    PROVE  ServesInOrder
<1>1. ASSUME holders' \subseteq holders
      PROVE  ServesInOrder
  BY <1>1 DEF ServesInOrder
<1>2. ASSUME NEW a \in Appliances, NEW n \in Demands, AskAndGo(a, n)
      PROVE  ServesInOrder
  <2>1. holders' = holders \cup {a} /\ ~HasAppliance(a)
    BY <1>2 DEF AskAndGo, MayAsk
  <2> QED
    BY <2>1 DEF ServesInOrder, HasAppliance, ToSet
<1>3. ASSUME NEW a \in Appliances, Serve(a)
      PROVE  ServesInOrder
  <2>1. items # <<>> /\ a = PopBest.app /\ holders' = holders \cup {a}
    BY <1>3 DEF Serve
  <2>2. /\ Sorted(1) \in Places /\ PopBest = items[Sorted(1)]
        /\ \A l \in Places \ {Sorted(1)} :
              \/ BasePriority(Class(items[l])) < BasePriority(Class(PopBest))
              \/ /\ BasePriority(Class(items[l])) = BasePriority(Class(PopBest))
                 /\ QueuedBefore(PopBest, items[l])
    BY <2>1, BestFirst
  <2> SUFFICES ASSUME NEW i \in ToSet(items), i.app \in holders' \ holders,
                      NEW j \in ToSet(items) \ {i}
               PROVE  \/ BasePriority(Class(j)) < BasePriority(Class(i))
                      \/ /\ BasePriority(Class(j)) = BasePriority(Class(i))
                         /\ QueuedBefore(i, j)
    BY DEF ServesInOrder
  <2>3. PICK k \in Places : i = items[k]
    BY DEF ToSet, Places
  <2>4. PICK l \in Places : j = items[l]
    BY DEF ToSet, Places
  <2>5. i.app = PopBest.app
    BY <2>1
  <2>6. k = Sorted(1)
    BY <2>2, <2>3, <2>5 DEF Listed
  <2>7. i = PopBest /\ l # Sorted(1)
    BY <2>2, <2>3, <2>4, <2>6
  <2> QED
    BY <2>2, <2>4, <2>7
<1>4. ASSUME NEW a \in Appliances, NEW n \in Demands, AskAndWait(a, n)
      PROVE  ServesInOrder
  BY <1>1, <1>4 DEF AskAndWait
<1>5. ASSUME NEW a \in Appliances, Return(a) \/ Leave(a)
      PROVE  ServesInOrder
  BY <1>1, <1>5 DEF Return, Leave
<1>6. ASSUME PutBack \/ Rest \/ Tick
      PROVE  ServesInOrder
  BY <1>1, <1>6 DEF PutBack, Rest, Tick
<1> QED
  BY <1>2, <1>3, <1>4, <1>5, <1>6 DEF SchedulingNext

(* As long as a whole poll of ageing is worth less than what separates two *)
(* classes, the dispatch loop serves by class, and within a class by       *)
(* arrival, for every fleet, queue and interleaving: the items put back,   *)
(* the sort by ages of whole ticks and the departures notwithstanding.     *)
THEOREM FirstComeFirstServed ==
    ASSUME MildAgeing
    PROVE  SchedulingSpec => ServedInOrder
<1>1. SchedulingInit => Listed
  <2> SUFFICES ASSUME SchedulingInit PROVE Listed
    OBVIOUS
  <2>1. items = <<>> /\ arrivals = <<>>
    BY DEF SchedulingInit
  <2>2. items \in Seq(Waiter) /\ arrivals \in Seq(Appliances)
    BY <2>1, EmptySeq
  <2>3. Places = {} /\ DOMAIN arrivals = {}
    BY <2>1 DEF Places
  <2> QED
    BY <2>2, <2>3 DEF Listed
<1>2. Listed /\ [SchedulingNext]_scheduling => Listed'
  <2> SUFFICES ASSUME Listed, [SchedulingNext]_scheduling PROVE Listed'
    OBVIOUS
  <2>1. CASE SchedulingNext
    BY <2>1, ListedStep
  <2>2. CASE UNCHANGED scheduling
    BY <2>2 DEF scheduling, Listed, Places, QueuedBefore
  <2> QED
    BY <2>1, <2>2
<1>3. Listed /\ [SchedulingNext]_scheduling => [ServesInOrder]_scheduling
  BY OrderedStep
<1>4. SchedulingSpec => [][ServesInOrder]_scheduling
  BY <1>1, <1>2, <1>3, PTL DEF SchedulingSpec
<1> QED
  BY <1>4 DEF ServedInOrder, ServesInOrder
=============================================================================
