----------------------------- MODULE QuotaProofs -----------------------------
(***************************************************************************)
(* The safety of the State object, for every configuration, every set of   *)
(* request inputs the assumptions admit and any number of appliances.      *)
(* Sound (CasStateLemmas) is inductive; the properties of Quota follow.    *)
(***************************************************************************)
EXTENDS Quota, CasStateLemmas

IInv == Sound(st)

(* What a step from s to t may do to a penalty: while it is being served   *)
(* nothing is issued, and lifting it starts afresh.                        *)
Respects(s, t) ==
    /\ Locked(s) => /\ t.LockdownActive
                    /\ t.InFlight <= s.InFlight
                    /\ t.SustainedUsed = t.SustainedLimit
    /\ s.LockdownActive /\ ~t.LockdownActive =>
          /\ t.LocalRemaining = t.BucketLimit
          /\ t.SustainedUsed <= 1
          /\ t.SustainedLimit = s.SustainedLimit

(* s is st, after something that touches neither penalty nor allowance. *)
Before(s) ==
    /\ s.LockdownActive = st.LockdownActive
    /\ s.LockdownLeft = st.LockdownLeft
    /\ s.InFlight <= st.InFlight
    /\ s.SustainedLimit = st.SustainedLimit

-----------------------------------------------------------------------------
(* CanDispatch says yes only to an open gate. *)
LEMMA DispatchOpen ==
    ASSUME NEW s, Sound(s), CanDispatch(s)
    PROVE  LET t == Settle(s) IN
           /\ ~Locked(s)
           /\ Sound(t)
           /\ ~t.LockdownActive
           /\ t.Calibrated => t.SustainedLeft > 0 /\ t.SustainedUsed < t.SustainedLimit
           /\ s.LockdownActive =>
                 /\ t.LocalRemaining = t.BucketLimit
                 /\ t.SustainedUsed = 0
                 /\ t.SustainedLimit = s.SustainedLimit
<1>1. ~Locked(Settle(s))
  BY DEF CanDispatch
<1>2. ~Locked(s)
  BY <1>1, SettleSound
<1>3. Settle(s).Calibrated => Settle(s).SustainedUsed < Settle(s).SustainedLimit
  BY DEF CanDispatch
<1> QED
  BY <1>2, <1>3, SettleSound

LEMMA SettleRespects ==
    ASSUME NEW s, Sound(s)
    PROVE  Sound(Settle(s)) /\ Respects(s, Settle(s))
<1>1. Sound(Settle(s))
  BY SettleSound
<1>2. CASE Locked(s)
  <2>1. Settle(s) = s /\ s.LockdownActive
    BY <1>2, SettleSound DEF Locked
  <2>2. s.InFlight <= s.InFlight /\ s.SustainedUsed = s.SustainedLimit
    BY <2>1 DEF Sound, State
  <2> QED
    BY <1>1, <2>1, <2>2 DEF Respects
<1>3. CASE ~Locked(s)
  BY <1>1, <1>3, SettleSound DEF Respects
<1> QED
  BY <1>2, <1>3

LEMMA GrantRespects ==
    ASSUME NEW s, Sound(s), CanDispatch(s)
    PROVE  Sound(Issue(Settle(s))) /\ Respects(s, Issue(Settle(s)))
<1> DEFINE t == Settle(s)
           u == Issue(t)
<1>1. /\ ~Locked(s) /\ Sound(t) /\ ~t.LockdownActive
      /\ t.Calibrated => t.SustainedLeft > 0 /\ t.SustainedUsed < t.SustainedLimit
      /\ s.LockdownActive => /\ t.LocalRemaining = t.BucketLimit
                             /\ t.SustainedUsed = 0
                             /\ t.SustainedLimit = s.SustainedLimit
  BY DispatchOpen
<1> HIDE DEF t
<1>2. /\ Sound(u)
      /\ u.SustainedUsed <= t.SustainedUsed + 1
      /\ u.SustainedLimit = t.SustainedLimit
      /\ u.LocalRemaining = t.LocalRemaining /\ u.BucketLimit = t.BucketLimit
  BY <1>1, IssueSound
<1> HIDE DEF u
<1>3. Respects(s, u)
  BY <1>1, <1>2 DEF Respects
<1> QED
  BY <1>2, <1>3 DEF t, u

(* The same for a grant of the dispatch loop, which also charges a class.  *)
LEMMA DispatchRespects ==
    ASSUME NEW s, Sound(s), CanDispatch(s), NEW c,
           HasClassQuota(Settle(s), c) \/ HasSharedQuota(Settle(s))
    PROVE  /\ Sound(Issue(DeductQuota(Settle(s), c)))
           /\ Respects(s, Issue(DeductQuota(Settle(s), c)))
<1> DEFINE t == Settle(s)
           d == DeductQuota(t, c)
           u == Issue(d)
<1>1. /\ ~Locked(s) /\ Sound(t) /\ ~t.LockdownActive
      /\ t.Calibrated => t.SustainedLeft > 0 /\ t.SustainedUsed < t.SustainedLimit
      /\ s.LockdownActive => /\ t.LocalRemaining = t.BucketLimit
                             /\ t.SustainedUsed = 0
                             /\ t.SustainedLimit = s.SustainedLimit
  BY DispatchOpen
<1>2. HasClassQuota(t, c) \/ HasSharedQuota(t)
  OBVIOUS
<1> HIDE DEF t
<1>3. t \in State
  BY <1>1 DEF Sound
<1>4. /\ d \in State /\ SameBudget(t, d)
      /\ d.LocalRemaining = t.LocalRemaining /\ d.BucketLimit = t.BucketLimit
  BY <1>2, <1>3, DeductQuotaType DEF DeductQuota, State
<1>5. Sound(d)
  BY <1>1, <1>4, SoundFrame
<1> HIDE DEF d
<1>6. /\ Sound(u)
      /\ u.SustainedUsed <= d.SustainedUsed + 1
      /\ u.SustainedLimit = d.SustainedLimit
      /\ u.LocalRemaining = d.LocalRemaining /\ u.BucketLimit = d.BucketLimit
  BY <1>1, <1>4, <1>5, IssueSound DEF SameBudget
<1> HIDE DEF u
<1>7. Respects(s, u)
  BY <1>1, <1>4, <1>6 DEF Respects, SameBudget
<1> QED
  BY <1>6, <1>7 DEF t, d, u

LEMMA RespectsAfter ==
    ASSUME NEW s, NEW t, IInv, Sound(s), Sound(t), Before(s), Respects(s, t)
    PROVE  Respects(st, t)
BY DEF IInv, Sound, State, Before, Respects, Locked

-----------------------------------------------------------------------------
(* The steps of the State object *)

LEMMA Inputs ==
    /\ \A h \in Headers : h \in Header
    /\ \A lag \in Lags : lag \in Int
    /\ \A ra \in RetryAfters : ra \in Nat
    /\ \A n \in Demands : n \in Nat
BY InputsAssumption DEF Header

LEMMA DemandBefore ==
    ASSUME NEW s, Sound(s), Before(s), NEW c, NEW n \in Demands
    PROVE  Sound(NoteDemand(s, c, n)) /\ Before(NoteDemand(s, c, n))
<1>1. s \in State /\ n \in Nat
  BY Inputs DEF Sound
<1>2. NoteDemand(s, c, n) \in State /\ SameBudget(s, NoteDemand(s, c, n))
  BY <1>1, NoteDemandType
<1> QED
  BY <1>2, SoundFrame DEF Before, SameBudget

LEMMA ReportBefore ==
    ASSUME IInv, st.InFlight > 0, NEW h \in Headers, NEW lag \in Lags
    PROVE  Sound(ProcessReport(st, h, lag)) /\ Before(ProcessReport(st, h, lag))
<1>1. /\ Sound(ProcessReport(st, h, lag))
      /\ ProcessReport(st, h, lag).InFlight = st.InFlight - 1
      /\ ProcessReport(st, h, lag).SustainedLimit = st.SustainedLimit
      /\ ProcessReport(st, h, lag).LockdownActive = st.LockdownActive
      /\ ProcessReport(st, h, lag).LockdownLeft = st.LockdownLeft
  BY Inputs, ProcessReportSound DEF IInv
<1> QED
  BY <1>1 DEF Before, IInv, Sound, State

LEMMA StBefore == IInv => Sound(st) /\ Before(st)
BY DEF IInv, Before, Sound, State

LEMMA GrantsStep ==
    ASSUME IInv, Grants
    PROVE  Sound(st') /\ Respects(st, st')
<1>1. ASSUME NEW c \in RawClasses, NEW n \in Demands, AcquireGrant(c, n)
      PROVE  Sound(st') /\ Respects(st, st')
  <2> DEFINE s == NoteDemand(st, c, n)
  <2>1. Sound(s) /\ Before(s)
    BY StBefore, DemandBefore
  <2>2. CanDispatch(s) /\ st' = Issue(Settle(s))
    BY <1>1 DEF AcquireGrant
  <2> HIDE DEF s
  <2> QED
    BY <2>1, <2>2, GrantRespects, RespectsAfter
<1>2. ASSUME NEW c \in RawClasses, DispatchGrant(c)
      PROVE  Sound(st') /\ Respects(st, st')
  BY <1>2, DispatchRespects DEF IInv, DispatchGrant
<1>3. ASSUME NEW c \in RawClasses, NEW n \in Demands, NEW h \in Headers,
             NEW lag \in Lags, ReportAcquireGrant(h, lag, c, n)
      PROVE  Sound(st') /\ Respects(st, st')
  <2> DEFINE r == ProcessReport(st, h, lag)
             s == NoteDemand(r, c, n)
  <2>1. Sound(r) /\ Before(r)
    BY <1>3, ReportBefore DEF ReportAcquireGrant
  <2>2. CanDispatch(s) /\ st' = Issue(Settle(s))
    BY <1>3 DEF ReportAcquireGrant
  <2> HIDE DEF r
  <2>3. Sound(s) /\ Before(s)
    BY <2>1, DemandBefore
  <2> HIDE DEF s
  <2> QED
    BY <2>2, <2>3, GrantRespects, RespectsAfter
<1> QED
  BY <1>1, <1>2, <1>3 DEF Grants

LEMMA PenaltiesStep ==
    ASSUME IInv, Penalties
    PROVE  Sound(st') /\ Respects(st, st')
<1>1. PICK h \in Headers, lag \in Lags, ra \in RetryAfters : Penalty(h, lag, ra)
  BY DEF Penalties
<1>2. st.InFlight > 0 /\ st' = ProcessPenalty(st, h, lag, ra)
  BY <1>1 DEF Penalty
<1>3. Sound(st') /\ st'.LockdownActive /\ st'.InFlight = st.InFlight - 1
  BY <1>2, Inputs, ProcessPenaltySound DEF IInv
<1> QED
  BY <1>3 DEF IInv, Sound, State, Respects

LEMMA OthersStep ==
    ASSUME IInv, Others
    PROVE  Sound(st') /\ Respects(st, st')
<1>1. ASSUME NEW c \in RawClasses, NEW n \in Demands, AcquireDeny(c, n)
      PROVE  Sound(st') /\ Respects(st, st')
  <2> DEFINE s == NoteDemand(st, c, n)
  <2>1. Sound(s) /\ Before(s)
    BY StBefore, DemandBefore
  <2>2. st' = Settle(s)
    BY <1>1 DEF AcquireDeny
  <2> HIDE DEF s
  <2> QED
    BY <2>1, <2>2, SettleRespects, RespectsAfter
<1>2. ASSUME NEW c \in RawClasses, NEW n \in Demands, NEW h \in Headers,
             NEW lag \in Lags, ReportAcquireDeny(h, lag, c, n)
      PROVE  Sound(st') /\ Respects(st, st')
  <2> DEFINE r == ProcessReport(st, h, lag)
             s == NoteDemand(r, c, n)
  <2>1. Sound(r) /\ Before(r)
    BY <1>2, ReportBefore DEF ReportAcquireDeny
  <2>2. st' = Settle(s)
    BY <1>2 DEF ReportAcquireDeny
  <2> HIDE DEF r
  <2>3. Sound(s) /\ Before(s)
    BY <2>1, DemandBefore
  <2> HIDE DEF s
  <2> QED
    BY <2>2, <2>3, SettleRespects, RespectsAfter
<1>3. ASSUME NEW h \in Headers, NEW lag \in Lags, Report(h, lag)
      PROVE  Sound(st') /\ Respects(st, st')
  <2>1. st.InFlight > 0 /\ st' = ProcessReport(st, h, lag)
    BY <1>3 DEF Report
  <2>2. Sound(st') /\ Before(st')
    BY <2>1, ReportBefore
  <2> QED
    BY <2>2 DEF IInv, Before, Sound, State, Respects, Locked
<1>4. CASE DispatchIdle
  BY <1>4, SettleRespects DEF IInv, DispatchIdle
<1>5. CASE Reaps
  <2>1. PICK k \in 1 .. st.InFlight : st' = [st EXCEPT !.InFlight = @ - k]
    BY <1>5 DEF Reaps, Reap
  <2>2. Sound(st')
    BY <2>1, ReapSound DEF IInv
  <2>3. /\ st'.LockdownActive = st.LockdownActive /\ st'.InFlight <= st.InFlight
    BY <2>1 DEF IInv, Sound, State
  <2> QED
    BY <2>2, <2>3 DEF Sound, Respects, Locked
<1>6. CASE Elapses
  <2>1. /\ Sound(st') /\ st'.InFlight = st.InFlight
        /\ st'.LockdownActive = st.LockdownActive
    BY <1>6, ElapseSound DEF IInv, Elapses
  <2> QED
    BY <2>1 DEF IInv, Sound, State, Respects, Locked
<1> QED
  BY <1>1, <1>2, <1>3, <1>4, <1>5, <1>6 DEF Others

LEMMA NextStep ==
    ASSUME IInv, QuotaNext
    PROVE  Sound(st') /\ Respects(st, st')
BY GrantsStep, PenaltiesStep, OthersStep DEF QuotaNext

-----------------------------------------------------------------------------
(* How views of the bucket follow each other *)

(* Nothing is trusted before the first report, whose figure replaces the   *)
(* one of the cold start whether or not it is higher; and a horizon behind *)
(* is not kept further than a stamp can tell.                              *)
Viewed(s) == (~s.Calibrated => ~s.WindowActive) /\ s.WindowLeft >= -MaxLag

SameView(s, t) ==
    /\ t.Calibrated = s.Calibrated
    /\ t.WindowActive = s.WindowActive
    /\ t.WindowLeft = s.WindowLeft
    /\ t.PolicyWindowSec = s.PolicyWindowSec
    /\ t.LocalRemaining = s.LocalRemaining
    /\ t.BucketLimit = s.BucketLimit
    /\ t.LockdownActive = s.LockdownActive

(* From s to t: the view of s keeps its horizon, a higher figure replaced  *)
(* it, or a view that begins no earlier than it ends.                      *)
Outbid(s, t) ==
    /\ t.WindowActive
    /\ t.LockdownActive = s.LockdownActive
    /\ \/ t.WindowLeft = s.WindowLeft
       \/ t.LocalRemaining > s.LocalRemaining /\ t.LocalRemaining <= t.BucketLimit
       \/ t.WindowLeft - t.PolicyWindowSec >= s.WindowLeft

(* What ViewsDoNotOverlap says of a step. *)
Follows(s, t) ==
    s.WindowActive /\ t.WindowLeft > s.WindowLeft =>
        \/ t.LocalRemaining > s.LocalRemaining
        \/ t.WindowLeft - t.PolicyWindowSec >= s.WindowLeft
        \/ s.LockdownActive /\ ~t.LockdownActive

LEMMA DemandView ==
    ASSUME NEW s, Sound(s), NEW c, NEW n \in Demands
    PROVE  Sound(NoteDemand(s, c, n)) /\ SameView(s, NoteDemand(s, c, n))
<1>1. s \in State /\ n \in Nat
  BY Inputs DEF Sound
<1>2. NoteDemand(s, c, n) \in State /\ SameBudget(s, NoteDemand(s, c, n))
  BY <1>1, NoteDemandType
<1>3. SameView(s, NoteDemand(s, c, n))
  BY <1>1 DEF State, NoteDemand, SameView
<1> QED
  BY <1>2, <1>3, SoundFrame

LEMMA IssueView ==
    ASSUME NEW s \in State
    PROVE  SameView(s, Issue(s))
BY DEF State, Issue, DeductSustained, SameView

LEMMA ChargeView ==
    ASSUME NEW s \in State, NEW c
    PROVE  SameView(s, DeductQuota(s, c))
BY DEF State, DeductQuota, SameView

(* Without a report a view is only replaced once it has ended, by one that *)
(* begins now, or when a lockdown is lifted.                               *)
LEMMA SettleView ==
    ASSUME NEW s, Sound(s), Viewed(s)
    PROVE  LET t == Settle(s) IN
           /\ Viewed(t)
           /\ t.PolicyWindowSec = s.PolicyWindowSec
           /\ s.WindowActive =>
                 \/ t.WindowLeft = s.WindowLeft /\ t.LocalRemaining = s.LocalRemaining
                 \/ s.LockdownActive /\ ~t.LockdownActive
                 \/ /\ s.WindowLeft <= 0
                    /\ t.LocalRemaining = s.BucketLimit
                    /\ t.WindowLeft = t.PolicyWindowSec
<1> DEFINE a == LiftLockdown(s)
           b == refreshRemaining(a)
           c == rollSustainedWindow(b)
<1>1. s \in State
  BY DEF Sound
<1>2. CASE Locked(s)
  BY <1>2 DEF Settle
<1>3. /\ Sound(a) /\ a.Calibrated = s.Calibrated
      /\ a.WindowLeft = s.WindowLeft /\ a.LocalRemaining = s.LocalRemaining
      /\ a.BucketLimit = s.BucketLimit /\ a.PolicyWindowSec = s.PolicyWindowSec
      /\ ~a.LockdownActive
      /\ a.WindowActive => s.WindowActive
      /\ ~s.LockdownActive => a.WindowActive = s.WindowActive
  BY <1>1, LiftLockdownSound DEF LiftLockdown, State
<1>4. CASE ~Locked(s) /\ ~s.Calibrated
  <2>1. Settle(s) = a
    BY <1>4 DEF Settle
  <2> HIDE DEF a
  <2> QED
    BY <1>3, <1>4, <2>1 DEF Viewed
<1>5. CASE ~Locked(s) /\ s.Calibrated
  <2>1. Settle(s) = c
    BY <1>5 DEF Settle
  <2> HIDE DEF a
  <2>2. Sound(b) /\ b.Calibrated = a.Calibrated /\ b.LockdownActive = a.LockdownActive
    BY <1>3, RefreshSound DEF SameBudget
  <2>3. \/ a.WindowActive /\ a.WindowLeft > 0 /\ b = a
        \/ /\ ~(a.WindowActive /\ a.WindowLeft > 0)
           /\ b.LocalRemaining = a.BucketLimit
           /\ b.PolicyWindowSec = a.PolicyWindowSec
           /\ b.WindowLeft = b.PolicyWindowSec
    <3>1. CASE a.WindowActive /\ a.WindowLeft > 0
      BY <3>1 DEF refreshRemaining
    <3>2. CASE ~(a.WindowActive /\ a.WindowLeft > 0)
      <4>1. a \in State /\ ResetClassBudgets(a) \in State
        BY <1>3, ResetClassBudgetsType DEF Sound
      <4>2. ResetClassBudgets(a).PolicyWindowSec = a.PolicyWindowSec
        BY <4>1 DEF ResetClassBudgets, State
      <4>3. PolicyWindow(a) = a.PolicyWindowSec
        BY <4>1 DEF PolicyWindow, State
      <4> QED
        BY <3>2, <4>1, <4>2, <4>3 DEF refreshRemaining, State
    <3> QED
      BY <3>1, <3>2
  <2> HIDE DEF b
  <2>4. /\ c.WindowLeft = b.WindowLeft /\ c.LocalRemaining = b.LocalRemaining
        /\ c.Calibrated = b.Calibrated /\ c.PolicyWindowSec = b.PolicyWindowSec
        /\ c.LockdownActive = b.LockdownActive
    BY <2>2 DEF Sound, State, rollSustainedWindow
  <2> HIDE DEF c
  <2>5. b.PolicyWindowSec \in Nat \ {0} /\ MaxLag \in Nat
    BY <2>2, CapsAssumption DEF Sound, State
  <2>6. Viewed(c) /\ c.PolicyWindowSec = s.PolicyWindowSec
    <3>1. b.WindowLeft >= -MaxLag
      BY <1>3, <2>3, <2>5 DEF Viewed
    <3> QED
      BY <1>3, <1>5, <2>2, <2>3, <2>4, <3>1 DEF Viewed
  <2> QED
    BY <1>1, <1>3, <2>1, <2>2, <2>3, <2>4, <2>6 DEF State
<1> QED
  BY <1>2, <1>4, <1>5

(* A view that a report opens in the place of another raises the figure,   *)
(* or the other had ended by the time the client stamped: then the stamp   *)
(* is at most MaxLag old, and the new view begins at it.                   *)
LEMMA HorizonFollows ==
    ASSUME NEW s \in State, s.WindowLeft >= -MaxLag, NEW lag \in Int,
           lag <= MaxLag \/ lag = Unstamped
    PROVE  /\ Horizon(s, lag) \in Int
           /\ Horizon(s, lag) >= -MaxLag
           /\ WasStale(s, lag) => Horizon(s, lag) - s.PolicyWindowSec >= s.WindowLeft
<1>1. /\ PolicyWindow(s) = s.PolicyWindowSec
      /\ s.PolicyWindowSec \in Nat \ {0} /\ s.WindowLeft \in Int /\ MaxLag \in Nat
  BY CapsAssumption DEF PolicyWindow, State
<1>2. CASE lag = Unstamped
  BY <1>1, <1>2 DEF Horizon, WasStale, Unstamped
<1>3. CASE lag # Unstamped
  BY <1>1, <1>3 DEF Horizon, WasStale, AtLeast
<1> QED
  BY <1>2, <1>3

LEMMA ReportView ==
    ASSUME NEW s, Sound(s), Viewed(s), s.InFlight > 0, NEW h \in Header,
           NEW lag \in Int, lag <= MaxLag \/ lag = Unstamped
    PROVE  LET t == NoteHeaders(Reported(s, h), h, lag) IN
           /\ Viewed(t)
           /\ s.WindowActive => Outbid(s, t)
<1> DEFINE a == Reported(s, h)
           bucket == IF h.limit > 0 THEN h.limit ELSE a.BucketLimit
           policy == IF h.policy > 0 THEN h.policy ELSE a.PolicyWindowSec
           s1 == [a EXCEPT !.BucketLimit = bucket, !.PolicyWindowSec = policy]
           stale == WasStale(s1, lag)
           s2 == IF ~s1.Calibrated \/ stale THEN ResetClassBudgets(s1) ELSE s1
           capped == Capped(s2, h)
           t == NoteHeaders(a, h, lag)
<1>1. s \in State /\ h.remaining \in Int
  BY DEF Sound, Header
<1>2. /\ Sound(a) /\ a.Calibrated
      /\ a.LockdownActive = s.LockdownActive
  BY ReportedSound
<1>3. /\ a.WindowActive = s.WindowActive /\ a.WindowLeft = s.WindowLeft
      /\ s.Calibrated => a.LocalRemaining = s.LocalRemaining
  BY <1>1 DEF Reported, State
<1>4. /\ t.Calibrated
      /\ t.LockdownActive = a.LockdownActive
  <2>1. Sound(t) /\ SameBudget(a, t)
    BY <1>2, NoteHeadersSound
  <2> QED
    BY <1>2, <2>1 DEF SameBudget
<1>5. /\ s1 \in State /\ s1.Calibrated
      /\ s1.WindowActive = s.WindowActive /\ s1.WindowLeft = s.WindowLeft
      /\ s1.WindowLeft >= -MaxLag
      /\ s.WindowActive => s1.LocalRemaining = s.LocalRemaining
  <2>1. a \in State
    BY <1>2 DEF Sound
  <2>2. bucket \in Nat \ {0} /\ policy \in Nat \ {0}
    BY <2>1 DEF State, Header
  <2> HIDE DEF a, bucket, policy
  <2> QED
    BY <1>2, <1>3, <2>1, <2>2 DEF State, Viewed
<1>6. NoteHeaders(a, h, lag) =
         [(IF h.remaining < 0 THEN s2
           ELSE IF ~Opened(s2, h, stale) THEN [s2 EXCEPT !.LocalRemaining = capped]
           ELSE [s2 EXCEPT !.LocalRemaining = capped,
                           !.WindowActive = TRUE,
                           !.WindowLeft = Horizon(s2, lag),
                           !.windowOpened = TRUE]) EXCEPT !.Calibrated = TRUE]
  BY DEF NoteHeaders
<1> HIDE DEF s1, a
<1>7. /\ s2 \in State
      /\ s2.WindowActive = s1.WindowActive /\ s2.WindowLeft = s1.WindowLeft
      /\ s2.LocalRemaining = s1.LocalRemaining
      /\ s2.PolicyWindowSec = s1.PolicyWindowSec
  <2>1. ResetClassBudgets(s1) \in State
    BY <1>5, ResetClassBudgetsType
  <2>2. /\ ResetClassBudgets(s1).WindowActive = s1.WindowActive
        /\ ResetClassBudgets(s1).WindowLeft = s1.WindowLeft
        /\ ResetClassBudgets(s1).LocalRemaining = s1.LocalRemaining
        /\ ResetClassBudgets(s1).PolicyWindowSec = s1.PolicyWindowSec
    BY <1>5 DEF ResetClassBudgets, State
  <2> HIDE DEF stale
  <2> QED
    BY <1>5, <2>1, <2>2
<1>8. stale => WasStale(s2, lag)
  BY <1>7 DEF WasStale
<1> HIDE DEF s2, stale
<1>9. /\ Horizon(s2, lag) \in Int
      /\ Horizon(s2, lag) >= -MaxLag
      /\ stale => Horizon(s2, lag) - s2.PolicyWindowSec >= s.WindowLeft
  BY <1>5, <1>7, <1>8, HorizonFollows
<1>10. /\ capped \in Int /\ capped <= s2.BucketLimit
       /\ Opened(s2, h, stale) /\ s.WindowActive /\ ~stale => capped > s.LocalRemaining
  BY <1>1, <1>5, <1>7 DEF Capped, AtMost, Opened, State
<1> DEFINE left == Horizon(s2, lag)
<1> HIDE DEF capped, left
<1>11. ASSUME h.remaining < 0 \/ ~Opened(s2, h, stale)
       PROVE  Viewed(t) /\ (s.WindowActive => Outbid(s, t))
  <2>1. t.WindowActive = s2.WindowActive /\ t.WindowLeft = s2.WindowLeft
    BY <1>6, <1>7, <1>11 DEF State
  <2> HIDE DEF t
  <2> QED
    BY <1>2, <1>4, <1>5, <1>7, <2>1 DEF Viewed, Outbid
<1>12. ASSUME ~(h.remaining < 0), Opened(s2, h, stale)
       PROVE  Viewed(t) /\ (s.WindowActive => Outbid(s, t))
  <2>1. /\ t.LocalRemaining = capped /\ t.WindowActive /\ t.WindowLeft = left
        /\ t.BucketLimit = s2.BucketLimit /\ t.PolicyWindowSec = s2.PolicyWindowSec
    BY <1>6, <1>7, <1>12 DEF State, left
  <2> HIDE DEF t
  <2> QED
    BY <1>2, <1>4, <1>7, <1>9, <1>10, <1>12, <2>1 DEF Viewed, Outbid, State, left
<1> QED
  BY <1>11, <1>12 DEF a

(* What a step does between booking a report or a demand and issuing.      *)
LEMMA SettleFollows ==
    ASSUME IInv, NEW s, Sound(s), Viewed(s), st.WindowActive => Outbid(st, s)
    PROVE  /\ Sound(Settle(s))
           /\ Viewed(Settle(s))
           /\ Follows(st, Settle(s))
<1> DEFINE t == Settle(s)
<1>1. Sound(t) /\ t \in State /\ s \in State /\ st \in State
  BY SettleSound DEF IInv, Sound
<1>2. /\ Viewed(t)
      /\ t.PolicyWindowSec = s.PolicyWindowSec
      /\ s.WindowActive =>
            \/ t.WindowLeft = s.WindowLeft /\ t.LocalRemaining = s.LocalRemaining
            \/ s.LockdownActive /\ ~t.LockdownActive
            \/ /\ s.WindowLeft <= 0
               /\ t.LocalRemaining = s.BucketLimit
               /\ t.WindowLeft = t.PolicyWindowSec
  BY SettleView
<1> HIDE DEF t
<1>3. Follows(st, t)
  BY <1>1, <1>2 DEF Follows, Outbid, State
<1> QED
  BY <1>1, <1>2, <1>3 DEF t

LEMMA SameViewOutbids ==
    ASSUME NEW s, Sound(s), NEW t, NEW u,
           SameView(t, u), Viewed(t), s.WindowActive => Outbid(s, t)
    PROVE  Viewed(u) /\ (s.WindowActive => Outbid(s, u))
BY DEF SameView, Viewed, Outbid

LEMMA ViewItself ==
    ASSUME NEW s, Sound(s)
    PROVE  s.WindowActive => Outbid(s, s)
BY DEF Sound, State, Outbid

LEMMA SameViewFollows ==
    ASSUME NEW s, NEW t, NEW u, SameView(t, u), Viewed(t), Follows(s, t)
    PROVE  Viewed(u) /\ Follows(s, u)
BY DEF SameView, Viewed, Follows

LEMMA ReportOutbids ==
    ASSUME IInv, Viewed(st), st.InFlight > 0, NEW h \in Headers, NEW lag \in Lags
    PROVE  /\ Sound(ProcessReport(st, h, lag))
           /\ Viewed(ProcessReport(st, h, lag))
           /\ st.WindowActive => Outbid(st, ProcessReport(st, h, lag))
<1> DEFINE b == NoteHeaders(Reported(st, h), h, lag)
<1>1. h \in Header /\ lag \in Int /\ (lag <= MaxLag \/ lag = Unstamped)
  BY Inputs, InputsAssumption
<1>2. Viewed(b) /\ (st.WindowActive => Outbid(st, b))
  BY <1>1, ReportView DEF IInv
<1>3. b \in State
  <2>1. Sound(Reported(st, h)) /\ Reported(st, h).Calibrated
    BY <1>1, ReportedSound DEF IInv
  <2> QED
    BY <1>1, <2>1, NoteHeadersSound DEF Sound
<1>4. ProcessReport(st, h, lag) = [b EXCEPT !.windowOpened = FALSE]
  BY DEF ProcessReport
<1> HIDE DEF b
<1>5. SameView(b, ProcessReport(st, h, lag))
  BY <1>3, <1>4 DEF SameView, State
<1> QED
  BY <1>2, <1>5, ReportBefore, SameViewOutbids DEF IInv

LEMMA PenaltyFollows ==
    ASSUME IInv, Viewed(st), st.InFlight > 0,
           NEW h \in Headers, NEW lag \in Lags, NEW ra \in RetryAfters
    PROVE  LET t == ProcessPenalty(st, h, lag, ra)
           IN  Viewed(t) /\ Follows(st, t)
<1> DEFINE b == NoteHeaders(Reported(st, h), h, lag)
           t == ProcessPenalty(st, h, lag, ra)
<1>1. h \in Header /\ lag \in Int /\ (lag <= MaxLag \/ lag = Unstamped)
  BY Inputs, InputsAssumption
<1>2. Viewed(b) /\ (st.WindowActive => Outbid(st, b))
  BY <1>1, ReportView DEF IInv
<1>3. b \in State /\ st \in State
  <2>1. Sound(Reported(st, h)) /\ Reported(st, h).Calibrated
    BY <1>1, ReportedSound DEF IInv
  <2> QED
    BY <1>1, <2>1, NoteHeadersSound DEF Sound, IInv
<1>4. t = NotePenalty(b, ra)
  BY DEF ProcessPenalty
<1> HIDE DEF b
<1>5. /\ t.Calibrated = b.Calibrated /\ t.WindowActive = b.WindowActive
      /\ t.WindowLeft = b.WindowLeft /\ t.LocalRemaining = b.LocalRemaining
      /\ t.PolicyWindowSec = b.PolicyWindowSec
  BY <1>3, <1>4 DEF NotePenalty, State
<1> HIDE DEF t
<1>6. Viewed(t) /\ Follows(st, t)
  BY <1>2, <1>3, <1>5 DEF Viewed, Follows, Outbid, State
<1> QED
  BY <1>6 DEF t

LEMMA ViewStep ==
    ASSUME IInv, Viewed(st), QuotaNext
    PROVE  Viewed(st') /\ Follows(st, st')
<1>1. Sound(st) /\ (st.WindowActive => Outbid(st, st))
  BY ViewItself DEF IInv
<1>2. ASSUME NEW s, Sound(s), Viewed(s), st.WindowActive => Outbid(st, s),
             NEW c, NEW n \in Demands
      PROVE  LET t == NoteDemand(s, c, n)
             IN  Sound(t) /\ Viewed(t) /\ (st.WindowActive => Outbid(st, t))
  BY <1>1, <1>2, DemandView, SameViewOutbids
<1>3. ASSUME NEW s, Sound(s), Viewed(s), st.WindowActive => Outbid(st, s)
      PROVE  /\ Viewed(Settle(s)) /\ Follows(st, Settle(s))
             /\ Viewed(Issue(Settle(s))) /\ Follows(st, Issue(Settle(s)))
  <2> DEFINE t == Settle(s)
             u == Issue(t)
  <2>1. Sound(t) /\ Viewed(t) /\ Follows(st, t)
    BY <1>3, SettleFollows
  <2> HIDE DEF t
  <2>2. SameView(t, u)
    BY <2>1, IssueView DEF Sound
  <2> HIDE DEF u
  <2>3. Viewed(u) /\ Follows(st, u)
    BY <2>1, <2>2, SameViewFollows
  <2> QED
    BY <2>1, <2>3 DEF t, u
<1>4. ASSUME NEW c \in RawClasses, NEW n \in Demands,
             AcquireGrant(c, n) \/ AcquireDeny(c, n)
      PROVE  Viewed(st') /\ Follows(st, st')
  BY <1>1, <1>2, <1>3, <1>4 DEF AcquireGrant, AcquireDeny
<1>5. ASSUME NEW c \in RawClasses, NEW n \in Demands, NEW h \in Headers,
             NEW lag \in Lags,
             ReportAcquireGrant(h, lag, c, n) \/ ReportAcquireDeny(h, lag, c, n)
      PROVE  Viewed(st') /\ Follows(st, st')
  <2> DEFINE r == ProcessReport(st, h, lag)
             s == NoteDemand(r, c, n)
  <2>1. Sound(r) /\ Viewed(r) /\ (st.WindowActive => Outbid(st, r))
    BY <1>5, ReportOutbids DEF ReportAcquireGrant, ReportAcquireDeny
  <2>2. st' = Issue(Settle(s)) \/ st' = Settle(s)
    BY <1>5 DEF ReportAcquireGrant, ReportAcquireDeny
  <2> HIDE DEF r
  <2>3. Sound(s) /\ Viewed(s) /\ (st.WindowActive => Outbid(st, s))
    BY <1>2, <2>1
  <2> HIDE DEF s
  <2> QED
    BY <1>3, <2>2, <2>3
<1>6. ASSUME NEW h \in Headers, NEW lag \in Lags, Report(h, lag)
      PROVE  Viewed(st') /\ Follows(st, st')
  <2>1. Viewed(st') /\ (st.WindowActive => Outbid(st, st')) /\ Sound(st')
    BY <1>6, ReportOutbids DEF Report
  <2> QED
    BY <2>1 DEF IInv, Sound, State, Follows, Outbid
<1>7. CASE Penalties
  BY <1>7, PenaltyFollows DEF Penalties, Penalty
<1>8. ASSUME NEW c \in RawClasses, DispatchGrant(c)
      PROVE  Viewed(st') /\ Follows(st, st')
  <2> DEFINE t == Settle(st)
             d == DeductQuota(t, c)
  <2>1. /\ st' = Issue(d)
        /\ HasClassQuota(t, c) \/ HasSharedQuota(t)
    BY <1>8 DEF DispatchGrant
  <2>2. Sound(t) /\ Viewed(t) /\ Follows(st, t)
    BY <1>1, SettleFollows
  <2> HIDE DEF t
  <2>3. d \in State /\ SameView(t, d)
    BY <2>1, <2>2, DeductQuotaType, ChargeView DEF Sound
  <2> HIDE DEF d
  <2>4. SameView(d, st') /\ Viewed(d) /\ Follows(st, d)
    BY <2>1, <2>2, <2>3, IssueView, SameViewFollows
  <2> QED
    BY <2>4, SameViewFollows
<1>9. CASE DispatchIdle
  BY <1>1, <1>3, <1>9 DEF DispatchIdle
<1>10. CASE Reaps
  BY <1>10 DEF Reaps, Reap, IInv, Sound, State, Viewed, Follows
<1>11. CASE Elapses
  BY <1>11, CapsAssumption
     DEF Elapses, Elapse, IInv, Sound, State, Viewed, Follows, AtLeast
<1> QED
  BY <1>4, <1>5, <1>6, <1>7, <1>8, <1>9, <1>10, <1>11
     DEF QuotaNext, Grants, Others

-----------------------------------------------------------------------------
(* Theorems *)

(* Sound holds in every reachable state. *)
THEOREM SoundAlways == QuotaSpec => []IInv
<1>1. QuotaInit => IInv
  BY NewSound, InputsAssumption DEF QuotaInit, IInv, RawConfig
<1>2. IInv /\ [QuotaNext]_st => IInv'
  <2> SUFFICES ASSUME IInv, [QuotaNext]_st PROVE IInv'
    OBVIOUS
  <2>1. CASE QuotaNext
    BY <2>1, NextStep DEF IInv
  <2>2. CASE UNCHANGED st
    BY <2>2 DEF IInv
  <2> QED
    BY <2>1, <2>2
<1> QED
  BY <1>1, <1>2, PTL DEF QuotaSpec

(* Every counter of the State object keeps to its range: no class budget,  *)
(* shared pool or slot count ever goes below zero.                         *)
THEOREM TypeCorrect == QuotaSpec => []QuotaTypeOK
<1>1. IInv => QuotaTypeOK
  BY DEF IInv, Sound, QuotaTypeOK
<1> QED
  BY <1>1, SoundAlways, PTL

(* The adaptive allowance keeps between the floor and the ceiling, through *)
(* any sequence of halvings and credits.                                   *)
THEOREM AllowanceBounded == QuotaSpec => []LimitWithinBounds
<1>1. IInv => LimitWithinBounds
  BY DEF IInv, Sound, State, NormalConfig, LimitWithinBounds
<1> QED
  BY <1>1, SoundAlways, PTL

(* No sustained window is ever charged more than the allowance. *)
THEOREM AllowanceKept == QuotaSpec => []SustainedWithinLimit
<1>1. IInv => SustainedWithinLimit
  BY DEF IInv, Sound, SustainedWithinLimit
<1> QED
  BY <1>1, SoundAlways, PTL

(* A penalty is served out of the sustained budget: see PenaltyHoldsBudget.*)
THEOREM PenaltyInBudget == QuotaSpec => []PenaltyHoldsBudget
<1>1. IInv => PenaltyHoldsBudget
  BY DEF IInv, Sound, PenaltyHoldsBudget
<1> QED
  BY <1>1, SoundAlways, PTL

(* The class split hands out the bucket exactly, whatever its size and the *)
(* demand it is recomputed from.                                           *)
THEOREM BucketSplitExactly == QuotaSpec => []SplitExact
<1>1. IInv => SplitExact
  <2> SUFFICES ASSUME IInv PROVE SplitExact
    OBVIOUS
  <2> DEFINE r == ResetClassBudgets(st)
  <2>1. st \in State
    BY DEF IInv, Sound
  <2>2. /\ Total(Split(st)) \in 0 .. st.BucketLimit
        /\ \A c \in Classes : /\ Split(st)[c] <= st.DemandSum[c]
                              /\ Split(st)[c] <= MaxAllowed(c, st.BucketLimit)
    BY <2>1, SplitWithinBucket
  <2>3. /\ r.ClassRemaining = Split(st)
        /\ r.SharedRemaining = AtLeast(st.BucketLimit - Total(Split(st)), 0)
    BY <2>1 DEF ResetClassBudgets, State
  <2>4. st.BucketLimit \in Nat
    BY <2>1 DEF State
  <2>5. Total(Split(st)) + AtLeast(st.BucketLimit - Total(Split(st)), 0) = st.BucketLimit
    BY <2>2, <2>4 DEF AtLeast
  <2> QED
    BY <2>2, <2>3, <2>5 DEF SplitExact
<1> QED
  BY <1>1, SoundAlways, PTL

(* While a penalty is being served no step issues a ticket or ends it. *)
THEOREM LockdownBlocks == QuotaSpec => NoGrantDuringLockdown
<1>1. IInv /\ [QuotaNext]_st =>
        [st.LockdownActive /\ st.LockdownLeft > 0
           => /\ st'.LockdownActive
              /\ st'.InFlight <= st.InFlight
              /\ st'.SustainedUsed = st'.SustainedLimit]_st
  BY NextStep DEF Respects, Locked
<1> QED
  BY <1>1, SoundAlways, PTL DEF QuotaSpec, NoGrantDuringLockdown

(* The step that lifts a penalty starts from a full bucket view and a      *)
(* sustained window with at most its own ticket on it, and earns nothing.  *)
THEOREM LiftStartsAfresh == QuotaSpec => ResumesAtFullAllowance
<1>1. IInv /\ [QuotaNext]_st =>
        [st.LockdownActive /\ ~st'.LockdownActive
           => /\ st'.LocalRemaining = st'.BucketLimit
              /\ st'.SustainedUsed <= 1
              /\ st'.SustainedLimit = st.SustainedLimit]_st
  BY NextStep DEF Respects
<1> QED
  BY <1>1, SoundAlways, PTL DEF QuotaSpec, ResumesAtFullAllowance

(* However the clocks of the clients run, nothing postpones the instant at *)
(* which the view goes stale but a higher figure, the lifting of a penalty *)
(* or a view that begins no earlier than where the present one ends.       *)
THEOREM ViewsFollow == QuotaSpec => ViewsDoNotOverlap
<1>1. QuotaInit => Viewed(st)
  BY CapsAssumption DEF QuotaInit, Viewed, New
<1>2. IInv /\ Viewed(st) /\ [QuotaNext]_st => Viewed(st)'
  BY ViewStep DEF Viewed
<1>3. IInv /\ Viewed(st) /\ [QuotaNext]_st =>
        [st.WindowActive /\ st'.WindowLeft > st.WindowLeft
           => \/ st'.LocalRemaining > st.LocalRemaining
              \/ st'.WindowLeft - PolicyWindow(st') >= st.WindowLeft
              \/ st.LockdownActive /\ ~st'.LockdownActive]_st
  <2> SUFFICES ASSUME IInv, Viewed(st), QuotaNext
               PROVE  Follows(st, st') /\ PolicyWindow(st') = st'.PolicyWindowSec
    BY DEF Follows
  <2>1. st' \in State
    BY NextStep DEF Sound
  <2> QED
    BY <2>1, ViewStep DEF PolicyWindow, State
<1> QED
  BY <1>1, <1>2, <1>3, SoundAlways, PTL DEF QuotaSpec, ViewsDoNotOverlap
=============================================================================
