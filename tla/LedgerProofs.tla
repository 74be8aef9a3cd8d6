----------------------------- MODULE LedgerProofs -----------------------------
(***************************************************************************)
(* The tickets issued in a sustained window, counted from the outside, are *)
(* all charged to it.  The count stays below SustainedUsed because a step  *)
(* lowers SustainedUsed only if it starts a window, and the count with it. *)
(***************************************************************************)
EXTENDS QuotaLedger, QuotaProofs

LInv ==
    /\ IInv
    /\ issued \in 0 .. UsedCap
    /\ issued <= st.SustainedUsed

(* From s to t: a sustained window begins, or what is used of it stays. *)
KeepsCharges(s, t) ==
    \/ t.SustainedLeft > s.SustainedLeft
    \/ t.SustainedLeft <= s.SustainedLeft /\ t.SustainedUsed = s.SustainedUsed

(* s is st, after something that touches neither window nor charges. *)
SameCharges(s) ==
    /\ Sound(s)
    /\ s.SustainedLeft = st.SustainedLeft
    /\ s.SustainedUsed = st.SustainedUsed

-----------------------------------------------------------------------------
(* The operators of CasState *)

LEMMA LiftCharges ==
    ASSUME NEW s, Sound(s)
    PROVE  /\ Sound(LiftLockdown(s))
           /\ LiftLockdown(s).SustainedLeft = s.SustainedLeft
           /\ LiftLockdown(s).SustainedUsed = s.SustainedUsed
<1>1. s \in State
  BY DEF Sound
<1> QED
  BY <1>1, LiftLockdownSound DEF LiftLockdown, State

LEMMA RollCharges ==
    ASSUME NEW s, Sound(s)
    PROVE  KeepsCharges(s, rollSustainedWindow(s))
<1>1. s \in State
  BY DEF Sound
<1>2. CASE s.SustainedLeft > 0
  BY <1>1, <1>2 DEF rollSustainedWindow, KeepsCharges, State
<1>3. CASE ~(s.SustainedLeft > 0)
  <2>1. rollSustainedWindow(s).SustainedLeft = s.SustainedWindowSec
    BY <1>1, <1>3 DEF rollSustainedWindow, State
  <2> QED
    BY <1>1, <1>3, <2>1 DEF KeepsCharges, State
<1> QED
  BY <1>2, <1>3

LEMMA SettleCharges ==
    ASSUME NEW s, Sound(s)
    PROVE  KeepsCharges(s, Settle(s))
<1> DEFINE a == LiftLockdown(s)
           b == refreshRemaining(a)
<1>1. Sound(a) /\ a.SustainedLeft = s.SustainedLeft /\ a.SustainedUsed = s.SustainedUsed
  BY LiftCharges
<1>2. \/ Settle(s) = s
      \/ Settle(s) = a
      \/ Settle(s) = rollSustainedWindow(b)
  BY DEF Settle
<1> HIDE DEF a
<1>3. Sound(b) /\ SameBudget(a, b)
  BY <1>1, RefreshSound
<1> HIDE DEF b
<1>4. KeepsCharges(b, rollSustainedWindow(b))
  BY <1>3, RollCharges
<1>5. s.SustainedLeft <= s.SustainedLeft
  BY DEF Sound, State
<1> QED
  BY <1>1, <1>2, <1>3, <1>4, <1>5 DEF KeepsCharges, SameBudget

LEMMA DemandCharges ==
    ASSUME NEW s, SameCharges(s), NEW c, NEW n \in Demands
    PROVE  SameCharges(NoteDemand(s, c, n))
<1>1. s \in State /\ n \in Nat
  BY Inputs DEF SameCharges, Sound
<1>2. NoteDemand(s, c, n) \in State /\ SameBudget(s, NoteDemand(s, c, n))
  BY <1>1, NoteDemandType
<1> QED
  BY <1>2, SoundFrame DEF SameCharges, SameBudget

LEMMA ReportCharges ==
    ASSUME IInv, st.InFlight > 0, NEW h \in Headers, NEW lag \in Lags
    PROVE  SameCharges(ProcessReport(st, h, lag))
<1> DEFINE a == Reported(st, h)
           b == NoteHeaders(a, h, lag)
<1>1. /\ Sound(a) /\ a.Calibrated
      /\ a.SustainedUsed = st.SustainedUsed
  BY Inputs, ReportedSound DEF IInv
<1>2. a.SustainedLeft = st.SustainedLeft
  BY DEF IInv, Sound, State, Reported
<1>3. ProcessReport(st, h, lag) = [b EXCEPT !.windowOpened = FALSE]
  BY DEF ProcessReport
<1>4. Sound(ProcessReport(st, h, lag))
  BY ReportBefore
<1> HIDE DEF a
<1>5. Sound(b) /\ SameBudget(a, b)
  BY <1>1, Inputs, NoteHeadersSound
<1> HIDE DEF b
<1> QED
  BY <1>1, <1>2, <1>3, <1>4, <1>5 DEF SameCharges, SameBudget, Sound, State

LEMMA SettledCharges ==
    ASSUME IInv, NEW s, SameCharges(s)
    PROVE  KeepsCharges(st, Settle(s))
BY SettleCharges DEF SameCharges, KeepsCharges

(* A ticket is charged, up to the cap of the counter. *)
LEMMA IssueCharges ==
    ASSUME NEW s \in State
    PROVE  /\ Issue(s).SustainedLeft = s.SustainedLeft
           /\ Issue(s).SustainedUsed = AtMost(s.SustainedUsed + 1, UsedCap)
BY DEF Issue, DeductSustained, State

-----------------------------------------------------------------------------
(* The steps *)

LEMMA GrantsCharge ==
    ASSUME IInv, Grants
    PROVE  \E x \in State : /\ KeepsCharges(st, x)
                            /\ st'.SustainedLeft = x.SustainedLeft
                            /\ st'.SustainedUsed = AtMost(x.SustainedUsed + 1, UsedCap)
<1>1. ASSUME NEW s, SameCharges(s), st' = Issue(Settle(s))
      PROVE  \E x \in State : /\ KeepsCharges(st, x)
                              /\ st'.SustainedLeft = x.SustainedLeft
                              /\ st'.SustainedUsed = AtMost(x.SustainedUsed + 1, UsedCap)
  <2>1. Settle(s) \in State
    BY <1>1, SettleSound DEF SameCharges, Sound
  <2> QED
    BY <1>1, <2>1, SettledCharges, IssueCharges
<1>2. SameCharges(st)
  BY DEF IInv, SameCharges
<1>3. ASSUME NEW c \in RawClasses, NEW n \in Demands, AcquireGrant(c, n)
      PROVE  \E s : SameCharges(s) /\ st' = Issue(Settle(s))
  BY <1>2, <1>3, DemandCharges DEF AcquireGrant
<1>4. ASSUME NEW c \in RawClasses, NEW n \in Demands, NEW h \in Headers,
             NEW lag \in Lags, ReportAcquireGrant(h, lag, c, n)
      PROVE  \E s : SameCharges(s) /\ st' = Issue(Settle(s))
  BY <1>4, ReportCharges, DemandCharges DEF ReportAcquireGrant
<1>5. ASSUME NEW c \in RawClasses, DispatchGrant(c)
      PROVE  \E x \in State : /\ KeepsCharges(st, x)
                              /\ st'.SustainedLeft = x.SustainedLeft
                              /\ st'.SustainedUsed = AtMost(x.SustainedUsed + 1, UsedCap)
  <2> DEFINE t == Settle(st)
             d == DeductQuota(t, c)
  <2>1. st' = Issue(d) /\ (HasClassQuota(t, c) \/ HasSharedQuota(t))
    BY <1>5 DEF DispatchGrant
  <2>2. t \in State /\ KeepsCharges(st, t)
    BY SettleSound, SettleCharges DEF IInv, Sound
  <2> HIDE DEF t
  <2>3. d \in State /\ SameBudget(t, d)
    BY <2>1, <2>2, DeductQuotaType
  <2> HIDE DEF d
  <2> QED
    BY <2>1, <2>2, <2>3, IssueCharges DEF SameBudget, KeepsCharges
<1> QED
  BY <1>1, <1>3, <1>4, <1>5 DEF Grants

LEMMA OthersKeepCharges ==
    ASSUME IInv, Others
    PROVE  KeepsCharges(st, st')
<1>1. SameCharges(st)
  BY DEF IInv, SameCharges
<1>2. ASSUME NEW c \in RawClasses, NEW n \in Demands,
             \/ AcquireDeny(c, n)
             \/ \E h \in Headers, lag \in Lags : ReportAcquireDeny(h, lag, c, n)
      PROVE  \E s : SameCharges(s) /\ st' = Settle(s)
  BY <1>1, <1>2, ReportCharges, DemandCharges DEF AcquireDeny, ReportAcquireDeny
<1>3. ASSUME NEW h \in Headers, NEW lag \in Lags, Report(h, lag)
      PROVE  KeepsCharges(st, st')
  BY <1>3, ReportCharges DEF Report, SameCharges, KeepsCharges, IInv, Sound, State
<1>4. CASE DispatchIdle
  BY <1>4, SettleCharges DEF DispatchIdle, IInv
<1>5. CASE Reaps
  BY <1>5 DEF Reaps, Reap, IInv, Sound, State, KeepsCharges
<1>6. CASE Elapses
  BY <1>6 DEF Elapses, Elapse, IInv, Sound, State, KeepsCharges
<1> QED
  BY <1>2, <1>3, <1>4, <1>5, <1>6, SettledCharges DEF Others

LEMMA LedgerStep ==
    ASSUME LInv, LedgerNext
    PROVE  LInv'
<1>1. /\ issued \in 0 .. UsedCap /\ UsedCap \in Nat \ {0}
      /\ st.SustainedUsed \in Nat /\ issued <= st.SustainedUsed
      /\ st.SustainedLeft \in Int
  BY CapsAssumption DEF LInv, IInv, Sound, State
<1>2. QuotaNext
  BY DEF LedgerNext, QuotaNext
<1>3. IInv' /\ st'.SustainedUsed \in Nat /\ st'.SustainedLeft \in Int
  BY <1>2, NextStep DEF LInv, IInv, Sound, State
<1>4. CASE Grants /\ issued' = AtMost(Carried + 1, UsedCap)
  <2>1. PICK x \in State : /\ KeepsCharges(st, x)
                           /\ st'.SustainedLeft = x.SustainedLeft
                           /\ st'.SustainedUsed = AtMost(x.SustainedUsed + 1, UsedCap)
    BY <1>4, GrantsCharge DEF LInv
  <2>2. x.SustainedUsed \in Nat
    BY DEF State
  <2>3. Carried \in 0 .. UsedCap /\ Carried <= x.SustainedUsed
    BY <1>1, <2>1, <2>2 DEF Carried, KeepsCharges
  <2> QED
    BY <1>1, <1>3, <1>4, <2>1, <2>2, <2>3 DEF LInv, AtMost
<1>5. CASE Others /\ issued' = Carried
  <2>1. KeepsCharges(st, st')
    BY <1>5, OthersKeepCharges DEF LInv
  <2>2. Carried \in 0 .. UsedCap /\ Carried <= st'.SustainedUsed
    BY <1>1, <1>3, <2>1 DEF Carried, KeepsCharges
  <2> QED
    BY <1>3, <1>5, <2>2 DEF LInv
<1>6. CASE Penalties /\ issued' = 0
  BY <1>1, <1>3, <1>6 DEF LInv
<1> QED
  BY <1>4, <1>5, <1>6 DEF LedgerNext

-----------------------------------------------------------------------------
(* The tickets really issued in a sustained window, on whatever paths, are *)
(* never more than its allowance.                                          *)
THEOREM TicketsAllCharged == LedgerSpec => []TicketsWithinAllowance
<1>1. LedgerInit => LInv
  <2> SUFFICES ASSUME LedgerInit PROVE LInv
    OBVIOUS
  <2>1. Sound(st)
    BY NewSound, InputsAssumption DEF LedgerInit, QuotaInit, RawConfig
  <2> QED
    BY <2>1, CapsAssumption DEF LInv, IInv, Sound, State, LedgerInit
<1>2. LInv /\ [LedgerNext]_<<st, issued>> => LInv'
  <2> SUFFICES ASSUME LInv, [LedgerNext]_<<st, issued>> PROVE LInv'
    OBVIOUS
  <2>1. CASE LedgerNext
    BY <2>1, LedgerStep
  <2>2. CASE UNCHANGED <<st, issued>>
    BY <2>2 DEF LInv, IInv
  <2> QED
    BY <2>1, <2>2
<1>3. LInv => TicketsWithinAllowance
  <2> SUFFICES ASSUME LInv PROVE TicketsWithinAllowance
    OBVIOUS
  <2>1. st.Calibrated /\ st.SustainedLeft >= 0 => st.SustainedUsed <= st.SustainedLimit
    BY DEF LInv, IInv, Sound
  <2> QED
    BY <2>1 DEF LInv, IInv, Sound, State, TicketsWithinAllowance
<1> QED
  BY <1>1, <1>2, <1>3, PTL DEF LedgerSpec
=============================================================================
