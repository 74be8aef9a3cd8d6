---------------------------- MODULE UpstreamProofs ----------------------------
(***************************************************************************)
(* What CAS may conclude of NationStates' bucket and of its penalties, for *)
(* any number of appliances, any limits and any faults, as long as reports *)
(* are processed in the order of the calls (Orderly).  Each appliance's    *)
(* call in flight carries a bound of its own: Tally is inductive.          *)
(***************************************************************************)
EXTENDS Upstream, QuotaProofs, FiniteSetTheorems

HeldCall ==
    [phase : {"held"}, ticket : {TRUE}, age : Nat, expected : Int,
     known : BOOLEAN, foreseen : SUBSET Appliances, foreign : 0 .. Limit]

AnsweredCall ==
    [phase : {"answered"}, ticket : {TRUE}, age : Nat, expected : Int,
     known : BOOLEAN, foreign : 0 .. Limit, accepted : BOOLEAN, remaining : Nat,
     retryAfter : Nat, present : BOOLEAN, lag : Nat, clean : BOOLEAN]

LostCall == [phase : {"dead", "lost"}, ticket : {TRUE}, age : Nat]

StrayCall == [phase : {"stray"}, ticket : {FALSE}]

Call == {Idle} \cup StrayCall \cup HeldCall \cup AnsweredCall \cup LostCall

(* Calls NationStates has counted and CAS has not heard of ... *)
Uncounted == {a \in Appliances : call[a].phase \in {"answered", "lost"}}

(* ... and those among them counted after b's, or of which nobody knows.   *)
Later(b) ==
    {a \in Appliances : \/ call[a].phase = "lost"
                        \/ call[a].phase = "answered" /\ b \in ahead[a]}

UpstreamTypeOK ==
    /\ ns \in [remaining : 0 .. Limit, left : Nat, penalty : Nat]
    /\ call \in [Appliances -> Call]
    /\ ahead \in [Appliances -> SUBSET Appliances]
    /\ fresh \in BOOLEAN /\ told \in BOOLEAN

(* A ticket is reaped only after its appliance has crashed. *)
Punctual ==
    \A a \in Appliances : call[a].phase \in {"held", "answered"} => call[a].age <= Expiry

(* The answers on their way, in one order *)
Lined ==
    /\ \A a \in Appliances : ahead[a] \subseteq With("answered")
    /\ \A a, b \in With("answered") : a = b \/ a \in ahead[b] \/ b \in ahead[a]

(* CAS's figure, a figure on its way, and a figure that was handed out:    *)
(* each is off by no more than the calls it cannot know of.                *)
FreshTally == fresh => st.LocalRemaining <= Bucket + Cardinality(Uncounted)

AnswerTally ==
    \A b \in With("answered") :
        call[b].clean => call[b].remaining <= Bucket + Cardinality(Later(b))

HeldTally ==
    \A b \in With("held") : call[b].known =>
        /\ call[b].expected < Limit
        /\ \/ call[b].expected + 1 + Cardinality(call[b].foreseen) <= Bucket + call[b].foreign
           \/ call[b].foreign = Limit

(* What 429s on their way say, and in which order *)
Warned ==
    /\ \A b \in With("answered") : ~call[b].accepted =>
          /\ call[b].retryAfter > 0
          /\ call[b].present => call[b].retryAfter >= ns.penalty
          /\ told => call[b].present
    /\ \A a, b \in With("answered") :
          a \in ahead[b] /\ call[a].present /\ ~call[b].accepted => call[b].present

Slots == st.InFlight = Cardinality(Ticketed)

Tally ==
    /\ IInv /\ UpstreamTypeOK /\ Slots /\ Punctual /\ Lined
    /\ FreshTally /\ AnswerTally /\ HeldTally /\ ImpliedUseIsForeign
    /\ Warned /\ LockdownOutlastsPenalty

-----------------------------------------------------------------------------
(* What each operation on the State does to the figure, the slots and a    *)
(* penalty being served                                                    *)

LockKept(s, t) ==
    Locked(s) => t.LockdownActive /\ t.LockdownLeft = s.LockdownLeft

LEMMA DemandFigure ==
    ASSUME NEW s, Sound(s), NEW c, NEW n \in Demands
    PROVE  LET t == NoteDemand(s, c, n) IN
           /\ Sound(t) /\ t.InFlight = s.InFlight
           /\ t.LocalRemaining = s.LocalRemaining
           /\ t.LockdownActive = s.LockdownActive
           /\ t.LockdownLeft = s.LockdownLeft
           /\ Assumes(t) = Assumes(s)
<1> DEFINE t == NoteDemand(s, c, n)
<1>1. s \in State /\ n \in Nat
  BY Inputs DEF Sound
<1>2. t \in State /\ SameBudget(s, t) /\ Sound(t)
  BY <1>1, NoteDemandType, SoundFrame
<1>3. SameView(s, t)
  BY DemandView
<1> HIDE DEF t
<1>4. Assumes(t) = Assumes(s)
  BY <1>1, <1>2, <1>3 DEF Assumes, LiftLockdown, Locked, SameView, SameBudget, State
<1> QED
  BY <1>2, <1>3, <1>4 DEF SameBudget, SameView, t

LEMMA SettleFigure ==
    ASSUME NEW s, Sound(s)
    PROVE  LET t == Settle(s) IN
           /\ Sound(t) /\ t.InFlight = s.InFlight
           /\ ~Assumes(s) => t.LocalRemaining = s.LocalRemaining
           /\ LockKept(s, t)
<1> DEFINE a == LiftLockdown(s)
           b == refreshRemaining(a)
           t == Settle(s)
<1>1. /\ Sound(t) /\ t.InFlight = s.InFlight
      /\ Locked(s) => t = s
  BY SettleSound
<1>2. ASSUME ~Assumes(s)
      PROVE  t.LocalRemaining = s.LocalRemaining
  <2>1. CASE Locked(s)
    BY <1>1, <2>1
  <2>2. CASE ~Locked(s)
    <3>1. a \in State /\ a.LocalRemaining = s.LocalRemaining
      <4>1. a \in State
        BY LiftLockdownSound DEF Sound
      <4>2. a.LocalRemaining = s.LocalRemaining
        BY DEF LiftLockdown, Sound, State
      <4> QED
        BY <4>1, <4>2
    <3>2. s.Calibrated => a.WindowActive /\ a.WindowLeft > 0
      BY <1>2, <2>2 DEF Assumes
    <3>3. CASE ~s.Calibrated
      BY <2>2, <3>1, <3>3 DEF Settle
    <3>4. CASE s.Calibrated
      <4>1. t = rollSustainedWindow(b)
        BY <2>2, <3>4 DEF Settle
      <4> HIDE DEF a, t
      <4>2. b = a
        BY <3>2, <3>4 DEF refreshRemaining
      <4> QED
        BY <3>1, <4>1, <4>2 DEF rollSustainedWindow, State
    <3> QED
      BY <3>3, <3>4
  <2> QED
    BY <2>1, <2>2
<1>3. LockKept(s, t)
  BY <1>1 DEF LockKept, Locked
<1> QED
  BY <1>1, <1>2, <1>3

LEMMA GrantFigure ==
    ASSUME NEW s, Sound(s), CanDispatch(s)
    PROVE  LET t == Issue(Settle(s)) IN
           /\ Sound(t) /\ t.InFlight = s.InFlight + 1
           /\ ~Assumes(s) => t.LocalRemaining = s.LocalRemaining
           /\ ~Locked(s)
<1> DEFINE u == Settle(s)
           t == Issue(u)
<1>1. Sound(t) /\ ~Locked(s)
  BY GrantRespects, DispatchOpen
<1>2. /\ u \in State /\ u.InFlight = s.InFlight
      /\ ~Assumes(s) => u.LocalRemaining = s.LocalRemaining
  BY SettleFigure DEF Sound
<1> HIDE DEF u
<1>3. t.InFlight = u.InFlight + 1 /\ t.LocalRemaining = u.LocalRemaining
  BY <1>2 DEF Issue, DeductSustained, State
<1> QED
  BY <1>1, <1>2, <1>3 DEF u

(* A report that carries a figure replaces CAS's by no more than that.     *)
LEMMA HeadersFigure ==
    ASSUME NEW s, Sound(s), s.Calibrated, NEW h \in Header, h.remaining >= 0,
           NEW lag \in Int
    PROVE  NoteHeaders(s, h, lag).LocalRemaining <= h.remaining
<1> DEFINE bucket == IF h.limit > 0 THEN h.limit ELSE s.BucketLimit
           policy == IF h.policy > 0 THEN h.policy ELSE s.PolicyWindowSec
           s1 == [s EXCEPT !.BucketLimit = bucket, !.PolicyWindowSec = policy]
           stale == WasStale(s1, lag)
           s2 == IF ~s1.Calibrated \/ stale THEN ResetClassBudgets(s1) ELSE s1
           capped == Capped(s2, h)
           s3 == IF ~Opened(s2, h, stale) THEN [s2 EXCEPT !.LocalRemaining = capped]
                 ELSE [s2 EXCEPT !.LocalRemaining = capped,
                                 !.WindowActive = TRUE,
                                 !.WindowLeft = Horizon(s2, lag),
                                 !.windowOpened = TRUE]
<1>1. s1 \in State
  <2>1. s \in State /\ bucket \in Nat \ {0} /\ policy \in Nat \ {0}
    BY DEF Sound, State, Header
  <2> HIDE DEF bucket, policy
  <2> QED
    BY <2>1 DEF State
<1>2. NoteHeaders(s, h, lag) = [s3 EXCEPT !.Calibrated = TRUE]
  <2>1. ~(h.remaining < 0)
    BY DEF Header
  <2> QED
    BY <2>1 DEF NoteHeaders
<1> HIDE DEF s1, stale
<1>3. s2 \in State
  BY <1>1, ResetClassBudgetsType
<1> HIDE DEF s2
<1>4. capped \in Int /\ capped <= h.remaining
  BY <1>3 DEF Capped, AtMost, State, Header
<1> HIDE DEF capped
<1>5. s3.LocalRemaining = capped /\ [s3 EXCEPT !.Calibrated = TRUE].LocalRemaining = capped
  BY <1>3 DEF State
<1> QED
  BY <1>2, <1>4, <1>5

LEMMA ReportFigure ==
    ASSUME NEW s, Sound(s), s.InFlight > 0, NEW h \in Header, h.remaining >= 0,
           NEW lag \in Int
    PROVE  LET t == ProcessReport(s, h, lag) IN
           /\ Sound(t) /\ t.InFlight = s.InFlight - 1
           /\ t.LocalRemaining <= h.remaining
           /\ t.LockdownActive = s.LockdownActive
           /\ t.LockdownLeft = s.LockdownLeft
<1> DEFINE a == Reported(s, h)
           b == NoteHeaders(a, h, lag)
<1>1. Sound(a) /\ a.Calibrated
  BY ReportedSound
<1> HIDE DEF a
<1>2. b.LocalRemaining <= h.remaining /\ b \in State
  BY <1>1, HeadersFigure, NoteHeadersSound DEF Sound
<1>3. ProcessReport(s, h, lag) = [b EXCEPT !.windowOpened = FALSE]
  BY DEF ProcessReport, a
<1> HIDE DEF b
<1>4. [b EXCEPT !.windowOpened = FALSE].LocalRemaining = b.LocalRemaining
  BY <1>2 DEF State
<1> QED
  BY <1>2, <1>3, <1>4, ProcessReportSound

LEMMA PenaltyFigure ==
    ASSUME NEW s, Sound(s), s.InFlight > 0, NEW h \in Header, h.remaining >= 0,
           NEW lag \in Int, NEW ra \in Nat, ra > 0
    PROVE  LET t == ProcessPenalty(s, h, lag, ra) IN
           /\ Sound(t) /\ t.InFlight = s.InFlight - 1
           /\ t.LocalRemaining <= h.remaining
           /\ t.LockdownActive /\ t.LockdownLeft = ra
<1> DEFINE a == Reported(s, h)
           b == NoteHeaders(a, h, lag)
           t == NotePenalty(b, ra)
<1>1. Sound(a) /\ a.Calibrated
  BY ReportedSound
<1> HIDE DEF a
<1>2. b.LocalRemaining <= h.remaining /\ b \in State
  BY <1>1, HeadersFigure, NoteHeadersSound DEF Sound
<1>3. ProcessPenalty(s, h, lag, ra) = t
  BY DEF ProcessPenalty, a
<1> HIDE DEF b
<1>4. PenaltyWindow(b, ra) = ra
  BY DEF PenaltyWindow, Positive
<1>5. t.LocalRemaining = b.LocalRemaining /\ t.LockdownLeft = ra
  BY <1>2, <1>4 DEF NotePenalty, State
<1> QED
  BY <1>2, <1>3, <1>5, ProcessPenaltySound

-----------------------------------------------------------------------------
(* Sets of appliances, and what the phase of a call tells of it *)

LEMMA Sized ==
    ASSUME NEW S \in SUBSET Appliances
    PROVE  /\ IsFiniteSet(S) /\ Cardinality(S) \in Nat
           /\ \A T \in SUBSET S : Cardinality(T) <= Cardinality(S)
           /\ \A x \in S : Cardinality(S \ {x}) = Cardinality(S) - 1
           /\ \A x \in Appliances \ S : Cardinality(S \cup {x}) = Cardinality(S) + 1
<1>1. IsFiniteSet(S)
  BY UpstreamAssumption, FS_Subset
<1> QED
  BY <1>1, FS_Subset, FS_CardinalityType, FS_RemoveElement, FS_AddElement

LEMMA ShapeOf ==
    ASSUME NEW c \in Call
    PROVE  /\ c.phase \in {"idle", "held", "stray", "answered", "dead", "lost"}
           /\ c.ticket \in BOOLEAN
           /\ c.ticket <=> c.phase \in {"held", "answered", "dead", "lost"}
           /\ c.phase = "idle" => c = Idle
           /\ c.phase = "held" => c \in HeldCall
           /\ c.phase = "answered" => c \in AnsweredCall
           /\ c.phase \in {"dead", "lost"} => c \in LostCall
<1>1. CASE c = Idle
  BY <1>1 DEF Idle
<1>2. CASE c \in StrayCall
  BY <1>2 DEF StrayCall
<1>3. CASE c \in HeldCall
  BY <1>3 DEF HeldCall
<1>4. CASE c \in AnsweredCall
  BY <1>4 DEF AnsweredCall
<1>5. CASE c \in LostCall
  BY <1>5 DEF LostCall
<1> QED
  BY <1>1, <1>2, <1>3, <1>4, <1>5 DEF Call

LEMMA CallConstant == Call' = Call
BY DEF Call, Idle, StrayCall, HeldCall, AnsweredCall, LostCall

LEMMA CallShape ==
    UpstreamTypeOK =>
        \A a \in Appliances :
            /\ call[a] \in Call
            /\ call[a].phase \in {"idle", "held", "stray", "answered", "dead", "lost"}
            /\ call[a].ticket \in BOOLEAN
            /\ call[a].ticket <=> call[a].phase \in {"held", "answered", "dead", "lost"}
            /\ call[a].phase = "idle" => call[a] = Idle
            /\ call[a].phase = "held" => call[a] \in HeldCall
            /\ call[a].phase = "answered" => call[a] \in AnsweredCall
            /\ call[a].phase \in {"dead", "lost"} => call[a] \in LostCall
BY ShapeOf DEF UpstreamTypeOK

LEMMA BucketShape ==
    UpstreamTypeOK =>
        /\ Bucket \in 0 .. Limit /\ ns.remaining <= Bucket /\ ns.remaining \in Nat
        /\ ns.left \in Nat /\ ns.penalty \in Nat
BY UpstreamAssumption DEF UpstreamTypeOK, Bucket

(* What is out is about to call, or has been counted, or never will be.    *)
LEMMA NoOvercommit ==
    IInv /\ UpstreamTypeOK /\ Slots /\ FreshTally => NeverOvercommits
<1> SUFFICES ASSUME IInv, UpstreamTypeOK, Slots, FreshTally, fresh
    PROVE  st.LocalRemaining - st.InFlight <= Bucket - Cardinality(With("held"))
  BY DEF NeverOvercommits
<1>1. /\ With("held") \in SUBSET Appliances /\ Uncounted \in SUBSET Appliances
      /\ Ticketed \in SUBSET Appliances
      /\ With("held") \cup Uncounted \in SUBSET Ticketed
      /\ With("held") \cap Uncounted = {}
  BY CallShape DEF With, Uncounted, Ticketed
<1> DEFINE H == With("held")
           U == Uncounted
           T == Ticketed
<1> HIDE DEF H, U, T
<1>2. /\ IsFiniteSet(H) /\ IsFiniteSet(U) /\ IsFiniteSet(T)
      /\ Cardinality(H) \in Nat /\ Cardinality(U) \in Nat /\ Cardinality(T) \in Nat
      /\ Cardinality(H \cup U) <= Cardinality(T)
  BY <1>1, Sized DEF H, U, T
<1>3. Cardinality(H \cup U) = Cardinality(H) + Cardinality(U)
  <2>1. Cardinality(H \cup U) = Cardinality(H) + Cardinality(U) - Cardinality(H \cap U)
    BY <1>2, FS_Union
  <2>2. Cardinality(H \cap U) = 0
    BY <1>1, FS_EmptySet DEF H, U
  <2> QED
    BY <1>2, <2>1, <2>2
<1>4. /\ st.InFlight = Cardinality(T)
      /\ st.LocalRemaining <= Bucket + Cardinality(U)
      /\ st.LocalRemaining \in Int /\ Bucket \in Int
  BY BucketShape DEF Slots, FreshTally, IInv, Sound, State, T, U
<1> QED
  BY <1>2, <1>3, <1>4 DEF H

-----------------------------------------------------------------------------
(* Parts of Tally that several steps leave to the same argument *)

LEMMA StayLocked ==
    ASSUME Tally, LockKept(st, st'), told' => told, ns'.penalty <= ns.penalty,
           ns'.penalty \in Nat
    PROVE  LockdownOutlastsPenalty'
<1>1. /\ st \in State /\ ns.penalty \in Nat
      /\ told /\ ns.penalty > 0 => st.LockdownActive /\ st.LockdownLeft >= ns.penalty
  BY BucketShape DEF Tally, IInv, Sound, LockdownOutlastsPenalty
<1>2. st.LockdownLeft \in Nat
  BY <1>1 DEF State
<1> QED
  BY <1>1, <1>2 DEF LockKept, Locked, LockdownOutlastsPenalty

(* An open gate means that no penalty CAS knows of is being served. *)
LEMMA OpenGate ==
    ASSUME Tally, ~Locked(st)
    PROVE  told => ns.penalty = 0
<1>1. /\ st \in State /\ ns.penalty \in Nat
      /\ told /\ ns.penalty > 0 => st.LockdownActive /\ st.LockdownLeft >= ns.penalty
  BY BucketShape DEF Tally, IInv, Sound, LockdownOutlastsPenalty
<1>2. st.LockdownLeft \in Nat
  BY <1>1 DEF State
<1> QED
  BY <1>1, <1>2 DEF Locked

(* The figure a ticket goes out with leaves room for every call to come.   *)
LEMMA NewCallTally ==
    ASSUME Tally, IInv', UpstreamTypeOK', Slots', FreshTally',
           NEW a \in Appliances, call[a].phase # "held",
           With("held")' = With("held") \cup {a}, Bucket' = Bucket, fresh'
    PROVE  /\ NewCall.expected < Limit
           /\ NewCall.expected + 1 + Cardinality(NewCall.foreseen)
                <= Bucket' + NewCall.foreign
<1>1. NeverOvercommits'
  BY NoOvercommit, PTL
<1>2. Cardinality(With("held")') = Cardinality(With("held")) + 1
  BY Sized DEF With
<1>3. /\ st'.LocalRemaining \in Int /\ st'.InFlight \in Int
      /\ Bucket' \in 0 .. Limit /\ Cardinality(With("held")) \in Nat
  BY BucketShape, Sized DEF IInv, Sound, State, With, Tally
<1>4. /\ NewCall.expected = st'.LocalRemaining - st'.InFlight
      /\ NewCall.foreseen = With("held") /\ NewCall.foreign = 0
  BY DEF NewCall, Expects
<1> QED
  BY <1>1, <1>2, <1>3, <1>4, UpstreamAssumption DEF NeverOvercommits

-----------------------------------------------------------------------------
(* Grants and refusals *)

LEMMA RefuseStep ==
    ASSUME Tally, NEW c \in RawClasses, NEW n \in Demands, Refuse(c, n)
    PROVE  Tally'
<1>1. /\ IInv' /\ st'.InFlight = st.InFlight
      /\ ~Assumes(st) => st'.LocalRemaining = st.LocalRemaining
      /\ LockKept(st, st')
  <2>1. CASE AcquireDeny(c, n)
    <3> DEFINE s == NoteDemand(st, c, n)
    <3>1. /\ Sound(s) /\ s.InFlight = st.InFlight
          /\ s.LocalRemaining = st.LocalRemaining
          /\ s.LockdownActive = st.LockdownActive /\ s.LockdownLeft = st.LockdownLeft
          /\ Assumes(s) = Assumes(st)
      BY DemandFigure DEF Tally, IInv
    <3>2. st' = Settle(s)
      BY <2>1 DEF AcquireDeny
    <3> HIDE DEF s
    <3>3. /\ Sound(Settle(s)) /\ Settle(s).InFlight = s.InFlight
          /\ ~Assumes(s) => Settle(s).LocalRemaining = s.LocalRemaining
          /\ LockKept(s, Settle(s))
      BY <3>1, SettleFigure
    <3> QED
      BY <3>1, <3>2, <3>3 DEF IInv, LockKept, Locked
  <2>2. CASE DispatchIdle
    BY <2>2, SettleFigure DEF Tally, IInv, DispatchIdle
  <2> QED
    BY <2>1, <2>2 DEF Refuse
<1>2. /\ UNCHANGED <<ns, call, ahead, told>>
      /\ fresh' \in BOOLEAN /\ (fresh' => fresh /\ ~Assumes(st))
  BY DEF Refuse
<1>3. UpstreamTypeOK'
  BY <1>2, CallConstant DEF Tally, UpstreamTypeOK
<1>4. Punctual' /\ Lined' /\ ImpliedUseIsForeign'
  BY <1>2 DEF Tally, Punctual, Lined, With, ImpliedUseIsForeign
<1>5. AnswerTally' /\ HeldTally'
  BY <1>2 DEF Tally, AnswerTally, HeldTally, With, Bucket, Later
<1>6. Slots' /\ FreshTally'
  BY <1>1, <1>2 DEF Tally, Slots, Ticketed, FreshTally, Uncounted, Bucket
<1>7. Warned'
  BY <1>2 DEF Tally, Warned, With
<1>8. LockdownOutlastsPenalty'
  BY <1>1, <1>2, StayLocked, BucketShape DEF Tally
<1> QED
  BY <1>1, <1>3, <1>4, <1>5, <1>6, <1>7, <1>8 DEF Tally

LEMMA HeldCallNew ==
    ASSUME IInv', fresh' \in BOOLEAN
    PROVE  /\ NewCall \in Call /\ NewCall \in HeldCall
           /\ NewCall.phase = "held" /\ NewCall.ticket /\ NewCall.age = 0
           /\ NewCall.known = fresh'
<1>1. With("held") \in SUBSET Appliances /\ Expects(st') \in Int
  BY DEF With, Expects, IInv, Sound, State
<1>2. NewCall \in HeldCall
  BY <1>1, UpstreamAssumption DEF NewCall, HeldCall
<1> QED
  BY <1>2 DEF NewCall, Call

(* An appliance without anything on its way is about to call. *)
LEMMA AcquireStep ==
    ASSUME Tally, NEW a \in Appliances, NEW c \in RawClasses, NEW n \in Demands,
           Acquire(a, c, n)
    PROVE  Tally'
<1>1. /\ IInv' /\ st'.InFlight = st.InFlight + 1
      /\ ~Assumes(st) => st'.LocalRemaining = st.LocalRemaining
      /\ ~Locked(st)
  <2> DEFINE s == NoteDemand(st, c, n)
  <2>1. /\ Sound(s) /\ s.InFlight = st.InFlight
        /\ s.LocalRemaining = st.LocalRemaining
        /\ s.LockdownActive = st.LockdownActive /\ s.LockdownLeft = st.LockdownLeft
        /\ Assumes(s) = Assumes(st)
    BY DemandFigure DEF Tally, IInv
  <2>2. CanDispatch(s) /\ st' = Issue(Settle(s))
    BY DEF Acquire, AcquireGrant
  <2> HIDE DEF s
  <2> QED
    BY <2>1, <2>2, GrantFigure DEF IInv, Locked
<1>2. /\ UNCHANGED <<ns, ahead, told>>
      /\ fresh' \in BOOLEAN /\ (fresh' => fresh /\ ~Assumes(st))
      /\ call' = [call EXCEPT ![a] = NewCall]
      /\ call[a] = Idle
  BY DEF Acquire
<1>3. /\ call \in [Appliances -> Call] /\ call'[a] = NewCall
      /\ \A b \in Appliances \ {a} : call'[b] = call[b]
      /\ call[a].phase = "idle" /\ ~call[a].ticket
  BY <1>2 DEF Tally, UpstreamTypeOK, Idle
<1>4. /\ NewCall.phase = "held" /\ NewCall.ticket /\ NewCall.age = 0
      /\ NewCall.known = fresh' /\ NewCall \in HeldCall
  BY <1>1, <1>2, HeldCallNew
<1>5. UpstreamTypeOK'
  BY <1>2, <1>4, CallConstant DEF Tally, UpstreamTypeOK, Call
<1>6. /\ With("answered")' = With("answered") /\ Uncounted' = Uncounted
      /\ With("held")' = With("held") \cup {a} /\ a \notin With("held")
      /\ Ticketed' = Ticketed \cup {a} /\ a \notin Ticketed
      /\ Bucket' = Bucket /\ \A b : Later(b)' = Later(b)
  BY <1>2, <1>3, <1>4 DEF With, Uncounted, Ticketed, Bucket, Later
<1>7. Slots'
  BY <1>1, <1>6, Sized DEF Tally, Slots, Ticketed
<1>8. FreshTally'
  BY <1>1, <1>2, <1>6 DEF Tally, FreshTally
<1>9. \A b \in With("answered") : b \in Appliances /\ b # a /\ call'[b] = call[b]
  BY <1>3 DEF With
<1>10. Punctual'
  BY <1>3, <1>4, UpstreamAssumption DEF Tally, Punctual
<1>11. Lined' /\ Warned' /\ ImpliedUseIsForeign' /\ AnswerTally'
  BY <1>2, <1>6, <1>9 DEF Tally, Lined, Warned, ImpliedUseIsForeign, AnswerTally
<1>12. HeldTally'
  <2>1. fresh' => /\ NewCall.expected < Limit
                  /\ NewCall.expected + 1 + Cardinality(NewCall.foreseen)
                       <= Bucket' + NewCall.foreign
    BY <1>1, <1>3, <1>5, <1>6, <1>7, <1>8, NewCallTally
  <2>2. \A b \in With("held") : b \in Appliances /\ b # a /\ call'[b] = call[b]
    BY <1>3 DEF With
  <2> QED
    BY <1>3, <1>4, <1>6, <2>1, <2>2 DEF Tally, HeldTally
<1>13. LockdownOutlastsPenalty'
  BY <1>1, <1>2, OpenGate, BucketShape DEF LockdownOutlastsPenalty, Tally
<1> QED
  BY <1>1, <1>5, <1>7, <1>8, <1>10, <1>11, <1>12, <1>13 DEF Tally

-----------------------------------------------------------------------------
(* Calls counted by NationStates *)

(* d is c, as far as the answer goes. *)
SameAnswer(c, d) ==
    /\ d.age = c.age /\ d.expected = c.expected /\ d.known = c.known
    /\ d.foreign = c.foreign /\ d.accepted = c.accepted
    /\ d.remaining = c.remaining /\ d.retryAfter = c.retryAfter

LEMMA NoticedShape ==
    ASSUME UpstreamTypeOK, NEW b \in Appliances, NEW x
    PROVE  LET c == call[b]
               d == Noticed(b, x) IN
           /\ d \in Call /\ d.phase = c.phase /\ d.ticket = c.ticket
           /\ c.phase = "held" =>
                 /\ d.age = c.age /\ d.expected = c.expected /\ d.known = c.known
                 /\ \/ /\ x \in c.foreseen /\ d.foreseen = c.foreseen \ {x}
                       /\ d.foreign = c.foreign
                    \/ /\ x \notin c.foreseen /\ d.foreseen = c.foreseen
                       /\ d.foreign = AtMost(c.foreign + 1, Limit)
           /\ c.phase = "answered" =>
                 /\ SameAnswer(c, d) /\ d.present = c.present
                 /\ IF x \in Ticketed THEN d = c ELSE ~d.clean
<1> DEFINE c == call[b]
           d == Noticed(b, x)
<1>1. /\ c \in Call
      /\ c.phase = "held" => c \in HeldCall
      /\ c.phase = "answered" => c \in AnsweredCall
  BY CallShape
<1>2. CASE c.phase = "held"
  <2>1. c \in HeldCall
    BY <1>1, <1>2
  <2>2. d = IF x \in c.foreseen THEN [c EXCEPT !.foreseen = @ \ {x}]
            ELSE [c EXCEPT !.foreign = AtMost(@ + 1, Limit)]
    BY <1>2 DEF Noticed
  <2> HIDE DEF c, d
  <2>3. c.foreseen \in SUBSET Appliances /\ AtMost(c.foreign + 1, Limit) \in 0 .. Limit
    BY <2>1, UpstreamAssumption DEF HeldCall, AtMost
  <2>4. d \in HeldCall
    BY <2>1, <2>2, <2>3 DEF HeldCall
  <2>5. /\ d.age = c.age /\ d.expected = c.expected /\ d.known = c.known
        /\ d.phase = c.phase /\ d.ticket = c.ticket
        /\ \/ /\ x \in c.foreseen /\ d.foreseen = c.foreseen \ {x}
              /\ d.foreign = c.foreign
           \/ /\ x \notin c.foreseen /\ d.foreseen = c.foreseen
              /\ d.foreign = AtMost(c.foreign + 1, Limit)
    BY <2>1, <2>2 DEF HeldCall
  <2> QED
    BY <1>2, <2>4, <2>5 DEF Call, c, d
<1>3. CASE c.phase = "answered"
  <2>1. c \in AnsweredCall
    BY <1>1, <1>3
  <2>2. d = IF x \in Ticketed THEN c ELSE [c EXCEPT !.clean = FALSE]
    BY <1>3 DEF Noticed, Blurred
  <2> HIDE DEF c, d
  <2>3. d \in AnsweredCall /\ SameAnswer(c, d) /\ d.present = c.present
    BY <2>1, <2>2 DEF AnsweredCall, SameAnswer
  <2>4. d.phase = c.phase /\ d.ticket = c.ticket
    BY <2>1, <2>2 DEF AnsweredCall
  <2>5. IF x \in Ticketed THEN d = c ELSE ~d.clean
    BY <2>1, <2>2 DEF AnsweredCall
  <2> QED
    BY <1>3, <2>3, <2>4, <2>5 DEF Call, c, d
<1>4. CASE c.phase \notin {"held", "answered"}
  <2>1. d = c
    BY <1>4 DEF Noticed, Blurred
  <2> QED
    BY <1>1, <1>4, <2>1
<1> QED
  BY <1>2, <1>3, <1>4

(* A call of x uses one of the bucket up. *)
LEMMA CountedShape ==
    ASSUME UpstreamTypeOK, Accepts, ns' = Counted
    PROVE  /\ ns' \in [remaining : 0 .. Limit, left : Nat, penalty : Nat]
           /\ Bucket' = Bucket - 1 /\ ns'.remaining = Bucket'
           /\ ns'.penalty = ns.penalty
<1>1. Bucket \in 0 .. Limit /\ Bucket > 0 /\ ns.left \in Nat
  BY BucketShape DEF Accepts
<1>2. ns \in [remaining : 0 .. Limit, left : Nat, penalty : Nat]
  BY DEF UpstreamTypeOK
<1> DEFINE r == Bucket - 1
           l == IF ns.left = 0 THEN Period ELSE ns.left
<1>3. r \in 0 .. Limit /\ l \in Nat \ {0}
  BY <1>1, UpstreamAssumption
<1>4. ns' = [ns EXCEPT !.remaining = r, !.left = l]
  BY <1>2 DEF Counted
<1> HIDE DEF r, l
<1>5. /\ ns' \in [remaining : 0 .. Limit, left : Nat, penalty : Nat]
      /\ ns'.remaining = r /\ ns'.left = l /\ ns'.penalty = ns.penalty
  BY <1>2, <1>3, <1>4
<1>6. Bucket' = r
  BY <1>3, <1>5 DEF Bucket
<1> QED
  BY <1>5, <1>6 DEF r

(* ... which an appliance about to call has foreseen, or takes note of.    *)
LEMMA HeldNotices ==
    ASSUME Tally, Bucket' = Bucket - 1, NEW x, NEW b \in With("held"),
           call'[b] = Noticed(b, x), call[b].known
    PROVE  /\ call'[b].expected < Limit
           /\ \/ call'[b].expected + 1 + Cardinality(call'[b].foreseen)
                   <= Bucket' + call'[b].foreign
              \/ call'[b].foreign = Limit
<1> DEFINE c == call[b]
           d == call'[b]
<1>1. b \in Appliances /\ c.phase = "held" /\ c \in HeldCall /\ Bucket \in Int
  BY CallShape, BucketShape DEF With, Tally
<1>2. /\ d.expected = c.expected
      /\ \/ /\ x \in c.foreseen /\ d.foreseen = c.foreseen \ {x}
            /\ d.foreign = c.foreign
         \/ /\ x \notin c.foreseen /\ d.foreseen = c.foreseen
            /\ d.foreign = AtMost(c.foreign + 1, Limit)
  BY <1>1, NoticedShape DEF Tally
<1>3. /\ c.expected < Limit
      /\ \/ c.expected + 1 + Cardinality(c.foreseen) <= Bucket + c.foreign
         \/ c.foreign = Limit
  BY DEF Tally, HeldTally
<1> HIDE DEF c, d
<1>4. /\ c.expected \in Int /\ c.foreign \in 0 .. Limit
      /\ Cardinality(c.foreseen) \in Nat
      /\ x \in c.foreseen => Cardinality(c.foreseen \ {x}) = Cardinality(c.foreseen) - 1
  BY <1>1, Sized DEF HeldCall
<1>5. CASE x \in c.foreseen /\ d.foreseen = c.foreseen \ {x} /\ d.foreign = c.foreign
  <2>1. Cardinality(d.foreseen) = Cardinality(c.foreseen) - 1
    BY <1>4, <1>5
  <2> QED
    BY <1>1, <1>2, <1>3, <1>4, <1>5, <2>1 DEF d
<1>6. CASE d.foreseen = c.foreseen /\ d.foreign = AtMost(c.foreign + 1, Limit)
  <2>1. d.foreign = c.foreign + 1 \/ d.foreign = Limit
    BY <1>6 DEF AtMost
  <2>2. Cardinality(d.foreseen) = Cardinality(c.foreseen)
    BY <1>6
  <2>3. c.foreign = Limit => d.foreign = Limit
    BY <1>6, UpstreamAssumption DEF AtMost
  <2> QED
    BY <1>1, <1>2, <1>3, <1>4, <2>1, <2>2, <2>3 DEF d
<1> QED
  BY <1>2, <1>5, <1>6

LEMMA AnswerShape ==
    ASSUME UpstreamTypeOK, NEW a \in Appliances, call[a].phase = "held",
           NEW accepted \in BOOLEAN,
           ns' \in [remaining : 0 .. Limit, left : Nat, penalty : Nat]
    PROVE  LET c == call[a]
               d == Answer(c, accepted) IN
           /\ d \in AnsweredCall /\ d.phase = "answered" /\ d.ticket
           /\ d.age = c.age /\ d.expected = c.expected /\ d.known = c.known
           /\ d.foreign = c.foreign /\ d.accepted = accepted
           /\ d.remaining = ns'.remaining /\ d.retryAfter = ns'.penalty
           /\ d.present = ~accepted
<1>1. call[a] \in HeldCall
  BY CallShape
<1>2. ns'.remaining \in Nat /\ ns'.penalty \in Nat /\ (~accepted) \in BOOLEAN
  OBVIOUS
<1>3. Answer(call[a], accepted) \in AnsweredCall
  BY <1>1, <1>2 DEF Answer, HeldCall, AnsweredCall
<1> QED
  BY <1>3 DEF Answer, AnsweredCall

(* A ticket's call, which everybody notices. *)
LEMMA TicketCallStep ==
    ASSUME Tally, NEW a \in Appliances, call[a].phase = "held", CallAccepted(a)
    PROVE  Tally'
<1>1. /\ UNCHANGED <<st, told>> /\ Accepts /\ ns' = Counted
      /\ fresh' = fresh /\ call[a].ticket /\ call[a] \in HeldCall
      /\ ahead' = [ahead EXCEPT ![a] = With("answered")]
  BY CallShape DEF CallAccepted, Calls, Tally, UpstreamTypeOK
<1>2. /\ ns' \in [remaining : 0 .. Limit, left : Nat, penalty : Nat]
      /\ Bucket' = Bucket - 1 /\ ns'.remaining = Bucket'
      /\ ns'.penalty = ns.penalty /\ Bucket \in 0 .. Limit
  BY <1>1, CountedShape, BucketShape DEF Tally
<1>3. /\ call' \in [Appliances -> Call]
      /\ call'[a] = Answer(call[a], TRUE)
      /\ \A b \in Appliances \ {a} : call'[b] = Noticed(b, a)
  <2>1. call' = [b \in Appliances |->
                   IF b = a THEN Answer(call[a], TRUE) ELSE Noticed(b, a)]
    BY DEF CallAccepted
  <2>2. Answer(call[a], TRUE) \in Call
    BY <1>2, AnswerShape DEF Tally, Call
  <2>3. \A b \in Appliances : Noticed(b, a) \in Call
    BY NoticedShape DEF Tally
  <2> QED
    BY <2>1, <2>2, <2>3
<1>4. UpstreamTypeOK'
  <2>1. With("answered") \in SUBSET Appliances
    BY DEF With
  <2> QED
    BY <1>1, <1>2, <1>3, <2>1, CallConstant DEF Tally, UpstreamTypeOK
<1>5. /\ call'[a] \in AnsweredCall /\ call'[a].phase = "answered" /\ call'[a].ticket
      /\ call'[a].age = call[a].age /\ call'[a].expected = call[a].expected
      /\ call'[a].known = call[a].known /\ call'[a].foreign = call[a].foreign
      /\ call'[a].accepted /\ ~call'[a].present /\ call'[a].remaining = Bucket'
  <2> DEFINE c == call[a]
             d == Answer(c, TRUE)
  <2>1. /\ d \in AnsweredCall /\ d.phase = "answered" /\ d.ticket
        /\ d.age = c.age /\ d.expected = c.expected /\ d.known = c.known
        /\ d.foreign = c.foreign /\ d.accepted = TRUE
        /\ d.remaining = ns'.remaining /\ d.present = ~TRUE
    BY <1>2, AnswerShape DEF Tally
  <2> HIDE DEF d
  <2> QED
    BY <1>2, <1>3, <2>1 DEF d
<1>6. a \in Ticketed
  BY <1>1 DEF Ticketed
<1>7. \A b \in Appliances \ {a} :
         /\ call'[b].phase = call[b].phase /\ call'[b].ticket = call[b].ticket
         /\ call[b].phase = "held" => call'[b].age = call[b].age
         /\ call[b].phase = "answered" => call'[b] = call[b]
  BY <1>3, <1>6, NoticedShape DEF Tally
<1>8. /\ With("answered")' = With("answered") \cup {a} /\ a \notin With("answered")
      /\ With("held")' = With("held") \ {a} /\ a \in With("held")
      /\ Uncounted' = Uncounted \cup {a} /\ a \notin Uncounted
      /\ Uncounted \in SUBSET Appliances
      /\ Ticketed' = Ticketed
  BY <1>1, <1>5, <1>7 DEF With, Uncounted, Ticketed
<1>9. Lined'
  BY <1>1, <1>8 DEF Tally, Lined, UpstreamTypeOK, With
<1>10. Slots' /\ IInv' /\ LockdownOutlastsPenalty'
  BY <1>1, <1>2, <1>8 DEF Tally, Slots, IInv, LockdownOutlastsPenalty
<1>11. Punctual'
  BY <1>5, <1>7 DEF Tally, Punctual
<1>12. FreshTally'
  <2>1. Cardinality(Uncounted') = Cardinality(Uncounted) + 1 /\ Cardinality(Uncounted) \in Nat
    BY <1>8, Sized
  <2>2. st.LocalRemaining \in Int /\ st'.LocalRemaining = st.LocalRemaining
    BY <1>1 DEF Tally, IInv, Sound, State
  <2> QED
    BY <1>1, <1>2, <2>1, <2>2 DEF Tally, FreshTally
<1>13. AnswerTally'
  <2> SUFFICES ASSUME NEW b \in With("answered")', call'[b].clean
      PROVE  call'[b].remaining <= Bucket' + Cardinality(Later(b)')
    BY DEF AnswerTally
  <2>1. /\ Later(b)' \in SUBSET Appliances /\ Later(b) \in SUBSET Appliances
        /\ Bucket' \in Int
    BY <1>2 DEF Later
  <2>2. Cardinality(Later(b)') \in Nat /\ Cardinality(Later(b)) \in Nat
    BY <2>1, Sized
  <2>3. CASE b = a
    BY <1>5, <2>1, <2>2, <2>3
  <2>4. CASE b # a
    <3>1. b \in With("answered") /\ b \in Appliances /\ call'[b] = call[b]
      BY <1>7, <1>8, <2>4 DEF With
    <3>2. a \notin Later(b)
      BY DEF Later
    <3>3. Later(b) \cup {a} \in SUBSET Later(b)'
      BY <1>1, <1>5, <1>7, <3>1, <2>4 DEF Later, Tally, UpstreamTypeOK
    <3>4. Cardinality(Later(b)) + 1 <= Cardinality(Later(b)')
      BY <2>1, <3>2, <3>3, Sized
    <3>5. call[b].remaining <= Bucket + Cardinality(Later(b)) /\ call[b].remaining \in Nat
      BY <3>1, CallShape DEF Tally, AnswerTally, With, AnsweredCall
    <3> QED
      BY <1>2, <2>2, <3>1, <3>4, <3>5
  <2> QED
    BY <2>3, <2>4
<1>14. HeldTally'
  <2> SUFFICES ASSUME NEW b \in With("held")', call'[b].known
      PROVE  /\ call'[b].expected < Limit
             /\ \/ call'[b].expected + 1 + Cardinality(call'[b].foreseen)
                     <= Bucket' + call'[b].foreign
                \/ call'[b].foreign = Limit
    BY DEF HeldTally
  <2>1. b \in With("held") /\ b \in Appliances \ {a} /\ call[b].phase = "held"
    BY <1>8 DEF With
  <2>2. call'[b] = Noticed(b, a) /\ call[b].known
    BY <1>3, <2>1, NoticedShape DEF Tally
  <2> QED
    BY <1>2, <2>1, <2>2, HeldNotices
<1>15. ImpliedUseIsForeign'
  <2> SUFFICES ASSUME NEW b \in With("answered")', call'[b].accepted, call'[b].known
      PROVE  Implied(call'[b]) = 0 \/ Implied(call'[b]) < call'[b].foreign
    BY DEF ImpliedUseIsForeign
  <2>1. CASE b = a
    <3>1. /\ call[a].expected < Limit
          /\ \/ call[a].expected + 1 + Cardinality(call[a].foreseen)
                  <= Bucket + call[a].foreign
             \/ call[a].foreign = Limit
      BY <1>5, <1>8, <2>1 DEF Tally, HeldTally
    <3>2. /\ call[a].expected \in Int /\ call[a].foreign \in 0 .. Limit
          /\ call[a].foreseen \in SUBSET Appliances
      BY <1>1 DEF HeldCall
    <3>3. Implied(call'[b]) = AtLeast(call[a].expected - 1 - Bucket', 0)
      BY <1>5, <2>1 DEF Implied
    <3>4. Cardinality(call[a].foreseen) \in Nat
      BY <3>2, Sized
    <3> QED
      BY <1>2, <1>5, <2>1, <3>1, <3>2, <3>3, <3>4 DEF AtLeast
  <2>2. CASE b # a
    BY <1>7, <1>8, <2>2 DEF Tally, ImpliedUseIsForeign, With
  <2> QED
    BY <2>1, <2>2
<1>16. Warned'
  <2>1. \A b \in With("answered") : b \in Appliances \ {a} /\ call'[b] = call[b]
    BY <1>7, <1>8 DEF With
  <2>2. /\ \A b \in With("answered") : ahead'[b] = ahead[b]
        /\ \A b \in With("answered") : a \notin ahead[b]
    BY <1>1, <1>8, <2>1 DEF Tally, Lined, UpstreamTypeOK
  <2> QED
    BY <1>1, <1>2, <1>5, <1>8, <2>1, <2>2 DEF Tally, Warned
<1> QED
  BY <1>4, <1>9, <1>10, <1>11, <1>12, <1>13, <1>14, <1>15, <1>16 DEF Tally

(* A call CAS knows nothing of: a script's, or one with a stray ticket.    *)
LEMMA ForeignCallStep ==
    ASSUME Tally, Accepts, NEW x, x \notin Ticketed, ns' = Counted, ~fresh',
           fresh' \in BOOLEAN, UNCHANGED <<st, ahead, told>>,
           call' \in [Appliances -> Call],
           \A b \in Appliances :
              \/ call'[b] = Noticed(b, x)
              \/ call[b].phase = "stray" /\ call'[b] = Idle
    PROVE  Tally'
<1>1. /\ ns' \in [remaining : 0 .. Limit, left : Nat, penalty : Nat]
      /\ Bucket' = Bucket - 1 /\ ns'.penalty = ns.penalty
  BY CountedShape DEF Tally
<1>2. UpstreamTypeOK'
  BY <1>1, CallConstant DEF Tally, UpstreamTypeOK
<1>3. \A b \in Appliances : call[b].phase # "stray" =>
         /\ call'[b] = Noticed(b, x)
         /\ call'[b].phase = call[b].phase /\ call'[b].ticket = call[b].ticket
         /\ call[b].phase = "held" => call'[b].age = call[b].age
         /\ call[b].phase = "answered" =>
               /\ SameAnswer(call[b], call'[b]) /\ call'[b].present = call[b].present
               /\ ~call'[b].clean
  BY NoticedShape DEF Tally
<1>4. \A b \in Appliances : call[b].phase = "stray" =>
         /\ ~call[b].ticket /\ ~call'[b].ticket
         /\ call'[b].phase \in {"stray", "idle"}
  <2> SUFFICES ASSUME NEW b \in Appliances, call[b].phase = "stray"
      PROVE  /\ ~call[b].ticket /\ ~call'[b].ticket
             /\ call'[b].phase \in {"stray", "idle"}
    OBVIOUS
  <2>1. ~call[b].ticket
    BY CallShape DEF Tally
  <2>2. CASE call'[b] = Idle
    BY <2>1, <2>2 DEF Idle
  <2>3. CASE call'[b] = Noticed(b, x)
    BY <2>1, <2>3, NoticedShape DEF Tally
  <2> QED
    BY <2>2, <2>3
<1>5. /\ With("answered")' = With("answered") /\ With("held")' = With("held")
      /\ Ticketed' = Ticketed
  BY <1>3, <1>4 DEF With, Ticketed
<1>6. Punctual'
  BY <1>3, <1>4 DEF Tally, Punctual, SameAnswer
<1>7. Slots' /\ Lined' /\ IInv' /\ LockdownOutlastsPenalty' /\ FreshTally'
  BY <1>1, <1>5 DEF Tally, Slots, Lined, IInv, LockdownOutlastsPenalty, FreshTally
<1>8. \A b \in With("answered") :
         /\ SameAnswer(call[b], call'[b]) /\ call'[b].present = call[b].present
         /\ ~call'[b].clean
  BY <1>3 DEF With
<1>9. AnswerTally' /\ ImpliedUseIsForeign' /\ Warned'
  BY <1>1, <1>5, <1>8
     DEF Tally, AnswerTally, ImpliedUseIsForeign, Implied, Warned, SameAnswer
<1>10. HeldTally'
  <2> SUFFICES ASSUME NEW b \in With("held"), call'[b].known
      PROVE  /\ call'[b].expected < Limit
             /\ \/ call'[b].expected + 1 + Cardinality(call'[b].foreseen)
                     <= Bucket' + call'[b].foreign
                \/ call'[b].foreign = Limit
    BY <1>5 DEF HeldTally
  <2>1. call'[b] = Noticed(b, x) /\ call[b].known
    BY <1>3, NoticedShape DEF Tally, With
  <2> QED
    BY <1>1, <2>1, HeldNotices
<1> QED
  BY <1>2, <1>5, <1>6, <1>7, <1>9, <1>10 DEF Tally

LEMMA StrayCallStep ==
    ASSUME Tally, NEW a \in Appliances, call[a].phase = "stray", CallAccepted(a)
    PROVE  Tally'
<1>1. /\ ~call[a].ticket /\ a \notin Ticketed
  BY CallShape DEF Tally, Ticketed
<1>2. /\ UNCHANGED <<st, ahead, told>> /\ Accepts /\ ns' = Counted
      /\ ~fresh' /\ fresh' \in BOOLEAN
  BY <1>1 DEF CallAccepted, Calls
<1>3. /\ call' = [b \in Appliances |->
                    IF b = a THEN Answer(call[a], TRUE) ELSE Noticed(b, a)]
      /\ Answer(call[a], TRUE) = Idle
  BY DEF CallAccepted, Answer
<1>4. \A b \in Appliances : Noticed(b, a) \in Call
  BY NoticedShape DEF Tally
<1>5. Idle \in Call
  BY DEF Call
<1> QED
  BY <1>1, <1>2, <1>3, <1>4, <1>5, ForeignCallStep

LEMMA LegacyStep ==
    ASSUME Tally, Legacy
    PROVE  Tally'
<1>1. "script" \notin Ticketed
  BY UpstreamAssumption DEF Ticketed
<1>2. \A b \in Appliances : Noticed(b, "script") \in Call
  BY NoticedShape DEF Tally
<1> QED
  BY <1>1, <1>2, ForeignCallStep DEF Legacy

-----------------------------------------------------------------------------
(* Calls NationStates answers with a 429 *)

LEMMA PunishedShape ==
    ASSUME UpstreamTypeOK, ~Accepts, ns' = Punished
    PROVE  /\ ns' \in [remaining : 0 .. Limit, left : Nat, penalty : Nat]
           /\ Bucket' = Bucket /\ ns'.remaining <= Bucket
           /\ ns'.penalty > 0
           /\ ns.penalty > 0 => ns'.penalty = ns.penalty
<1> DEFINE p == IF ns.penalty = 0 THEN Punishment ELSE ns.penalty
<1>1. ns \in [remaining : 0 .. Limit, left : Nat, penalty : Nat]
  BY DEF UpstreamTypeOK
<1>2. /\ p \in Nat /\ p > 0
      /\ ns.penalty > 0 => p = ns.penalty
  BY <1>1, UpstreamAssumption
<1>3. ns' = [ns EXCEPT !.penalty = p]
  BY <1>1 DEF Punished
<1> HIDE DEF p
<1>4. /\ ns' \in [remaining : 0 .. Limit, left : Nat, penalty : Nat]
      /\ ns'.penalty = p /\ ns'.remaining = ns.remaining /\ ns'.left = ns.left
  BY <1>1, <1>2, <1>3
<1>5. Bucket' = Bucket
  BY <1>4 DEF Bucket
<1> QED
  BY <1>2, <1>4, <1>5, BucketShape

(* The 429 comes back, and is news unless one of this penalty already was. *)
LEMMA PunishedStep ==
    ASSUME Tally, NEW a \in Appliances, CallPunished(a)
    PROVE  Tally'
<1>1. /\ UNCHANGED <<st, fresh>> /\ ~Accepts /\ ns' = Punished
      /\ told' = (told /\ ns.penalty > 0)
      /\ call[a].phase \in {"held", "stray"}
      /\ ahead' = IF call[a].ticket THEN [ahead EXCEPT ![a] = With("answered")] ELSE ahead
  BY DEF CallPunished, Calls
<1>2. /\ ns' \in [remaining : 0 .. Limit, left : Nat, penalty : Nat]
      /\ Bucket' = Bucket /\ ns'.remaining <= Bucket /\ ns'.penalty > 0
      /\ ns.penalty > 0 => ns'.penalty = ns.penalty
      /\ ns.penalty \in Nat /\ ns'.penalty \in Nat /\ Bucket \in Int
      /\ ns'.remaining \in Nat
  BY <1>1, PunishedShape, BucketShape DEF Tally
<1> DEFINE Outdated(c) == IF c.phase = "answered" /\ ns.penalty = 0
                            THEN [c EXCEPT !.present = FALSE] ELSE c
<1>3. call' = [b \in Appliances |->
                 IF b = a THEN Answer(call[a], FALSE) ELSE Outdated(call[b])]
  BY DEF CallPunished
<1>4. ASSUME NEW c \in Call
      PROVE  /\ Outdated(c) \in Call
             /\ Outdated(c).phase = c.phase /\ Outdated(c).ticket = c.ticket
             /\ c.phase # "answered" => Outdated(c) = c
             /\ c.phase = "answered" =>
                   /\ SameAnswer(c, Outdated(c)) /\ Outdated(c).clean = c.clean
                   /\ IF ns.penalty = 0 THEN ~Outdated(c).present ELSE Outdated(c) = c
  <2>1. CASE c.phase = "answered"
    <3>1. c \in AnsweredCall
      BY <2>1, ShapeOf
    <3>2. Outdated(c) \in AnsweredCall
      BY <3>1 DEF AnsweredCall
    <3>3. /\ SameAnswer(c, Outdated(c)) /\ Outdated(c).clean = c.clean
          /\ IF ns.penalty = 0 THEN ~Outdated(c).present ELSE Outdated(c) = c
          /\ Outdated(c).phase = c.phase /\ Outdated(c).ticket = c.ticket
      BY <2>1, <3>1 DEF AnsweredCall, SameAnswer
    <3> QED
      BY <2>1, <3>2, <3>3 DEF Call
  <2>2. CASE c.phase # "answered"
    BY <2>2
  <2> QED
    BY <2>1, <2>2
<1> HIDE DEF Outdated
<1>5. CASE call[a].phase = "held"
  <2> DEFINE d == Answer(call[a], FALSE)
  <2>1. call[a].ticket /\ call[a] \in HeldCall
    BY <1>5, CallShape DEF Tally
  <2>2. /\ d \in AnsweredCall /\ d.phase = "answered" /\ d.ticket
        /\ d.age = call[a].age /\ d.accepted = FALSE /\ d.present = ~FALSE
        /\ d.remaining = ns'.remaining /\ d.retryAfter = ns'.penalty
    BY <1>2, <1>5, AnswerShape DEF Tally
  <2> HIDE DEF d
  <2>3. /\ call' \in [Appliances -> Call] /\ call'[a] = d
        /\ \A b \in Appliances \ {a} :
              /\ call'[b].phase = call[b].phase /\ call'[b].ticket = call[b].ticket
              /\ call[b].phase # "answered" => call'[b] = call[b]
              /\ call[b].phase = "answered" =>
                   /\ SameAnswer(call[b], call'[b]) /\ call'[b].clean = call[b].clean
                   /\ IF ns.penalty = 0 THEN ~call'[b].present ELSE call'[b] = call[b]
    <3>1. d \in Call /\ \A b \in Appliances : call[b] \in Call
      BY <2>2, CallShape DEF Call, Tally
    <3> QED
      BY <1>3, <1>4, <3>1 DEF d
  <2>4. /\ ahead' = [ahead EXCEPT ![a] = With("answered")]
        /\ With("answered") \in SUBSET Appliances
    BY <1>1, <2>1 DEF With
  <2>5. UpstreamTypeOK'
    BY <1>1, <1>2, <2>3, <2>4, CallConstant DEF Tally, UpstreamTypeOK
  <2>6. /\ With("answered")' = With("answered") \cup {a} /\ a \notin With("answered")
        /\ With("held")' = With("held") \ {a}
        /\ Uncounted' = Uncounted \cup {a} /\ a \notin Uncounted
        /\ Uncounted \in SUBSET Appliances
        /\ Ticketed' = Ticketed
    BY <1>5, <2>1, <2>2, <2>3 DEF With, Uncounted, Ticketed
  <2>7. Lined'
    BY <2>4, <2>6 DEF Tally, Lined, UpstreamTypeOK, With
  <2>8. Slots' /\ IInv' /\ LockdownOutlastsPenalty'
    BY <1>1, <1>2, <2>6 DEF Tally, Slots, IInv, LockdownOutlastsPenalty
  <2>9. Punctual'
    BY <1>5, <2>2, <2>3 DEF Tally, Punctual, SameAnswer
  <2>10. FreshTally'
    <3>1. Cardinality(Uncounted') = Cardinality(Uncounted) + 1 /\ Cardinality(Uncounted) \in Nat
      BY <2>6, Sized
    <3>2. st.LocalRemaining \in Int /\ st'.LocalRemaining = st.LocalRemaining
      BY <1>1 DEF Tally, IInv, Sound, State
    <3> QED
      BY <1>1, <1>2, <3>1, <3>2 DEF Tally, FreshTally
  <2>11. \A b \in With("answered") :
            /\ b \in Appliances \ {a} /\ ahead'[b] = ahead[b] /\ a \notin ahead[b]
            /\ SameAnswer(call[b], call'[b]) /\ call'[b].clean = call[b].clean
            /\ IF ns.penalty = 0 THEN ~call'[b].present ELSE call'[b] = call[b]
    BY <2>3, <2>4, <2>6 DEF With, Tally, Lined, UpstreamTypeOK
  <2>12. AnswerTally'
    <3> SUFFICES ASSUME NEW b \in With("answered")', call'[b].clean
        PROVE  call'[b].remaining <= Bucket' + Cardinality(Later(b)')
      BY DEF AnswerTally
    <3>1. Later(b)' \in SUBSET Appliances
      BY DEF Later
    <3>2. /\ Cardinality(Later(b)') \in Nat
          /\ Later(b) \in SUBSET Later(b)' => Cardinality(Later(b)) <= Cardinality(Later(b)')
      BY <3>1, Sized
    <3>3. CASE b = a
      BY <1>2, <2>2, <2>3, <3>2, <3>3
    <3>4. CASE b # a
      <4>1. b \in With("answered") /\ call[b].clean /\ call'[b].remaining = call[b].remaining
        BY <2>6, <2>11, <3>4 DEF SameAnswer
      <4>2. Later(b) \in SUBSET Later(b)'
        BY <1>5, <2>3, <2>4, <2>6, <2>11 DEF Later, With
      <4>3. call[b].remaining <= Bucket + Cardinality(Later(b)) /\ call[b].remaining \in Nat
        BY <4>1, CallShape DEF Tally, AnswerTally, With, AnsweredCall
      <4>4. Cardinality(Later(b)) \in Nat
        BY Sized DEF Later
      <4> QED
        BY <1>2, <3>2, <4>1, <4>2, <4>3, <4>4
    <3> QED
      BY <3>3, <3>4
  <2>13. HeldTally'
    <3>1. \A b \in With("held")' : b \in With("held") /\ call'[b] = call[b]
      BY <2>3, <2>6 DEF With
    <3> QED
      BY <1>2, <3>1 DEF Tally, HeldTally
  <2>14. ImpliedUseIsForeign'
    BY <2>2, <2>3, <2>6, <2>11
       DEF Tally, ImpliedUseIsForeign, Implied, SameAnswer
  <2>15. Warned'
    <3>1. ASSUME NEW b \in With("answered")', ~call'[b].accepted
          PROVE  /\ call'[b].retryAfter > 0
                 /\ call'[b].present => call'[b].retryAfter >= ns'.penalty
                 /\ told' => call'[b].present
      <4>1. CASE b = a
        <5>1. d.present /\ d.retryAfter = ns'.penalty
          BY <2>2
        <5> QED
          BY <1>2, <2>3, <4>1, <5>1
      <4>2. CASE b # a
        <5>1. b \in With("answered") /\ ~call[b].accepted /\ call[b].retryAfter \in Nat
          BY <2>6, <2>11, <3>1, <4>2, CallShape DEF SameAnswer, With, AnsweredCall, Tally
        <5>2. /\ call[b].retryAfter > 0
              /\ call[b].present => call[b].retryAfter >= ns.penalty
              /\ told => call[b].present
          BY <5>1 DEF Tally, Warned
        <5>3. told' => told /\ ns.penalty > 0
          BY <1>1
        <5> QED
          BY <1>2, <2>11, <5>1, <5>2, <5>3 DEF SameAnswer
      <4> QED
        BY <4>1, <4>2
    <3>2. ASSUME NEW b \in With("answered")', NEW x \in With("answered")',
                 x \in ahead'[b], call'[x].present, ~call'[b].accepted
          PROVE  call'[b].present
      <4>1. CASE b = a
        BY <2>2, <2>3, <4>1
      <4>2. CASE b # a
        BY <1>2, <2>6, <2>11, <3>2, <4>2 DEF Tally, Warned, SameAnswer
      <4> QED
        BY <4>1, <4>2
    <3> QED
      BY <3>1, <3>2 DEF Warned
  <2> QED
    BY <2>5, <2>7, <2>8, <2>9, <2>10, <2>12, <2>13, <2>14, <2>15 DEF Tally
<1>6. CASE call[a].phase = "stray"
  <2>1. ~call[a].ticket /\ call'[a] = Idle /\ ahead' = ahead
    BY <1>1, <1>3, <1>6, CallShape DEF Tally, Answer
  <2>2. /\ call' \in [Appliances -> Call]
        /\ \A b \in Appliances \ {a} :
              /\ call'[b].phase = call[b].phase /\ call'[b].ticket = call[b].ticket
              /\ call[b].phase # "answered" => call'[b] = call[b]
              /\ call[b].phase = "answered" =>
                   /\ SameAnswer(call[b], call'[b]) /\ call'[b].clean = call[b].clean
                   /\ IF ns.penalty = 0 THEN ~call'[b].present ELSE call'[b] = call[b]
    <3>1. Idle \in Call /\ \A b \in Appliances : call[b] \in Call
      BY CallShape DEF Call, Tally
    <3> QED
      BY <1>3, <1>4, <2>1, <3>1
  <2>3. UpstreamTypeOK'
    BY <1>1, <1>2, <2>1, <2>2, CallConstant DEF Tally, UpstreamTypeOK
  <2>4. /\ With("answered")' = With("answered") /\ With("held")' = With("held")
        /\ Uncounted' = Uncounted /\ Ticketed' = Ticketed
        /\ \A b : Later(b)' = Later(b)
    BY <1>6, <2>1, <2>2 DEF With, Uncounted, Ticketed, Later, Idle
  <2>5. Slots' /\ Lined' /\ IInv' /\ LockdownOutlastsPenalty' /\ FreshTally'
    BY <1>1, <1>2, <2>1, <2>4
       DEF Tally, Slots, Lined, IInv, LockdownOutlastsPenalty, FreshTally
  <2>6. Punctual'
    BY <2>1, <2>2 DEF Tally, Punctual, SameAnswer, Idle
  <2>7. \A b \in With("answered") :
           /\ SameAnswer(call[b], call'[b]) /\ call'[b].clean = call[b].clean
           /\ IF ns.penalty = 0 THEN ~call'[b].present ELSE call'[b] = call[b]
    BY <1>6, <2>2 DEF With
  <2>8. AnswerTally' /\ ImpliedUseIsForeign'
    BY <1>2, <2>4, <2>7
       DEF Tally, AnswerTally, ImpliedUseIsForeign, Implied, SameAnswer
  <2>9. Warned'
    <3>1. ASSUME NEW b \in With("answered"), ~call'[b].accepted
          PROVE  /\ call'[b].retryAfter > 0
                 /\ call'[b].present => call'[b].retryAfter >= ns'.penalty
                 /\ told' => call'[b].present
      <4>1. ~call[b].accepted /\ call[b].retryAfter \in Nat
        BY <2>7, <3>1, CallShape DEF SameAnswer, With, AnsweredCall, Tally
      <4>2. /\ call[b].retryAfter > 0
            /\ call[b].present => call[b].retryAfter >= ns.penalty
            /\ told => call[b].present
        BY <4>1 DEF Tally, Warned
      <4>3. told' => told /\ ns.penalty > 0
        BY <1>1
      <4> QED
        BY <1>2, <2>7, <4>1, <4>2, <4>3 DEF SameAnswer
    <3>2. ASSUME NEW b \in With("answered"), NEW x \in With("answered"),
                 x \in ahead[b], call'[x].present, ~call'[b].accepted
          PROVE  call'[b].present
      BY <1>2, <2>7, <3>2 DEF Tally, Warned, SameAnswer
    <3> QED
      BY <2>1, <2>4, <3>1, <3>2 DEF Warned
  <2>10. HeldTally'
    <3>1. \A b \in With("held")' : b \in With("held") /\ call'[b] = call[b]
      BY <1>6, <2>2, <2>4 DEF With
    <3> QED
      BY <1>2, <3>1 DEF Tally, HeldTally
  <2> QED
    BY <2>3, <2>5, <2>6, <2>8, <2>9, <2>10 DEF Tally
<1> QED
  BY <1>1, <1>5, <1>6

-----------------------------------------------------------------------------
(* Reports, which come in the order of the answers *)

(* Whoever reports had the oldest answer: nobody has called since who is   *)
(* not on the way as well, and everybody still on the way came later.      *)
LEMMA Delivered ==
    ASSUME Tally, Orderly, NEW a \in Appliances, Reports(a), UNCHANGED ns,
           NEW d \in Call, d.phase \in {"idle", "held"}, d.phase = "held" => d.age = 0,
           call' = [call EXCEPT ![a] = d],
           fresh' \in BOOLEAN, told' \in BOOLEAN, IInv',
           fresh' => call[a].clean /\ st'.LocalRemaining <= call[a].remaining
    PROVE  /\ UpstreamTypeOK' /\ Punctual' /\ Lined' /\ FreshTally' /\ AnswerTally'
           /\ ImpliedUseIsForeign'
           /\ Bucket' = Bucket
           /\ \A b \in Appliances \ {a} : call'[b] = call[b]
           /\ \A b \in Appliances : ahead'[b] \subseteq ahead[b]
           /\ a \in With("answered") /\ ahead[a] = {}
           /\ With("answered")' = With("answered") \ {a}
           /\ a \in Ticketed
           /\ \A b \in With("answered") \ {a} : a \in ahead[b]
<1>1. /\ call[a].phase = "answered" /\ ahead[a] = {} /\ call[a].ticket
      /\ call[a] \in AnsweredCall
      /\ ahead' = [b \in Appliances |-> IF b \in {a} THEN {} ELSE ahead[b] \ {a}]
  BY CallShape DEF Reports, Leave, Tally
<1>2. /\ call' \in [Appliances -> Call] /\ call'[a] = d
      /\ \A b \in Appliances \ {a} : call'[b] = call[b]
  BY DEF Tally, UpstreamTypeOK
<1>3. /\ With("answered")' = With("answered") \ {a} /\ a \in With("answered")
      /\ Uncounted' = Uncounted \ {a} /\ a \in Uncounted
      /\ a \in Ticketed /\ Bucket' = Bucket
      /\ Uncounted' \in SUBSET Appliances
  BY <1>1, <1>2 DEF With, Uncounted, Ticketed, Bucket
<1>4. /\ ahead' \in [Appliances -> SUBSET Appliances]
      /\ \A b \in Appliances : ahead'[b] \subseteq ahead[b]
      /\ \A b \in Appliances \ {a} : ahead'[b] = ahead[b] \ {a}
  BY <1>1 DEF Tally, UpstreamTypeOK
<1>5. UpstreamTypeOK'
  BY <1>2, <1>4, CallConstant DEF Tally, UpstreamTypeOK
<1>6. Punctual'
  BY <1>2, UpstreamAssumption DEF Tally, Punctual
<1>7. \A b \in With("answered") : b \in Appliances
  BY DEF With
<1>8. \A b \in With("answered") \ {a} : a \in ahead[b] /\ call'[b] = call[b]
  BY <1>1, <1>2, <1>3, <1>7 DEF Tally, Lined
<1>9. Lined'
  <2>1. \A b \in Appliances : ahead'[b] \subseteq With("answered")'
    BY <1>1, <1>3, <1>4 DEF Tally, Lined
  <2>2. \A b, c \in With("answered")' : b = c \/ b \in ahead'[c] \/ c \in ahead'[b]
    BY <1>3, <1>4, <1>7 DEF Tally, Lined
  <2> QED
    BY <2>1, <2>2 DEF Lined
<1>10. FreshTally'
  <2> SUFFICES ASSUME fresh'
      PROVE  st'.LocalRemaining <= Bucket' + Cardinality(Uncounted')
    BY DEF FreshTally
  <2>1. Later(a) \in SUBSET Uncounted'
    BY <1>1, <1>3, <1>7 DEF Later, Uncounted
  <2>2. Cardinality(Later(a)) <= Cardinality(Uncounted')
    BY <1>3, <2>1, Sized
  <2>3. call[a].remaining <= Bucket + Cardinality(Later(a))
    BY <1>3 DEF Tally, AnswerTally
  <2>4. Bucket \in Int /\ call[a].remaining \in Nat /\ st'.LocalRemaining \in Int
    <3>1. st' \in State
      BY DEF IInv, Sound
    <3>2. Bucket \in Int
      BY BucketShape DEF Tally
    <3>3. call[a].remaining \in Nat
      BY <1>1 DEF AnsweredCall
    <3>4. st'.LocalRemaining \in Int
      BY <3>1 DEF State
    <3> QED
      BY <3>2, <3>3, <3>4
  <2>5. Cardinality(Later(a)) \in Nat /\ Cardinality(Uncounted') \in Nat
    BY <1>3, Sized DEF Later
  <2> QED
    BY <1>3, <2>2, <2>3, <2>4, <2>5
<1>11. AnswerTally'
  <2>1. ASSUME NEW b \in With("answered") \ {a}
        PROVE  Later(b)' = Later(b)
    BY <1>1, <1>2, <1>4, <1>7 DEF Later
  <2> QED
    BY <1>3, <1>8, <2>1 DEF Tally, AnswerTally
<1>12. ImpliedUseIsForeign'
  BY <1>3, <1>8 DEF Tally, ImpliedUseIsForeign
<1> QED
  BY <1>1, <1>2, <1>3, <1>4, <1>5, <1>6, <1>8, <1>9, <1>10, <1>11, <1>12

(* ... of the calls about to be made, nothing changes.                     *)
LEMMA HeldStay ==
    ASSUME Tally, Bucket' = Bucket,
           \A b \in With("held")' : b \in With("held") /\ call'[b] = call[b]
    PROVE  HeldTally'
BY DEF Tally, HeldTally

(* ... and 429s on the way go on saying what they say.                     *)
LEMMA WarnedStay ==
    ASSUME Tally, ns'.penalty <= ns.penalty, ns'.penalty \in Nat, told' => told,
           \A b \in With("answered")' :
              /\ b \in With("answered") /\ ahead'[b] \subseteq ahead[b]
              /\ call'[b].accepted = call[b].accepted
              /\ call'[b].retryAfter = call[b].retryAfter
              /\ call'[b].present = call[b].present
    PROVE  Warned'
<1>1. ASSUME NEW b \in With("answered")', ~call'[b].accepted
      PROVE  /\ call'[b].retryAfter > 0
             /\ call'[b].present => call'[b].retryAfter >= ns'.penalty
             /\ told' => call'[b].present
  <2>1. /\ b \in With("answered") /\ call[b].retryAfter \in Nat
        /\ call'[b].retryAfter = call[b].retryAfter /\ ~call[b].accepted
        /\ ns.penalty \in Nat
    BY <1>1, CallShape, BucketShape DEF With, Tally, AnsweredCall
  <2>2. /\ call[b].retryAfter > 0
        /\ call[b].present => call[b].retryAfter >= ns.penalty
        /\ told => call[b].present
    BY <2>1 DEF Tally, Warned
  <2> QED
    BY <2>1, <2>2
<1>2. ASSUME NEW b \in With("answered")', NEW x \in With("answered")',
             x \in ahead'[b], call'[x].present, ~call'[b].accepted
      PROVE  call'[b].present
  BY <1>2 DEF Tally, Warned
<1> QED
  BY <1>1, <1>2 DEF Warned

LEMMA Returned ==
    ASSUME Tally, NEW a \in Ticketed, NEW d, call' = [call EXCEPT ![a] = d]
    PROVE  /\ d.ticket => (Slots' <=> st'.InFlight = st.InFlight)
           /\ ~d.ticket => (Slots' <=> st'.InFlight = st.InFlight - 1)
<1>1. /\ a \in Appliances /\ call'[a] = d
      /\ \A b \in Appliances \ {a} : call'[b] = call[b]
  BY DEF Tally, UpstreamTypeOK, Ticketed
<1>2. /\ Ticketed \in SUBSET Appliances
      /\ d.ticket => Ticketed' = Ticketed
      /\ ~d.ticket => Ticketed' = Ticketed \ {a}
  BY <1>1 DEF Ticketed
<1>3. Cardinality(Ticketed \ {a}) = Cardinality(Ticketed) - 1
  BY <1>2, Sized
<1> QED
  BY <1>2, <1>3 DEF Tally, Slots

LEMMA HeadersShape ==
    ASSUME UpstreamTypeOK, NEW a \in Appliances, call[a].phase = "answered"
    PROVE  LET h == HeadersOf(call[a]) IN
           /\ h \in Header /\ h.remaining >= 0 /\ h.remaining = call[a].remaining
           /\ call[a].lag \in Int
           /\ call[a].clean \in BOOLEAN /\ call[a].present \in BOOLEAN
           /\ call[a].retryAfter \in Nat
<1>1. call[a] \in AnsweredCall
  BY CallShape
<1>2. /\ call[a].remaining \in Nat /\ call[a].lag \in Nat
      /\ call[a].clean \in BOOLEAN /\ call[a].present \in BOOLEAN
      /\ call[a].retryAfter \in Nat
  BY <1>1 DEF AnsweredCall
<1> QED
  BY <1>2, UpstreamAssumption DEF HeadersOf, Header

LEMMA IdleCall == Idle \in Call /\ Idle.phase = "idle" /\ ~Idle.ticket
BY DEF Idle, Call

LEMMA Report200Step ==
    ASSUME Tally, Orderly, NEW a \in Appliances, Report200(a)
    PROVE  Tally'
<1> DEFINE h == HeadersOf(call[a])
<1>1. /\ Reports(a) /\ call[a].phase = "answered" /\ UNCHANGED <<ns, told>>
      /\ st.InFlight > 0 /\ st' = ProcessReport(st, h, call[a].lag)
      /\ fresh' = call[a].clean /\ call' = [call EXCEPT ![a] = Idle]
  BY DEF Report200, Reports, Report
<1>2. /\ h \in Header /\ h.remaining >= 0 /\ h.remaining = call[a].remaining
      /\ call[a].lag \in Int /\ fresh' \in BOOLEAN /\ told' \in BOOLEAN
  BY <1>1, HeadersShape DEF Tally, UpstreamTypeOK
<1> HIDE DEF h
<1>3. /\ IInv' /\ st'.InFlight = st.InFlight - 1
      /\ st'.LocalRemaining <= call[a].remaining
      /\ LockKept(st, st')
  BY <1>1, <1>2, ReportFigure DEF IInv, LockKept, Locked, Tally
<1>4. /\ UpstreamTypeOK' /\ Punctual' /\ Lined' /\ FreshTally' /\ AnswerTally'
      /\ ImpliedUseIsForeign'
      /\ Bucket' = Bucket
      /\ \A b \in Appliances \ {a} : call'[b] = call[b]
      /\ \A b \in Appliances : ahead'[b] \subseteq ahead[b]
      /\ With("answered")' = With("answered") \ {a}
      /\ a \in Ticketed
  BY <1>1, <1>2, <1>3, IdleCall, Delivered
<1>5. call'[a] = Idle
  BY <1>1 DEF Tally, UpstreamTypeOK
<1>6. Slots'
  BY <1>1, <1>3, <1>4, IdleCall, Returned
<1>7. HeldTally'
  <2>1. \A b \in With("held")' : b \in With("held") /\ call'[b] = call[b]
    BY <1>4, <1>5, IdleCall DEF With
  <2> QED
    BY <1>4, <2>1, HeldStay
<1>8. ns'.penalty <= ns.penalty /\ ns'.penalty \in Nat /\ (told' => told)
  BY <1>1, BucketShape DEF Tally
<1>9. Warned'
  <2>1. \A b \in With("answered")' : b \in With("answered") /\ b \in Appliances \ {a}
    BY <1>4 DEF With
  <2> QED
    BY <1>4, <1>8, <2>1, WarnedStay DEF SameAnswer
<1>10. LockdownOutlastsPenalty'
  BY <1>3, <1>8, StayLocked
<1> QED
  BY <1>3, <1>4, <1>6, <1>7, <1>9, <1>10 DEF Tally

LEMMA Report429Step ==
    ASSUME Tally, Orderly, NEW a \in Appliances, Report429(a)
    PROVE  Tally'
<1> DEFINE h == HeadersOf(call[a])
           ra == call[a].retryAfter
<1>1. /\ Reports(a) /\ call[a].phase = "answered" /\ UNCHANGED ns
      /\ ~call[a].accepted /\ told' = (told \/ call[a].present)
      /\ st.InFlight > 0 /\ st' = ProcessPenalty(st, h, call[a].lag, ra)
      /\ fresh' = call[a].clean /\ call' = [call EXCEPT ![a] = Idle]
  BY DEF Report429, Reports, Penalty
<1>2. /\ h \in Header /\ h.remaining >= 0 /\ h.remaining = call[a].remaining
      /\ call[a].lag \in Int /\ ra \in Nat
      /\ fresh' \in BOOLEAN /\ told' \in BOOLEAN
  BY <1>1, HeadersShape DEF Tally, UpstreamTypeOK
<1>3. a \in With("answered")
  BY <1>1 DEF With
<1>4. /\ ra > 0
      /\ call[a].present => ra >= ns.penalty
      /\ told' => call[a].present
  BY <1>1, <1>3 DEF Tally, Warned
<1> HIDE DEF h
<1>5. /\ IInv' /\ st'.InFlight = st.InFlight - 1
      /\ st'.LocalRemaining <= call[a].remaining
      /\ st'.LockdownActive /\ st'.LockdownLeft = ra
  <2> HIDE DEF ra
  <2> QED
    BY <1>1, <1>2, <1>4, PenaltyFigure DEF IInv, Tally
<1>6. /\ UpstreamTypeOK' /\ Punctual' /\ Lined' /\ FreshTally' /\ AnswerTally'
      /\ ImpliedUseIsForeign'
      /\ Bucket' = Bucket
      /\ \A b \in Appliances \ {a} : call'[b] = call[b]
      /\ \A b \in Appliances : ahead'[b] \subseteq ahead[b]
      /\ With("answered")' = With("answered") \ {a}
      /\ a \in Ticketed
      /\ \A b \in With("answered") \ {a} : a \in ahead[b]
  BY <1>1, <1>2, <1>5, IdleCall, Delivered
<1>7. call'[a] = Idle
  BY <1>1 DEF Tally, UpstreamTypeOK
<1>8. Slots'
  BY <1>1, <1>5, <1>6, IdleCall, Returned
<1>9. HeldTally'
  <2>1. \A b \in With("held")' : b \in With("held") /\ call'[b] = call[b]
    BY <1>6, <1>7, IdleCall DEF With
  <2> QED
    BY <1>6, <2>1, HeldStay
<1>10. Warned'
  <2>1. ASSUME NEW b \in With("answered")'
        PROVE  /\ b \in With("answered") /\ call'[b] = call[b]
               /\ ahead'[b] \subseteq ahead[b] /\ a \in ahead[b]
    BY <1>6 DEF With
  <2>2. ASSUME NEW b \in With("answered")', ~call'[b].accepted
        PROVE  /\ call'[b].retryAfter > 0
               /\ call'[b].present => call'[b].retryAfter >= ns'.penalty
               /\ told' => call'[b].present
    BY <1>1, <1>3, <1>4, <2>1, <2>2 DEF Tally, Warned
  <2>3. ASSUME NEW b \in With("answered")', NEW x \in With("answered")',
               x \in ahead'[b], call'[x].present, ~call'[b].accepted
        PROVE  call'[b].present
    BY <2>1, <2>3 DEF Tally, Warned
  <2> QED
    BY <2>2, <2>3 DEF Warned
<1>11. LockdownOutlastsPenalty'
  BY <1>1, <1>4, <1>5 DEF LockdownOutlastsPenalty
<1> QED
  BY <1>5, <1>6, <1>8, <1>9, <1>10, <1>11 DEF Tally

(* What the State makes of a report and of the request that comes with it. *)
LEMMA CombinedFigure ==
    ASSUME Tally, NEW a \in Appliances, call[a].phase = "answered", st.InFlight > 0,
           NEW c, NEW n \in Demands
    PROVE  LET h == HeadersOf(call[a])
               s == NoteDemand(ProcessReport(st, h, call[a].lag), c, n) IN
           /\ Sound(s) /\ s.InFlight = st.InFlight - 1
           /\ s.LocalRemaining <= call[a].remaining
           /\ s.LockdownActive = st.LockdownActive /\ s.LockdownLeft = st.LockdownLeft
<1> DEFINE h == HeadersOf(call[a])
           r == ProcessReport(st, h, call[a].lag)
<1>1. /\ h \in Header /\ h.remaining >= 0 /\ h.remaining = call[a].remaining
      /\ call[a].lag \in Int
  BY HeadersShape DEF Tally
<1> HIDE DEF h
<1>2. /\ Sound(r) /\ r.InFlight = st.InFlight - 1
      /\ r.LocalRemaining <= call[a].remaining
      /\ r.LockdownActive = st.LockdownActive /\ r.LockdownLeft = st.LockdownLeft
  BY <1>1, ReportFigure DEF IInv, Tally
<1> HIDE DEF r
<1>3. /\ Sound(NoteDemand(r, c, n)) /\ NoteDemand(r, c, n).InFlight = r.InFlight
      /\ NoteDemand(r, c, n).LocalRemaining = r.LocalRemaining
      /\ NoteDemand(r, c, n).LockdownActive = r.LockdownActive
      /\ NoteDemand(r, c, n).LockdownLeft = r.LockdownLeft
  BY <1>2, DemandFigure
<1> QED
  BY <1>2, <1>3 DEF h, r

LEMMA CombinedStep ==
    ASSUME Tally, Orderly, NEW a \in Appliances, NEW c \in RawClasses, NEW n \in Demands,
           Combined(a, c, n)
    PROVE  Tally'
<1> DEFINE h == HeadersOf(call[a])
           s == NoteDemand(ProcessReport(st, h, call[a].lag), c, n)
<1>1. /\ Reports(a) /\ call[a].phase = "answered" /\ UNCHANGED <<ns, told>>
      /\ st.InFlight > 0
      /\ fresh' = (call[a].clean /\ ~Assumes(s))
      /\ \/ CanDispatch(s) /\ st' = Issue(Settle(s)) /\ call' = [call EXCEPT ![a] = NewCall]
         \/ st' = Settle(s) /\ call' = [call EXCEPT ![a] = Idle]
  BY DEF Combined, Reports, ReportAcquireGrant, ReportAcquireDeny
<1>2. /\ Sound(s) /\ s.InFlight = st.InFlight - 1
      /\ s.LocalRemaining <= call[a].remaining
      /\ s.LockdownActive = st.LockdownActive /\ s.LockdownLeft = st.LockdownLeft
  BY <1>1, CombinedFigure
<1> HIDE DEF s
<1>3. fresh' \in BOOLEAN /\ told' \in BOOLEAN /\ (fresh' => call[a].clean /\ ~Assumes(s))
  BY <1>1 DEF Tally, UpstreamTypeOK
<1>4. ns'.penalty <= ns.penalty /\ ns'.penalty \in Nat /\ (told' => told)
  BY <1>1, BucketShape DEF Tally
<1>5. ASSUME /\ UpstreamTypeOK' /\ Lined' /\ AnswerTally'
             /\ With("answered")' = With("answered") \ {a}
             /\ \A b \in Appliances \ {a} : call'[b] = call[b]
             /\ \A b \in Appliances : ahead'[b] \subseteq ahead[b]
      PROVE  Warned'
  <2>1. \A b \in With("answered")' : b \in With("answered") /\ b \in Appliances \ {a}
    BY <1>5 DEF With
  <2> QED
    BY <1>4, <1>5, <2>1, WarnedStay DEF SameAnswer
<1>6. CASE st' = Settle(s) /\ call' = [call EXCEPT ![a] = Idle]
  <2>1. /\ IInv' /\ st'.InFlight = st.InFlight - 1
        /\ fresh' => st'.LocalRemaining <= call[a].remaining
        /\ LockKept(st, st')
    BY <1>2, <1>3, <1>6, SettleFigure DEF IInv, LockKept, Locked
  <2>2. /\ UpstreamTypeOK' /\ Punctual' /\ Lined' /\ FreshTally' /\ AnswerTally'
        /\ ImpliedUseIsForeign'
        /\ Bucket' = Bucket
        /\ \A b \in Appliances \ {a} : call'[b] = call[b]
        /\ \A b \in Appliances : ahead'[b] \subseteq ahead[b]
        /\ With("answered")' = With("answered") \ {a}
        /\ a \in Ticketed
    BY <1>1, <1>3, <1>6, <2>1, IdleCall, Delivered
  <2>3. call'[a] = Idle
    BY <1>6 DEF Tally, UpstreamTypeOK
  <2>4. Slots'
    BY <1>6, <2>1, <2>2, IdleCall, Returned
  <2>5. HeldTally'
    <3>1. \A b \in With("held")' : b \in With("held") /\ call'[b] = call[b]
      BY <2>2, <2>3, IdleCall DEF With
    <3> QED
      BY <2>2, <3>1, HeldStay
  <2>6. LockdownOutlastsPenalty'
    BY <1>4, <2>1, StayLocked
  <2> QED
    BY <1>5, <2>1, <2>2, <2>4, <2>5, <2>6 DEF Tally
<1>7. CASE /\ CanDispatch(s) /\ st' = Issue(Settle(s))
           /\ call' = [call EXCEPT ![a] = NewCall]
  <2>1. /\ IInv' /\ st'.InFlight = st.InFlight
        /\ fresh' => st'.LocalRemaining <= call[a].remaining
        /\ ~Locked(st)
    BY <1>1, <1>2, <1>3, <1>7, GrantFigure DEF IInv, Locked, Tally, Sound, State
  <2>2. /\ NewCall \in Call /\ NewCall.phase = "held" /\ NewCall.ticket
        /\ NewCall.age = 0 /\ NewCall.known = fresh'
    BY <1>3, <2>1, HeldCallNew
  <2>3. /\ UpstreamTypeOK' /\ Punctual' /\ Lined' /\ FreshTally' /\ AnswerTally'
        /\ ImpliedUseIsForeign'
        /\ Bucket' = Bucket
        /\ \A b \in Appliances \ {a} : call'[b] = call[b]
        /\ \A b \in Appliances : ahead'[b] \subseteq ahead[b]
        /\ With("answered")' = With("answered") \ {a}
        /\ a \in Ticketed
    BY <1>1, <1>3, <1>7, <2>1, <2>2, Delivered
  <2>4. call'[a] = NewCall
    BY <1>7 DEF Tally, UpstreamTypeOK
  <2>5. Slots'
    BY <1>7, <2>1, <2>2, <2>3, Returned
  <2>6. With("held")' = With("held") \cup {a} /\ a \notin With("held")
    BY <1>1, <2>2, <2>3, <2>4 DEF With
  <2>7. HeldTally'
    <3>1. fresh' => /\ NewCall.expected < Limit
                    /\ NewCall.expected + 1 + Cardinality(NewCall.foreseen)
                         <= Bucket' + NewCall.foreign
      BY <1>1, <2>1, <2>3, <2>5, <2>6, NewCallTally
    <3>2. \A b \in With("held") : b \in Appliances /\ b # a /\ call'[b] = call[b]
      BY <2>3, <2>6 DEF With
    <3> QED
      BY <2>2, <2>3, <2>4, <2>6, <3>1, <3>2 DEF Tally, HeldTally
  <2>8. LockdownOutlastsPenalty'
    BY <1>1, <2>1, OpenGate, BucketShape DEF LockdownOutlastsPenalty, Tally
  <2> QED
    BY <1>5, <2>1, <2>3, <2>5, <2>7, <2>8 DEF Tally
<1> QED
  BY <1>1, <1>6, <1>7

-----------------------------------------------------------------------------
(* Crashes, the reaper, time *)

LEMMA GoneShape ==
    ASSUME NEW c \in Call
    PROVE  /\ Gone(c) \in Call
           /\ ~c.ticket => Gone(c) = Idle
           /\ c.ticket => /\ Gone(c).phase = IF c.phase = "held" THEN "dead" ELSE "lost"
                          /\ Gone(c).ticket /\ Gone(c).age = c.age
<1>1. CASE ~c.ticket
  BY <1>1, IdleCall DEF Gone
<1>2. CASE c.ticket
  <2>1. c.age \in Nat
    BY <1>2, ShapeOf DEF HeldCall, AnsweredCall, LostCall
  <2>2. Gone(c) = [phase |-> IF c.phase = "held" THEN "dead" ELSE "lost",
                   ticket |-> TRUE, age |-> c.age]
    BY <1>2 DEF Gone
  <2> QED
    BY <1>2, <2>1, <2>2 DEF Call, LostCall
<1> QED
  BY <1>1, <1>2

LEMMA CrashStep ==
    ASSUME Tally, NEW a \in Appliances, Crash(a)
    PROVE  Tally'
<1>1. /\ UNCHANGED <<st, ns, fresh, told>>
      /\ call[a].phase \in {"held", "stray", "answered"}
      /\ call' = [call EXCEPT ![a] = Gone(call[a])]
      /\ ahead' = [b \in Appliances |-> IF b \in {a} THEN {} ELSE ahead[b] \ {a}]
  BY DEF Crash, Leave
<1>2. /\ call[a] \in Call
      /\ call[a].ticket <=> call[a].phase # "stray"
  BY <1>1, CallShape DEF Tally
<1>3. /\ call' \in [Appliances -> Call] /\ call'[a] = Gone(call[a])
      /\ \A b \in Appliances \ {a} : call'[b] = call[b]
      /\ call'[a].phase = IF call[a].phase = "stray" THEN "idle"
                          ELSE IF call[a].phase = "held" THEN "dead" ELSE "lost"
      /\ call'[a].ticket <=> call[a].ticket
  BY <1>1, <1>2, GoneShape, IdleCall DEF Tally, UpstreamTypeOK
<1>4. /\ ahead' \in [Appliances -> SUBSET Appliances]
      /\ \A b \in Appliances : ahead'[b] \subseteq ahead[b]
      /\ \A b \in Appliances \ {a} : ahead'[b] = ahead[b] \ {a}
      /\ ahead'[a] = {}
  BY <1>1 DEF Tally, UpstreamTypeOK
<1>5. UpstreamTypeOK'
  BY <1>1, <1>3, <1>4, CallConstant DEF Tally, UpstreamTypeOK
<1>6. /\ With("answered")' = With("answered") \ {a} /\ With("held")' = With("held") \ {a}
      /\ Ticketed' = Ticketed /\ Uncounted' = Uncounted /\ Bucket' = Bucket
  BY <1>1, <1>3 DEF With, Ticketed, Uncounted, Bucket
<1>7. \A b \in With("answered")' \cup With("held")' :
         b \in Appliances \ {a} /\ call'[b] = call[b]
  BY <1>3, <1>6 DEF With
<1>8. IInv' /\ Slots' /\ FreshTally' /\ LockdownOutlastsPenalty'
  BY <1>1, <1>6 DEF Tally, IInv, Slots, FreshTally, LockdownOutlastsPenalty
<1>9. Punctual'
  BY <1>3 DEF Tally, Punctual
<1>10. Lined'
  <2>1. \A b \in Appliances : ahead'[b] \subseteq With("answered")'
    BY <1>4, <1>6 DEF Tally, Lined
  <2>2. \A b, c \in With("answered")' : b = c \/ b \in ahead'[c] \/ c \in ahead'[b]
    BY <1>4, <1>6, <1>7 DEF Tally, Lined
  <2> QED
    BY <2>1, <2>2 DEF Lined
<1>11. AnswerTally'
  <2> SUFFICES ASSUME NEW b \in With("answered")', call'[b].clean
      PROVE  call'[b].remaining <= Bucket' + Cardinality(Later(b)')
    BY DEF AnswerTally
  <2>1. /\ b \in With("answered") /\ b \in Appliances \ {a} /\ call'[b] = call[b]
        /\ call[b].phase = "answered"
    BY <1>6, <1>7 DEF With
  <2>2. Later(b)' \in SUBSET Appliances /\ Later(b) \in SUBSET Later(b)'
    <3>1. \A x \in Later(b) : x \in Later(b)'
      BY <1>1, <1>3, <1>4, <2>1 DEF Later
    <3> QED
      BY <3>1 DEF Later
  <2>3. Cardinality(Later(b)) <= Cardinality(Later(b)')
    BY <2>2, Sized
  <2>4. call[b].remaining <= Bucket + Cardinality(Later(b))
    BY <2>1 DEF Tally, AnswerTally
  <2>5. Cardinality(Later(b)) \in Nat /\ Cardinality(Later(b)') \in Nat
    BY <2>2, Sized DEF Later
  <2>6. call[b].remaining \in Nat
    BY <2>1, CallShape DEF Tally, AnsweredCall
  <2>7. Bucket \in Int
    BY BucketShape DEF Tally
  <2> QED
    BY <1>6, <2>1, <2>3, <2>4, <2>5, <2>6, <2>7
<1>12. HeldTally'
  BY <1>6, <1>7, HeldStay
<1>13. ImpliedUseIsForeign'
  BY <1>6, <1>7 DEF Tally, ImpliedUseIsForeign
<1>14. Warned'
  <2>1. ns'.penalty <= ns.penalty /\ ns'.penalty \in Nat /\ (told' => told)
    BY <1>1, BucketShape DEF Tally
  <2> QED
    BY <1>4, <1>6, <1>7, <2>1, WarnedStay DEF SameAnswer
<1> QED
  BY <1>5, <1>8, <1>9, <1>10, <1>11, <1>12, <1>13, <1>14 DEF Tally

(* Everything starts anew: nothing is out, nothing on its way.             *)
LEMMA RestartStep ==
    ASSUME Tally, Restart
    PROVE  Tally'
<1>1. /\ st' = New(st.cfg) /\ ~fresh' /\ ~told' /\ UNCHANGED ns
      /\ fresh' \in BOOLEAN /\ told' \in BOOLEAN
      /\ call' = [a \in Appliances |->
                    IF call[a].phase \in {"held", "stray"}
                      THEN [phase |-> "stray", ticket |-> FALSE] ELSE Idle]
      /\ ahead' = [a \in Appliances |-> {}]
  BY DEF Restart
<1>2. IInv' /\ st'.InFlight = 0
  <2>1. /\ st.cfg \in [BucketLimit : Int, PolicyWindowSec : Int,
                       SustainedWindowSec : Int, SustainedMinLimit : Int,
                       SustainedMaxLimit : Int, SustainedLimit : Int]
    BY DEF Tally, IInv, Sound, State, NormalConfig
  <2> QED
    BY <1>1, <2>1, NewSound DEF IInv, New
<1>3. \A a \in Appliances : call'[a] \in {Idle, [phase |-> "stray", ticket |-> FALSE]}
  BY <1>1
<1>4. \A a \in Appliances : /\ call'[a] \in Call /\ ~call'[a].ticket
                            /\ call'[a].phase \in {"idle", "stray"}
  <2> DEFINE stray == [phase |-> "stray", ticket |-> FALSE]
  <2>1. stray \in StrayCall /\ stray.phase = "stray" /\ ~stray.ticket
    BY DEF StrayCall
  <2> HIDE DEF stray
  <2>2. \A a \in Appliances : call'[a] \in {Idle, stray}
    BY <1>3 DEF stray
  <2> QED
    BY <2>1, <2>2, IdleCall DEF Call
<1>5. UpstreamTypeOK'
  <2>1. call' \in [Appliances -> Call]
    BY <1>1, <1>4
  <2> QED
    BY <1>1, <2>1, CallConstant DEF Tally, UpstreamTypeOK
<1>6. With("answered")' = {} /\ With("held")' = {} /\ Ticketed' = {}
  BY <1>4 DEF With, Ticketed
<1>7. Slots'
  BY <1>2, <1>6, FS_EmptySet DEF Slots
<1>8. Punctual'
  BY <1>4 DEF Punctual
<1>9. Lined'
  BY <1>1, <1>6 DEF Lined
<1>10. /\ FreshTally' /\ AnswerTally' /\ HeldTally' /\ ImpliedUseIsForeign' /\ Warned'
       /\ LockdownOutlastsPenalty'
  BY <1>1, <1>6 DEF FreshTally, AnswerTally, HeldTally, ImpliedUseIsForeign, Warned,
                    LockdownOutlastsPenalty
<1> QED
  BY <1>2, <1>5, <1>7, <1>8, <1>9, <1>10 DEF Tally

LEMMA BlurredShape ==
    ASSUME NEW c \in Call
    PROVE  /\ Blurred(c) \in Call /\ Blurred(c).phase = c.phase
           /\ Blurred(c).ticket = c.ticket
           /\ c.phase # "answered" => Blurred(c) = c
           /\ c.phase = "answered" =>
                 /\ SameAnswer(c, Blurred(c)) /\ Blurred(c).present = c.present
                 /\ ~Blurred(c).clean
<1>1. CASE c.phase = "answered"
  <2>1. c \in AnsweredCall
    BY <1>1, ShapeOf
  <2>2. Blurred(c) = [c EXCEPT !.clean = FALSE]
    BY <1>1 DEF Blurred
  <2>3. Blurred(c) \in AnsweredCall
    BY <2>1, <2>2 DEF AnsweredCall
  <2>4. /\ Blurred(c).phase = c.phase /\ Blurred(c).ticket = c.ticket
        /\ SameAnswer(c, Blurred(c)) /\ Blurred(c).present = c.present
        /\ ~Blurred(c).clean
    BY <2>1, <2>2 DEF AnsweredCall, SameAnswer
  <2> QED
    BY <1>1, <2>3, <2>4 DEF Call
<1>2. CASE c.phase # "answered"
  BY <1>2 DEF Blurred
<1> QED
  BY <1>1, <1>2

(* Only crashed appliances are old enough.  If one of their calls had been *)
(* counted, no figure is trusted any more; else none was about that call.  *)
LEMMA ReaperStep ==
    ASSUME Tally, Reaper
    PROVE  Tally'
<1> DEFINE freed == [a \in Appliances |-> IF a \in Expired THEN Idle ELSE call[a]]
<1>1. /\ Reap(Cardinality(Expired)) /\ UNCHANGED <<ns, ahead, told>>
      /\ \/ /\ \A a \in Expired : call[a].phase # "lost"
            /\ call' = freed /\ fresh' = fresh
         \/ call' = [a \in Appliances |-> Blurred(freed[a])] /\ ~fresh' /\ fresh' \in BOOLEAN
  BY DEF Reaper
<1>2. /\ Expired \in SUBSET Appliances /\ Expired \in SUBSET Ticketed
      /\ Ticketed \in SUBSET Appliances
  BY DEF Expired, Ticketed
<1>3. \A a \in Expired : call[a].phase \in {"dead", "lost"}
  <2> SUFFICES ASSUME NEW a \in Expired PROVE call[a].phase \in {"dead", "lost"}
    OBVIOUS
  <2>1. a \in Appliances /\ call[a].ticket /\ call[a].age > Expiry
    BY DEF Expired, Ticketed
  <2>2. call[a].phase \in {"held", "answered", "dead", "lost"}
    BY <2>1, CallShape DEF Tally
  <2>3. CASE call[a].phase \in {"held", "answered"}
    <3>1. call[a].age <= Expiry /\ call[a].age \in Nat
      BY <2>1, <2>3, CallShape DEF Tally, Punctual, HeldCall, AnsweredCall
    <3> QED
      BY <2>1, <3>1, UpstreamAssumption
  <2> QED
    BY <2>2, <2>3
<1>4. /\ IInv' /\ st'.InFlight = st.InFlight - Cardinality(Expired)
      /\ st'.LocalRemaining = st.LocalRemaining
      /\ LockKept(st, st')
  <2>1. PICK k \in 1 .. st.InFlight :
           k = Cardinality(Expired) /\ st' = [st EXCEPT !.InFlight = @ - k]
    BY <1>1 DEF Reap
  <2>2. Sound(st')
    BY <2>1, ReapSound DEF IInv, Tally
  <2>3. /\ st'.LockdownActive = st.LockdownActive /\ st'.LockdownLeft = st.LockdownLeft
        /\ st'.LocalRemaining = st.LocalRemaining /\ st'.InFlight = st.InFlight - k
    BY <2>1 DEF Tally, IInv, Sound, State
  <2> QED
    BY <2>1, <2>2, <2>3 DEF IInv, LockKept, Locked
<1>5. \A a \in Appliances : freed[a] \in Call /\ freed[a] = IF a \in Expired THEN Idle ELSE call[a]
  BY IdleCall, CallShape DEF Tally
<1> HIDE DEF freed
<1>6. /\ call' \in [Appliances -> Call]
      /\ \A a \in Expired : call'[a].phase = "idle" /\ ~call'[a].ticket
      /\ \A a \in Appliances \ Expired :
            /\ call'[a].phase = call[a].phase /\ call'[a].ticket = call[a].ticket
            /\ call[a].phase # "answered" => call'[a] = call[a]
            /\ call[a].phase = "answered" =>
                  /\ SameAnswer(call[a], call'[a]) /\ call'[a].present = call[a].present
                  /\ fresh' \/ call'[a].clean => call'[a] = call[a]
  <2>1. CASE call' = freed
    <3>1. call' = [a \in Appliances |-> IF a \in Expired THEN Idle ELSE call[a]]
      BY <2>1 DEF freed
    <3> QED
      BY <1>2, <1>5, <2>1, <3>1, IdleCall DEF SameAnswer
  <2>2. CASE call' = [a \in Appliances |-> Blurred(freed[a])] /\ ~fresh'
    <3>1. \A a \in Appliances : call'[a] = Blurred(freed[a])
      BY <2>2
    <3>2. call' \in [Appliances -> Call]
      BY <1>5, <2>2, BlurredShape
    <3> QED
      BY <1>2, <1>5, <2>2, <3>1, <3>2, IdleCall, BlurredShape
  <2> QED
    BY <1>1, <2>1, <2>2
<1>7. UpstreamTypeOK'
  BY <1>1, <1>6, CallConstant DEF Tally, UpstreamTypeOK
<1>8. /\ With("answered")' = With("answered") /\ With("held")' = With("held")
      /\ Ticketed' = Ticketed \ Expired /\ Bucket' = Bucket
  BY <1>1, <1>2, <1>3, <1>6 DEF With, Ticketed, Bucket
<1>9. \A b \in With("answered") : b \in Appliances \ Expired /\ call[b].phase = "answered"
  BY <1>3 DEF With
<1>10. \A b \in With("held") : b \in Appliances /\ call'[b] = call[b]
  BY <1>3, <1>6 DEF With
<1>11. Slots'
  <2>1. Ticketed \cap Expired = Expired /\ IsFiniteSet(Ticketed)
    BY <1>2, Sized
  <2>2. Cardinality(Ticketed \ Expired) = Cardinality(Ticketed) - Cardinality(Expired)
    BY <2>1, FS_Difference
  <2> QED
    BY <1>4, <1>8, <2>2 DEF Tally, Slots
<1>12. Punctual'
  BY <1>6 DEF Tally, Punctual, SameAnswer
<1>13. Lined'
  BY <1>1, <1>8 DEF Tally, Lined
<1>14. FreshTally'
  <2> SUFFICES ASSUME fresh' PROVE st'.LocalRemaining <= Bucket' + Cardinality(Uncounted')
    BY DEF FreshTally
  <2>1. \A a \in Expired : call[a].phase # "lost"
    BY <1>1
  <2>2. Uncounted' = Uncounted /\ fresh
    BY <1>1, <1>2, <1>3, <1>6, <2>1 DEF Uncounted
  <2> QED
    BY <1>4, <1>8, <2>2 DEF Tally, FreshTally
<1>15. AnswerTally'
  <2> SUFFICES ASSUME NEW b \in With("answered"), call'[b].clean
      PROVE  call'[b].remaining <= Bucket' + Cardinality(Later(b)')
    BY <1>8 DEF AnswerTally
  <2>1. call'[b] = call[b]
    BY <1>6, <1>9
  <2>2. \A a \in Expired : call[a].phase # "lost"
    BY <1>1, <1>5, <1>9, BlurredShape
  <2>3. Later(b)' = Later(b)
    BY <1>1, <1>2, <1>3, <1>6, <2>2 DEF Later
  <2> QED
    BY <1>8, <2>1, <2>3 DEF Tally, AnswerTally
<1>16. HeldTally'
  BY <1>8, <1>10, HeldStay
<1>17. ImpliedUseIsForeign'
  BY <1>6, <1>8, <1>9 DEF Tally, ImpliedUseIsForeign, Implied, SameAnswer
<1>18. ns'.penalty <= ns.penalty /\ ns'.penalty \in Nat /\ (told' => told)
  BY <1>1, BucketShape DEF Tally
<1>19. Warned'
  BY <1>1, <1>6, <1>8, <1>9, <1>18, WarnedStay DEF SameAnswer
<1>20. LockdownOutlastsPenalty'
  BY <1>4, <1>18, StayLocked
<1> QED
  BY <1>4, <1>7, <1>11, <1>12, <1>13, <1>14, <1>15, <1>16, <1>17, <1>19, <1>20 DEF Tally

(* Older, for a call that has not reached the end of its ticket's life *)
LEMMA OlderShape ==
    ASSUME NEW c \in Call, c.phase \in {"held", "answered"} => c.age < Expiry
    PROVE  LET d == Older(c) IN
           /\ d \in Call /\ d.ticket = c.ticket
           /\ c.phase \notin {"answered"} => d.phase = c.phase
           /\ c.phase = "answered" =>
                 IF c.lag = MaxLag THEN d.phase = "lost"
                 ELSE /\ d.phase = "answered" /\ d.present = c.present
                      /\ d.clean = c.clean /\ d.expected = c.expected
                      /\ d.known = c.known /\ d.foreign = c.foreign
                      /\ d.accepted = c.accepted /\ d.remaining = c.remaining
                      /\ d.retryAfter = c.retryAfter
           /\ c.phase = "held" =>
                 /\ d.expected = c.expected /\ d.known = c.known
                 /\ d.foreseen = c.foreseen /\ d.foreign = c.foreign
           /\ d.phase \in {"held", "answered"} => d.age <= Expiry
<1> DEFINE k == AtMost(c.age + 1, Expiry + 1)
           e == [c EXCEPT !.age = k]
<1>1. c.ticket => /\ c.age \in Nat /\ k \in Nat
                  /\ c.phase \in {"held", "answered"} => k <= Expiry
  <2> SUFFICES ASSUME c.ticket
      PROVE  /\ c.age \in Nat /\ k \in Nat
             /\ c.phase \in {"held", "answered"} => k <= Expiry
    OBVIOUS
  <2>1. c.age \in Nat
    BY ShapeOf DEF HeldCall, AnsweredCall, LostCall
  <2> QED
    BY <2>1, UpstreamAssumption DEF AtMost
<1>2. CASE ~c.ticket
  BY <1>2, ShapeOf DEF Older
<1>3. CASE c.phase = "held"
  <2>1. c \in HeldCall /\ c.ticket
    BY <1>3, ShapeOf
  <2> HIDE DEF k
  <2>2. e \in HeldCall /\ e.phase = "held" /\ e.age = k
    BY <1>1, <2>1 DEF HeldCall
  <2>3. Older(c) = e
    BY <2>1, <2>2 DEF Older, k
  <2>4. /\ e.expected = c.expected /\ e.known = c.known /\ e.ticket = c.ticket
        /\ e.foreseen = c.foreseen /\ e.foreign = c.foreign
    BY <2>1 DEF HeldCall
  <2> QED
    BY <1>1, <1>3, <2>1, <2>2, <2>3, <2>4 DEF Call
<1>4. CASE c.phase \in {"dead", "lost"}
  <2>1. c \in LostCall /\ c.ticket
    BY <1>4, ShapeOf
  <2> HIDE DEF k
  <2>2. e \in LostCall /\ e.phase = c.phase /\ e.ticket = c.ticket
    BY <1>1, <2>1 DEF LostCall
  <2>3. Older(c) = e
    BY <1>4, <2>1, <2>2 DEF Older, k
  <2> QED
    BY <1>4, <2>2, <2>3 DEF Call
<1>5. CASE c.phase = "answered"
  <2>1. c \in AnsweredCall /\ c.ticket /\ c.lag \in Nat
    BY <1>5, ShapeOf DEF AnsweredCall
  <2> HIDE DEF k
  <2>2. /\ e \in AnsweredCall /\ e.phase = "answered" /\ e.lag = c.lag /\ e.age = k
        /\ e.ticket = c.ticket
        /\ e.present = c.present /\ e.clean = c.clean /\ e.expected = c.expected
        /\ e.known = c.known /\ e.foreign = c.foreign /\ e.accepted = c.accepted
        /\ e.remaining = c.remaining /\ e.retryAfter = c.retryAfter
    BY <1>1, <2>1 DEF AnsweredCall
  <2>3. Older(c) = IF e.lag = MaxLag THEN Gone(e) ELSE [e EXCEPT !.lag = @ + 1]
    BY <2>1, <2>2 DEF Older, k
  <2> HIDE DEF e
  <2>4. CASE c.lag = MaxLag
    <3>1. Older(c) = Gone(e) /\ e \in Call /\ e.ticket
      BY <2>1, <2>2, <2>3, <2>4 DEF Call
    <3>2. Older(c) \in Call /\ Older(c).phase = "lost" /\ Older(c).ticket
      BY <2>2, <3>1, GoneShape
    <3> QED
      BY <1>5, <2>1, <2>4, <3>2
  <2>5. CASE c.lag # MaxLag
    <3> DEFINE f == [e EXCEPT !.lag = e.lag + 1]
    <3>1. Older(c) = f
      BY <2>2, <2>3, <2>5
    <3>2. e.lag + 1 \in Nat
      BY <2>1, <2>2
    <3>3. /\ f \in AnsweredCall /\ f.phase = "answered" /\ f.age = e.age
          /\ f.ticket = e.ticket
          /\ f.present = e.present /\ f.clean = e.clean /\ f.expected = e.expected
          /\ f.known = e.known /\ f.foreign = e.foreign /\ f.accepted = e.accepted
          /\ f.remaining = e.remaining /\ f.retryAfter = e.retryAfter
      BY <2>2, <3>2 DEF AnsweredCall
    <3> HIDE DEF f
    <3> QED
      BY <1>1, <1>5, <2>1, <2>2, <2>5, <3>1, <3>3 DEF Call
  <2> QED
    BY <2>4, <2>5
<1> QED
  BY <1>2, <1>3, <1>4, <1>5, ShapeOf

(* A tick: NationStates' bucket and penalty run down with CAS's own        *)
(* clocks, and an answer too late to come leaves a counted call behind.    *)
LEMMA TickStep ==
    ASSUME Tally, Tick
    PROVE  Tally'
<1> DEFINE late == {a \in With("answered") : call[a].lag = MaxLag}
<1>1. /\ \A a \in With("held") \cup With("answered") : call[a].age < Expiry
      /\ st' = Elapse(st) /\ UNCHANGED <<fresh, told>>
      /\ ns' = [ns EXCEPT !.left = AtLeast(ns.left - 1, 0),
                          !.penalty = AtLeast(ns.penalty - 1, 0)]
      /\ call' = [a \in Appliances |-> Older(call[a])]
      /\ ahead' = [a \in Appliances |-> IF a \in late THEN {} ELSE ahead[a] \ late]
  BY DEF Tick, Elapses, Leave
<1>2. /\ IInv' /\ st'.InFlight = st.InFlight
      /\ st'.LocalRemaining = st.LocalRemaining
      /\ st'.LockdownActive = st.LockdownActive
      /\ st'.LockdownLeft = AtLeast(st.LockdownLeft - 1, 0)
  <2>1. Sound(st') /\ st'.InFlight = st.InFlight
        /\ st'.LockdownActive = st.LockdownActive
    BY <1>1, ElapseSound DEF Tally, IInv
  <2>2. st'.LocalRemaining = st.LocalRemaining
        /\ st'.LockdownLeft = AtLeast(st.LockdownLeft - 1, 0)
    BY <1>1 DEF Elapse, Tally, IInv, Sound, State
  <2> QED
    BY <2>1, <2>2 DEF IInv
<1>3. /\ ns' \in [remaining : 0 .. Limit, left : Nat, penalty : Nat]
      /\ ns'.penalty = AtLeast(ns.penalty - 1, 0)
      /\ ns'.penalty <= ns.penalty /\ ns'.penalty \in Nat /\ ns.penalty \in Nat
      /\ Bucket' >= Bucket /\ Bucket \in Int /\ Bucket' \in Int
  <2> DEFINE l == AtLeast(ns.left - 1, 0)
             p == AtLeast(ns.penalty - 1, 0)
  <2>1. ns \in [remaining : 0 .. Limit, left : Nat, penalty : Nat]
    BY DEF Tally, UpstreamTypeOK
  <2>2. /\ l \in Nat /\ p \in Nat /\ p <= ns.penalty /\ ns.penalty \in Nat
        /\ ns.left = 0 => l = 0
    BY <2>1 DEF AtLeast
  <2> HIDE DEF l, p
  <2>3. ns' = [ns EXCEPT !.left = l, !.penalty = p]
    BY <1>1 DEF l, p
  <2>4. /\ ns' \in [remaining : 0 .. Limit, left : Nat, penalty : Nat]
        /\ ns'.penalty = p /\ ns'.left = l /\ ns'.remaining = ns.remaining
    BY <2>1, <2>2, <2>3
  <2>5. Bucket' >= Bucket /\ Bucket \in Int /\ Bucket' \in Int
    BY <2>1, <2>2, <2>4, UpstreamAssumption DEF Bucket
  <2> QED
    BY <2>2, <2>4, <2>5 DEF p
<1>4. ASSUME NEW a \in Appliances
      PROVE  /\ call'[a] = Older(call[a]) /\ call[a] \in Call
             /\ call[a].phase \in {"held", "answered"} => call[a].age < Expiry
             /\ a \in late <=> call[a].phase = "answered" /\ call[a].lag = MaxLag
  BY <1>1, CallShape DEF With, Tally
<1>5. ASSUME NEW a \in Appliances
      PROVE  /\ call'[a] \in Call /\ call'[a].ticket = call[a].ticket
             /\ call[a].phase # "answered" => call'[a].phase = call[a].phase
             /\ call'[a].phase \in {"held", "answered"} => call'[a].age <= Expiry
             /\ a \in late => call[a].phase = "answered" /\ call'[a].phase = "lost"
             /\ call[a].phase = "answered" /\ a \notin late =>
                   /\ call'[a].phase = "answered" /\ call'[a].present = call[a].present
                   /\ call'[a].clean = call[a].clean
                   /\ call'[a].expected = call[a].expected
                   /\ call'[a].known = call[a].known /\ call'[a].foreign = call[a].foreign
                   /\ call'[a].accepted = call[a].accepted
                   /\ call'[a].remaining = call[a].remaining
                   /\ call'[a].retryAfter = call[a].retryAfter
             /\ call[a].phase = "held" =>
                   /\ call'[a].expected = call[a].expected
                   /\ call'[a].known = call[a].known
                   /\ call'[a].foreseen = call[a].foreseen
                   /\ call'[a].foreign = call[a].foreign
  BY <1>4, OlderShape
<1>6. /\ With("answered")' = With("answered") \ late /\ With("held")' = With("held")
      /\ Ticketed' = Ticketed /\ Uncounted' = Uncounted
      /\ late \subseteq With("answered")
  BY <1>5 DEF With, Ticketed, Uncounted
<1>7. /\ ahead' \in [Appliances -> SUBSET Appliances]
      /\ \A a \in Appliances : ahead'[a] \subseteq ahead[a]
      /\ \A a \in Appliances \ late : ahead'[a] = ahead[a] \ late
      /\ \A a \in late : ahead'[a] = {}
  BY <1>1 DEF Tally, UpstreamTypeOK, With
<1>8. UpstreamTypeOK'
  <2>1. call' \in [Appliances -> Call]
    BY <1>1, <1>5
  <2> QED
    BY <1>1, <1>3, <1>7, <2>1, CallConstant DEF Tally, UpstreamTypeOK
<1>9. \A b \in With("answered")' : b \in Appliances \ late /\ call[b].phase = "answered"
  BY <1>6 DEF With
<1> HIDE DEF late
<1>10. Punctual'
  BY <1>5 DEF Punctual
<1>11. Slots'
  BY <1>2, <1>6 DEF Tally, Slots
<1>12. Lined'
  <2>1. \A b \in Appliances : ahead'[b] \subseteq With("answered")'
    BY <1>6, <1>7 DEF Tally, Lined
  <2>2. \A b, c \in With("answered")' : b = c \/ b \in ahead'[c] \/ c \in ahead'[b]
    BY <1>6, <1>7, <1>9 DEF Tally, Lined
  <2> QED
    BY <2>1, <2>2 DEF Lined
<1>13. FreshTally'
  <2>1. Cardinality(Uncounted) \in Nat /\ st.LocalRemaining \in Int
    BY Sized DEF Uncounted, Tally, IInv, Sound, State
  <2> QED
    BY <1>1, <1>2, <1>3, <1>6, <2>1 DEF Tally, FreshTally
<1>14. AnswerTally'
  <2> SUFFICES ASSUME NEW b \in With("answered")', call'[b].clean
      PROVE  call'[b].remaining <= Bucket' + Cardinality(Later(b)')
    BY DEF AnswerTally
  <2>1. /\ b \in With("answered") /\ b \in Appliances \ late /\ call[b].clean
        /\ call'[b].remaining = call[b].remaining /\ call[b].phase = "answered"
    BY <1>5, <1>6, <1>9
  <2>2. Later(b) \in SUBSET Later(b)' /\ Later(b)' \in SUBSET Appliances
    <3>1. ASSUME NEW x \in Later(b)
          PROVE  x \in Later(b)'
      <4>1. CASE call[x].phase = "lost"
        BY <1>5, <4>1 DEF Later
      <4>2. CASE x \in late
        BY <1>5, <4>2 DEF Later
      <4>3. CASE call[x].phase = "answered" /\ b \in ahead[x] /\ x \notin late
        BY <1>5, <1>7, <2>1, <4>3 DEF Later
      <4> QED
        BY <4>1, <4>2, <4>3 DEF Later
    <3> QED
      BY <3>1 DEF Later
  <2>3. Cardinality(Later(b)) <= Cardinality(Later(b)')
    BY <2>2, Sized
  <2>4. call[b].remaining <= Bucket + Cardinality(Later(b))
    BY <2>1 DEF Tally, AnswerTally
  <2>5. Cardinality(Later(b)) \in Nat /\ Cardinality(Later(b)') \in Nat
    BY <2>2, Sized DEF Later
  <2>6. call[b].remaining \in Nat
    BY <2>1, CallShape DEF Tally, AnsweredCall
  <2> QED
    BY <1>3, <2>1, <2>3, <2>4, <2>5, <2>6
<1>15. HeldTally'
  <2> SUFFICES ASSUME NEW b \in With("held"), call'[b].known
      PROVE  /\ call'[b].expected < Limit
             /\ \/ call'[b].expected + 1 + Cardinality(call'[b].foreseen)
                     <= Bucket' + call'[b].foreign
                \/ call'[b].foreign = Limit
    BY <1>6 DEF HeldTally
  <2>1. /\ b \in Appliances /\ call[b].phase = "held" /\ call[b] \in HeldCall
        /\ call'[b].expected = call[b].expected /\ call[b].known
        /\ call'[b].foreseen = call[b].foreseen /\ call'[b].foreign = call[b].foreign
    BY <1>5, CallShape DEF With, Tally
  <2>2. /\ call[b].expected < Limit
        /\ \/ call[b].expected + 1 + Cardinality(call[b].foreseen)
                <= Bucket + call[b].foreign
           \/ call[b].foreign = Limit
    BY <2>1 DEF Tally, HeldTally
  <2>3. /\ call[b].expected \in Int /\ call[b].foreseen \in SUBSET Appliances
        /\ call[b].foreign \in 0 .. Limit
    BY <2>1 DEF HeldCall
  <2>4. Cardinality(call[b].foreseen) \in Nat
    BY <2>3, Sized
  <2> QED
    BY <1>3, <2>1, <2>2, <2>3, <2>4
<1>16. \A b \in With("answered")' :
          /\ b \in With("answered") /\ ahead'[b] \subseteq ahead[b]
          /\ call'[b].present = call[b].present
          /\ call'[b].expected = call[b].expected
          /\ call'[b].known = call[b].known /\ call'[b].foreign = call[b].foreign
          /\ call'[b].accepted = call[b].accepted
          /\ call'[b].remaining = call[b].remaining
          /\ call'[b].retryAfter = call[b].retryAfter
  BY <1>5, <1>6, <1>7, <1>9
<1>17. ImpliedUseIsForeign'
  BY <1>16 DEF Tally, ImpliedUseIsForeign, Implied
<1>18. Warned'
  BY <1>1, <1>3, <1>16, WarnedStay
<1>19. LockdownOutlastsPenalty'
  <2>1. st.LockdownLeft \in Nat
    BY DEF Tally, IInv, Sound, State
  <2> QED
    BY <1>1, <1>2, <1>3, <2>1 DEF LockdownOutlastsPenalty, Tally, AtLeast
<1> QED
  BY <1>2, <1>8, <1>10, <1>11, <1>12, <1>13, <1>14, <1>15, <1>17, <1>18, <1>19 DEF Tally

-----------------------------------------------------------------------------
(* Theorems *)

LEMMA TallyInit == UpstreamInit => Tally
<1> SUFFICES ASSUME UpstreamInit PROVE Tally
  OBVIOUS
<1>1. /\ ns \in [remaining : 0 .. Limit, left : {Period}, penalty : {0}]
      /\ call = [a \in Appliances |-> Idle] /\ ahead = [a \in Appliances |-> {}]
      /\ fresh = FALSE /\ told = FALSE
  BY DEF UpstreamInit
<1>2. PICK cfg \in Configs : st = New(cfg)
  BY DEF UpstreamInit, QuotaInit
<1>3. IInv /\ st.InFlight = 0
  BY <1>2, NewSound, InputsAssumption DEF IInv, New, RawConfig
<1>4. \A a \in Appliances : call[a] = Idle /\ call[a].phase = "idle" /\ ~call[a].ticket
  BY <1>1, IdleCall
<1>5. UpstreamTypeOK
  <2>1. ns \in [remaining : 0 .. Limit, left : Nat, penalty : Nat]
    BY <1>1, UpstreamAssumption
  <2> QED
    BY <1>1, <2>1, IdleCall DEF UpstreamTypeOK
<1>6. With("answered") = {} /\ With("held") = {} /\ Ticketed = {}
  BY <1>4 DEF With, Ticketed
<1>7. Slots
  BY <1>3, <1>6, FS_EmptySet DEF Slots
<1>8. Punctual
  BY <1>4 DEF Punctual
<1>9. Lined
  BY <1>1, <1>6 DEF Lined
<1>10. /\ FreshTally /\ AnswerTally /\ HeldTally /\ ImpliedUseIsForeign /\ Warned
       /\ LockdownOutlastsPenalty
  BY <1>1, <1>6 DEF FreshTally, AnswerTally, HeldTally, ImpliedUseIsForeign, Warned,
                    LockdownOutlastsPenalty
<1> QED
  BY <1>3, <1>5, <1>7, <1>8, <1>9, <1>10 DEF Tally

LEMMA TallyStutter ==
    ASSUME Tally, UNCHANGED upVars
    PROVE  Tally'
<1>1. UNCHANGED <<st, ns, call, ahead, fresh, told>>
  BY DEF upVars
<1> USE DEF Tally
<1>2. UpstreamTypeOK'
  BY <1>1, CallConstant DEF UpstreamTypeOK
<1>3. IInv' /\ Slots' /\ Punctual' /\ Lined'
  BY <1>1 DEF IInv, Slots, Ticketed, Punctual, Lined, With
<1>4. FreshTally' /\ AnswerTally' /\ HeldTally'
  BY <1>1 DEF FreshTally, AnswerTally, HeldTally, With, Bucket, Uncounted, Later
<1>5. ImpliedUseIsForeign' /\ Warned' /\ LockdownOutlastsPenalty'
  BY <1>1 DEF ImpliedUseIsForeign, Warned, LockdownOutlastsPenalty, With
<1> QED
  BY <1>2, <1>3, <1>4, <1>5

LEMMA TallyStep ==
    ASSUME Tally, Orderly, [UpstreamNext]_upVars
    PROVE  Tally'
<1>1. ASSUME NEW c \in RawClasses, NEW n \in Demands, Refuse(c, n)
      PROVE  Tally'
  BY <1>1, RefuseStep
<1>2. ASSUME NEW c \in RawClasses, NEW n \in Demands, NEW a \in Appliances,
             Acquire(a, c, n) \/ Combined(a, c, n)
      PROVE  Tally'
  BY <1>2, AcquireStep, CombinedStep
<1>3. ASSUME NEW a \in Appliances, CallAccepted(a)
      PROVE  Tally'
  <2>1. call[a].phase \in {"held", "stray"}
    BY <1>3 DEF CallAccepted, Calls
  <2> QED
    BY <1>3, <2>1, TicketCallStep, StrayCallStep
<1>4. ASSUME NEW a \in Appliances,
             CallPunished(a) \/ Report200(a) \/ Report429(a) \/ Crash(a)
      PROVE  Tally'
  BY <1>4, PunishedStep, Report200Step, Report429Step, CrashStep
<1> QED
  BY <1>1, <1>2, <1>3, <1>4, LegacyStep, ReaperStep, RestartStep, TickStep, TallyStutter
     DEF UpstreamNext

(* Tally holds in every reachable state. *)
THEOREM TallyAlways ==
    ASSUME Orderly
    PROVE  UpstreamSpec => []Tally
<1>1. Tally /\ [UpstreamNext]_upVars => Tally'
  BY TallyStep
<1> QED
  BY <1>1, TallyInit, PTL DEF UpstreamSpec

(* CAS never counts on more of NationStates' bucket than is left beside    *)
(* the calls about to be made, from a fresh figure on until a refill is    *)
(* assumed, a script calls or a counted call's ticket is reaped.           *)
THEOREM NoOvercommitAlways ==
    ASSUME Orderly
    PROVE  UpstreamSpec => []NeverOvercommits
<1>1. Tally => NeverOvercommits
  BY NoOvercommit DEF Tally
<1> QED
  BY <1>1, TallyAlways, PTL

(* The lockdown of a penalty CAS has been told of never ends before it,    *)
(* however many 429s of this penalty or an earlier one are still to come.  *)
THEOREM LockdownOutlastsAlways ==
    ASSUME Orderly
    PROVE  UpstreamSpec => []LockdownOutlastsPenalty
<1>1. Tally => LockdownOutlastsPenalty
  BY DEF Tally
<1> QED
  BY <1>1, TallyAlways, PTL

(* Legacy use is never made up: what a report implies has been called by   *)
(* somebody its ticket did not foresee, unless the figure was not fresh.   *)
THEOREM ImpliedUseAlways ==
    ASSUME Orderly
    PROVE  UpstreamSpec => []ImpliedUseIsForeign
<1>1. Tally => ImpliedUseIsForeign
  BY DEF Tally
<1> QED
  BY <1>1, TallyAlways, PTL
=============================================================================
