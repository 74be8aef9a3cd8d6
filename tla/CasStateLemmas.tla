---------------------------- MODULE CasStateLemmas ----------------------------
(***************************************************************************)
(* What the operators of CasState preserve, for every State: its type, and *)
(* the condition Sound that ties the sustained budget to the lockdown.     *)
(***************************************************************************)
EXTENDS CasState, TLAPS

(* The inductive invariant of the State object.  Besides the properties of *)
(* module Quota it says that no sustained window opens before the first    *)
(* report: the tickets issued on the cold start are charged to no window.  *)
Sound(s) ==
    /\ s \in State
    /\ s.cfg.SustainedMinLimit <= s.SustainedLimit
    /\ s.SustainedLimit <= s.cfg.SustainedMaxLimit
    /\ ~s.Calibrated => s.SustainedLeft = -1
    /\ s.Calibrated /\ s.SustainedLeft >= 0 => s.SustainedUsed <= s.SustainedLimit
    /\ s.LockdownActive => /\ s.Calibrated
                           /\ s.LockdownLeft = s.SustainedLeft
                           /\ s.SustainedUsed = s.SustainedLimit
                           /\ s.penaltyInWindow

(* What most operators leave alone: all that Sound speaks of but the type, *)
(* and the slots in use.                                                   *)
SameBudget(s, t) ==
    /\ t.cfg = s.cfg
    /\ t.InFlight = s.InFlight
    /\ t.Calibrated = s.Calibrated
    /\ t.SustainedLimit = s.SustainedLimit
    /\ t.SustainedUsed = s.SustainedUsed
    /\ t.SustainedLeft = s.SustainedLeft
    /\ t.penaltyInWindow = s.penaltyInWindow
    /\ t.LockdownActive = s.LockdownActive
    /\ t.LockdownLeft = s.LockdownLeft

LEMMA SoundFrame ==
    ASSUME NEW s, NEW t \in State, Sound(s), SameBudget(s, t)
    PROVE  Sound(t)
BY DEF Sound, SameBudget

-----------------------------------------------------------------------------
(* Class budgets *)

(* No share exceeds its rounded part of the bucket, its demand or its ceiling. *)
LEMMA ShareWithinCeiling ==
    ASSUME NEW s \in State, NEW c \in Active(s)
    PROVE  LET w   == ActiveWeight(s)
               raw == (2 * s.BucketLimit * Weight[c] + w) \div (2 * w)
           IN  /\ Share(s, c) \in Nat
               /\ Share(s, c) <= raw
               /\ Share(s, c) <= s.DemandSum[c]
               /\ Share(s, c) <= MaxAllowed(c, s.BucketLimit)
<1> DEFINE w   == ActiveWeight(s)
           n   == 2 * s.BucketLimit * Weight[c] + w
           raw == n \div (2 * w)
<1>1. w \in 1 .. 7
  BY DEF Active, ActiveWeight, Total, Classes, Weight
<1>2. /\ s.BucketLimit \in Nat /\ s.DemandSum[c] \in Nat
      /\ Weight[c] \in Nat /\ MaxAllowed(c, s.BucketLimit) \in Nat
  BY DEF State, Active, Weight, Classes, MaxAllowed
<1>3. raw \in Nat
  <2>1. n \in Nat
    BY <1>1, <1>2
  <2> QED
    <3> HIDE DEF n, w
    <3> QED BY <1>1, <2>1
<1>4. Share(s, c) = AtMost(AtMost(raw, s.DemandSum[c]), MaxAllowed(c, s.BucketLimit))
  BY DEF Share
<1> HIDE DEF raw
<1>5. /\ Share(s, c) \in Nat
      /\ Share(s, c) <= raw
      /\ Share(s, c) <= s.DemandSum[c]
      /\ Share(s, c) <= MaxAllowed(c, s.BucketLimit)
  BY <1>2, <1>3, <1>4 DEF AtMost
<1> QED
  BY <1>5 DEF raw

(* The shares of the eight possible sets of active classes, rounded one by *)
(* one, never add up to more than the bucket.                              *)
LEMMA SplitWithinBucket ==
    ASSUME NEW s \in State
    PROVE  /\ Split(s) \in [Classes -> Nat]
           /\ Total(Split(s)) \in 0 .. s.BucketLimit
           /\ \A c \in Classes : /\ Split(s)[c] <= s.DemandSum[c]
                                 /\ Split(s)[c] <= MaxAllowed(c, s.BucketLimit)
<1> DEFINE B == s.BucketLimit
           w == ActiveWeight(s)
           f == Split(s)
           high == "P1_HIGH" \in Active(s)
           medium == "P2_MEDIUM" \in Active(s)
           low == "P3_LOW" \in Active(s)
<1>1. B \in Nat \ {0}
  BY DEF State
<1>2. f \in [Classes -> Nat]
  BY ShareWithinCeiling DEF Split
<1>3. \A c \in Classes : /\ f[c] <= s.DemandSum[c]
                         /\ f[c] <= MaxAllowed(c, s.BucketLimit)
  <2>1. \A c \in Active(s) : f[c] = Share(s, c)
    BY DEF Split, Active
  <2>2. \A c \in Classes \ Active(s) : f[c] = 0
    BY DEF Split
  <2>3. \A c \in Classes : s.DemandSum[c] \in Nat /\ MaxAllowed(c, s.BucketLimit) \in Nat
    BY <1>1 DEF State, MaxAllowed, Classes
  <2> QED
    BY <2>1, <2>2, <2>3, ShareWithinCeiling DEF Active
<1>4. w = (IF high THEN 4 ELSE 0) + (IF medium THEN 2 ELSE 0) + (IF low THEN 1 ELSE 0)
  BY DEF ActiveWeight, Total, Weight, Classes
<1>5. \A c \in Active(s) : /\ f[c] <= (2 * B * Weight[c] + w) \div (2 * w)
                           /\ f[c] <= MaxAllowed(c, B)
  BY ShareWithinCeiling DEF Split, Active
<1>6. high => f["P1_HIGH"] <= (8 * B + w) \div (2 * w) /\ f["P1_HIGH"] <= B \div 2
  <2>1. Weight["P1_HIGH"] = 4 /\ MaxAllowed("P1_HIGH", B) = B \div 2
    BY DEF Weight, Classes, MaxAllowed
  <2>2. 2 * B * 4 = 8 * B
    BY <1>1
  <2> QED
    BY <1>5, <2>1, <2>2
<1>7. /\ medium => f["P2_MEDIUM"] <= (4 * B + w) \div (2 * w)
      /\ low => f["P3_LOW"] <= (2 * B + w) \div (2 * w)
  <2>1. Weight["P2_MEDIUM"] = 2 /\ Weight["P3_LOW"] = 1
    BY DEF Weight, Classes
  <2>2. 2 * B * 2 = 4 * B /\ 2 * B * 1 = 2 * B
    BY <1>1
  <2> QED
    BY <1>5, <2>1, <2>2
<1>8. /\ ~high => f["P1_HIGH"] = 0
      /\ ~medium => f["P2_MEDIUM"] = 0
      /\ ~low => f["P3_LOW"] = 0
  BY DEF Split, Classes
<1> DEFINE x == f["P1_HIGH"]
           y == f["P2_MEDIUM"]
           z == f["P3_LOW"]
<1>9. x \in Nat /\ y \in Nat /\ z \in Nat
  BY <1>2 DEF Classes
<1>10. x + y + z <= B
  <2> HIDE DEF x, y, z, w, high, medium, low, B
  <2>0. /\ (high \in BOOLEAN) /\ (medium \in BOOLEAN) /\ (low \in BOOLEAN)
    BY DEF high, medium, low
  <2>1. CASE high /\ medium /\ low
    BY <2>1, <1>1, <1>4, <1>5, <1>6, <1>7, <1>8, <1>9 DEF x, y, z
  <2>2. CASE high /\ medium /\ ~low
    BY <2>2, <1>1, <1>4, <1>5, <1>6, <1>7, <1>8, <1>9 DEF x, y, z
  <2>3. CASE high /\ ~medium /\ low
    BY <2>3, <1>1, <1>4, <1>5, <1>6, <1>7, <1>8, <1>9 DEF x, y, z
  <2>4. CASE high /\ ~medium /\ ~low
    BY <2>4, <1>1, <1>4, <1>5, <1>6, <1>7, <1>8, <1>9 DEF x, y, z
  <2>5. CASE ~high /\ medium /\ low
    BY <2>5, <1>1, <1>4, <1>5, <1>6, <1>7, <1>8, <1>9 DEF x, y, z
  <2>6. CASE ~high /\ medium /\ ~low
    BY <2>6, <1>1, <1>4, <1>5, <1>6, <1>7, <1>8, <1>9 DEF x, y, z
  <2>7. CASE ~high /\ ~medium
    BY <2>7, <1>1, <1>4, <1>5, <1>6, <1>7, <1>8, <1>9 DEF x, y, z
  <2> QED
    BY <2>0, <2>1, <2>2, <2>3, <2>4, <2>5, <2>6, <2>7
<1> QED
  BY <1>1, <1>2, <1>3, <1>9, <1>10 DEF Total

LEMMA ResetClassBudgetsType ==
    ASSUME NEW s \in State
    PROVE  /\ ResetClassBudgets(s) \in State
           /\ SameBudget(s, ResetClassBudgets(s))
<1>1. /\ Split(s) \in [Classes -> Nat]
      /\ AtLeast(s.BucketLimit - Total(Split(s)), 0) \in Nat
  BY SplitWithinBucket DEF State, AtLeast
<1>2. NoQuota \in [Classes -> Nat]
  BY DEF NoQuota
<1> QED
  BY <1>1, <1>2 DEF State, ResetClassBudgets, SameBudget

LEMMA DeductQuotaType ==
    ASSUME NEW s \in State, NEW c, HasClassQuota(s, c) \/ HasSharedQuota(s)
    PROVE  /\ DeductQuota(s, c) \in State
           /\ SameBudget(s, DeductQuota(s, c))
BY DEF State, HasClassQuota, HasSharedQuota, DeductQuota, SameBudget

LEMMA NoteDemandType ==
    ASSUME NEW s \in State, NEW c, NEW n \in Nat
    PROVE  /\ NoteDemand(s, c, n) \in State
           /\ SameBudget(s, NoteDemand(s, c, n))
<1>1. DemandClass(c) \in Classes
  BY DEF DemandClass, Classes
<1>2. AtMost(s.DemandSum[DemandClass(c)] + n, DemandCap) \in Nat
  BY <1>1, CapsAssumption DEF State, AtMost
<1> QED
  BY <1>1, <1>2 DEF State, NoteDemand, SameBudget

-----------------------------------------------------------------------------
(* Construction *)

LEMMA NewSound ==
    ASSUME NEW raw \in [BucketLimit : Int, PolicyWindowSec : Int,
                        SustainedWindowSec : Int, SustainedMinLimit : Int,
                        SustainedMaxLimit : Int, SustainedLimit : Int]
    PROVE  Sound(New(raw))
<1> DEFINE cfg == Normalised(raw)
<1>1. /\ cfg \in NormalConfig
      /\ cfg.SustainedMinLimit <= cfg.SustainedLimit
      /\ cfg.SustainedLimit <= cfg.SustainedMaxLimit
  BY DefaultsAssumption DEF Normalised, NormalConfig, Positive, AtMost, AtLeast
<1>2. NoQuota \in [Classes -> Nat]
  BY DEF NoQuota
<1>3. -MaxLag \in Int
  BY CapsAssumption
<1> HIDE DEF cfg
<1>4. New(raw) \in State
  BY <1>1, <1>2, <1>3 DEF New, State, NormalConfig, cfg
<1> QED
  BY <1>1, <1>4 DEF New, Sound, cfg

-----------------------------------------------------------------------------
(* The two windows *)

LEMMA PolicyWindowType ==
    ASSUME NEW s \in State
    PROVE  PolicyWindow(s) \in Nat \ {0}
BY DEF State, NormalConfig, PolicyWindow

LEMMA RefreshSound ==
    ASSUME NEW s, Sound(s)
    PROVE  /\ Sound(refreshRemaining(s))
           /\ SameBudget(s, refreshRemaining(s))
           /\ ~s.WindowActive =>
                 refreshRemaining(s).LocalRemaining = refreshRemaining(s).BucketLimit
<1> DEFINE r == ResetClassBudgets(s)
           bucket == s.BucketLimit
           window == PolicyWindow(s)
           t == [r EXCEPT !.LocalRemaining = bucket, !.WindowActive = TRUE,
                          !.WindowLeft = window, !.windowOpened = TRUE]
<1>1. CASE s.WindowActive /\ s.WindowLeft > 0
  BY <1>1 DEF refreshRemaining, SameBudget
<1>2. CASE ~(s.WindowActive /\ s.WindowLeft > 0)
  <2>1. s \in State
    BY DEF Sound
  <2>2. r \in State /\ SameBudget(s, r) /\ r.BucketLimit = s.BucketLimit
    BY <2>1, ResetClassBudgetsType DEF ResetClassBudgets, State
  <2>3. window \in Int /\ bucket \in Int
    BY <2>1, PolicyWindowType DEF State
  <2>4. refreshRemaining(s) = t
    BY <1>2 DEF refreshRemaining
  <2> HIDE DEF r, bucket, window
  <2>5. t \in State
    BY <2>2, <2>3 DEF State
  <2>6. SameBudget(r, t) /\ t.LocalRemaining = bucket /\ t.BucketLimit = bucket
    BY <2>2 DEF State, SameBudget, bucket
  <2>7. SameBudget(s, t)
    BY <2>2, <2>6 DEF SameBudget
  <2> QED
    BY <2>4, <2>5, <2>6, <2>7, SoundFrame
<1> QED
  BY <1>1, <1>2

(* Rolling the sustained window keeps the budget sound and leaves a window *)
(* open with something left to spend on it, unless one was open already.   *)
LEMMA RollSound ==
    ASSUME NEW s, Sound(s), s.Calibrated, ~s.LockdownActive
    PROVE  LET t == rollSustainedWindow(s) IN
           /\ Sound(t)
           /\ t.Calibrated /\ ~t.LockdownActive
           /\ t.SustainedLeft > 0
           /\ t.InFlight = s.InFlight
           /\ t.LocalRemaining = s.LocalRemaining
           /\ t.BucketLimit = s.BucketLimit
           /\ s.SustainedLeft = 0 /\ s.penaltyInWindow =>
                 t.SustainedUsed = 0 /\ t.SustainedLimit = s.SustainedLimit
<1> DEFINE limit == IF Earned(s) THEN s.SustainedLimit + 1 ELSE s.SustainedLimit
           t == [s EXCEPT !.SustainedLimit = limit, !.penaltyInWindow = FALSE,
                          !.SustainedUsed = 0,
                          !.SustainedLeft = s.SustainedWindowSec]
<1>1. s \in State
  BY DEF Sound
<1>2. CASE s.SustainedLeft > 0
  BY <1>1, <1>2 DEF rollSustainedWindow
<1>3. CASE ~(s.SustainedLeft > 0)
  <2>1. /\ limit \in Nat
        /\ s.cfg.SustainedMinLimit <= limit /\ limit <= s.cfg.SustainedMaxLimit
        /\ s.penaltyInWindow => limit = s.SustainedLimit
    BY <1>1 DEF Sound, State, NormalConfig, Earned
  <2>2. rollSustainedWindow(s) = t
    BY <1>3 DEF rollSustainedWindow
  <2> HIDE DEF limit
  <2>3. t \in State
    BY <1>1, <2>1 DEF State
  <2>4. /\ t.cfg = s.cfg /\ t.Calibrated /\ ~t.LockdownActive
        /\ t.SustainedLimit = limit /\ t.SustainedUsed = 0
        /\ t.SustainedLeft = s.SustainedWindowSec
        /\ t.InFlight = s.InFlight
        /\ t.LocalRemaining = s.LocalRemaining
        /\ t.BucketLimit = s.BucketLimit
    BY <1>1 DEF State
  <2>5. s.SustainedWindowSec > 0
    BY <1>1 DEF State
  <2> HIDE DEF t
  <2> QED
    BY <2>1, <2>2, <2>3, <2>4, <2>5 DEF Sound
<1> QED
  BY <1>1, <1>2, <1>3 DEF State

LEMMA LiftLockdownSound ==
    ASSUME NEW s, Sound(s)
    PROVE  LET t == LiftLockdown(s) IN
           /\ Sound(t)
           /\ ~t.LockdownActive
           /\ t.Calibrated = s.Calibrated
           /\ t.InFlight = s.InFlight
           /\ s.LockdownActive => ~t.WindowActive
           /\ t.SustainedLeft = s.SustainedLeft
           /\ t.SustainedLimit = s.SustainedLimit
           /\ t.penaltyInWindow = s.penaltyInWindow
<1>1. s \in State
  BY DEF Sound
<1>2. CASE ~s.LockdownActive
  BY <1>2 DEF LiftLockdown
<1>3. CASE s.LockdownActive
  <2> DEFINE t == [s EXCEPT !.LockdownActive = FALSE, !.WindowActive = FALSE]
  <2>1. /\ t \in State
        /\ t.cfg = s.cfg /\ t.Calibrated = s.Calibrated
        /\ t.InFlight = s.InFlight
        /\ ~t.LockdownActive /\ ~t.WindowActive
        /\ t.SustainedLimit = s.SustainedLimit
        /\ t.SustainedUsed = s.SustainedUsed
        /\ t.SustainedLeft = s.SustainedLeft
        /\ t.penaltyInWindow = s.penaltyInWindow
    BY <1>1 DEF State
  <2>2. LiftLockdown(s) = t
    BY <1>3 DEF LiftLockdown
  <2> HIDE DEF t
  <2> QED
    BY <2>1, <2>2 DEF Sound
<1> QED
  BY <1>2, <1>3

(* CanDispatch settles the State into one of three situations: a penalty   *)
(* is being served and nothing changed; nothing is calibrated yet; or a    *)
(* sustained window is open and no penalty pending.                        *)
LEMMA SettleSound ==
    ASSUME NEW s, Sound(s)
    PROVE  LET t == Settle(s) IN
           /\ Sound(t)
           /\ t.InFlight = s.InFlight
           /\ t.Calibrated = s.Calibrated
           /\ Locked(s) => t = s
           /\ ~Locked(s) => ~t.LockdownActive
           /\ ~Locked(s) /\ s.Calibrated => t.SustainedLeft > 0
           /\ ~Locked(s) /\ s.LockdownActive =>
                 /\ t.LocalRemaining = t.BucketLimit
                 /\ t.SustainedUsed = 0
                 /\ t.SustainedLimit = s.SustainedLimit
<1> DEFINE a == LiftLockdown(s)
           b == refreshRemaining(a)
           c == rollSustainedWindow(b)
<1>1. CASE Locked(s)
  BY <1>1 DEF Settle
<1>2. CASE ~Locked(s)
  <2>1. /\ Sound(a) /\ ~a.LockdownActive /\ a.Calibrated = s.Calibrated
        /\ a.InFlight = s.InFlight
        /\ s.LockdownActive => ~a.WindowActive
        /\ a.SustainedLeft = s.SustainedLeft
        /\ a.SustainedLimit = s.SustainedLimit
        /\ a.penaltyInWindow = s.penaltyInWindow
    BY LiftLockdownSound
  <2>2. s.LockdownActive => s.Calibrated /\ s.SustainedLeft = 0 /\ s.penaltyInWindow
    BY <1>2 DEF Sound, State, Locked
  <2>3. CASE ~s.Calibrated
    BY <1>2, <2>1, <2>2, <2>3 DEF Settle
  <2>4. CASE s.Calibrated
    <3> HIDE DEF a
    <3>1. /\ Sound(b) /\ SameBudget(a, b)
          /\ ~a.WindowActive => b.LocalRemaining = b.BucketLimit
      BY <2>1, RefreshSound
    <3> HIDE DEF b
    <3>2. b.Calibrated /\ ~b.LockdownActive
      BY <2>1, <2>4, <3>1 DEF SameBudget
    <3>3. /\ Sound(c) /\ c.Calibrated /\ ~c.LockdownActive
          /\ c.SustainedLeft > 0
          /\ c.InFlight = b.InFlight
          /\ c.LocalRemaining = b.LocalRemaining
          /\ c.BucketLimit = b.BucketLimit
          /\ b.SustainedLeft = 0 /\ b.penaltyInWindow =>
                c.SustainedUsed = 0 /\ c.SustainedLimit = b.SustainedLimit
      BY <3>1, <3>2, RollSound
    <3>4. Settle(s) = c
      BY <1>2, <2>4 DEF Settle, a, b
    <3> HIDE DEF c
    <3>5. c.Calibrated = s.Calibrated
      BY <2>4, <3>3 DEF Sound, State
    <3> QED
      BY <1>2, <2>1, <2>2, <3>1, <3>3, <3>4, <3>5 DEF SameBudget
  <2> QED
    BY <2>3, <2>4 DEF Sound, State
<1> QED
  BY <1>1, <1>2

(* A ticket issued against an open window with room, or on the cold start. *)
LEMMA IssueSound ==
    ASSUME NEW s, Sound(s), ~s.LockdownActive,
           s.Calibrated => s.SustainedLeft > 0 /\ s.SustainedUsed < s.SustainedLimit
    PROVE  LET t == Issue(s) IN
           /\ Sound(t)
           /\ t.InFlight = s.InFlight + 1
           /\ ~t.LockdownActive
           /\ t.SustainedUsed <= s.SustainedUsed + 1
           /\ t.SustainedLimit = s.SustainedLimit
           /\ t.LocalRemaining = s.LocalRemaining
           /\ t.BucketLimit = s.BucketLimit
<1> DEFINE used == AtMost(s.SustainedUsed + 1, UsedCap)
           a == [s EXCEPT !.InFlight = @ + 1]
           t == [a EXCEPT !.SustainedUsed = used]
<1>1. s \in State
  BY DEF Sound
<1>2. used \in Nat /\ used <= s.SustainedUsed + 1
  BY <1>1, CapsAssumption DEF State, AtMost
<1>3. a \in State
  BY <1>1 DEF State
<1>4. Issue(s) = t
  BY <1>1 DEF Issue, DeductSustained, State
<1> HIDE DEF used
<1>5. t \in State
  BY <1>2, <1>3 DEF State
<1>6. /\ t.cfg = s.cfg /\ t.Calibrated = s.Calibrated
      /\ t.InFlight = s.InFlight + 1
      /\ t.SustainedLimit = s.SustainedLimit /\ t.SustainedUsed = used
      /\ t.SustainedLeft = s.SustainedLeft
      /\ t.LockdownActive = s.LockdownActive
      /\ t.LocalRemaining = s.LocalRemaining /\ t.BucketLimit = s.BucketLimit
  BY <1>1 DEF State
<1> HIDE DEF t
<1>7. Sound(t)
  BY <1>1, <1>2, <1>5, <1>6 DEF Sound, State
<1> QED
  BY <1>2, <1>4, <1>6, <1>7

-----------------------------------------------------------------------------
(* Reports *)

Header == [limit : Nat, policy : Nat, remaining : Int]

LEMMA ReportedSound ==
    ASSUME NEW s, Sound(s), s.InFlight > 0, NEW h \in Header
    PROVE  LET t == Reported(s, h) IN
           /\ Sound(t)
           /\ t.Calibrated
           /\ t.InFlight = s.InFlight - 1
           /\ t.SustainedLimit = s.SustainedLimit
           /\ t.SustainedUsed = s.SustainedUsed
           /\ t.LockdownActive = s.LockdownActive
           /\ t.LockdownLeft = s.LockdownLeft
<1> DEFINE bucket == IF h.limit > 0 THEN h.limit ELSE s.BucketLimit
           left == IF s.Calibrated THEN s.LocalRemaining ELSE h.remaining
           slots == s.InFlight - 1
           t == [s EXCEPT !.InFlight = slots, !.BucketLimit = bucket,
                          !.LocalRemaining = left, !.Calibrated = TRUE]
<1>1. s \in State
  BY DEF Sound
<1>2. bucket \in Nat \ {0} /\ left \in Int /\ slots \in Nat
  BY <1>1 DEF State, Header
<1>3. Reported(s, h) = t
  BY DEF Reported
<1> HIDE DEF bucket, left, slots
<1>4. t \in State
  BY <1>1, <1>2 DEF State
<1>5. /\ t.cfg = s.cfg /\ t.Calibrated = TRUE
      /\ t.InFlight = slots
      /\ t.SustainedLimit = s.SustainedLimit
      /\ t.SustainedUsed = s.SustainedUsed
      /\ t.SustainedLeft = s.SustainedLeft
      /\ t.penaltyInWindow = s.penaltyInWindow
      /\ t.LockdownActive = s.LockdownActive /\ t.LockdownLeft = s.LockdownLeft
  BY <1>1 DEF State
<1> HIDE DEF t
<1>6. Sound(t)
  BY <1>1, <1>4, <1>5 DEF Sound, State
<1> QED
  BY <1>3, <1>5, <1>6 DEF slots

LEMMA NoteHeadersSound ==
    ASSUME NEW s, Sound(s), s.Calibrated, NEW h \in Header, NEW lag \in Int
    PROVE  Sound(NoteHeaders(s, h, lag)) /\ SameBudget(s, NoteHeaders(s, h, lag))
<1> DEFINE bucket == IF h.limit > 0 THEN h.limit ELSE s.BucketLimit
           policy == IF h.policy > 0 THEN h.policy ELSE s.PolicyWindowSec
           s1 == [s EXCEPT !.BucketLimit = bucket, !.PolicyWindowSec = policy]
           stale == WasStale(s1, lag)
           s2 == IF ~s1.Calibrated \/ stale THEN ResetClassBudgets(s1) ELSE s1
           capped == Capped(s2, h)
           window == Horizon(s2, lag)
           s3 == IF h.remaining < 0 THEN s2
                 ELSE IF ~Opened(s2, h, stale) THEN [s2 EXCEPT !.LocalRemaining = capped]
                 ELSE [s2 EXCEPT !.LocalRemaining = capped, !.WindowActive = TRUE,
                                 !.WindowLeft = window, !.windowOpened = TRUE]
           t == [s3 EXCEPT !.Calibrated = TRUE]
<1>1. s \in State
  BY DEF Sound
<1>2. NoteHeaders(s, h, lag) = t
  BY DEF NoteHeaders
<1>3. bucket \in Nat \ {0} /\ policy \in Nat \ {0}
  BY <1>1 DEF State, Header
<1>4. s1 \in State /\ SameBudget(s, s1)
  <2> HIDE DEF bucket, policy
  <2> QED BY <1>1, <1>3 DEF State, SameBudget
<1> HIDE DEF s1
<1>5. s2 \in State /\ SameBudget(s, s2)
  BY <1>4, ResetClassBudgetsType DEF SameBudget
<1> HIDE DEF s2, stale
<1>6. capped \in Int /\ window \in Int
  BY <1>5, PolicyWindowType, CapsAssumption
     DEF Header, Capped, AtMost, AtLeast, Horizon, State
<1>7. s3 \in State /\ SameBudget(s, s3)
  <2> HIDE DEF capped, window
  <2>1. CASE h.remaining < 0
    BY <1>5, <2>1
  <2>2. CASE ~(h.remaining < 0) /\ ~Opened(s2, h, stale)
    <3> DEFINE u == [s2 EXCEPT !.LocalRemaining = capped]
    <3>1. u \in State
      BY <1>5, <1>6 DEF State
    <3>2. SameBudget(s, u)
      BY <1>5 DEF State, SameBudget
    <3> QED BY <2>2, <3>1, <3>2
  <2>3. CASE ~(h.remaining < 0) /\ Opened(s2, h, stale)
    <3> DEFINE u == [s2 EXCEPT !.LocalRemaining = capped, !.WindowActive = TRUE,
                               !.WindowLeft = window, !.windowOpened = TRUE]
    <3>1. u \in State
      BY <1>5, <1>6 DEF State
    <3>2. SameBudget(s, u)
      BY <1>5 DEF State, SameBudget
    <3> QED BY <2>3, <3>1, <3>2
  <2> QED
    BY <2>1, <2>2, <2>3
<1> HIDE DEF s3
<1>8. t \in State
  BY <1>7 DEF State
<1>9. SameBudget(s, t)
  BY <1>1, <1>7 DEF State, SameBudget
<1> QED
  BY <1>2, <1>8, <1>9, SoundFrame

(* A successful answer leaves the penalty, and the budget, as they are. *)
LEMMA ProcessReportSound ==
    ASSUME NEW s, Sound(s), s.InFlight > 0, NEW h \in Header, NEW lag \in Int
    PROVE  LET t == ProcessReport(s, h, lag) IN
           /\ Sound(t)
           /\ t.Calibrated
           /\ t.InFlight = s.InFlight - 1
           /\ t.SustainedLimit = s.SustainedLimit
           /\ t.LockdownActive = s.LockdownActive
           /\ t.LockdownLeft = s.LockdownLeft
<1> DEFINE a == Reported(s, h)
           b == NoteHeaders(a, h, lag)
           t == [b EXCEPT !.windowOpened = FALSE]
<1>1. /\ Sound(a) /\ a.Calibrated /\ a.InFlight = s.InFlight - 1
      /\ a.SustainedLimit = s.SustainedLimit
      /\ a.LockdownActive = s.LockdownActive /\ a.LockdownLeft = s.LockdownLeft
  BY ReportedSound
<1> HIDE DEF a
<1>2. Sound(b) /\ SameBudget(a, b)
  BY <1>1, NoteHeadersSound
<1>3. ProcessReport(s, h, lag) = t
  BY DEF ProcessReport, a
<1> HIDE DEF b
<1>4. b \in State
  BY <1>2 DEF Sound
<1>5. t \in State
  BY <1>4 DEF State
<1>6. SameBudget(b, t)
  BY <1>4 DEF State, SameBudget
<1>7. Sound(t)
  BY <1>2, <1>5, <1>6, SoundFrame
<1> QED
  BY <1>1, <1>2, <1>3, <1>6, <1>7 DEF SameBudget

(* A 429 opens a new sustained window that is used up from the start. *)
LEMMA ProcessPenaltySound ==
    ASSUME NEW s, Sound(s), s.InFlight > 0,
           NEW h \in Header, NEW lag \in Int, NEW ra \in Nat
    PROVE  LET t == ProcessPenalty(s, h, lag, ra) IN
           /\ Sound(t)
           /\ t.LockdownActive /\ t.LockdownLeft > 0
           /\ t.InFlight = s.InFlight - 1
<1> DEFINE a == Reported(s, h)
           b == NoteHeaders(a, h, lag)
           window == PenaltyWindow(b, ra)
           half == Halved(b)
           t == [b EXCEPT !.SustainedWindowSec = window, !.SustainedLimit = half,
                          !.SustainedUsed = half, !.SustainedLeft = window,
                          !.penaltyInWindow = TRUE, !.LockdownActive = TRUE,
                          !.LockdownLeft = window]
<1>1. Sound(a) /\ a.Calibrated /\ a.InFlight = s.InFlight - 1
  BY ReportedSound
<1> HIDE DEF a
<1>2. Sound(b) /\ SameBudget(a, b)
  BY <1>1, NoteHeadersSound
<1>3. ProcessPenalty(s, h, lag, ra) = t
  BY DEF ProcessPenalty, NotePenalty, a
<1> HIDE DEF b
<1>4. window \in Nat \ {0}
  BY <1>2 DEF Sound, State, PenaltyWindow, Positive
<1>5. half \in Nat /\ b.cfg.SustainedMinLimit <= half /\ half <= b.cfg.SustainedMaxLimit
  BY <1>2 DEF Sound, State, NormalConfig, Halved, AtLeast
<1> HIDE DEF window, half
<1>6. t \in State
  BY <1>2, <1>4, <1>5 DEF Sound, State
<1>7. /\ t.cfg = b.cfg /\ t.Calibrated = b.Calibrated /\ t.InFlight = b.InFlight
      /\ t.SustainedLimit = half /\ t.SustainedUsed = half
      /\ t.SustainedLeft = window /\ t.LockdownLeft = window
      /\ t.penaltyInWindow /\ t.LockdownActive
  BY <1>2 DEF Sound, State
<1> HIDE DEF t
<1>8. Sound(t)
  BY <1>1, <1>2, <1>5, <1>6, <1>7 DEF Sound, SameBudget
<1> QED
  BY <1>1, <1>2, <1>3, <1>4, <1>7, <1>8 DEF SameBudget

-----------------------------------------------------------------------------
(* The reaper, and time *)

LEMMA ReapSound ==
    ASSUME NEW s, Sound(s), NEW k \in 1 .. s.InFlight
    PROVE  Sound([s EXCEPT !.InFlight = @ - k])
<1> DEFINE t == [s EXCEPT !.InFlight = @ - k]
<1>1. t \in State
  BY DEF Sound, State
<1>2. /\ t.cfg = s.cfg /\ t.Calibrated = s.Calibrated
      /\ t.SustainedLimit = s.SustainedLimit /\ t.SustainedUsed = s.SustainedUsed
      /\ t.SustainedLeft = s.SustainedLeft
      /\ t.penaltyInWindow = s.penaltyInWindow
      /\ t.LockdownActive = s.LockdownActive /\ t.LockdownLeft = s.LockdownLeft
  BY DEF Sound, State
<1> HIDE DEF t
<1>3. Sound(t)
  BY <1>1, <1>2 DEF Sound
<1> QED
  BY <1>3 DEF t

LEMMA ElapseSound ==
    ASSUME NEW s, Sound(s)
    PROVE  LET t == Elapse(s) IN
           /\ Sound(t)
           /\ t.InFlight = s.InFlight
           /\ t.LockdownActive = s.LockdownActive
           /\ t.LockdownLeft <= s.LockdownLeft
<1> DEFINE view == AtLeast(s.WindowLeft - 1, -MaxLag)
           window == IF s.SustainedLeft > 0 THEN s.SustainedLeft - 1 ELSE s.SustainedLeft
           lockdown == AtLeast(s.LockdownLeft - 1, 0)
           t == [s EXCEPT !.WindowLeft = view, !.SustainedLeft = window,
                          !.LockdownLeft = lockdown]
<1>1. s \in State
  BY DEF Sound
<1>2. /\ view \in Int /\ lockdown \in Nat /\ window \in Nat \cup {-1}
      /\ s.SustainedLeft = -1 <=> window = -1
      /\ s.LockdownLeft = s.SustainedLeft => lockdown = window
      /\ lockdown <= s.LockdownLeft
  BY <1>1, CapsAssumption DEF State, AtLeast
<1>3. Elapse(s) = t
  BY <1>1 DEF Elapse, State
<1> HIDE DEF view, window, lockdown
<1>4. t \in State
  BY <1>1, <1>2 DEF State
<1>5. /\ t.cfg = s.cfg /\ t.Calibrated = s.Calibrated /\ t.InFlight = s.InFlight
      /\ t.SustainedLimit = s.SustainedLimit /\ t.SustainedUsed = s.SustainedUsed
      /\ t.SustainedLeft = window /\ t.LockdownLeft = lockdown
      /\ t.penaltyInWindow = s.penaltyInWindow
      /\ t.LockdownActive = s.LockdownActive
  BY <1>1 DEF State
<1> HIDE DEF t
<1>6. Sound(t)
  BY <1>1, <1>2, <1>4, <1>5 DEF Sound, State
<1> QED
  BY <1>2, <1>3, <1>5, <1>6
=============================================================================
