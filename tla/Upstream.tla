------------------------------- MODULE Upstream -------------------------------
(***************************************************************************)
(* Quota together with what it is an account of: NationStates' own bucket, *)
(* the calls appliances make with their tickets, and the reports that come *)
(* back.  An appliance is sequential: it asks, calls, reports, asks again. *)
(* Whether it had to wait for its ticket is the business of Engine.        *)
(***************************************************************************)
EXTENDS Quota, FiniteSets

CONSTANTS
    Appliances,   \* appliance ids
    Limit,        \* ratelimit-limit, what NationStates allows per period
    Period,       \* w= of ratelimit-policy, in ticks
    Punishment,   \* Retry-After of a fresh 429, in ticks
    Expiry,       \* TicketExpiryThreshold, in ticks
    Orderly,      \* whether reports are processed in the order of the answers
    Faults        \* what else may happen: legacy, crash, restart

ASSUME UpstreamAssumption ==
    /\ IsFiniteSet(Appliances) /\ Fleet = Cardinality(Appliances)
    /\ Limit \in Nat \ {0} /\ Period \in Nat \ {0} /\ Punishment \in Nat \ {0}
    /\ Expiry \in Nat /\ Orderly \in BOOLEAN
    /\ Faults \subseteq {"legacy", "crash", "restart"} /\ "script" \notin Appliances

VARIABLES
    ns,      \* NationStates: [remaining, left, penalty], times in ticks to go
    call,    \* what each appliance is doing
    ahead,   \* whose answers, sent before an appliance's own, are on their way
    fresh,   \* history: CAS's figure allows for all NationStates has counted
    told     \* history: CAS has processed a 429 of the present penalty

upVars == <<st, ns, call, ahead, fresh, told>>

-----------------------------------------------------------------------------
(* An appliance is idle; has a ticket and is about to call (held); is      *)
(* about to call with a ticket CAS no longer knows of (stray); brings back *)
(* the answer (answered); or has crashed before its call (dead) or after   *)
(* it (lost), and its ticket is still out.  The report of a stray call     *)
(* will match nothing, and is forgotten at once.                           *)

Idle == [phase |-> "idle", ticket |-> FALSE]

With(phase) == {a \in Appliances : call[a].phase = phase}

Ticketed == {a \in Appliances : call[a].ticket}

\* Mutant: the tickets out are forgotten.
ExpectsAll(s) == s.LocalRemaining

(* ExpectedRemaining, taken after InFlight has been raised *)
Expects(s) == s.LocalRemaining - s.InFlight

(* known: the figure was fresh at the grant; foreseen: who else was about  *)
(* to call; foreign: how many other calls have been counted since.         *)
NewCall ==
    [phase |-> "held", ticket |-> TRUE, age |-> 0, expected |-> Expects(st'),
     known |-> fresh', foreseen |-> With("held"), foreign |-> 0]

(* impliedLegacy of processReportUnderLock *)
Implied(c) == AtLeast(c.expected - 1 - c.remaining, 0)

(* What is left of the present allocation period: the next one starts with *)
(* the first call after this one has run out.                              *)
Bucket == IF ns.left = 0 THEN Limit ELSE ns.remaining

Accepts == ns.penalty = 0 /\ Bucket > 0

(* CanDispatch will put the whole bucket in the place of its figure. *)
Assumes(s) ==
    LET t == LiftLockdown(s) IN
    ~Locked(s) /\ s.Calibrated /\ ~(t.WindowActive /\ t.WindowLeft > 0)

(* Answers on their way that allow for one call too few *)
Blurred(c) == IF c.phase = "answered" THEN [c EXCEPT !.clean = FALSE] ELSE c

-----------------------------------------------------------------------------
UpstreamInit ==
    /\ QuotaInit
    /\ ns \in [remaining : 0 .. Limit, left : {Period}, penalty : {0}]
    /\ call = [a \in Appliances |-> Idle]
    /\ ahead = [a \in Appliances |-> {}]
    /\ fresh = FALSE /\ told = FALSE

(* A ticket, at once.  One out of the queue is issued alike and charged to *)
(* the class budgets besides, which have no say in the figures below.      *)
Acquire(a, c, n) ==
    /\ call[a] = Idle
    /\ AcquireGrant(c, n)
    /\ fresh' = (fresh /\ ~Assumes(st))
    /\ call' = [call EXCEPT ![a] = NewCall]
    /\ UNCHANGED <<ns, ahead, told>>

Refuse(c, n) ==
    /\ AcquireDeny(c, n) \/ DispatchIdle
    /\ fresh' = (fresh /\ ~Assumes(st))
    /\ UNCHANGED <<ns, call, ahead, told>>

-----------------------------------------------------------------------------
(* NationStates counts a call, or answers 429.  A call counted is foreign  *)
(* to the ones that were granted without knowing of it.                    *)

Counted ==
    [ns EXCEPT !.remaining = Bucket - 1, !.left = IF @ = 0 THEN Period ELSE @]

Punished == [ns EXCEPT !.penalty = IF @ = 0 THEN Punishment ELSE @]

(* present: the answer is a 429 of the present penalty. *)
Answer(c, accepted) ==
    IF c.phase = "stray" THEN Idle ELSE
    [phase |-> "answered", ticket |-> TRUE, age |-> c.age,
     expected |-> c.expected, known |-> c.known, foreign |-> c.foreign,
     accepted |-> accepted, remaining |-> ns'.remaining,
     retryAfter |-> ns'.penalty, present |-> ~accepted, lag |-> 0, clean |-> TRUE]

Calls(a) ==
    /\ call[a].phase \in {"held", "stray"}
    /\ ahead' = IF call[a].ticket THEN [ahead EXCEPT ![a] = With("answered")] ELSE ahead

(* What counting a's call (or a script's) means to the others. *)
Noticed(b, a) ==
    LET c == call[b] IN
    IF c.phase = "held"
      THEN IF a \in c.foreseen THEN [c EXCEPT !.foreseen = @ \ {a}]
           ELSE [c EXCEPT !.foreign = AtMost(@ + 1, Limit)]
    ELSE IF a \in Ticketed THEN c
    ELSE Blurred(c)

CallAccepted(a) ==
    /\ Calls(a) /\ Accepts
    /\ ns' = Counted
    /\ call' = [b \in Appliances |->
                  IF b = a THEN Answer(call[a], TRUE) ELSE Noticed(b, a)]
    /\ fresh' = (fresh /\ call[a].ticket)
    /\ UNCHANGED <<st, told>>

(* A new penalty makes the 429s of an earlier one old news. *)
CallPunished(a) ==
    /\ Calls(a) /\ ~Accepts
    /\ ns' = Punished
    /\ call' = [b \in Appliances |->
                  IF b = a THEN Answer(call[a], FALSE)
                  ELSE IF call[b].phase = "answered" /\ ns.penalty = 0
                    THEN [call[b] EXCEPT !.present = FALSE]
                  ELSE call[b]]
    /\ told' = (told /\ ns.penalty > 0)
    /\ UNCHANGED <<st, fresh>>

(* An uncoordinated script *)
Legacy ==
    /\ "legacy" \in Faults /\ Accepts
    /\ ns' = Counted
    /\ call' = [b \in Appliances |-> Noticed(b, "script")]
    /\ fresh' = FALSE
    /\ UNCHANGED <<st, ahead, told>>

-----------------------------------------------------------------------------
(* The way back.  A report is processed in a goroutine of its own, so in   *)
(* any order unless Orderly says otherwise.                                *)

(* Those in S have nothing on its way any more. *)
Leave(S) == ahead' = [a \in Appliances |-> IF a \in S THEN {} ELSE ahead[a] \ S]

Reports(a) ==
    /\ call[a].phase = "answered"
    /\ Orderly => ahead[a] = {}
    /\ Leave({a})

HeadersOf(c) == [limit |-> Limit, policy |-> Period, remaining |-> c.remaining]

Report200(a) ==
    /\ Reports(a) /\ call[a].accepted
    /\ Report(HeadersOf(call[a]), call[a].lag)
    /\ fresh' = call[a].clean
    /\ call' = [call EXCEPT ![a] = Idle]
    /\ UNCHANGED <<ns, told>>

Report429(a) ==
    /\ Reports(a) /\ ~call[a].accepted
    /\ Penalty(HeadersOf(call[a]), call[a].lag, call[a].retryAfter)
    /\ fresh' = call[a].clean
    /\ told' = (told \/ call[a].present)
    /\ call' = [call EXCEPT ![a] = Idle]
    /\ UNCHANGED ns

Combined(a, c, n) ==
    LET h == HeadersOf(call[a])
        s == NoteDemand(ProcessReport(st, h, call[a].lag), c, n)
    IN  /\ Reports(a) /\ call[a].accepted
        /\ fresh' = (call[a].clean /\ ~Assumes(s))
        /\ \/ /\ ReportAcquireGrant(h, call[a].lag, c, n)
              /\ call' = [call EXCEPT ![a] = NewCall]
           \/ /\ ReportAcquireDeny(h, call[a].lag, c, n)
              /\ call' = [call EXCEPT ![a] = Idle]
        /\ UNCHANGED <<ns, told>>

-----------------------------------------------------------------------------
(* Crashes, the reaper, time *)

(* An appliance that crashes keeps its ticket until the reaper takes it;   *)
(* started again, it is refused until then.                                *)
Gone(c) ==
    IF ~c.ticket THEN Idle ELSE
    [phase |-> IF c.phase = "held" THEN "dead" ELSE "lost",
     ticket |-> TRUE, age |-> c.age]

Crash(a) ==
    /\ "crash" \in Faults
    /\ call[a].phase \in {"held", "stray", "answered"}
    /\ call' = [call EXCEPT ![a] = Gone(@)]
    /\ Leave({a})
    /\ UNCHANGED <<st, ns, fresh, told>>

Expired == {a \in Ticketed : call[a].age > Expiry}

(* A request that was counted goes unreported: its slot comes back, but    *)
(* LocalRemaining still has it.                                            *)
Reaper ==
    LET lost == {a \in Expired : call[a].phase = "lost"}
        freed == [a \in Appliances |-> IF a \in Expired THEN Idle ELSE call[a]]
    IN  /\ Reap(Cardinality(Expired))
        /\ IF lost = {} THEN call' = freed /\ UNCHANGED fresh
           ELSE call' = [a \in Appliances |-> Blurred(freed[a])] /\ fresh' = FALSE
        /\ UNCHANGED <<ns, ahead, told>>

(* CAS keeps everything in memory; its configuration is the same again.    *)
(* Calls not made yet go on without a ticket.                              *)
Restart ==
    /\ "restart" \in Faults
    /\ st' = New(st.cfg)
    /\ call' = [a \in Appliances |->
                  IF call[a].phase \in {"held", "stray"}
                    THEN [phase |-> "stray", ticket |-> FALSE] ELSE Idle]
    /\ fresh' = FALSE /\ told' = FALSE
    /\ ahead' = [a \in Appliances |-> {}]
    /\ UNCHANGED ns

(* A report that takes more than MaxLag never comes, and a call that takes *)
(* longer than Expiry has crashed (bounds).                                *)
Older(c) ==
    IF ~c.ticket THEN c
    ELSE LET d == [c EXCEPT !.age = AtMost(@ + 1, Expiry + 1)]
         IN  IF d.phase # "answered" THEN d
             ELSE IF d.lag = MaxLag THEN Gone(d) ELSE [d EXCEPT !.lag = @ + 1]

Tick ==
    /\ \A a \in With("held") \cup With("answered") : call[a].age < Expiry
    /\ Elapses
    /\ ns' = [ns EXCEPT !.left = AtLeast(@ - 1, 0), !.penalty = AtLeast(@ - 1, 0)]
    /\ call' = [a \in Appliances |-> Older(call[a])]
    /\ Leave({a \in With("answered") : call[a].lag = MaxLag})
    /\ UNCHANGED <<fresh, told>>

-----------------------------------------------------------------------------
UpstreamNext ==
    \/ \E c \in RawClasses, n \in Demands :
          \/ Refuse(c, n)
          \/ \E a \in Appliances : Acquire(a, c, n) \/ Combined(a, c, n)
    \/ \E a \in Appliances :
          \/ CallAccepted(a) \/ CallPunished(a)
          \/ Report200(a) \/ Report429(a)
          \/ Crash(a)
    \/ Legacy
    \/ Reaper
    \/ Restart
    \/ Tick

UpstreamSpec == UpstreamInit /\ [][UpstreamNext]_upVars

-----------------------------------------------------------------------------
(* Properties *)

(* "Never dispatches when ratelimit-remaining - in_flight <= 0" (README),  *)
(* against the real bucket: as long as reports are processed in the order  *)
(* of their calls, what CAS thinks it may still hand out, NationStates     *)
(* really has left beside the calls yet to come - from the first report    *)
(* that allows for every call counted, until CAS assumes a refill, a       *)
(* script calls, or a ticket is taken from a call that was counted.        *)
NeverOvercommits ==
    fresh => st.LocalRemaining - st.InFlight
               <= Bucket - Cardinality(With("held"))

(* While a penalty CAS has been told of lasts, CAS is locked down, and for *)
(* at least as long: a 429 that comes later, with the shorter Retry-After  *)
(* of a penalty half served, replaces the end of the lockdown (NotePenalty)*)
(* but never by one before NationStates relents.                           *)
LockdownOutlastsPenalty ==
    told /\ ns.penalty > 0 => st.LockdownActive /\ st.LockdownLeft >= ns.penalty

(* "Quantifies quota consumed by uncoordinated scripts" (README): starting *)
(* from a fresh figure, the legacy use implied by a report never exceeds   *)
(* the calls CAS had not foreseen - and always misses one of them, since   *)
(* the ticket's own call is subtracted twice.                              *)
ImpliedUseIsForeign ==
    \A a \in With("answered") :
        call[a].accepted /\ call[a].known =>
            Implied(call[a]) = 0 \/ Implied(call[a]) < call[a].foreign

(* The same promise without the proviso: at the moment CAS grants a        *)
(* ticket, NationStates has room for it beside the calls yet to come.      *)
GrantsAreCovered ==
    [][\A a \in Appliances :
          call[a].phase # "held" /\ call'[a].phase = "held" /\ st.Calibrated
             => Bucket > Cardinality(With("held"))]_upVars
=============================================================================
