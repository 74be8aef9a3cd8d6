------------------------------- MODULE Engine -------------------------------
(***************************************************************************)
(* The broker of internal/handlers: appliances, the HTTP handlers that     *)
(* serve them (each long poll is a goroutine), the wait queue, the         *)
(* dispatch loop and the reaper, around the State object of module Quota.  *)
(*                                                                         *)
(* A critical section under the State mutex is one action, since every     *)
(* variable it touches is under that mutex, with one exception kept apart: *)
(* queueTokenMap has its own lock, the dispatch loop writes it after it    *)
(* has unlocked the State, and the handlers read it without the State.     *)
(* Early returns that change nothing (409, malformed requests) are         *)
(* stuttering steps.  Go maps are functions over the keys present.         *)
(***************************************************************************)
EXTENDS Quota, FiniteSets, Functions

CONSTANTS
    Appliances,   \* appliance ids
    Conns,        \* HTTP connections a long poll can occupy (bound)
    Tokens,       \* uuids, taken again once nothing refers to them
    MaxQueue,     \* CAS_MAX_QUEUE
    AgingWeight,  \* CAS_AGING_WEIGHT, per tick
    PollTimeout,  \* 30 s, in ticks
    Expiry,       \* TicketExpiryThreshold, in ticks
    NotifyCap,    \* capacity of notifyChan
    MaxPending,   \* /report calls answered 204 and not yet processed (bound)
    Prompt        \* whether goroutines that can run do so within a tick

ASSUME EngineAssumption ==
    /\ IsFiniteSet(Appliances) /\ Fleet = Cardinality(Appliances)
    /\ MaxQueue \in Nat /\ AgingWeight \in Nat
    /\ PollTimeout \in Nat \ {0} /\ Expiry \in Nat
    /\ NotifyCap \in Nat \ {0} /\ MaxPending \in Nat
    /\ Prompt \in BOOLEAN

(* There is always a uuid that nothing of an appliance's refers to: its    *)
(* ticket, what it holds, what is stored for it, what the loop is about to *)
(* store, and its reports underway.                                        *)
ASSUME TokensAssumption ==
    IsFiniteSet(Tokens) => Cardinality(Tokens) > MaxPending + 4

VARIABLES
    tickets,     \* ActiveTickets: appliance -> [token, age]
    queue,       \* items [app, class, conn]; the order is recomputed by PopBest
    poll,        \* handlers in their select: conn -> [app, granted, waited]
    tokenMap,    \* queueTokenMap: appliance -> token
    loop,        \* dispatchLoop: [pc, app, token], pc is idle, store or round
    notify,      \* signals in notifyChan
    reapDue,     \* the reaper's ticker has fired
    pending,     \* `go HandleReport` goroutines: [app, token]
    holds        \* the last token each appliance received: appliance -> token

vars == <<st, tickets, queue, poll, tokenMap, loop, notify, reapDue, pending, holds>>

-----------------------------------------------------------------------------
(* Helpers *)

Put(f, x, v) == [y \in DOMAIN f \cup {x} |-> IF y = x THEN v ELSE f[y]]

Without(f, S) == Restrict(f, DOMAIN f \ S)

(* A token no part of the system mentions. *)
Fresh(a) ==
    LET used == {tickets[b].token : b \in DOMAIN tickets \cap {a}}
                \cup {holds[b] : b \in DOMAIN holds \cap {a}}
                \cup {tokenMap[b] : b \in DOMAIN tokenMap \cap {a}}
                \cup {r.token : r \in {p \in pending : p.app = a}}
                \cup (IF loop.pc = "store" /\ loop.app = a THEN {loop.token} ELSE {})
    IN  CHOOSE t \in Tokens : t \notin used

NewTicket(a) == [token |-> Fresh(a), age |-> 0]

Idle == [pc |-> "idle"]

\* Mutant: a send that ignores the channel's capacity.
PingUnbounded == notify' = notify + 1

Ping == notify' = AtMost(notify + 1, NotifyCap)

BasePriority(c) == CASE c = "P1_HIGH" -> 100 [] c = "P3_LOW" -> 1 [] OTHER -> 50

EffectivePriority(item) ==
    BasePriority(item.class) + AgingWeight * poll[item.conn].waited

(* What PopBest may return; the code breaks ties by arrival. *)
Best == {i \in queue : \A j \in queue : EffectivePriority(i) >= EffectivePriority(j)}

HasAppliance(a) == \E i \in queue : i.app = a

\* Mutant: capacity compared the wrong way.
EnqueueOneMore(a, c, conn) ==
    /\ Cardinality(queue) <= MaxQueue
    /\ conn \notin DOMAIN poll
    /\ queue' = queue \cup {[app |-> a, class |-> c, conn |-> conn]}
    /\ poll' = Put(poll, conn, [app |-> a, granted |-> FALSE, waited |-> 0])

(* Enqueue, and the handler goes to its select. *)
Enqueue(a, c, conn) ==
    /\ Cardinality(queue) < MaxQueue
    /\ conn \notin DOMAIN poll
    /\ queue' = queue \cup {[app |-> a, class |-> c, conn |-> conn]}
    /\ poll' = Put(poll, conn, [app |-> a, granted |-> FALSE, waited |-> 0])

QueueFull == Cardinality(queue) >= MaxQueue /\ UNCHANGED <<queue, poll>>

\* Mutant: any report of the appliance ends its ticket.
MatchedByAppliance(a, t) == a \in DOMAIN tickets

Matched(a, t) == a \in DOMAIN tickets /\ tickets[a].token = t

-----------------------------------------------------------------------------
EngineInit ==
    /\ QuotaInit
    /\ tickets = <<>> /\ queue = {} /\ poll = <<>> /\ tokenMap = <<>>
    /\ loop = Idle /\ notify = 0 /\ reapDue = FALSE
    /\ pending = {} /\ holds = <<>>

(* POST /acquire *)

\* Mutant: no check of the queue.
MayAskAgain(a) == a \notin DOMAIN tickets

MayAsk(a) == a \notin DOMAIN tickets /\ ~HasAppliance(a)

TryAcquireGrant(a, c, n) ==
    /\ MayAsk(a)
    /\ AcquireGrant(c, n)
    /\ tickets' = Put(tickets, a, NewTicket(a))
    /\ holds' = Put(holds, a, Fresh(a))
    /\ UNCHANGED <<queue, poll, tokenMap, loop, notify, reapDue, pending>>

TryAcquireQueue(a, c, n, conn) ==
    /\ MayAsk(a)
    /\ AcquireDeny(c, n)
    /\ Enqueue(a, c, conn)
    /\ UNCHANGED <<tickets, tokenMap, loop, notify, reapDue, pending, holds>>

TryAcquireFull(a, c, n) ==
    /\ MayAsk(a)
    /\ AcquireDeny(c, n)
    /\ QueueFull
    /\ UNCHANGED <<tickets, tokenMap, loop, notify, reapDue, pending, holds>>

(* POST /report answers 204 first and processes the report afterwards; the *)
(* appliance keeps its token, so it may report twice, or ask before the    *)
(* report is processed.                                                    *)
Post(a) ==
    /\ a \in DOMAIN holds
    /\ Cardinality(pending) < MaxPending
    /\ pending' = pending \cup {[app |-> a, token |-> holds[a]]}
    /\ UNCHANGED <<st, tickets, queue, poll, tokenMap, loop, notify, reapDue, holds>>

HandleReport(r) ==
    /\ r \in pending
    /\ Matched(r.app, r.token)
    /\ \E h \in Headers, lag \in Lags :
          Report(h, lag) \/ \E ra \in RetryAfters : Penalty(h, lag, ra)
    /\ tickets' = Without(tickets, {r.app})
    /\ pending' = pending \ {r}
    /\ Ping
    /\ UNCHANGED <<queue, poll, tokenMap, loop, reapDue, holds>>

\* Mutant: the slot is given back before the token is looked at.
DropReportCredits(r) ==
    /\ r \in pending
    /\ ~Matched(r.app, r.token)
    /\ st' = [st EXCEPT !.InFlight = AtLeast(@ - 1, 0)]
    /\ pending' = pending \ {r}
    /\ UNCHANGED <<tickets, queue, poll, tokenMap, loop, notify, reapDue, holds>>

(* An unmatched report is logged and dropped, its headers and its 429 too. *)
DropReport(r) ==
    /\ r \in pending
    /\ ~Matched(r.app, r.token)
    /\ pending' = pending \ {r}
    /\ UNCHANGED <<st, tickets, queue, poll, tokenMap, loop, notify, reapDue, holds>>

(* POST /report-and-acquire, with the token the appliance holds *)

Combined(a) ==
    /\ a \in DOMAIN holds
    /\ Matched(a, holds[a])
    /\ Ping
    /\ UNCHANGED <<tokenMap, loop, reapDue, pending>>

ReportAndAcquirePenalty(a) ==
    /\ Combined(a)
    /\ \E h \in Headers, lag \in Lags, ra \in RetryAfters : Penalty(h, lag, ra)
    /\ tickets' = Without(tickets, {a})
    /\ UNCHANGED <<queue, poll, holds>>

ReportAndAcquireGrant(a, c, n) ==
    /\ Combined(a)
    /\ \E h \in Headers, lag \in Lags : ReportAcquireGrant(h, lag, c, n)
    /\ tickets' = Put(tickets, a, NewTicket(a))
    /\ holds' = Put(holds, a, Fresh(a))
    /\ UNCHANGED <<queue, poll>>

ReportAndAcquireWait(a, c, n) ==
    /\ Combined(a)
    /\ \E h \in Headers, lag \in Lags : ReportAcquireDeny(h, lag, c, n)
    /\ tickets' = Without(tickets, {a})
    /\ QueueFull \/ \E conn \in Conns : Enqueue(a, c, conn)
    /\ UNCHANGED holds

-----------------------------------------------------------------------------
(* The dispatch loop.  A signal starts a round; a round goes on until      *)
(* CanDispatch refuses, nobody waits, or the best waiter has no quota.     *)

InRound == loop.pc = "round" \/ (loop.pc = "idle" /\ notify > 0)

TakeSignal == notify' = IF loop.pc = "idle" THEN notify - 1 ELSE notify

\* Mutant: the waiter's class and the shared pool are checked, not charged.
DispatchUncharged(item) ==
    /\ InRound /\ TakeSignal
    /\ item \in Best
    /\ CanDispatch(st)
    /\ HasClassQuota(Settle(st), item.class) \/ HasSharedQuota(Settle(st))
    /\ st' = Issue(Settle(st))
    /\ queue' = queue \ {item}
    /\ tickets' = Put(tickets, item.app, NewTicket(item.app))
    /\ poll' = [poll EXCEPT ![item.conn].granted = TRUE]
    /\ loop' = [pc |-> "store", app |-> item.app, token |-> Fresh(item.app)]
    /\ UNCHANGED <<tokenMap, reapDue, pending, holds>>

\* Mutant: the item is served and stays in the queue.
DispatchKeepsItem(item) ==
    /\ InRound /\ TakeSignal
    /\ item \in Best
    /\ DispatchGrant(item.class)
    /\ queue' = queue
    /\ tickets' = Put(tickets, item.app, NewTicket(item.app))
    /\ poll' = [poll EXCEPT ![item.conn].granted = TRUE]
    /\ loop' = [pc |-> "store", app |-> item.app, token |-> Fresh(item.app)]
    /\ UNCHANGED <<tokenMap, reapDue, pending, holds>>

(* The item's channel has room for one value and is sent to once, so the   *)
(* send never fails: the code's default branch, meant for a handler that   *)
(* is gone, is not modelled because it cannot be reached (WaitersAttached).*)
DispatchItem(item) ==
    /\ InRound /\ TakeSignal
    /\ item \in Best
    /\ DispatchGrant(item.class)
    /\ queue' = queue \ {item}
    /\ tickets' = Put(tickets, item.app, NewTicket(item.app))
    /\ poll' = [poll EXCEPT ![item.conn].granted = TRUE]
    /\ loop' = [pc |-> "store", app |-> item.app, token |-> Fresh(item.app)]
    /\ UNCHANGED <<tokenMap, reapDue, pending, holds>>

NoQuotaFor(item) ==
    LET s == Settle(st) IN ~HasClassQuota(s, item.class) /\ ~HasSharedQuota(s)

DispatchEnd ==
    /\ InRound /\ TakeSignal
    /\ ~CanDispatch(st) \/ queue = {} \/ \E item \in Best : NoQuotaFor(item)
    /\ DispatchIdle
    /\ loop' = Idle
    /\ UNCHANGED <<tickets, queue, poll, tokenMap, reapDue, pending, holds>>

(* storeQueueToken, after the State is unlocked *)
StoreToken ==
    /\ loop.pc = "store"
    /\ tokenMap' = Put(tokenMap, loop.app, loop.token)
    /\ loop' = [pc |-> "round"]
    /\ UNCHANGED <<st, tickets, queue, poll, notify, reapDue, pending, holds>>

DispatchStep == (\E item \in queue : DispatchItem(item)) \/ DispatchEnd \/ StoreToken

-----------------------------------------------------------------------------
(* A handler in its select.  Several cases ready: Go picks any.            *)

Woken(conn) == conn \in DOMAIN poll /\ poll[conn].granted

(* ConsumeQueueToken finds a token and the handler answers PROCEED ... *)
WakeWithToken(conn) ==
    /\ Woken(conn)
    /\ LET a == poll[conn].app IN
          /\ a \in DOMAIN tokenMap
          /\ holds' = Put(holds, a, tokenMap[a])
          /\ tokenMap' = Without(tokenMap, {a})
    /\ poll' = Without(poll, {conn})
    /\ UNCHANGED <<st, tickets, queue, loop, notify, reapDue, pending>>

(* ... or finds none, and the handler answers 500. *)
WakeWithoutToken(conn) ==
    /\ Woken(conn)
    /\ poll[conn].app \notin DOMAIN tokenMap
    /\ poll' = Without(poll, {conn})
    /\ UNCHANGED <<st, tickets, queue, tokenMap, loop, notify, reapDue, pending, holds>>

\* Mutant: the handler leaves its item behind.
LeaveOnly(conn) ==
    /\ conn \in DOMAIN poll
    /\ poll' = Without(poll, {conn})
    /\ UNCHANGED <<st, tickets, queue, tokenMap, loop, notify, reapDue, pending, holds>>

\* Mutant: the comparison in Remove the wrong way round.
LeaveAlone(conn) ==
    /\ conn \in DOMAIN poll
    /\ queue' = {i \in queue : i.app = poll[conn].app}
    /\ poll' = Without(poll, {conn})
    /\ UNCHANGED <<st, tickets, tokenMap, loop, notify, reapDue, pending, holds>>

(* RemoveFromQueue goes by appliance. *)
Leave(conn) ==
    /\ conn \in DOMAIN poll
    /\ queue' = {i \in queue : i.app # poll[conn].app}
    /\ poll' = Without(poll, {conn})
    /\ UNCHANGED <<st, tickets, tokenMap, loop, notify, reapDue, pending, holds>>

Timeout(conn) == conn \in DOMAIN poll /\ poll[conn].waited = PollTimeout /\ Leave(conn)

Disconnect(conn) == Leave(conn)

-----------------------------------------------------------------------------
(* The reaper, and time *)

\* Mutant: one period too patient.
ExpiredLate == {a \in DOMAIN tickets : tickets[a].age > Expiry + 1}

Expired == {a \in DOMAIN tickets : tickets[a].age > Expiry}

\* Mutant: the slot of a reaped ticket is not given back.
ReaperLeaks ==
    /\ reapDue
    /\ reapDue' = FALSE
    /\ tickets' = Without(tickets, Expired)
    /\ Ping
    /\ UNCHANGED <<st, queue, poll, tokenMap, loop, pending, holds>>

\* Mutant: signal only if something was reaped.
ReaperQuiet ==
    /\ reapDue
    /\ reapDue' = FALSE
    /\ IF Expired = {} THEN UNCHANGED <<st, notify>>
                       ELSE Reap(Cardinality(Expired)) /\ Ping
    /\ tickets' = Without(tickets, Expired)
    /\ UNCHANGED <<queue, poll, tokenMap, loop, pending, holds>>

Reaper ==
    /\ reapDue
    /\ reapDue' = FALSE
    /\ IF Expired = {} THEN UNCHANGED st ELSE Reap(Cardinality(Expired))
    /\ tickets' = Without(tickets, Expired)
    /\ Ping
    /\ UNCHANGED <<queue, poll, tokenMap, loop, pending, holds>>

(* No goroutine has anything to do but wait. *)
Quiet ==
    /\ loop.pc = "idle" /\ notify = 0 /\ ~reapDue /\ pending = {}
    /\ \A conn \in DOMAIN poll : ~poll[conn].granted /\ poll[conn].waited < PollTimeout

(* Ages stop once past the threshold. *)
Tick ==
    /\ Prompt => Quiet
    /\ Elapses
    /\ tickets' = [a \in DOMAIN tickets |->
                     [tickets[a] EXCEPT !.age = AtMost(@ + 1, Expiry + 2)]]
    /\ poll' = [conn \in DOMAIN poll |->
                  [poll[conn] EXCEPT !.waited = AtMost(@ + 1, PollTimeout)]]
    /\ reapDue' = TRUE
    /\ UNCHANGED <<queue, tokenMap, loop, notify, pending, holds>>

-----------------------------------------------------------------------------
Acquire ==
    \E a \in Appliances, c \in RawClasses, n \in Demands :
       \/ TryAcquireGrant(a, c, n)
       \/ \E conn \in Conns : TryAcquireQueue(a, c, n, conn)
       \/ TryAcquireFull(a, c, n)

ReportAndAcquire ==
    \E a \in Appliances :
       \/ ReportAndAcquirePenalty(a)
       \/ \E c \in RawClasses, n \in Demands :
             ReportAndAcquireGrant(a, c, n) \/ ReportAndAcquireWait(a, c, n)

ProcessPending == \E r \in pending : HandleReport(r) \/ DropReport(r)

Handlers ==
    \E conn \in Conns :
       \/ WakeWithToken(conn)
       \/ WakeWithoutToken(conn)
       \/ Timeout(conn)
       \/ Disconnect(conn)

(* Everything but the reaper. *)
EngineStep ==
    \/ Acquire
    \/ \E a \in Appliances : Post(a)
    \/ ProcessPending
    \/ ReportAndAcquire
    \/ DispatchStep
    \/ Handlers
    \/ Tick

EngineNext == EngineStep \/ Reaper

EngineSpec == EngineInit /\ [][EngineNext]_vars

(* What the process schedules by itself: its two goroutines and the clock. *)
(* Nothing is asked of clients, not even that a handler ever gives up.     *)
EngineFairSpec ==
    /\ EngineSpec
    /\ WF_vars(DispatchStep)
    /\ WF_vars(Reaper)
    /\ WF_vars(Tick)

-----------------------------------------------------------------------------
(* Properties *)

Item == [app : Appliances, class : RawClasses, conn : Conns]

(* The shape of the broker's own state; DemandSum and the like are typed   *)
(* by QuotaTypeOK.                                                         *)
EngineTypeOK ==
    /\ DOMAIN tickets \subseteq Appliances
    /\ \A a \in DOMAIN tickets : tickets[a] \in [token : Tokens, age : 0 .. Expiry + 2]
    /\ queue \subseteq Item
    /\ DOMAIN poll \subseteq Conns
    /\ \A c \in DOMAIN poll :
          poll[c] \in [app : Appliances, granted : BOOLEAN, waited : 0 .. PollTimeout]
    /\ DOMAIN tokenMap \subseteq Appliances /\ \A a \in DOMAIN tokenMap : tokenMap[a] \in Tokens
    /\ DOMAIN holds \subseteq Appliances /\ \A a \in DOMAIN holds : holds[a] \in Tokens
    /\ loop \in [pc : {"idle", "round"}]
               \cup [pc : {"store"}, app : Appliances, token : Tokens]
    /\ notify \in 0 .. NotifyCap
    /\ reapDue \in BOOLEAN
    /\ pending \subseteq [app : Appliances, token : Tokens]

(* InFlight, which the budget subtracts, is kept by hand on six paths:     *)
(* three that issue, two that process reports, one that reaps.  It always  *)
(* equals the number of active tickets, so no slot leaks or comes back     *)
(* twice, whatever reports are duplicated, late or racing the reaper.      *)
SlotAccounting == st.InFlight = Cardinality(DOMAIN tickets)

(* One request per appliance in the system (TryAcquire's two checks for    *)
(* 409): an appliance waits at most once, and never while it has a ticket. *)
(* TryReportAndAcquire enqueues without checking and relies on it.         *)
WaitXorHold ==
    /\ \A i, j \in queue : i.app = j.app \/ i.conn = j.conn => i = j
    /\ \A i \in queue : i.app \notin DOMAIN tickets

(* CAS_MAX_QUEUE bounds the waiters on both paths that enqueue. *)
QueueBound == Cardinality(queue) <= MaxQueue

(* Every waiter in the queue has its handler still in the select on the    *)
(* other end of its channel, with nothing sent yet: PopBest never picks    *)
(* an abandoned request, and the dispatch loop's send always succeeds.     *)
WaitersAttached ==
    \A i \in queue : /\ i.conn \in DOMAIN poll
                     /\ poll[i.conn].app = i.app
                     /\ ~poll[i.conn].granted

(* Conversely, a handler still waiting has its item in the queue: the      *)
(* RemoveFromQueue of one request, which goes by appliance, never takes    *)
(* away another's.  It needs handlers that run within a tick: one that     *)
(* sleeps through the life of its ticket would do it.                      *)
NoHandlerOrphaned ==
    \A c \in DOMAIN poll :
        ~poll[c].granted => \E i \in queue : i.conn = c /\ i.app = poll[c].app

(* "Expired tickets reclaimed so crashed appliances never leak in-flight   *)
(* slots" (README): when goroutines run within a tick, no ticket outlives  *)
(* the threshold by more than one period of the reaper.                    *)
TicketAgeBound == \A a \in DOMAIN tickets : tickets[a].age <= Expiry + 1

(* A ticket ends by its own report or by expiring, and by nothing else: in *)
(* particular a second request, a stale token, a handler that leaves or a  *)
(* newer ticket of the same appliance never displaces it.                  *)
TicketEndsByReportOrExpiry ==
    [][\A a \in DOMAIN tickets :
          \/ a \in DOMAIN tickets' /\ tickets'[a].token = tickets[a].token
          \/ tickets[a].age > Expiry /\ reapDue /\ ~reapDue'
          \/ [app |-> a, token |-> tickets[a].token] \in pending \ pending'
          \/ Combined(a)]_vars

(* The dispatch loop would serve somebody if it ran now. *)
Dispatchable ==
    /\ queue # {}
    /\ CanDispatch(st)
    /\ \A item \in Best : ~NoQuotaFor(item)

(* No lost wakeup: neither a full notifyChan, nor the paths that change    *)
(* the queue or the quota without a signal (TryAcquire, RemoveFromQueue,   *)
(* the mere passage of time) leave a waiter sitting in front of an open    *)
(* gate for ever, however patient its handler is.                          *)
NoWaiterForgotten == []<>(~Dispatchable \/ loop.pc = "store")

(* "Retrieves and deletes the token stored for a just-woken waiter"        *)
(* (ConsumeQueueToken): what a waiter is handed is its own live ticket.    *)
HandedTokenIsLive ==
    [][\A conn \in Conns :
          WakeWithToken(conn) =>
              LET a == poll[conn].app IN Matched(a, tokenMap[a])]_vars

(* What an appliance has with the broker. *)
Standing(a) ==
    IF a \in DOMAIN tickets THEN IF HasAppliance(a) THEN "both" ELSE "held"
    ELSE IF HasAppliance(a) THEN "waiting" ELSE "none"

Leases ==
    INSTANCE TicketLease WITH lease  <- [a \in Appliances |-> Standing(a)],
                              locked <- Locked(st)

(* The broker implements TicketLease: through queueing, dispatching, late  *)
(* handlers, duplicated reports, 429s and expiry, each appliance moves     *)
(* only between having nothing, waiting and holding one ticket, one step   *)
(* at a time, and into holding one only while no penalty is being served.  *)
KeepsLeases == Leases!LeaseSpec
=============================================================================
