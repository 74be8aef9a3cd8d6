# A verified model of ns-cas

ns-cas is a Central Admission Server: appliances that call the NationStates
API ask it for permission first, so that together they stay within the rate
limit NationStates allows one IP address. This directory holds TLA+ modules
that model the broker, the TLC configurations that check them on small
instances, and TLAPS proofs that hold for every value of the constants. All
definitions are read off the Go source; `PROJECT.json` maps each to its lines.

## 1. The system

| Component | Source | State | Operations | Modelled in |
|---|---|---|---|---|
| State (quota) | `internal/state/state.go` | bucket view (`LocalRemaining`, `WindowActive`, `WindowEndTime`), sustained allowance (`SustainedLimit`, `SustainedUsed`, `SustainedWindowEnd`), lockdown, class budgets, `InFlight`, `ActiveTickets` | `New`, `CanDispatch`, `NoteHeaders`, `NotePenalty`, `ResetClassBudgets`, `Has/Deduct...`, `DeductSustained` | CasState, Quota, QuotaLedger, Upstream |
| Engine | `internal/handlers/engine.go` | the State, the wait queue, `queueTokenMap`, `notifyChan` | `TryAcquire`, `HandleReport`, `TryReportAndAcquire`, `RemoveFromQueue`, `ConsumeQueueToken`, `dispatchLoop`, `reaper` | Engine, EngineLatency, TicketLease |
| HTTP handlers | `internal/handlers/http.go` | one goroutine per long poll (item, 30 s timer, request context) | `handleAcquire`, `handleReport` (answers 204, then `go HandleReport`), `handleReportAndAcquire` | Engine, Process |
| Wait queue | `internal/queue/queue.go` | items with class, arrival, channel | `Enqueue`, `PopBest`, `Remove`, `HasAppliance`, `Len`, `DrainAll`, `Snapshot` | Scheduling, Engine, Process |
| Notifier, live view | `internal/handlers/notifier.go`, `internal/dashboard` | subscriber channels of 8 signals | `Subscribe`, `Notify`, the event stream | LiveView |
| Process | `cmd/cas/main.go` | HTTP server, signals | start, `Shutdown` for 10 s, `DrainAll`, exit | Process |
| Analytics | `internal/db/db.go` | SQLite | inserts in goroutines, read-only queries | - |
| Dashboard pages | `internal/dashboard` | none | HTML, JSON | - |

How they interact. A handler takes the State mutex for the whole of an Engine
call, so a call is one atomic step, except that `queueTokenMap` has a mutex of
its own: the dispatch loop unlocks the State, then stores the token, and the
handlers fetch tokens without the State mutex. Handlers and dispatch loop talk
over a channel per waiter (capacity 1); whoever frees capacity signals the loop
over `notifyChan` (capacity 64, a send that would block is dropped). A reaper
wakes every second, reclaims tickets older than the threshold and signals the
loop and the panels. Around all this are two outsiders: NationStates, whose
bucket the State is an account of, and the process, which may be told to stop.

What is hard, and what makes each part correct:

* **State**: two budgets and a penalty that expire on their own clocks; headers
  that are late, stale, contradictory or missing; a limit that is halved in the
  middle of a window; a real bucket it can only estimate. Correct: neither
  budget is exceeded, a penalty blocks everything, ends once and not before
  NationStates relents, a stale zero does not wedge the server, the class split
  adds up, what CAS hands out NationStates has.
* **Engine and handlers**: duplicated and reordered reports, a reaper racing a
  late answer, a grant racing a poll that gives up, dropped signals, two paths
  that enqueue. Correct: the slot count equals the tickets, one request per
  appliance, a ticket ends only by its report or by expiring, nobody waits in
  front of an open gate.
* **Wait queue**: priority with ageing, and items put back. Correct: bounded,
  no abandoned items, served by class and arrival.
* **Live view**: lossy signals, silent changes. Correct: what a panel shows is
  eventually what is true.
* **Process**: shutdown while polls and panels are open. Correct: it ends, and
  it cuts nobody off before its grace.

`PROJECT.json` lists each hazard at its line with the properties that cover it.

## 2. The modules

```
CasState          the State as a record, its methods as operators
  Quota             the State as a specification of its own: what may happen to it
    QuotaLedger       + history: tickets really issued in a sustained window
    Engine            the broker: handlers, queue, tokens, dispatch loop, reaper, time
      EngineLatency     + history: a waiter passed over by the reaper
    Upstream          + NationStates' bucket, the calls, the reports on their way
    Scheduling        + the real list, its sort, ageing and putting back
TicketLease       what the broker promises one appliance; Engine implements it
LiveView          the Notifier and the event streams
  Process           the life of the process, with long polls and panels
MCQuota, MCLedger, MCEngine, MCLatency,
MCUpstream, MCScheduling, MCProcess           small instances for TLC

CasStateLemmas    what each operator preserves                      (TLAPS)
  QuotaProofs       the theorems about Quota                        (TLAPS)
    LedgerProofs      tickets issued are tickets charged            (TLAPS)
    SchedulingProofs  the loop serves within the class split and in order (TLAPS)
    EngineProofs      the broker's invariants, Engine => Quota,
                      Engine => TicketLease                         (TLAPS)
      TicketProofs      tickets, tokens, signals and handlers       (TLAPS)
    UpstreamProofs    CAS's figures against NationStates' bucket    (TLAPS)
ProcessProofs     the panels and the grace of the shutdown          (TLAPS)
```

**CasState.** The fields have the names of the Go struct. Each operator takes
the State before a call and returns the State after it, for a whole critical
section: `Settle`/`CanDispatch` are the two halves of `CanDispatch` (what it
leaves behind, what it answers), `Issue` the quota side of granting a ticket,
`ProcessReport`/`ProcessPenalty` the quota side of a report.

**Quota.** One variable, `st`. One action per event: `AcquireGrant`,
`AcquireDeny`, `Report`, `Penalty`, `ReportAcquireGrant`, `ReportAcquireDeny`,
`DispatchGrant`, `DispatchIdle`, `Reap`, `Elapses`. A ticket is only a count
here, at most one per appliance (`Fleet`). Quota is also the abstract
specification of the broker: Engine extends it and implements it.

**Engine.** One action per critical section. `/acquire` is `TryAcquireGrant`,
`TryAcquireQueue` or `TryAcquireFull`; `/report` is `Post` (the 204) and later
`HandleReport` or `DropReport`; `/report-and-acquire` is `ReportAndAcquire...`.
A round of the dispatch loop is `DispatchItem` (grant under the State mutex),
`StoreToken` (after unlocking), and `DispatchEnd`. A long poll is an entry of
`poll`; it ends by `WakeWithToken`, `WakeWithoutToken` (the 500), `Timeout` or
`Disconnect`; when several are enabled Go's `select` picks any, and so does the
model. `Reaper` runs when its ticker is due; `Tick` is one unit of time.
Refusals that change nothing (409, bad input) are stuttering.

**TicketLease.** An abstract specification: each appliance has nothing, waits,
or holds one ticket, and is given one only while no penalty is being served.
`Engine!Leases` instantiates it with what tickets, queue and lockdown say.

**Upstream.** Quota beside what it is an account of. `ns` is NationStates'
bucket, its period and its penalty; `call` is what each appliance does (idle,
has a ticket and is about to call, brings back the answer, has crashed before
or after its call, or calls with a ticket from before a restart of CAS); `ahead`
says whose answers, sent before an appliance's own, are still on their way.
A ticket foresees the calls that were about to be made when it was granted:
one already answered cannot be made again. `Faults` admits uncoordinated scripts, crashes
of appliances and restarts of CAS; `Orderly` says whether reports arrive in the
order of the calls. Two history variables say when a promise is due: `fresh`
(CAS's figure allows for every call counted) and `told` (CAS has processed a
429 of the present penalty). Here the model of NationStates is external: a
counter per period that answers its own remainder, and a penalty per overrun.

**Scheduling.** Quota with the list itself: `effectivePriority`, the stable
sort, the pop, putting a waiter without quota back at the end, removal, and
beside it the immediate grants of `/acquire`, which pass the list and are not
charged to the class budgets. `QueuedAt` is kept as an age and as the order of
arrival. Engine abstracts all this to `Best`.

**LiveView, Process.** What a panel shows is reduced to whether it is what the
State is now, and the code that changes the State to the three ways in which it
tells the Notifier: at once, after unlocking, or not at all. Process adds the
stages of `main` (serving, in Shutdown, stopped, drained, exited) and the long
polls, whose coming, serving and leaving change the view. Streams may close at
any time: the server's 40 s write timeout does it, or the client.

### Abstractions

* *Time.* Instants are distances from now. The code only asks whether an
  instant lies ahead, so countdowns stop at zero (at `-MaxLag` for the view,
  which is compared with the time stamp of a report at most `MaxLag` old).
* *Counters.* `DemandSum` and `SustainedUsed` saturate at `DemandCap` and
  `UsedCap`. In a run the caps lie at or above everything they are compared
  with (the bucket, the sustained limit), so every comparison comes out as in
  the code. Ticket ages and poll times stop just past their thresholds.
* *Tokens.* A uuid may be used again once nothing mentions it.
* *Demand* is `1 + backlog` for a backlog that is not negative.
* *Ceilings.* `MaxAllowed` is the floor of the exact product. The code's
  floating-point 0.7 gives one less for some multiples of ten from 90 on.
* *Ties* between equal priorities are broken arbitrarily in Engine, and by
  arrival, as in the code, in Scheduling.
* The `default` branch of the dispatch loop's send is not modelled: the channel
  has room for one value and is sent to once. The theorem `NobodyServedInVain`
  says that the receiver is even still there.

`Prompt` says whether goroutines that can run do so within one tick. With
`FALSE` any goroutine may sleep for any time, which is what Go guarantees; with
`TRUE` time passes only when none has work left, which is what happens on a
server that is not starved. Properties of the second kind say so.

## 3. What the runs check

| Run | Instance | Shows |
|---|---|---|
| `quota_safety` (MCLedger) | fleet of 2, bucket 1 or 2, an ordinary and an unusable configuration, four kinds of header, clients whose clock is ahead, late or unstamped reports, penalties of three lengths | `QuotaTypeOK`, `LimitWithinBounds`, `SustainedWithinLimit`, `PenaltyHoldsBudget`, `SplitExact`, `TicketsWithinAllowance`; `NoGrantDuringLockdown`, `ResumesAtFullAllowance`, `ViewsDoNotOverlap` |
| `quota_recovers` (MCQuota) | as above, client clocks ahead of or behind the server | `RecoversAlone`: time and the reaper alone reopen the gate |
| `engine_free` (MCEngine) | 2 appliances, 2 connections, queue of 1, goroutines of any slowness, combined calls that are granted at once or have to wait | `SlotAccounting`, `WaitersAttached`, `QueueBound` |
| `engine_prompt` (MCLatency) | 2 appliances, 2 connections, queue of 2, asynchronous, duplicate and combined reports, 429s, prompt goroutines | `EngineTypeOK`, `SlotAccounting`, `WaitXorHold`, `NoHandlerOrphaned`, `TicketAgeBound`, `ServedWithinAPeriod`, `TicketEndsByReportOrExpiry`; Engine implements `QuotaSpec` and, as `KeepsLeases`, TicketLease |
| `engine_liveness` (MCEngine) | 1 appliance, fairness, arbitrary slowness of handlers | `NoWaiterForgotten` |
| `upstream` (MCUpstream) | 2 appliances, bucket 4 per 2 ticks, penalties of 2 ticks, scripts, crashes and restarts, reports in order | `NeverOvercommits`, `LockdownOutlastsPenalty`, `ImpliedUseIsForeign` |
| `scheduling` (MCScheduling) | 3 appliances of 2 classes, bucket 2, default ageing weight with ticks of 10 s, polls of 3 ticks | `BudgetsBoundDispatch`, `ServedInOrder` |
| `process` (MCProcess) | 2 panels with channels of 2 signals, 1 poll three times as long as the grace | `StaleIsAnnounced`, `GraceHonoured`, `ViewCatchesUp`, `StopEnds` |

Why these bounds. Two appliances are enough for one to hold what the other
waits for, and to race each other for the last slot; an interaction of three
goes through the same shared variables, except in the order of a queue, which
therefore has three. A bucket of 1 or 2 makes "the last slot" happen at once;
Upstream needs 4, the least with which a report can imply legacy use beside two
appliances. Every window lasts one, two or three ticks, so that it can end
before, with and after each of the others. `NotifyCap = 1` fills the signal
channel at once (64 in the code), `SignalCap = 2` a subscriber's (8). Two
connections let an appliance reconnect while its earlier handler is still
there. `Expiry = 0` expires a ticket after one tick and the reaper takes it at
the next firing; `engine_free` has `Expiry = 1`, and its `VIEW` keeps of the
uuids only which of an appliance's places hold the same one, which is all that
the code compares. Where a run shrinks something further (no 429s in
`engine_free`, for instance) another run, or a proof, covers it. Upstream
assumes that a call that is going to be made is made within the expiry, that a
report older than `MaxLag` never comes, and that every appliance uses one
class: its `VIEW` leaves out the class budgets, which no action of it looks at,
and what was expected of a call where no property asks for it any more.
Appliances and connections are symmetric in the safety runs; the liveness runs
use no symmetry. Deadlock checking is on everywhere but in `process` and
`drain`, where the process really exits.

Fairness. `QuotaFairSpec` makes time and the reaper fair, `EngineFairSpec` the
dispatch loop, the reaper and time: a goroutine of the process, its ticker, and
the clock. `ProcessFairSpec` makes the reaper and its notification, the open
streams, the clock, and `main` once it was told to stop fair. Nothing is asked
of clients, and no handler is required to notice its timer, so
`NoWaiterForgotten`, `RecoversAlone` and `StopEnds` do not depend on anyone
giving up.

Provisos. `NeverOvercommits` is a promise from the first report that allows for
every call counted, and until CAS assumes a refill, a script calls, or the
ticket of a counted call is reaped; `report_order` shows that reports in order
are needed too. `LockdownOutlastsPenalty` speaks of penalties CAS was told of
since its last start: a restart forgets them, and CAS is told again by the next
429. `ImpliedUseIsForeign` says that the implied legacy use never counts calls
CAS knew of; it also shows that it always misses one (below).

Sensitivity. For every property there is a small mutation of a mapped
definition (a dropped guard, a missing charge, an off-by-one, a forgotten
signal...) under which the same run finds the property violated. They stand
next to the definition they change, marked `Mutant`.

## 4. Where code and documentation disagree

Four runs show that a sentence of the repository does not hold of the code:

* `cold_start` (`OneBootstrapRequest`): "only one bootstrap request" (`state.go:179`): nothing lowers
  `LocalRemaining` before the first report, so every early acquire is granted.
* `stale_token` (`HandedTokenIsLive`): a token left by a handler that gave up as it was granted is
  later handed to the appliance's next waiter in place of its own.
* `report_order` (`GrantsAreCovered`): "never dispatches when `ratelimit-remaining - in_flight <= 0`"
  (`README.md:203`): two reports processed in the opposite order of their calls
  make CAS grant a ticket the real bucket has no room for.
* `drain` (`DrainAnswersWaiters`): "drain waiting long-polls" (`main.go:119`): the process may exit
  before a handler that was told to go has answered.

Others were met while modelling and have no run of their own:

* "Blocks all dispatch for the reported penalty duration" (`README.md:210`): a
  second 429 with a shorter Retry-After ends the lockdown earlier
  (`state.go:429`). Against NationStates it is harmless: a later 429 of the
  same penalty carries what is left of it (`LockdownOutlastsPenalty`).
* "Needs the class split recomputed" (`state_test.go:369`): a report that shows
  a refill within a trusted view keeps the old split (`state.go:250`).
* "Should not happen" (`http.go:68`): a waiter woken between the loop's send
  and `storeQueueToken` answers 500, and its slot is lost until the reaper.
* "Handler already gone; reclaim slot" (`engine.go:325`): that branch cannot
  run; a handler that leaves as it is granted loses the slot to the expiry.
* "Aging-based starvation prevention" (`README.md:207`): with the default
  weight an item gains 30 points before its poll is over, and 49 separate the
  nearest classes, so ageing never helps a lower class (`ServedInOrder`).
* "Only re-anchor on a genuinely new period" (`state.go:268`): whether the
  present view is over is judged by the client's stamp (`state.go:249`), which
  nothing checks (`engine.go:492`). A client whose clock is ahead, as the stamps
  of `engine_test.go:89` are, ends a view the server still trusts and puts one
  with a lower figure in its place. The views still follow each other without
  overlap (`ViewsDoNotOverlap`).
* Class ceilings (`README.md:114`, `README.md:206`) bind the dispatch loop
  only: an immediate grant is charged to no class.
* `ExpectedRemaining` already has the ticket's own call in it, and comparing
  subtracts it again (`engine.go:268`): one foreign call goes unnoticed.
* `ns_exhausted` (`engine.go:507`) is also raised by the report that honestly
  brings the figure to 0.

## 5. What is proved

All theorems hold for any configuration, any header values, any penalty, any
report age (clocks ahead included), any bucket and any number of
appliances, connections and queue places, under the named assumptions of the
modules: `DefaultsAssumption`, `CapsAssumption`, `InputsAssumption` (the types
of the inputs; demands at least 1), `EngineAssumption` (finitely many
appliances, `Fleet` is their number), `TokensAssumption` (more uuids than one
appliance's ticket, answer, stored token and reports underway can mention),
`UpstreamAssumption`, `SchedulingAssumption`,
`LiveViewAssumption` and `ProcessAssumption`. They need no fairness.

*The State* (`QuotaProofs`). The inductive invariant is `Sound`
(`CasStateLemmas`): the type, the bounds of the allowance, that no charged
window exceeds it, that a lockdown coincides with a used-up sustained window,
and one strengthening found on the way: **before the first report no sustained
window exists**. Without it the first report could turn an uncharged cold-start
window into one that is over its limit. Each operator of CasState has a lemma
saying that it preserves `Sound` and what it leaves alone (`SameBudget`);
`NextStep` combines them into every step of Quota. Hence

* `TypeCorrect`, `AllowanceBounded`, `AllowanceKept`, `PenaltyInBudget`;
* `LockdownBlocks`, `LiftStartsAfresh`: the action properties, from what a step
  `Respects`;
* `BucketSplitExactly`: the shares of the eight sets of active classes, rounded
  one by one, never exceed a bucket of any size (`SplitWithinBucket`, one case
  per set of active classes), so the clamp in the code never acts;
* `ViewsFollow`, however the clients' clocks run: a combined call may replace
  the view twice in one step, once by the report and once by `CanDispatch`,
  which is why the argument carries `Outbid` (the horizon is kept, or replaced
  by a higher figure within the bucket or by a view that begins later) through
  the step. It needs the invariant `Viewed`: no view exists before the first
  report, which replaces the cold-start figure whatever it says, and a horizon
  is never further behind than the oldest stamp, so that a view a report calls
  over really ended before the stamp at which the next one begins
  (`HorizonFollows`).

*Tickets and charges* (`LedgerProofs`). `TicketsAllCharged`: the count taken
from outside stays below `SustainedUsed`, because a step lowers `SustainedUsed`
only if it also starts a window (`KeepsCharges`); `Sound` does the rest.

*The class split* (`SchedulingProofs`). `DispatchWithinSplit`: served since the
last split plus what is left of it is the split. Each operator either makes the
split anew, and then it is exact, or keeps it (`Splits`); only the loop's own
grant takes from it, one at a time.

*The order of service* (`SchedulingProofs`). `FirstComeFirstServed`, under
`MildAgeing` (`AgingWeight > 0`, and `AgingWeight * PollTimeout` below the 49
between the two nearest classes: 30 with the defaults). The invariant is
`Listed`: the list and the order of arrival hold the same appliances, each once,
and who came first is at least as old - true although every put-back reshuffles
the list, since all that an action does to it is to append a new, youngest item,
to permute, to age all alike, or to drop one (`ListedEnqueue`, `ListedReordered`,
`ListedDeparture`). The sort is a rank: `Precedes` is a strict total order
(`PrecedesOrder`), so counting who comes before is a bijection on the places
(`Ranks`, `SortPermutes`), and its head is nobody's inferior (`BestFirst`).
Without `MildAgeing` the theorem is false, as it should be: ageing is there to
let a low class past a high one in the end, and with `AgingWeight = 0` ties fall
back to the order of the list, which a put-back disturbs. TLC finds both (with 0
and with 25 a tick in `scheduling.cfg`).

*The broker* (`EngineProofs`). The slot count is inductive only together with
`WaitXorHold` (whoever is served from the queue has no ticket yet), which needs
`WaitersAttached` (a connection that enqueues is not another waiter's), which
needs the shapes of `queue` and `poll`: their conjunction is `Broker`. Hence

* `SlotsAccounted`, `OneRequestEach`, `NobodyServedInVain`, `QueueBounded`, all
  without `Prompt`: they hold however slowly goroutines run;
* `EngineImplementsQuota`: every step of the broker is a step of Quota or
  leaves the State alone, so the theorems about Quota carry over
  (`BrokerHonoursLockdown`, `BrokerKeepsAllowance`);
* `EngineKeepsLeases`: the broker implements TicketLease. For
  each action it shows what becomes of the standing of the one appliance it is
  about, that the others keep theirs, and what becomes of the lockdown;
  `WaitXorHold` is what makes the standing well defined.

*Tickets, tokens and handlers* (`TicketProofs`).

* `TicketsEndProperly`, and for prompt goroutines `SlotsComeBack`: every step
  does one of six things to the tickets. The age bound is inductive with the
  bound just after the reaper's round.
* `BrokerTyped`: the shapes of tickets, polls, tokens, signals and reports
  (`Shapes`). Its one hard part is that a uuid is there to be drawn whenever a
  ticket is issued: at most `MaxPending` reports are underway, so an appliance
  has at most `MaxPending + 4` tokens to its name (`FreshIsNew`).
* `NobodyPassedOver`: a step leaves loop and signals alone, sends a signal,
  keeps the loop running, or stops it where there is nobody to serve
  (`SignalSteps`); so the reaper's signal, or the loop that took it, is there
  as long as somebody stands in front of an open gate (`Signalled`).
* `NobodyOrphaned`, for prompt goroutines. "A waiting handler has its item" is
  not inductive: `RemoveFromQueue` goes by appliance, so two handlers of one
  appliance would take away each other's. `Handed` adds that each appliance has
  one handler at most, and, since a handler that was granted a ticket stays in
  its select until it wakes, that until then the ticket is `Unclaimed`: too
  young to be reaped, and with a token that neither the appliance nor a report
  underway has. The token's being new is where `FreshIsNew` is needed again.

*NationStates* (`UpstreamProofs`), all for reports in order (`Orderly`).
`Tally` gives every figure a bound of its own: CAS's figure is at most what the
bucket has left and the calls that were counted and not reported yet
(`FreshTally`); a figure on its way back is off only by the calls counted after
its own (`AnswerTally`, where `Lined` says that the answers on their way have
one order); the figure a call was granted on is off by the calls it foresaw and
the foreign ones (`HeldTally`). `Warned` says of the 429s on their way that one
of the present penalty carries at least what is left of it, and that none of
an earlier penalty comes after one of the present. Hence

* `NoOvercommitAlways`: the slots in use are the calls about to be made, the
  answers on their way and the lost ones, which turns `FreshTally` into
  `NeverOvercommits`;
* `LockdownOutlastsAlways` and `ImpliedUseAlways`.

The last of these refuted an earlier form of the model, in which a ticket
foresaw every other ticket out: with three appliances and a bucket of five an
answer already on its way was then taken for a call still to come. Two
appliances, which is what TLC checks, do not show it.

*Panels and shutdown* (`ProcessProofs`). `ProcessAnnouncesStale`: a panel that
is outdated has a signal waiting, somebody about to send one, or a change
nobody announced (`ViewInv` also ties a stream that is being built to its
signals). `ProcessHonoursGrace`: a poll is cut off only at the exit, which is
reached only with every poll answered or the whole grace served.

*Only model-checked*: liveness (`RecoversAlone`, `NoWaiterForgotten`,
`ViewCatchesUp`, `StopEnds`), which is beyond the prover, and what the runs that
expect a violation show.

Run `tlc -config quota_safety.cfg MCLedger` (module and cfg of each run are in
`PROJECT.json`) and `tlapm EngineProofs.tla`.

## 6. Not modelled

* HTML and JSON of the dashboard, `/status`, `/healthz`: they read the State
  under its mutex and keep none of their own.
* SQLite: inserts in goroutines nobody waits for, read-only queries. Nothing in
  the broker reads it back. (An insert may be lost when the process exits; no
  document promises the last rows.)
* Environment parsing: its results are the configurations of Quota, the
  unusable ones included.
* `Penalties`, `WindowStartTime` and the anomaly rows (telemetry), and
  `ratelimit-reset` (parsed, not used).
* Malformed requests, status codes, CORS and logging.
