----------------------------- MODULE Scheduling -----------------------------
(***************************************************************************)
(* Who is served next: the list of internal/queue with its ageing, between *)
(* TryAcquire, which serves whoever asks while CanDispatch allows it, and  *)
(* the dispatch loop, which serves the list within the class budgets.      *)
(* Handlers, tokens and signals are the business of Engine: here the loop  *)
(* may run at any time, one pop to a step, and a ticket is only held.      *)
(*                                                                         *)
(* QueuedAt is kept twice, as an age in ticks, which the priority is       *)
(* computed from, and as the order of arrival, which separates two items   *)
(* queued within a tick: no two instants of the code are equal.            *)
(***************************************************************************)
EXTENDS Quota, SequencesExt

CONSTANTS
    Appliances,   \* appliance ids, at most Fleet
    ClassOf,      \* the priority class each of them uses
    MaxQueue,     \* CAS_MAX_QUEUE
    AgingWeight,  \* CAS_AGING_WEIGHT, per tick
    PollTimeout   \* 30 s, in ticks

ASSUME SchedulingAssumption ==
    /\ ClassOf \in [Appliances -> RawClasses]
    /\ MaxQueue \in Nat /\ AgingWeight \in Nat /\ PollTimeout \in Nat \ {0}

VARIABLES
    items,     \* q.items: a sequence of [app, age]
    arrivals,  \* the appliances in it, in the order of their QueuedAt
    holders,   \* the appliances with a ticket
    served,    \* history: waiters served since the last split
    pool       \* history: what that split handed out in all

scheduling == <<st, items, arrivals, holders, served, pool>>

-----------------------------------------------------------------------------
(* internal/queue *)

BasePriority(c) == CASE c = "P1_HIGH" -> 100 [] c = "P3_LOW" -> 1 [] OTHER -> 50

Class(item) == ClassOf[item.app]

\* Mutant: ageing counts against the item.
PriorityAgainstAge(item) == BasePriority(Class(item)) - AgingWeight * item.age

effectivePriority(item) == BasePriority(Class(item)) + AgingWeight * item.age

QueuedBefore(i, j) ==
    \E m, n \in DOMAIN arrivals : m < n /\ arrivals[m] = i.app /\ arrivals[n] = j.app

(* Whether the k-th item comes before the l-th in the stable sort. *)
Precedes(k, l) ==
    LET p == effectivePriority(items[k])
        q == effectivePriority(items[l])
    IN  \/ p > q
        \/ p = q /\ IF AgingWeight > 0 THEN QueuedBefore(items[k], items[l]) ELSE k < l

sortByEffective ==
    [r \in DOMAIN items |->
        items[CHOOSE k \in DOMAIN items :
                 Cardinality({l \in DOMAIN items : Precedes(l, k)}) = r - 1]]

HasAppliance(a) == \E k \in DOMAIN items : items[k].app = a

Departs(a) == \E m \in DOMAIN arrivals : arrivals[m] = a /\ arrivals' = RemoveAt(arrivals, m)

Enqueue(a) ==
    /\ items' = Append(items, [app |-> a, age |-> 0])
    /\ arrivals' = Append(arrivals, a)

(* Appliances are in the list once, so the first match is the only one. *)
RemoveFromQueue(a) ==
    /\ \E k \in DOMAIN items : items[k].app = a /\ items' = RemoveAt(items, k)
    /\ Departs(a)

-----------------------------------------------------------------------------
(* History: whether a step computes the class split anew *)

RenewedBySettle(s) ==
    ~Locked(s) /\ s.Calibrated
    /\ ~(LiftLockdown(s).WindowActive /\ s.WindowLeft > 0)

RenewedByReport(lag) == WasStale(st, lag)

Renewed(yes) ==
    /\ served' = IF yes THEN 0 ELSE served
    /\ pool' = IF yes THEN st'.BucketLimit ELSE pool

-----------------------------------------------------------------------------
SchedulingInit ==
    /\ QuotaInit
    /\ items = <<>> /\ arrivals = <<>> /\ holders = {}
    /\ served = 0 /\ pool = st.BucketLimit

(* POST /acquire *)

MayAsk(a) == a \notin holders /\ ~HasAppliance(a)

AskAndGo(a, n) ==
    /\ MayAsk(a)
    /\ AcquireGrant(ClassOf[a], n)
    /\ holders' = holders \cup {a}
    /\ Renewed(RenewedBySettle(st))
    /\ UNCHANGED <<items, arrivals>>

AskAndWait(a, n) ==
    /\ MayAsk(a)
    /\ AcquireDeny(ClassOf[a], n)
    /\ IF Len(items) >= MaxQueue THEN UNCHANGED <<items, arrivals>> ELSE Enqueue(a)
    /\ Renewed(RenewedBySettle(st))
    /\ UNCHANGED holders

(* Reports and 429s, and the reaper *)

Return(a) ==
    /\ a \in holders
    /\ holders' = holders \ {a}
    /\ \/ \E h \in Headers, lag \in Lags :
             /\ Report(h, lag) \/ \E ra \in RetryAfters : Penalty(h, lag, ra)
             /\ Renewed(RenewedByReport(lag))
       \/ Reap(1) /\ UNCHANGED <<served, pool>>
    /\ UNCHANGED <<items, arrivals>>

(* The dispatch loop *)

PopBest == sortByEffective[1]

Serve(a) ==
    /\ items # <<>> /\ a = PopBest.app
    /\ DispatchGrant(ClassOf[a])
    /\ items' = Tail(sortByEffective)
    /\ Departs(a)
    /\ holders' = holders \cup {a}
    /\ served' = 1 + (IF RenewedBySettle(st) THEN 0 ELSE served)
    /\ pool' = IF RenewedBySettle(st) THEN st'.BucketLimit ELSE pool

(* The best waiter has no quota: it goes back, to the end of the list. *)
PutBack ==
    /\ CanDispatch(st) /\ items # <<>>
    /\ LET s == Settle(st) c == Class(PopBest)
       IN  ~HasClassQuota(s, c) /\ ~HasSharedQuota(s)
    /\ DispatchIdle
    /\ items' = Append(Tail(sortByEffective), PopBest)
    /\ Renewed(RenewedBySettle(st))
    /\ UNCHANGED <<arrivals, holders>>

Rest ==
    /\ ~CanDispatch(st) \/ items = <<>>
    /\ DispatchIdle
    /\ Renewed(RenewedBySettle(st))
    /\ UNCHANGED <<items, arrivals, holders>>

(* A poll that times out or whose client leaves; a waiter does not get     *)
(* older than its poll.                                                    *)
Leave(a) ==
    /\ RemoveFromQueue(a)
    /\ UNCHANGED <<st, holders, served, pool>>

Tick ==
    /\ \A k \in DOMAIN items : items[k].age < PollTimeout
    /\ Elapses
    /\ items' = [k \in DOMAIN items |-> [items[k] EXCEPT !.age = @ + 1]]
    /\ UNCHANGED <<arrivals, holders, served, pool>>

SchedulingNext ==
    \/ \E a \in Appliances :
          \/ \E n \in Demands : AskAndGo(a, n) \/ AskAndWait(a, n)
          \/ Return(a) \/ Serve(a) \/ Leave(a)
    \/ PutBack \/ Rest \/ Tick

SchedulingSpec == SchedulingInit /\ [][SchedulingNext]_scheduling

-----------------------------------------------------------------------------
(* Properties *)

(* With the default ageing - 1 a second, so at most 30 before the poll is  *)
(* over, while 49 or 50 separate the classes - the loop serves by class    *)
(* first and by arrival within a class, although an item without quota is  *)
(* put back at the end of the list and the sort only ever looks at ages.   *)
(* In particular ageing never brings a waiter past a higher class.         *)
ServedInOrder ==
    [][\A i \in ToSet(items) :
          i.app \in holders' \ holders =>
              \A j \in ToSet(items) \ {i} :
                  \/ BasePriority(Class(j)) < BasePriority(Class(i))
                  \/ /\ BasePriority(Class(j)) = BasePriority(Class(i))
                     /\ QueuedBefore(i, j)]_scheduling

(* Between two splits the loop serves exactly what the class budgets and   *)
(* the shared pool have given up: a figure NationStates lowers or raises,  *)
(* a 429 or a ticket granted outside the list neither adds to the budgets  *)
(* nor takes from them.                                                    *)
BudgetsBoundDispatch ==
    served + Total(st.ClassRemaining) + st.SharedRemaining = pool
=============================================================================
