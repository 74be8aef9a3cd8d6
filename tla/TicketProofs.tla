----------------------------- MODULE TicketProofs -----------------------------
(***************************************************************************)
(* The life of a ticket in the broker: how it ends, and how old it gets    *)
(* before the reaper has it.  Every step does one of six things to the     *)
(* tickets; both theorems go through these six.                            *)
(***************************************************************************)
EXTENDS EngineProofs, EngineLatency

Keeps == UNCHANGED <<tickets, reapDue>>

Issues ==
    /\ \E a \in Appliances \ DOMAIN tickets : tickets' = Put(tickets, a, NewTicket(a))
    /\ UNCHANGED reapDue

Settles ==
    /\ \E r \in pending : /\ Matched(r.app, r.token)
                          /\ tickets' = Without(tickets, {r.app})
                          /\ pending' = pending \ {r}
    /\ UNCHANGED reapDue

Combines ==
    \E a \in Appliances :
       /\ Combined(a)
       /\ \/ tickets' = Without(tickets, {a})
          \/ tickets' = Put(tickets, a, NewTicket(a))

Expires ==
    /\ reapDue /\ ~reapDue'
    /\ tickets' = Without(tickets, Expired)

Ages ==
    /\ Prompt => ~reapDue
    /\ tickets' = [a \in DOMAIN tickets |->
                     [tickets[a] EXCEPT !.age = AtMost(@ + 1, Expiry + 2)]]
    /\ reapDue'

LEMMA TicketSteps ==
    ASSUME EInv, EngineNext
    PROVE  Keeps \/ Issues \/ Settles \/ Combines \/ Expires \/ Ages
<1>1. ASSUME NEW a \in Appliances, NEW c \in RawClasses, NEW n \in Demands,
             \/ TryAcquireGrant(a, c, n)
             \/ \E conn \in Conns : TryAcquireQueue(a, c, n, conn)
             \/ TryAcquireFull(a, c, n)
      PROVE  Keeps \/ Issues
  <2>1. CASE TryAcquireGrant(a, c, n)
    BY <2>1 DEF TryAcquireGrant, MayAsk, Issues
  <2>2. CASE \E conn \in Conns : TryAcquireQueue(a, c, n, conn)
    BY <2>2 DEF TryAcquireQueue, Keeps
  <2>3. CASE TryAcquireFull(a, c, n)
    BY <2>3 DEF TryAcquireFull, Keeps
  <2> QED
    BY <1>1, <2>1, <2>2, <2>3
<1>2. ASSUME NEW a \in Appliances, Post(a)
      PROVE  Keeps
  BY <1>2 DEF Post, Keeps
<1>3. ASSUME NEW r \in pending, HandleReport(r) \/ DropReport(r)
      PROVE  Keeps \/ Settles
  <2>1. CASE HandleReport(r)
    BY <2>1 DEF HandleReport, Settles
  <2>2. CASE DropReport(r)
    BY <2>2 DEF DropReport, Keeps
  <2> QED
    BY <1>3, <2>1, <2>2
<1>4. ASSUME NEW a \in Appliances, ReportAndAcquirePenalty(a)
      PROVE  Combines
  BY <1>4 DEF ReportAndAcquirePenalty, Combines
<1>5. ASSUME NEW a \in Appliances, NEW c \in RawClasses, NEW n \in Demands,
             ReportAndAcquireGrant(a, c, n) \/ ReportAndAcquireWait(a, c, n)
      PROVE  Combines
  BY <1>5 DEF ReportAndAcquireGrant, ReportAndAcquireWait, Combines
<1>6. ASSUME NEW item \in queue, DispatchItem(item)
      PROVE  Issues
  <2>1. item.app \in Appliances \ DOMAIN tickets
    BY DEF EInv, Broker, WaitXorHold, Item
  <2> QED
    BY <1>6, <2>1 DEF DispatchItem, Issues
<1>7. CASE DispatchEnd \/ StoreToken
  BY <1>7 DEF DispatchEnd, StoreToken, Keeps
<1>8. ASSUME NEW conn \in Conns,
             \/ WakeWithToken(conn) \/ WakeWithoutToken(conn)
             \/ Timeout(conn) \/ Disconnect(conn)
      PROVE  Keeps
  BY <1>8 DEF WakeWithToken, WakeWithoutToken, Timeout, Disconnect, Leave, Keeps
<1>9. CASE Reaper
  BY <1>9 DEF Reaper, Expires
<1>10. CASE Tick
  BY <1>10 DEF Tick, Quiet, Ages
<1> QED
  BY <1>1, <1>2, <1>3, <1>4, <1>5, <1>6, <1>7, <1>8, <1>9, <1>10
     DEF EngineNext, EngineStep, Acquire, ProcessPending, ReportAndAcquire,
         DispatchStep, Handlers

-----------------------------------------------------------------------------
(* The inductive invariant: the shapes of tickets and reports, and, when   *)
(* goroutines run within a tick, the age a ticket has before and after the *)
(* reaper's round.                                                         *)

TicketShape ==
    \A a \in DOMAIN tickets :
        /\ tickets[a] = [token |-> tickets[a].token, age |-> tickets[a].age]
        /\ tickets[a].age \in Nat

ReportShape == \A r \in pending : r = [app |-> r.app, token |-> r.token]

ReapedInTime ==
    Prompt => /\ \A a \in DOMAIN tickets : tickets[a].age <= Expiry + 1
              /\ ~reapDue => \A a \in DOMAIN tickets : tickets[a].age <= Expiry

TInv == EInv /\ TicketShape /\ ReportShape /\ ReapedInTime

LEMMA NewTicketAge == \A a : NewTicket(a) = [token |-> NewTicket(a).token, age |-> 0]
BY DEF NewTicket

LEMMA AgedTicket ==
    ASSUME TicketShape, NEW a \in DOMAIN tickets, Ages
    PROVE  /\ tickets'[a] = [token |-> tickets[a].token, age |-> tickets'[a].age]
           /\ tickets'[a].age \in Nat
           /\ tickets'[a].age <= tickets[a].age + 1
<1> DEFINE aged == AtMost(tickets[a].age + 1, Expiry + 2)
<1>1. aged \in Nat /\ aged <= tickets[a].age + 1
  BY EngineAssumption DEF TicketShape, AtMost
<1>2. tickets'[a] = [tickets[a] EXCEPT !.age = aged]
  BY DEF Ages
<1>3. tickets[a] = [token |-> tickets[a].token, age |-> tickets[a].age]
  BY DEF TicketShape
<1> HIDE DEF aged
<1>4. tickets'[a] = [token |-> tickets[a].token, age |-> aged]
  BY <1>2, <1>3
<1> QED
  BY <1>1, <1>4

LEMMA TicketShapeStep ==
    ASSUME TInv, Keeps \/ Issues \/ Settles \/ Combines \/ Expires \/ Ages
    PROVE  TicketShape' /\ ReapedInTime'
<1> USE EngineAssumption
<1>1. ASSUME NEW S, tickets' = Without(tickets, S)
      PROVE  \A a \in DOMAIN tickets' : a \in DOMAIN tickets \ S /\ tickets'[a] = tickets[a]
  BY <1>1 DEF Without, Restrict
<1>2. ASSUME NEW b, tickets' = Put(tickets, b, NewTicket(b))
      PROVE  \A a \in DOMAIN tickets' :
                \/ a \in DOMAIN tickets /\ tickets'[a] = tickets[a]
                \/ tickets'[a] = NewTicket(b)
  BY <1>2 DEF Put
<1>3. CASE Keeps
  BY <1>3 DEF Keeps, TInv, TicketShape, ReapedInTime
<1>4. CASE Issues \/ Settles \/ Combines
  <2>1. /\ UNCHANGED reapDue
        /\ \A a \in DOMAIN tickets' :
              \/ a \in DOMAIN tickets /\ tickets'[a] = tickets[a]
              \/ \E b : tickets'[a] = NewTicket(b)
    BY <1>1, <1>2, <1>4 DEF Issues, Settles, Combines, Combined
  <2>2. \A a \in DOMAIN tickets' :
           \/ a \in DOMAIN tickets /\ tickets'[a] = tickets[a]
           \/ tickets'[a] = [token |-> tickets'[a].token, age |-> 0]
    BY <2>1, NewTicketAge
  <2> QED
    BY <2>1, <2>2 DEF TInv, TicketShape, ReapedInTime
<1>5. CASE Expires
  <2>1. \A a \in DOMAIN tickets' : /\ a \in DOMAIN tickets \ Expired
                                   /\ tickets'[a] = tickets[a]
    BY <1>1, <1>5 DEF Expires
  <2>2. TicketShape'
    BY <2>1 DEF TInv, TicketShape
  <2>3. \A a \in DOMAIN tickets' : tickets'[a].age <= Expiry
    BY <2>1 DEF TInv, TicketShape, Expired
  <2>4. \A a \in DOMAIN tickets' : tickets'[a].age <= Expiry + 1
    BY <2>2, <2>3 DEF TicketShape
  <2> QED
    BY <2>2, <2>3, <2>4 DEF ReapedInTime
<1>6. CASE Ages
  <2>1. DOMAIN tickets' = DOMAIN tickets /\ reapDue' /\ (Prompt => ~reapDue)
    BY <1>6 DEF Ages
  <2>2. \A a \in DOMAIN tickets :
           /\ tickets'[a] = [token |-> tickets[a].token, age |-> tickets'[a].age]
           /\ tickets'[a].age \in Nat
           /\ tickets'[a].age <= tickets[a].age + 1
    BY <1>6, AgedTicket DEF TInv
  <2>3. TicketShape'
    BY <2>1, <2>2 DEF TicketShape
  <2>4. ASSUME Prompt, NEW a \in DOMAIN tickets
        PROVE  tickets'[a].age <= Expiry + 1
    BY <2>1, <2>2, <2>4 DEF TInv, TicketShape, ReapedInTime
  <2> QED
    BY <2>1, <2>3, <2>4 DEF ReapedInTime
<1> QED
  BY <1>3, <1>4, <1>5, <1>6

LEMMA ReportShapeStep ==
    ASSUME ReportShape, EngineNext
    PROVE  ReportShape'
<1>1. ASSUME NEW a \in Appliances, Post(a)
      PROVE  ReportShape'
  BY <1>1 DEF Post, ReportShape
<1>2. CASE pending' \subseteq pending
  BY <1>2 DEF ReportShape
<1>3. Acquire \/ ReportAndAcquire => pending' \subseteq pending
  BY DEF Acquire, ReportAndAcquire, TryAcquireGrant, TryAcquireQueue, TryAcquireFull,
         ReportAndAcquirePenalty, ReportAndAcquireGrant, ReportAndAcquireWait, Combined
<1>4. ProcessPending => pending' \subseteq pending
  BY DEF ProcessPending, HandleReport, DropReport
<1>5. DispatchStep \/ Handlers => pending' \subseteq pending
  BY DEF DispatchStep, DispatchItem, DispatchEnd, StoreToken, Handlers,
         WakeWithToken, WakeWithoutToken, Timeout, Disconnect, Leave
<1>6. Tick \/ Reaper => pending' \subseteq pending
  BY DEF Tick, Reaper
<1> QED
  BY <1>1, <1>2, <1>3, <1>4, <1>5, <1>6 DEF EngineNext, EngineStep

LEMMA TInvAlways == EngineSpec => []TInv
<1>1. EngineInit => TicketShape /\ ReportShape /\ ReapedInTime
  BY DEF EngineInit, TicketShape, ReportShape, ReapedInTime
<1>2. EInv' /\ TInv /\ [EngineNext]_vars => TInv'
  <2> SUFFICES ASSUME EInv', TInv, [EngineNext]_vars PROVE TInv'
    OBVIOUS
  <2>1. CASE EngineNext
    BY <2>1, TicketSteps, TicketShapeStep, ReportShapeStep DEF TInv
  <2>2. CASE UNCHANGED vars
    BY <2>2 DEF vars, TInv, TicketShape, ReportShape, ReapedInTime
  <2> QED
    BY <2>1, <2>2
<1>3. EInv /\ TicketShape /\ ReportShape /\ ReapedInTime => TInv
  BY DEF TInv
<1> QED
  BY <1>1, <1>2, <1>3, EInvAlways, PTL DEF EngineSpec

-----------------------------------------------------------------------------
(* Theorems *)

LEMMA TicketEnds ==
    ASSUME TInv, Keeps \/ Issues \/ Settles \/ Combines \/ Expires \/ Ages,
           NEW a \in DOMAIN tickets
    PROVE  \/ a \in DOMAIN tickets' /\ tickets'[a].token = tickets[a].token
           \/ tickets[a].age > Expiry /\ reapDue /\ ~reapDue'
           \/ [app |-> a, token |-> tickets[a].token] \in pending \ pending'
           \/ Combined(a)
<1>1. CASE Keeps
  BY <1>1 DEF Keeps
<1>2. CASE Issues
  BY <1>2 DEF Issues, Put
<1>3. CASE Settles
  <2>1. PICK r \in pending : /\ Matched(r.app, r.token)
                             /\ tickets' = Without(tickets, {r.app})
                             /\ pending' = pending \ {r}
    BY <1>3 DEF Settles
  <2>2. CASE a = r.app
    <3>1. r = [app |-> a, token |-> tickets[a].token]
      BY <2>1, <2>2 DEF TInv, ReportShape, Matched
    <3> QED
      BY <2>1, <3>1
  <2>3. CASE a # r.app
    BY <2>1, <2>3 DEF Without, Restrict
  <2> QED
    BY <2>2, <2>3
<1>4. CASE Combines
  <2>1. PICK b \in Appliances :
           /\ Combined(b)
           /\ \/ tickets' = Without(tickets, {b})
              \/ tickets' = Put(tickets, b, NewTicket(b))
    BY <1>4 DEF Combines
  <2>2. CASE a # b
    BY <2>1, <2>2 DEF Without, Restrict, Put
  <2> QED
    BY <2>1, <2>2
<1>5. CASE Expires
  <2>1. CASE a \in Expired
    BY <1>5, <2>1 DEF Expires, Expired
  <2>2. CASE a \notin Expired
    BY <1>5, <2>2 DEF Expires, Without, Restrict
  <2> QED
    BY <2>1, <2>2
<1>6. CASE Ages
  <2>1. a \in DOMAIN tickets'
    BY <1>6 DEF Ages
  <2>2. tickets'[a] = [token |-> tickets[a].token, age |-> tickets'[a].age]
    BY <1>6, AgedTicket DEF TInv
  <2> QED
    BY <2>1, <2>2
<1> QED
  BY <1>1, <1>2, <1>3, <1>4, <1>5, <1>6

(* However slowly goroutines run, and whatever reports are duplicated,     *)
(* late or racing the reaper, a ticket ends only by its own report or by   *)
(* expiring.                                                               *)
THEOREM TicketsEndProperly == EngineSpec => TicketEndsByReportOrExpiry
<1> DEFINE Ends(a) ==
        \/ a \in DOMAIN tickets' /\ tickets'[a].token = tickets[a].token
        \/ tickets[a].age > Expiry /\ reapDue /\ ~reapDue'
        \/ [app |-> a, token |-> tickets[a].token] \in pending \ pending'
        \/ Combined(a)
<1>1. TInv /\ [EngineNext]_vars => [\A a \in DOMAIN tickets : Ends(a)]_vars
  <2> SUFFICES ASSUME TInv, EngineNext PROVE \A a \in DOMAIN tickets : Ends(a)
    OBVIOUS
  <2>1. Keeps \/ Issues \/ Settles \/ Combines \/ Expires \/ Ages
    BY TicketSteps DEF TInv
  <2> QED
    BY <2>1, TicketEnds
<1> QED
  BY <1>1, TInvAlways, PTL DEF EngineSpec, TicketEndsByReportOrExpiry

(* When goroutines run within a tick, the slot of an appliance that has    *)
(* crashed is back at the latest one round of the reaper after it expired. *)
THEOREM SlotsComeBack ==
    ASSUME Prompt
    PROVE  EngineSpec => []TicketAgeBound
<1>1. TInv => TicketAgeBound
  BY DEF TInv, ReapedInTime, TicketAgeBound
<1> QED
  BY <1>1, TInvAlways, PTL

-----------------------------------------------------------------------------
(* The loop after the reaper: it runs, or a signal is on its way to it,    *)
(* as long as the best waiter has been one it would serve.                 *)

Signalled ==
    /\ notify \in Nat
    /\ passedOver => loop.pc # "idle" \/ notify > 0

LEMMA PingSignals ==
    ASSUME notify \in Nat, Ping
    PROVE  notify' \in Nat /\ notify' > 0
BY EngineAssumption DEF Ping, AtMost

(* A step either leaves loop and signals alone, sends a signal, or is the  *)
(* loop's own; the loop stops only where it has nobody to serve.           *)
LEMMA SignalSteps ==
    ASSUME notify \in Nat, EngineNext
    PROVE  /\ notify' \in Nat
           /\ \/ UNCHANGED <<loop, notify>>
              \/ notify' > 0
              \/ loop'.pc # "idle"
              \/ ~Dispatchable /\ DispatchEnd
<1>1. TakeSignal /\ InRound => notify' \in Nat
  BY DEF TakeSignal, InRound
<1>2. CASE Acquire \/ \E a \in Appliances : Post(a)
  BY <1>2 DEF Acquire, TryAcquireGrant, TryAcquireQueue, TryAcquireFull, Post
<1>3. CASE ProcessPending
  BY <1>3, PingSignals DEF ProcessPending, HandleReport, DropReport
<1>4. CASE ReportAndAcquire
  BY <1>4, PingSignals DEF ReportAndAcquire, ReportAndAcquirePenalty,
     ReportAndAcquireGrant, ReportAndAcquireWait, Combined
<1>5. CASE DispatchStep
  <2>1. ASSUME NEW item \in queue, DispatchItem(item)
        PROVE  notify' \in Nat /\ loop'.pc # "idle"
    BY <1>1, <2>1 DEF DispatchItem
  <2>2. CASE DispatchEnd
    BY <1>1, <2>2 DEF DispatchEnd, Dispatchable
  <2>3. CASE StoreToken
    BY <2>3 DEF StoreToken
  <2> QED
    BY <1>5, <2>1, <2>2, <2>3 DEF DispatchStep
<1>6. CASE Handlers \/ Tick
  BY <1>6 DEF Handlers, WakeWithToken, WakeWithoutToken, Timeout, Disconnect, Leave, Tick
<1>7. CASE Reaper
  BY <1>7, PingSignals DEF Reaper
<1> QED
  BY <1>2, <1>3, <1>4, <1>5, <1>6, <1>7 DEF EngineNext, EngineStep

(* No waiter is passed over for longer than a period of the reaper: the    *)
(* signal it sends is still there, or the loop that took it still runs,    *)
(* until somebody is served or nobody can be.                              *)
THEOREM NobodyPassedOver == LatencySpec => []ServedWithinAPeriod
<1>1. LatencyInit => Signalled
  BY DEF LatencyInit, EngineInit, Signalled
<1>2. Signalled /\ [LatencyNext]_<<vars, passedOver>> => Signalled'
  <2> SUFFICES ASSUME Signalled, [LatencyNext]_<<vars, passedOver>> PROVE Signalled'
    OBVIOUS
  <2>1. CASE Reaper /\ passedOver' = Dispatchable'
    BY <2>1, PingSignals DEF Reaper, Signalled
  <2>2. CASE EngineStep /\ passedOver' = (passedOver /\ Dispatchable)
    <3>1. passedOver' => passedOver /\ Dispatchable
      BY <2>2
    <3>2. EngineNext
      BY <2>2 DEF EngineNext
    <3>3. /\ notify' \in Nat
          /\ \/ UNCHANGED <<loop, notify>>
             \/ notify' > 0
             \/ loop'.pc # "idle"
             \/ ~Dispatchable /\ DispatchEnd
      BY <3>2, SignalSteps DEF Signalled
    <3> QED
      BY <3>1, <3>3 DEF Signalled
  <2>3. CASE UNCHANGED <<vars, passedOver>>
    BY <2>3 DEF vars, Signalled
  <2> QED
    BY <2>1, <2>2, <2>3 DEF LatencyNext
<1>3. Signalled => ServedWithinAPeriod
  BY DEF Signalled, ServedWithinAPeriod, Quiet
<1> QED
  BY <1>1, <1>2, <1>3, PTL DEF LatencySpec

-----------------------------------------------------------------------------
(* A new token is new: tokens the appliance holds, or reports that are     *)
(* still underway with, name other tickets.                                *)

FewReports == IsFiniteSet(pending) /\ Cardinality(pending) <= MaxPending

LEMMA AddedOne ==
    ASSUME NEW S, NEW x, IsFiniteSet(S), NEW k \in Nat, Cardinality(S) <= k
    PROVE  IsFiniteSet(S \cup {x}) /\ Cardinality(S \cup {x}) <= k + 1
<1>1. Cardinality(S) \in Nat
  BY FS_CardinalityType
<1>2. /\ IsFiniteSet(S \cup {x})
      /\ Cardinality(S \cup {x}) \in {Cardinality(S), Cardinality(S) + 1}
  BY FS_AddElement
<1> QED
  BY <1>1, <1>2

LEMMA FreshIsNew ==
    ASSUME FewReports, NEW a
    PROVE  /\ Fresh(a) \in Tokens
           /\ a \in DOMAIN holds => Fresh(a) # holds[a]
           /\ \A r \in pending : r.app = a => r.token # Fresh(a)
<1> DEFINE T == {tickets[b].token : b \in DOMAIN tickets \cap {a}}
           H == {holds[b] : b \in DOMAIN holds \cap {a}}
           M == {tokenMap[b] : b \in DOMAIN tokenMap \cap {a}}
           R == {r \in pending : r.app = a}
           P == {r.token : r \in R}
           L == IF loop.pc = "store" /\ loop.app = a THEN {loop.token} ELSE {}
           used == T \cup H \cup M \cup P \cup L
           all == (((P \cup {tickets[a].token}) \cup {holds[a]}) \cup {tokenMap[a]}) \cup {loop.token}
<1>1. IsFiniteSet(P) /\ Cardinality(P) <= MaxPending
  <2>1. /\ IsFiniteSet(R) /\ Cardinality(R) <= Cardinality(pending)
        /\ Cardinality(R) \in Nat /\ Cardinality(pending) \in Nat
    BY FS_Subset, FS_CardinalityType DEF FewReports
  <2> HIDE DEF R
  <2>2. IsFiniteSet(P) /\ Cardinality(P) <= Cardinality(R) /\ Cardinality(P) \in Nat
    <3> DEFINE f == [r \in R |-> r.token]
    <3>1. f \in Surjection(R, P)
      BY DEF Surjection
    <3> QED
      BY <2>1, <3>1, FS_Surjection, FS_CardinalityType
  <2> QED
    BY <2>1, <2>2, EngineAssumption DEF FewReports
<1>2. used \subseteq all
  OBVIOUS
<1>3. IsFiniteSet(all) /\ Cardinality(all) <= MaxPending + 4
  <2> HIDE DEF P
  <2>1. /\ MaxPending \in Nat /\ MaxPending + 1 \in Nat
        /\ MaxPending + 2 \in Nat /\ MaxPending + 3 \in Nat
    BY EngineAssumption
  <2> DEFINE A1 == P \cup {tickets[a].token}
             A2 == A1 \cup {holds[a]}
             A3 == A2 \cup {tokenMap[a]}
             A4 == A3 \cup {loop.token}
  <2>2. IsFiniteSet(A1) /\ Cardinality(A1) <= MaxPending + 1
    BY <1>1, <2>1, AddedOne
  <2>3. IsFiniteSet(A2) /\ Cardinality(A2) <= MaxPending + 2
    <3> HIDE DEF A1
    <3>1. IsFiniteSet(A2) /\ Cardinality(A2) <= (MaxPending + 1) + 1
      BY <2>1, <2>2, AddedOne
    <3> QED
      BY <2>1, <3>1
  <2>4. IsFiniteSet(A3) /\ Cardinality(A3) <= MaxPending + 3
    <3> HIDE DEF A2
    <3>1. IsFiniteSet(A3) /\ Cardinality(A3) <= (MaxPending + 2) + 1
      BY <2>1, <2>3, AddedOne
    <3> QED
      BY <2>1, <3>1
  <2>5. IsFiniteSet(A4) /\ Cardinality(A4) <= MaxPending + 4
    <3> HIDE DEF A3
    <3>1. IsFiniteSet(A4) /\ Cardinality(A4) <= (MaxPending + 3) + 1
      BY <2>1, <2>4, AddedOne
    <3> QED
      BY <2>1, <3>1
  <2> QED
    BY <2>5
<1>4. \E t \in Tokens : t \notin used
  <2> HIDE DEF all, used
  <2> SUFFICES ASSUME Tokens \subseteq used PROVE FALSE
    OBVIOUS
  <2>1. IsFiniteSet(Tokens) /\ Cardinality(Tokens) <= Cardinality(all)
    BY <1>2, <1>3, FS_Subset
  <2>2. Cardinality(Tokens) \in Nat /\ Cardinality(all) \in Nat
    BY <1>3, <2>1, FS_CardinalityType
  <2> QED
    BY <1>3, <2>1, <2>2, TokensAssumption, EngineAssumption
<1>5. Fresh(a) = CHOOSE t \in Tokens : t \notin used
  BY DEF Fresh
<1> HIDE DEF used
<1>6. Fresh(a) \in Tokens /\ Fresh(a) \notin used
  BY <1>4, <1>5
<1> QED
  BY <1>6 DEF used

-----------------------------------------------------------------------------
(* The shapes of what the broker keeps beside tickets and queue *)

Ticket == [token : Tokens, age : 0 .. Expiry + 2]

Poll == [app : Appliances, granted : BOOLEAN, waited : 0 .. PollTimeout]

LoopState == [pc : {"idle", "round"}] \cup [pc : {"store"}, app : Appliances, token : Tokens]

TicketsTyped == \A a \in DOMAIN tickets : tickets[a] \in Ticket

PollsTyped == DOMAIN poll \subseteq Conns /\ \A c \in DOMAIN poll : poll[c] \in Poll

HoldsTyped == DOMAIN holds \subseteq Appliances /\ \A a \in DOMAIN holds : holds[a] \in Tokens

StoredTyped ==
    /\ DOMAIN tokenMap \subseteq Appliances /\ \A a \in DOMAIN tokenMap : tokenMap[a] \in Tokens
    /\ loop \in LoopState

SignalsTyped == notify \in 0 .. NotifyCap /\ reapDue \in BOOLEAN

ReportsTyped == pending \subseteq [app : Appliances, token : Tokens] /\ FewReports

Shapes ==
    /\ TicketsTyped /\ PollsTyped /\ HoldsTyped /\ StoredTyped
    /\ SignalsTyped /\ ReportsTyped

LEMMA ShapesType == EInv /\ Shapes => EngineTypeOK
BY DEF EInv, Broker, Shapes, TicketsTyped, PollsTyped, HoldsTyped, StoredTyped,
       SignalsTyped, ReportsTyped, Ticket, Poll, LoopState, EngineTypeOK

LEMMA TicketsTypedStep ==
    ASSUME EInv, Shapes, EngineNext
    PROVE  TicketsTyped'
<1>1. \A b : NewTicket(b) \in Ticket
  BY FreshIsNew, EngineAssumption DEF NewTicket, Ticket, Shapes, ReportsTyped
<1>2. \A a \in DOMAIN tickets : tickets[a] \in Ticket
  BY DEF Shapes, TicketsTyped
<1>3. ASSUME NEW S, tickets' = Without(tickets, S)
      PROVE  TicketsTyped'
  <2>1. \A a \in DOMAIN tickets' : a \in DOMAIN tickets /\ tickets'[a] = tickets[a]
    BY <1>3 DEF Without, Restrict
  <2> QED
    BY <1>2, <2>1 DEF TicketsTyped
<1>4. ASSUME NEW b, tickets' = Put(tickets, b, NewTicket(b))
      PROVE  TicketsTyped'
  <2>1. \A a \in DOMAIN tickets' :
           \/ a \in DOMAIN tickets /\ tickets'[a] = tickets[a]
           \/ tickets'[a] = NewTicket(b)
    BY <1>4 DEF Put
  <2> QED
    BY <1>1, <1>2, <2>1 DEF TicketsTyped
<1>5. CASE Keeps
  BY <1>2, <1>5 DEF Keeps, TicketsTyped
<1>6. CASE Issues \/ Settles \/ Combines \/ Expires
  BY <1>3, <1>4, <1>6 DEF Issues, Settles, Combines, Expires
<1>7. CASE Ages
  <2> SUFFICES ASSUME NEW a \in DOMAIN tickets' PROVE tickets'[a] \in Ticket
    BY DEF TicketsTyped
  <2> DEFINE aged == AtMost(tickets[a].age + 1, Expiry + 2)
  <2>1. a \in DOMAIN tickets /\ tickets'[a] = [tickets[a] EXCEPT !.age = aged]
    BY <1>7 DEF Ages
  <2>2. tickets[a] \in Ticket
    BY <1>2, <2>1
  <2>3. aged \in 0 .. Expiry + 2
    BY <2>2, EngineAssumption DEF Ticket, AtMost
  <2> HIDE DEF aged
  <2> QED
    BY <2>1, <2>2, <2>3 DEF Ticket
<1> QED
  BY <1>5, <1>6, <1>7, TicketSteps

(* What a step can do to the handlers in their selects *)
PollSteps ==
    \/ UNCHANGED poll
    \/ \E a \in Appliances, c \in RawClasses, conn \in Conns : Enqueue(a, c, conn)
    \/ \E item \in queue : poll' = [poll EXCEPT ![item.conn].granted = TRUE]
    \/ \E conn \in Conns : poll' = Without(poll, {conn})
    \/ poll' = [conn \in DOMAIN poll |->
                  [poll[conn] EXCEPT !.waited = AtMost(@ + 1, PollTimeout)]]

LEMMA PollStepsAll ==
    ASSUME EngineNext
    PROVE  PollSteps
<1>1. CASE Acquire
  BY <1>1 DEF Acquire, TryAcquireGrant, TryAcquireQueue, TryAcquireFull, QueueFull, PollSteps
<1>2. CASE (\E a \in Appliances : Post(a)) \/ ProcessPending \/ Reaper
  BY <1>2 DEF Post, ProcessPending, HandleReport, DropReport, Reaper, PollSteps
<1>3. CASE ReportAndAcquire
  BY <1>3 DEF ReportAndAcquire, ReportAndAcquirePenalty, ReportAndAcquireGrant,
     ReportAndAcquireWait, QueueFull, PollSteps
<1>4. CASE DispatchStep
  BY <1>4 DEF DispatchStep, DispatchItem, DispatchEnd, StoreToken, PollSteps
<1>5. CASE Handlers
  BY <1>5 DEF Handlers, WakeWithToken, WakeWithoutToken, Timeout, Disconnect, Leave, PollSteps
<1>6. CASE Tick
  BY <1>6 DEF Tick, PollSteps
<1> QED
  BY <1>1, <1>2, <1>3, <1>4, <1>5, <1>6 DEF EngineNext, EngineStep

LEMMA PollsTypedStep ==
    ASSUME EInv, Shapes, EngineNext
    PROVE  PollsTyped'
<1>1. DOMAIN poll \subseteq Conns /\ \A c \in DOMAIN poll : poll[c] \in Poll
  BY DEF Shapes, PollsTyped
<1>2. CASE UNCHANGED poll
  BY <1>1, <1>2 DEF PollsTyped
<1>3. ASSUME NEW a \in Appliances, NEW c \in RawClasses, NEW conn \in Conns,
             Enqueue(a, c, conn)
      PROVE  PollsTyped'
  <2> DEFINE new == [app |-> a, granted |-> FALSE, waited |-> 0]
  <2>1. new \in Poll
    BY EngineAssumption DEF Poll
  <2>2. poll' = Put(poll, conn, new)
    BY <1>3 DEF Enqueue
  <2> HIDE DEF new
  <2> QED
    BY <1>1, <2>1, <2>2 DEF Put, PollsTyped
<1>4. ASSUME NEW item \in queue, poll' = [poll EXCEPT ![item.conn].granted = TRUE]
      PROVE  PollsTyped'
  <2>1. item.conn \in DOMAIN poll
    BY DEF EInv, Broker, WaitersAttached
  <2>2. [poll[item.conn] EXCEPT !.granted = TRUE] \in Poll
    BY <1>1, <2>1 DEF Poll
  <2>3. /\ DOMAIN poll' = DOMAIN poll
        /\ poll'[item.conn] = [poll[item.conn] EXCEPT !.granted = TRUE]
        /\ \A c \in DOMAIN poll : c # item.conn => poll'[c] = poll[c]
    BY <1>4, <2>1 DEF EInv, Broker
  <2> QED
    BY <1>1, <2>2, <2>3 DEF PollsTyped
<1>5. ASSUME NEW conn \in Conns, poll' = Without(poll, {conn})
      PROVE  PollsTyped'
  <2>1. \A c \in DOMAIN poll' : c \in DOMAIN poll /\ poll'[c] = poll[c]
    BY <1>5 DEF Without, Restrict
  <2> QED
    BY <1>1, <2>1 DEF PollsTyped
<1>6. CASE poll' = [conn \in DOMAIN poll |->
                      [poll[conn] EXCEPT !.waited = AtMost(@ + 1, PollTimeout)]]
  <2> SUFFICES ASSUME NEW c \in DOMAIN poll' PROVE poll'[c] \in Poll
    BY <1>1, <1>6 DEF PollsTyped
  <2> DEFINE w == AtMost(poll[c].waited + 1, PollTimeout)
  <2>1. c \in DOMAIN poll /\ poll'[c] = [poll[c] EXCEPT !.waited = w]
    BY <1>6
  <2>2. poll[c] \in Poll
    BY <1>1, <2>1
  <2>3. w \in 0 .. PollTimeout
    BY <2>2, EngineAssumption DEF Poll, AtMost
  <2> HIDE DEF w
  <2> QED
    BY <2>1, <2>2, <2>3 DEF Poll
<1> QED
  BY <1>2, <1>3, <1>4, <1>5, <1>6, PollStepsAll DEF PollSteps

LEMMA HoldsTypedStep ==
    ASSUME EInv, Shapes, EngineNext
    PROVE  HoldsTyped'
<1>1. ASSUME NEW a \in Appliances, NEW t \in Tokens, holds' = Put(holds, a, t)
      PROVE  HoldsTyped'
  <2>1. /\ DOMAIN holds' = DOMAIN holds \cup {a}
        /\ \A b \in DOMAIN holds' :
              (b \in DOMAIN holds /\ holds'[b] = holds[b]) \/ holds'[b] = t
    BY <1>1 DEF Put
  <2> QED
    BY <2>1 DEF Shapes, HoldsTyped
<1>2. CASE UNCHANGED holds
  BY <1>2 DEF Shapes, HoldsTyped
<1>3. \A a \in Appliances : Fresh(a) \in Tokens
  BY FreshIsNew DEF Shapes, ReportsTyped
<1>4. CASE Acquire
  BY <1>1, <1>2, <1>3, <1>4 DEF Acquire, TryAcquireGrant, TryAcquireQueue, TryAcquireFull
<1>5. CASE (\E a \in Appliances : Post(a)) \/ ProcessPending \/ Reaper \/ Tick
  BY <1>2, <1>5 DEF Post, ProcessPending, HandleReport, DropReport, Reaper, Tick
<1>6. CASE ReportAndAcquire
  BY <1>1, <1>2, <1>3, <1>6 DEF ReportAndAcquire, ReportAndAcquirePenalty,
     ReportAndAcquireGrant, ReportAndAcquireWait
<1>7. CASE DispatchStep
  BY <1>2, <1>7 DEF DispatchStep, DispatchItem, DispatchEnd, StoreToken
<1>8. ASSUME NEW conn \in Conns, WakeWithToken(conn)
      PROVE  HoldsTyped'
  <2>1. /\ poll[conn].app \in DOMAIN tokenMap
        /\ holds' = Put(holds, poll[conn].app, tokenMap[poll[conn].app])
    BY <1>8 DEF WakeWithToken
  <2>2. poll[conn].app \in Appliances /\ tokenMap[poll[conn].app] \in Tokens
    BY <2>1 DEF Shapes, StoredTyped
  <2> QED
    BY <1>1, <2>1, <2>2
<1>9. ASSUME NEW conn \in Conns,
             WakeWithoutToken(conn) \/ Timeout(conn) \/ Disconnect(conn)
      PROVE  HoldsTyped'
  BY <1>2, <1>9 DEF WakeWithoutToken, Timeout, Disconnect, Leave
<1> QED
  BY <1>4, <1>5, <1>6, <1>7, <1>8, <1>9 DEF EngineNext, EngineStep, Handlers

LEMMA StoredTypedStep ==
    ASSUME EInv, Shapes, EngineNext
    PROVE  StoredTyped'
<1>1. CASE UNCHANGED <<tokenMap, loop>>
  BY <1>1 DEF Shapes, StoredTyped
<1>2. CASE Acquire \/ (\E a \in Appliances : Post(a)) \/ ProcessPending
  BY <1>1, <1>2 DEF Acquire, TryAcquireGrant, TryAcquireQueue, TryAcquireFull, Post,
     ProcessPending, HandleReport, DropReport
<1>3. CASE ReportAndAcquire \/ Reaper \/ Tick
  BY <1>1, <1>3 DEF ReportAndAcquire, ReportAndAcquirePenalty, ReportAndAcquireGrant,
     ReportAndAcquireWait, Combined, Reaper, Tick
<1>4. ASSUME NEW item \in queue, DispatchItem(item)
      PROVE  StoredTyped'
  <2>1. /\ loop' = [pc |-> "store", app |-> item.app, token |-> Fresh(item.app)]
        /\ UNCHANGED tokenMap
    BY <1>4 DEF DispatchItem
  <2>2. item.app \in Appliances /\ Fresh(item.app) \in Tokens
    BY FreshIsNew DEF EInv, Broker, Item, Shapes, ReportsTyped
  <2>3. loop' \in LoopState
    BY <2>1, <2>2 DEF LoopState
  <2> QED
    BY <2>1, <2>3 DEF Shapes, StoredTyped
<1>5. CASE DispatchEnd
  <2>1. loop' \in LoopState /\ UNCHANGED tokenMap
    BY <1>5 DEF DispatchEnd, Idle, LoopState
  <2> QED
    BY <2>1 DEF Shapes, StoredTyped
<1>6. CASE StoreToken
  <2>1. /\ loop.pc = "store" /\ loop \in LoopState
        /\ tokenMap' = Put(tokenMap, loop.app, loop.token) /\ loop' = [pc |-> "round"]
    BY <1>6 DEF StoreToken, Shapes, StoredTyped
  <2>2. loop.app \in Appliances /\ loop.token \in Tokens /\ loop' \in LoopState
    BY <2>1 DEF LoopState
  <2>3. /\ DOMAIN tokenMap' = DOMAIN tokenMap \cup {loop.app}
        /\ \A b \in DOMAIN tokenMap' :
              \/ b \in DOMAIN tokenMap /\ tokenMap'[b] = tokenMap[b]
              \/ tokenMap'[b] = loop.token
    BY <2>1 DEF Put
  <2> QED
    BY <2>2, <2>3 DEF Shapes, StoredTyped
<1>7. ASSUME NEW conn \in Conns, WakeWithToken(conn)
      PROVE  StoredTyped'
  <2>1. /\ \A b \in DOMAIN tokenMap' : b \in DOMAIN tokenMap /\ tokenMap'[b] = tokenMap[b]
        /\ UNCHANGED loop
    BY <1>7 DEF WakeWithToken, Without, Restrict
  <2> QED
    BY <2>1 DEF Shapes, StoredTyped
<1>8. ASSUME NEW conn \in Conns,
             WakeWithoutToken(conn) \/ Timeout(conn) \/ Disconnect(conn)
      PROVE  StoredTyped'
  BY <1>1, <1>8 DEF WakeWithoutToken, Timeout, Disconnect, Leave
<1> QED
  BY <1>2, <1>3, <1>4, <1>5, <1>6, <1>7, <1>8
     DEF EngineNext, EngineStep, Handlers, DispatchStep

LEMMA SignalsTypedStep ==
    ASSUME Shapes, EngineNext
    PROVE  SignalsTyped'
<1>1. notify \in 0 .. NotifyCap /\ reapDue \in BOOLEAN
  BY DEF Shapes, SignalsTyped
<1>2. Ping => notify' \in 0 .. NotifyCap
  BY <1>1, EngineAssumption DEF Ping, AtMost
<1>3. TakeSignal /\ InRound => notify' \in 0 .. NotifyCap
  BY <1>1, EngineAssumption DEF TakeSignal, InRound
<1>4. CASE Acquire \/ (\E a \in Appliances : Post(a)) \/ ProcessPending
  BY <1>1, <1>2, <1>4 DEF Acquire, TryAcquireGrant, TryAcquireQueue, TryAcquireFull, Post,
     ProcessPending, HandleReport, DropReport, SignalsTyped
<1>5. CASE ReportAndAcquire \/ Reaper \/ Tick
  BY <1>1, <1>2, <1>5 DEF ReportAndAcquire, ReportAndAcquirePenalty, ReportAndAcquireGrant,
     ReportAndAcquireWait, Combined, Reaper, Tick, SignalsTyped
<1>6. CASE DispatchStep
  BY <1>1, <1>3, <1>6 DEF DispatchStep, DispatchItem, DispatchEnd, StoreToken, SignalsTyped
<1>7. CASE Handlers
  BY <1>1, <1>7 DEF Handlers, WakeWithToken, WakeWithoutToken, Timeout, Disconnect, Leave,
     SignalsTyped
<1> QED
  BY <1>4, <1>5, <1>6, <1>7 DEF EngineNext, EngineStep

LEMMA ReportsTypedStep ==
    ASSUME Shapes, EngineNext
    PROVE  ReportsTyped'
<1>1. /\ pending \subseteq [app : Appliances, token : Tokens]
      /\ IsFiniteSet(pending) /\ Cardinality(pending) <= MaxPending
      /\ Cardinality(pending) \in Nat
  BY FS_CardinalityType DEF Shapes, ReportsTyped, FewReports
<1>2. CASE pending' \subseteq pending
  <2>1. /\ IsFiniteSet(pending') /\ Cardinality(pending') <= Cardinality(pending)
        /\ Cardinality(pending') \in Nat
    BY <1>1, <1>2, FS_Subset, FS_CardinalityType
  <2> QED
    BY <1>1, <1>2, <2>1, EngineAssumption DEF ReportsTyped, FewReports
<1>3. ASSUME NEW a \in Appliances, Post(a)
      PROVE  ReportsTyped'
  <2> DEFINE r == [app |-> a, token |-> holds[a]]
  <2>1. /\ a \in DOMAIN holds /\ Cardinality(pending) < MaxPending
        /\ pending' = pending \cup {r}
    BY <1>3 DEF Post
  <2>2. r \in [app : Appliances, token : Tokens]
    BY <2>1 DEF Shapes, HoldsTyped
  <2> HIDE DEF r
  <2>3. /\ IsFiniteSet(pending')
        /\ Cardinality(pending') \in {Cardinality(pending), Cardinality(pending) + 1}
    BY <1>1, <2>1, FS_AddElement
  <2> QED
    BY <1>1, <2>1, <2>2, <2>3, EngineAssumption DEF ReportsTyped, FewReports
<1>4. Acquire \/ ReportAndAcquire => pending' \subseteq pending
  BY DEF Acquire, ReportAndAcquire, TryAcquireGrant, TryAcquireQueue, TryAcquireFull,
         ReportAndAcquirePenalty, ReportAndAcquireGrant, ReportAndAcquireWait, Combined
<1>5. ProcessPending => pending' \subseteq pending
  BY DEF ProcessPending, HandleReport, DropReport
<1>6. DispatchStep \/ Handlers => pending' \subseteq pending
  BY DEF DispatchStep, DispatchItem, DispatchEnd, StoreToken, Handlers,
         WakeWithToken, WakeWithoutToken, Timeout, Disconnect, Leave
<1>7. Tick \/ Reaper => pending' \subseteq pending
  BY DEF Tick, Reaper
<1> QED
  BY <1>2, <1>3, <1>4, <1>5, <1>6, <1>7 DEF EngineNext, EngineStep

LEMMA ShapesAlways == EngineSpec => []Shapes
<1>1. EngineInit => Shapes
  <2> SUFFICES ASSUME EngineInit PROVE Shapes
    OBVIOUS
  <2>1. /\ DOMAIN tickets = {} /\ DOMAIN poll = {} /\ DOMAIN tokenMap = {}
        /\ DOMAIN holds = {} /\ pending = {} /\ loop = Idle
        /\ notify = 0 /\ reapDue = FALSE
    BY DEF EngineInit
  <2>2. TicketsTyped /\ PollsTyped /\ HoldsTyped
    BY <2>1 DEF TicketsTyped, PollsTyped, HoldsTyped
  <2>3. StoredTyped
    BY <2>1 DEF StoredTyped, Idle, LoopState
  <2>4. SignalsTyped
    <3>1. 0 \in 0 .. NotifyCap
      BY EngineAssumption
    <3> QED
      BY <2>1, <3>1 DEF SignalsTyped
  <2>5. ReportsTyped
    BY <2>1, FS_EmptySet, EngineAssumption DEF ReportsTyped, FewReports
  <2> QED
    BY <2>2, <2>3, <2>4, <2>5 DEF Shapes
<1>2. EInv /\ Shapes /\ [EngineNext]_vars => Shapes'
  <2> SUFFICES ASSUME EInv, Shapes, [EngineNext]_vars PROVE Shapes'
    OBVIOUS
  <2>1. CASE EngineNext
    BY <2>1, TicketsTypedStep, PollsTypedStep, HoldsTypedStep, StoredTypedStep,
       SignalsTypedStep, ReportsTypedStep DEF Shapes
  <2>2. CASE UNCHANGED vars
    BY <2>2 DEF vars, Shapes, TicketsTyped, PollsTyped, HoldsTyped, StoredTyped,
       SignalsTyped, ReportsTyped, FewReports
  <2> QED
    BY <2>1, <2>2
<1> QED
  BY <1>1, <1>2, EInvAlways, PTL DEF EngineSpec

(* What the broker keeps has the shape it was given, for any number of     *)
(* appliances, connections and reports underway: in particular a token is  *)
(* always one that was drawn, and it was always new when it was drawn.     *)
THEOREM BrokerTyped == EngineSpec => []EngineTypeOK
<1>1. EInv /\ Shapes => EngineTypeOK
  BY ShapesType
<1> QED
  BY <1>1, EInvAlways, ShapesAlways, PTL

-----------------------------------------------------------------------------
(* Handlers that have been granted a ticket and have not yet woken.  When  *)
(* goroutines run within a tick, the ticket is still there when they wake: *)
(* it is too young to be reaped, and nobody has its token to report with.  *)

Unclaimed ==
    {a \in DOMAIN tickets :
        /\ tickets[a].age = 0
        /\ a \in DOMAIN holds => holds[a] # tickets[a].token
        /\ \A r \in pending : r.app = a => r.token # tickets[a].token}

Polled == {poll[c].app : c \in DOMAIN poll}

Handed ==
    /\ \A c \in DOMAIN poll : poll[c].granted => poll[c].app \in Unclaimed
    /\ \A c, d \in DOMAIN poll : poll[c].app = poll[d].app => c = d
    /\ NoHandlerOrphaned

(* Who may ask, or reports with the token of its ticket, has no handler    *)
(* left in a select.                                                       *)
LEMMA NobodyPolls ==
    ASSUME EInv, Handed, NEW a,
           \/ MayAsk(a)
           \/ Combined(a)
           \/ \E r \in pending : r.app = a /\ Matched(a, r.token)
    PROVE  a \notin Polled
<1> SUFFICES ASSUME NEW c \in DOMAIN poll, poll[c].app = a PROVE FALSE
  BY DEF Polled
<1>1. CASE poll[c].granted
  <2>1. a \in Unclaimed
    BY <1>1 DEF Handed
  <2> QED
    BY <2>1 DEF Unclaimed, MayAsk, Combined, Matched
<1>2. CASE ~poll[c].granted
  <2>1. \E i \in queue : i.app = a
    BY <1>2 DEF Handed, NoHandlerOrphaned
  <2> QED
    BY <2>1 DEF MayAsk, Combined, Matched, HasAppliance, EInv, Broker, WaitXorHold
<1> QED
  BY <1>1, <1>2

LEMMA UnclaimedKept ==
    ASSUME NEW a \in Unclaimed,
           a \in DOMAIN tickets' /\ tickets'[a] = tickets[a],
           a \in DOMAIN holds' => a \in DOMAIN holds /\ holds'[a] = holds[a],
           \A r \in pending' : r.app = a => r \in pending
    PROVE  a \in Unclaimed'
BY DEF Unclaimed

LEMMA HandedFrame ==
    ASSUME Handed, UNCHANGED <<queue, poll>>,
           \A a \in Polled : a \in Unclaimed => a \in Unclaimed'
    PROVE  Handed'
BY DEF Handed, NoHandlerOrphaned, Polled

(* One appliance without a handler in a select moves, and may enqueue. *)
LEMMA OneMoved ==
    ASSUME Handed, NEW a, a \notin Polled,
           \A b : b # a /\ b \in DOMAIN tickets
                     => b \in DOMAIN tickets' /\ tickets'[b] = tickets[b],
           \A b : b # a /\ b \in DOMAIN holds'
                     => b \in DOMAIN holds /\ holds'[b] = holds[b],
           pending' \subseteq pending,
           UNCHANGED <<queue, poll>> \/ \E c, conn : Enqueue(a, c, conn)
    PROVE  Handed'
<1>1. \A b \in Polled : b \in Unclaimed => b \in Unclaimed'
  <2> SUFFICES ASSUME NEW b \in Polled, b \in Unclaimed PROVE b \in Unclaimed'
    OBVIOUS
  <2>1. b # a /\ b \in DOMAIN tickets
    BY DEF Unclaimed
  <2> QED
    BY <2>1, UnclaimedKept
<1>2. CASE UNCHANGED <<queue, poll>>
  BY <1>1, <1>2, HandedFrame
<1>3. CASE \E c, conn : Enqueue(a, c, conn)
  <2>1. PICK c, conn : Enqueue(a, c, conn)
    BY <1>3
  <2> DEFINE new == [app |-> a, granted |-> FALSE, waited |-> 0]
             item == [app |-> a, class |-> c, conn |-> conn]
  <2>2. /\ queue' = queue \cup {item}
        /\ conn \notin DOMAIN poll
        /\ poll' = Put(poll, conn, new)
    BY <2>1 DEF Enqueue
  <2>3. new.app = a /\ ~new.granted /\ item.app = a /\ item.conn = conn
    OBVIOUS
  <2> HIDE DEF new, item
  <2>4. /\ DOMAIN poll' = DOMAIN poll \cup {conn}
        /\ poll'[conn] = new
        /\ \A d \in DOMAIN poll : poll'[d] = poll[d] /\ poll[d].app # a
    BY <2>2 DEF Put, Polled
  <2>5. \A d \in DOMAIN poll' : poll'[d].granted => poll'[d].app \in Unclaimed'
    BY <1>1, <2>3, <2>4 DEF Handed, Polled
  <2>6. \A d, e \in DOMAIN poll' : poll'[d].app = poll'[e].app => d = e
    BY <2>3, <2>4 DEF Handed
  <2>7. NoHandlerOrphaned'
    BY <2>2, <2>3, <2>4 DEF Handed, NoHandlerOrphaned
  <2> QED
    BY <2>5, <2>6, <2>7 DEF Handed
<1> QED
  BY <1>2, <1>3

LEMMA AcquireHanded ==
    ASSUME EInv, Handed, NEW a \in Appliances, NEW c \in RawClasses, NEW n \in Demands,
           \/ TryAcquireGrant(a, c, n)
           \/ \E conn \in Conns : TryAcquireQueue(a, c, n, conn)
           \/ TryAcquireFull(a, c, n)
    PROVE  Handed'
<1>1. a \notin Polled /\ UNCHANGED pending
  BY NobodyPolls DEF TryAcquireGrant, TryAcquireQueue, TryAcquireFull
<1>2. CASE TryAcquireGrant(a, c, n)
  <2>1. /\ tickets' = Put(tickets, a, NewTicket(a))
        /\ holds' = Put(holds, a, Fresh(a))
        /\ UNCHANGED <<queue, poll>>
    BY <1>2 DEF TryAcquireGrant
  <2> QED
    BY <1>1, <2>1, OneMoved DEF Put
<1>3. CASE \E conn \in Conns : TryAcquireQueue(a, c, n, conn)
  BY <1>1, <1>3, OneMoved DEF TryAcquireQueue
<1>4. CASE TryAcquireFull(a, c, n)
  BY <1>1, <1>4, OneMoved DEF TryAcquireFull, QueueFull
<1> QED
  BY <1>2, <1>3, <1>4

LEMMA PostHanded ==
    ASSUME Handed, NEW a \in Appliances, Post(a)
    PROVE  Handed'
<1>1. /\ a \in DOMAIN holds /\ pending' = pending \cup {[app |-> a, token |-> holds[a]]}
      /\ UNCHANGED <<tickets, holds, queue, poll>>
  BY DEF Post
<1>2. \A b \in Unclaimed : b \in Unclaimed'
  BY <1>1 DEF Unclaimed
<1> QED
  BY <1>1, <1>2, HandedFrame

LEMMA ProcessHanded ==
    ASSUME EInv, Handed, NEW r \in pending, HandleReport(r) \/ DropReport(r)
    PROVE  Handed'
<1>1. CASE HandleReport(r)
  <2>1. /\ r.app \notin Polled
        /\ tickets' = Without(tickets, {r.app})
        /\ pending' = pending \ {r}
        /\ UNCHANGED <<queue, poll, holds>>
    BY <1>1, NobodyPolls DEF HandleReport
  <2>2. \A b \in DOMAIN tickets : b # r.app => b \in DOMAIN tickets' /\ tickets'[b] = tickets[b]
    BY <2>1 DEF Without, Restrict
  <2> QED
    BY <2>1, <2>2, OneMoved
<1>2. CASE DropReport(r)
  <2>1. /\ pending' = pending \ {r} /\ UNCHANGED <<tickets, queue, poll, holds>>
    BY <1>2 DEF DropReport
  <2>2. \A b \in Unclaimed : b \in Unclaimed'
    BY <2>1, UnclaimedKept DEF Unclaimed
  <2> QED
    BY <2>1, <2>2, HandedFrame
<1> QED
  BY <1>1, <1>2

LEMMA CombinedHanded ==
    ASSUME EInv, Handed, NEW a \in Appliances,
           \/ ReportAndAcquirePenalty(a)
           \/ \E c \in RawClasses, n \in Demands :
                 ReportAndAcquireGrant(a, c, n) \/ ReportAndAcquireWait(a, c, n)
    PROVE  Handed'
<1>1. Combined(a)
  BY DEF ReportAndAcquirePenalty, ReportAndAcquireGrant, ReportAndAcquireWait
<1>2. a \notin Polled /\ UNCHANGED pending
  BY <1>1, NobodyPolls DEF Combined
<1>3. \/ tickets' = Without(tickets, {a}) /\ UNCHANGED holds
      \/ tickets' = Put(tickets, a, NewTicket(a)) /\ holds' = Put(holds, a, Fresh(a))
  BY DEF ReportAndAcquirePenalty, ReportAndAcquireGrant, ReportAndAcquireWait
<1>4. UNCHANGED <<queue, poll>> \/ \E c, conn : Enqueue(a, c, conn)
  BY DEF ReportAndAcquirePenalty, ReportAndAcquireGrant, ReportAndAcquireWait, QueueFull
<1>5. \A b : b # a /\ b \in DOMAIN tickets => b \in DOMAIN tickets' /\ tickets'[b] = tickets[b]
  BY <1>3 DEF Put, Without, Restrict
<1>6. \A b : b # a /\ b \in DOMAIN holds' => b \in DOMAIN holds /\ holds'[b] = holds[b]
  BY <1>3 DEF Put
<1> QED
  BY <1>2, <1>4, <1>5, <1>6, OneMoved

LEMMA DispatchHanded ==
    ASSUME EInv, FewReports, Handed, NEW item \in queue, DispatchItem(item)
    PROVE  Handed'
<1> DEFINE a == item.app
           k == item.conn
           new == NewTicket(a)
<1>1. /\ tickets' = Put(tickets, a, new)
      /\ queue' = queue \ {item}
      /\ poll' = [poll EXCEPT ![k].granted = TRUE]
      /\ UNCHANGED <<holds, pending>>
  BY DEF DispatchItem
<1>2. /\ k \in DOMAIN poll /\ poll[k].app = a /\ a \notin DOMAIN tickets
      /\ poll[k] \in Poller
      /\ \A i \in queue : i.conn = k => i = item
  BY DEF EInv, Broker, WaitersAttached, WaitXorHold
<1>3. new.age = 0 /\ new.token = Fresh(a)
  BY DEF NewTicket
<1> HIDE DEF new
<1>4. a \in Unclaimed'
  <2>1. a \in DOMAIN tickets' /\ tickets'[a] = new
    BY <1>1 DEF Put
  <2> QED
    BY <1>1, <1>3, <2>1, FreshIsNew DEF Unclaimed
<1>5. \A b \in Unclaimed : b \in Unclaimed'
  <2> SUFFICES ASSUME NEW b \in Unclaimed PROVE b \in Unclaimed'
    OBVIOUS
  <2>1. b \in DOMAIN tickets' /\ tickets'[b] = tickets[b]
    BY <1>1, <1>2 DEF Unclaimed, Put
  <2> QED
    BY <1>1, <2>1, UnclaimedKept
<1>6. /\ DOMAIN poll' = DOMAIN poll
      /\ poll'[k].app = a /\ poll'[k].granted
      /\ \A d \in DOMAIN poll : d # k => poll'[d] = poll[d]
  <2>1. poll'[k] = [poll[k] EXCEPT !.granted = TRUE]
    BY <1>1, <1>2
  <2>2. poll'[k].app = a /\ poll'[k].granted
    BY <1>2, <2>1 DEF Poller
  <2> QED
    BY <1>1, <2>2
<1>7. \A d \in DOMAIN poll' : poll'[d].granted => poll'[d].app \in Unclaimed'
  BY <1>4, <1>5, <1>6 DEF Handed
<1>8. \A d, e \in DOMAIN poll' : poll'[d].app = poll'[e].app => d = e
  BY <1>2, <1>6 DEF Handed
<1>9. NoHandlerOrphaned'
  BY <1>1, <1>6 DEF Handed, NoHandlerOrphaned
<1> QED
  BY <1>7, <1>8, <1>9 DEF Handed

(* The loop and the reaper, who leave the handlers where they are *)
LEMMA AsideHanded ==
    ASSUME Handed, DispatchEnd \/ StoreToken \/ Reaper
    PROVE  Handed'
<1>1. UNCHANGED <<queue, poll, holds, pending>>
  BY DEF DispatchEnd, StoreToken, Reaper
<1>2. \A b \in Unclaimed : b \in DOMAIN tickets' /\ tickets'[b] = tickets[b]
  <2>1. CASE DispatchEnd \/ StoreToken
    BY <2>1 DEF DispatchEnd, StoreToken, Unclaimed
  <2>2. CASE Reaper
    <3>1. \A b \in Unclaimed : b \in DOMAIN tickets \ Expired
      BY EngineAssumption DEF Unclaimed, Expired
    <3>2. tickets' = Without(tickets, Expired)
      BY <2>2 DEF Reaper
    <3> QED
      BY <3>1, <3>2 DEF Without, Restrict
  <2> QED
    BY <2>1, <2>2
<1>3. \A b \in Unclaimed : b \in Unclaimed'
  BY <1>1, <1>2, UnclaimedKept
<1> QED
  BY <1>1, <1>3, HandedFrame

(* A handler leaves its select, woken or giving up.  What it removes from  *)
(* the queue is its own item, since no other handler is its appliance's;   *)
(* what it is handed changes what its own appliance holds.                 *)
LEMMA HandlersHanded ==
    ASSUME Handed, NEW k \in Conns,
           WakeWithToken(k) \/ WakeWithoutToken(k) \/ Timeout(k) \/ Disconnect(k)
    PROVE  Handed'
<1>1. /\ k \in DOMAIN poll /\ poll' = Without(poll, {k}) /\ UNCHANGED <<tickets, pending>>
      /\ UNCHANGED queue \/ queue' = {i \in queue : i.app # poll[k].app}
      /\ UNCHANGED holds \/ holds' = Put(holds, poll[k].app, tokenMap[poll[k].app])
  BY DEF WakeWithToken, WakeWithoutToken, Timeout, Disconnect, Leave, Woken
<1>2. /\ DOMAIN poll' = DOMAIN poll \ {k}
      /\ \A d \in DOMAIN poll' : poll'[d] = poll[d] /\ poll[d].app # poll[k].app
  BY <1>1 DEF Handed, Without, Restrict
<1>3. \A b \in Unclaimed : b # poll[k].app => b \in Unclaimed'
  <2> SUFFICES ASSUME NEW b \in Unclaimed, b # poll[k].app PROVE b \in Unclaimed'
    OBVIOUS
  <2>1. b \in DOMAIN holds' => b \in DOMAIN holds /\ holds'[b] = holds[b]
    BY <1>1 DEF Put
  <2>2. b \in DOMAIN tickets
    BY DEF Unclaimed
  <2> QED
    BY <1>1, <2>1, <2>2, UnclaimedKept
<1>4. \A d \in DOMAIN poll' : poll'[d].granted => poll'[d].app \in Unclaimed'
  BY <1>2, <1>3 DEF Handed
<1>5. \A d, e \in DOMAIN poll' : poll'[d].app = poll'[e].app => d = e
  BY <1>2 DEF Handed
<1>6. NoHandlerOrphaned'
  BY <1>1, <1>2 DEF Handed, NoHandlerOrphaned
<1> QED
  BY <1>4, <1>5, <1>6 DEF Handed

(* Time passes only when no handler has been granted a ticket it has not   *)
(* picked up.                                                              *)
LEMMA TickHanded ==
    ASSUME Prompt, EInv, Handed, Tick
    PROVE  Handed'
<1>1. /\ \A c \in DOMAIN poll : ~poll[c].granted
      /\ poll' = [c \in DOMAIN poll |->
                    [poll[c] EXCEPT !.waited = AtMost(@ + 1, PollTimeout)]]
      /\ UNCHANGED queue
  BY DEF Tick, Quiet
<1>2. /\ DOMAIN poll' = DOMAIN poll
      /\ \A c \in DOMAIN poll : poll'[c].app = poll[c].app /\ poll'[c].granted = poll[c].granted
  <2> SUFFICES ASSUME NEW c \in DOMAIN poll
               PROVE  poll'[c].app = poll[c].app /\ poll'[c].granted = poll[c].granted
    BY <1>1
  <2> DEFINE w == AtMost(poll[c].waited + 1, PollTimeout)
  <2>1. poll[c] \in Poller /\ poll'[c] = [poll[c] EXCEPT !.waited = w]
    BY <1>1 DEF EInv, Broker
  <2> HIDE DEF w
  <2> QED
    BY <2>1 DEF Poller
<1> QED
  BY <1>1, <1>2 DEF Handed, NoHandlerOrphaned

LEMMA HandedAlways ==
    ASSUME Prompt
    PROVE  EngineSpec => []Handed
<1>1. EngineInit => Handed
  BY DEF EngineInit, Handed, NoHandlerOrphaned
<1>2. EInv /\ Shapes /\ Handed /\ [EngineNext]_vars => Handed'
  <2> SUFFICES ASSUME EInv, Shapes, Handed, [EngineNext]_vars PROVE Handed'
    OBVIOUS
  <2>1. CASE Acquire
    BY <2>1, AcquireHanded DEF Acquire
  <2>2. CASE \E a \in Appliances : Post(a)
    BY <2>2, PostHanded
  <2>3. CASE ProcessPending
    BY <2>3, ProcessHanded DEF ProcessPending
  <2>4. CASE ReportAndAcquire
    BY <2>4, CombinedHanded DEF ReportAndAcquire
  <2>5. CASE DispatchStep
    <3>1. FewReports
      BY DEF Shapes, ReportsTyped
    <3> QED
      BY <2>5, <3>1, DispatchHanded, AsideHanded DEF DispatchStep
  <2>6. CASE Handlers
    BY <2>6, HandlersHanded DEF Handlers
  <2>7. CASE Tick
    BY <2>7, TickHanded
  <2>8. CASE Reaper
    BY <2>8, AsideHanded
  <2>9. CASE UNCHANGED vars
    BY <2>9 DEF vars, Handed, NoHandlerOrphaned, Unclaimed
  <2> QED
    BY <2>1, <2>2, <2>3, <2>4, <2>5, <2>6, <2>7, <2>8, <2>9 DEF EngineNext, EngineStep
<1> QED
  BY <1>1, <1>2, EInvAlways, ShapesAlways, PTL DEF EngineSpec

(* When goroutines run within a tick, a handler that still waits has its   *)
(* request in the queue, whoever else gives up, reports or is served.      *)
THEOREM NobodyOrphaned ==
    ASSUME Prompt
    PROVE  EngineSpec => []NoHandlerOrphaned
<1>1. Handed => NoHandlerOrphaned
  BY DEF Handed
<1> QED
  BY <1>1, HandedAlways, PTL
=============================================================================
