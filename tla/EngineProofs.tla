---------------------------- MODULE EngineProofs ----------------------------
(***************************************************************************)
(* The broker around the State object, for any appliances, connections,    *)
(* queue size and timing: its slots and its queue keep their invariants,   *)
(* and every step of it is a step of module Quota or leaves the State      *)
(* alone, so that what QuotaProofs shows of the State holds in the broker. *)
(* Seen from the appliances, every step of it is one of TicketLease.       *)
(***************************************************************************)
EXTENDS Engine, QuotaProofs, FiniteSetTheorems

-----------------------------------------------------------------------------
(* Partial functions *)

LEMMA PutFacts ==
    ASSUME NEW f, NEW x, NEW v
    PROVE  /\ DOMAIN Put(f, x, v) = DOMAIN f \cup {x}
           /\ Put(f, x, v)[x] = v
           /\ \A y \in DOMAIN f : y # x => Put(f, x, v)[y] = f[y]
BY DEF Put

LEMMA WithoutFacts ==
    ASSUME NEW f, NEW S
    PROVE  /\ DOMAIN Without(f, S) = DOMAIN f \ S
           /\ \A y \in DOMAIN f \ S : Without(f, S)[y] = f[y]
BY DEF Without, Restrict

Poller == [app : Appliances, granted : BOOLEAN, waited : Nat]

LEMMA WithoutType ==
    ASSUME NEW f, NEW S, NEW R, f \in [DOMAIN f -> R]
    PROVE  Without(f, S) \in [DOMAIN Without(f, S) -> R]
BY DEF Without, Restrict

LEMMA PutType ==
    ASSUME NEW f, NEW R, f \in [DOMAIN f -> R], NEW x, NEW v \in R
    PROVE  Put(f, x, v) \in [DOMAIN Put(f, x, v) -> R]
BY DEF Put

-----------------------------------------------------------------------------
(* What each step of the State does to the number of slots in use *)

LEMMA SettleSlots ==
    ASSUME NEW s, Sound(s)
    PROVE  Sound(Settle(s)) /\ Settle(s).InFlight = s.InFlight
BY SettleSound

LEMMA DemandSlots ==
    ASSUME NEW s, Sound(s), NEW c, NEW n \in Demands
    PROVE  Sound(NoteDemand(s, c, n)) /\ NoteDemand(s, c, n).InFlight = s.InFlight
BY Inputs, NoteDemandType, SoundFrame DEF Sound, SameBudget

LEMMA IssueSlots ==
    ASSUME NEW s \in State
    PROVE  Issue(s).InFlight = s.InFlight + 1
BY DEF Issue, DeductSustained, State

LEMMA GrantSlots ==
    ASSUME IInv, NEW c, NEW n \in Demands, AcquireGrant(c, n)
    PROVE  st'.InFlight = st.InFlight + 1
BY DemandSlots, SettleSlots, IssueSlots DEF AcquireGrant, IInv, Sound

LEMMA DenySlots ==
    ASSUME IInv, NEW c, NEW n \in Demands, AcquireDeny(c, n)
    PROVE  st'.InFlight = st.InFlight
BY DemandSlots, SettleSlots DEF AcquireDeny, IInv

LEMMA ReportSlots ==
    ASSUME IInv, NEW h \in Headers, NEW lag \in Lags,
           Report(h, lag) \/ \E ra \in RetryAfters : Penalty(h, lag, ra)
    PROVE  st.InFlight > 0 /\ st'.InFlight = st.InFlight - 1
BY Inputs, ProcessReportSound, ProcessPenaltySound DEF Report, Penalty, IInv

LEMMA CombinedSlots ==
    ASSUME IInv, NEW h \in Headers, NEW lag \in Lags, NEW c, NEW n \in Demands
    PROVE  /\ ReportAcquireGrant(h, lag, c, n) => st'.InFlight = st.InFlight
           /\ ReportAcquireDeny(h, lag, c, n) => st'.InFlight = st.InFlight - 1
<1> DEFINE r == ProcessReport(st, h, lag)
           s == NoteDemand(r, c, n)
<1>1. CASE ~(st.InFlight > 0)
  BY <1>1 DEF ReportAcquireGrant, ReportAcquireDeny
<1>2. CASE st.InFlight > 0
  <2>1. Sound(r) /\ r.InFlight = st.InFlight - 1
    BY <1>2, Inputs, ProcessReportSound DEF IInv
  <2> HIDE DEF r
  <2>2. Sound(s) /\ s.InFlight = st.InFlight - 1
    BY <2>1, DemandSlots
  <2> HIDE DEF s
  <2>3. /\ Settle(s) \in State /\ Settle(s).InFlight = st.InFlight - 1
    BY <2>2, SettleSlots DEF Sound
  <2>4. Issue(Settle(s)).InFlight = st.InFlight
    BY <2>3, IssueSlots DEF IInv, Sound, State
  <2> QED
    BY <2>3, <2>4 DEF ReportAcquireGrant, ReportAcquireDeny, s, r
<1> QED
  BY <1>1, <1>2

LEMMA DispatchSlots ==
    ASSUME IInv, NEW c
    PROVE  /\ DispatchGrant(c) => st'.InFlight = st.InFlight + 1
           /\ DispatchIdle => st'.InFlight = st.InFlight
<1>1. Settle(st) \in State /\ Settle(st).InFlight = st.InFlight
  BY SettleSlots DEF IInv, Sound
<1>2. ASSUME DispatchGrant(c)
      PROVE  st'.InFlight = st.InFlight + 1
  <2>1. DeductQuota(Settle(st), c) \in State
    BY <1>1, <1>2, DeductQuotaType DEF DispatchGrant
  <2>2. DeductQuota(Settle(st), c).InFlight = st.InFlight
    BY <1>1, <1>2, DeductQuotaType DEF DispatchGrant, SameBudget
  <2> QED
    BY <1>2, <2>1, <2>2, IssueSlots DEF DispatchGrant
<1> QED
  BY <1>1, <1>2 DEF DispatchIdle

LEMMA ReapSlots ==
    ASSUME IInv, NEW k, Reap(k)
    PROVE  k \in 1 .. st.InFlight /\ st'.InFlight = st.InFlight - k
BY DEF IInv, Sound, State, Reap

-----------------------------------------------------------------------------
(* The inductive invariant *)

(* What holds of tickets, queue and handlers together.  The accounting of  *)
(* slots needs WaitXorHold (a waiter that is served must not have a ticket *)
(* already), which needs WaitersAttached (a connection that enqueues is no *)
(* other waiter's), which needs the shapes of queue and poll.              *)
Broker ==
    /\ DOMAIN tickets \subseteq Appliances
    /\ queue \subseteq Item /\ IsFiniteSet(queue)
    /\ poll \in [DOMAIN poll -> Poller]
    /\ SlotAccounting
    /\ WaitXorHold
    /\ WaitersAttached
    /\ QueueBound

EInv == IInv /\ Broker

(* Waiters that are all distinct, each with a handler of its own. *)
Queueing ==
    /\ queue \subseteq Item /\ IsFiniteSet(queue)
    /\ poll \in [DOMAIN poll -> Poller]
    /\ \A i, j \in queue : i.app = j.app \/ i.conn = j.conn => i = j
    /\ WaitersAttached
    /\ QueueBound

LEMMA TicketsFinite ==
    ASSUME Broker
    PROVE  /\ IsFiniteSet(DOMAIN tickets)
           /\ st.InFlight \in Nat /\ st.InFlight <= Fleet
<1>1. DOMAIN tickets \subseteq Appliances /\ st.InFlight = Cardinality(DOMAIN tickets)
  BY DEF Broker, SlotAccounting
<1> QED
  BY <1>1, EngineAssumption, FS_Subset, FS_CardinalityType

LEMMA OneMore ==
    ASSUME Broker, NEW a \in Appliances \ DOMAIN tickets
    PROVE  /\ st.InFlight < Fleet
           /\ Cardinality(DOMAIN tickets \cup {a}) = st.InFlight + 1
<1>1. /\ IsFiniteSet(DOMAIN tickets) /\ st.InFlight = Cardinality(DOMAIN tickets)
      /\ DOMAIN tickets \cup {a} \subseteq Appliances
  BY TicketsFinite DEF Broker, SlotAccounting
<1>2. Cardinality(DOMAIN tickets \cup {a}) = st.InFlight + 1
  BY <1>1, FS_AddElement
<1>3. Cardinality(DOMAIN tickets \cup {a}) <= Fleet
  BY <1>1, EngineAssumption, FS_Subset
<1> QED
  BY <1>2, <1>3, TicketsFinite, InputsAssumption

LEMMA OneLess ==
    ASSUME Broker, NEW a \in DOMAIN tickets
    PROVE  Cardinality(DOMAIN tickets \ {a}) = st.InFlight - 1
BY TicketsFinite, FS_RemoveElement DEF Broker, SlotAccounting

(* The two paths that enqueue. *)
LEMMA EnqueueQueueing ==
    ASSUME Queueing, NEW a \in Appliances, NEW c \in RawClasses, NEW conn \in Conns,
           Enqueue(a, c, conn), ~HasAppliance(a)
    PROVE  /\ Queueing'
           /\ \A i \in queue' : i \in queue \/ i.app = a
<1> DEFINE item == [app |-> a, class |-> c, conn |-> conn]
           poller == [app |-> a, granted |-> FALSE, waited |-> 0]
<1>1. /\ queue' = queue \cup {item} /\ conn \notin DOMAIN poll
      /\ poll' = Put(poll, conn, poller)
      /\ Cardinality(queue) < MaxQueue
  BY DEF Enqueue
<1>2. item \in Item /\ poller \in Poller
  BY DEF Item, Poller
<1>3. queue' \subseteq Item /\ IsFiniteSet(queue')
  BY <1>1, <1>2, FS_AddElement DEF Queueing
<1>4. poll' \in [DOMAIN poll' -> Poller]
  BY <1>1, <1>2, PutType DEF Queueing
<1>5. \A i \in queue : i.app # a /\ i.conn # conn
  BY <1>1 DEF HasAppliance, Queueing, WaitersAttached
<1>6. \A i, j \in queue' : i.app = j.app \/ i.conn = j.conn => i = j
  BY <1>1, <1>5 DEF Queueing
<1>7. WaitersAttached'
  <2>1. /\ DOMAIN poll' = DOMAIN poll \cup {conn} /\ poll'[conn] = poller
        /\ \A y \in DOMAIN poll : y # conn => poll'[y] = poll[y]
    <3> HIDE DEF poller
    <3>1. poll' = [y \in DOMAIN poll \cup {conn} |-> IF y = conn THEN poller ELSE poll[y]]
      BY <1>1 DEF Put
    <3> QED BY <3>1
  <2> HIDE DEF poller
  <2> SUFFICES ASSUME NEW i \in queue'
               PROVE  /\ i.conn \in DOMAIN poll'
                      /\ poll'[i.conn].app = i.app
                      /\ ~poll'[i.conn].granted
    BY DEF WaitersAttached
  <2>2. CASE i \in queue
    BY <1>5, <2>1, <2>2 DEF Queueing, WaitersAttached
  <2>3. CASE i = item
    BY <2>1, <2>3 DEF poller
  <2> QED
    BY <1>1, <2>2, <2>3
<1>8. QueueBound'
  <2>1. IsFiniteSet(queue) /\ Cardinality(queue) \in Nat
    BY FS_CardinalityType DEF Queueing
  <2> HIDE DEF item
  <2>2. Cardinality(queue \cup {item}) \in {Cardinality(queue), Cardinality(queue) + 1}
    BY <2>1, FS_AddElement
  <2>3. Cardinality(queue') <= MaxQueue
    BY <1>1, <2>1, <2>2, EngineAssumption
  <2> QED
    BY <2>3 DEF QueueBound
<1>9. \A i \in queue' : i \in queue \/ i.app = a
  BY <1>1
<1>10. Queueing'
  BY <1>3, <1>4, <1>6, <1>7, <1>8 DEF Queueing
<1> QED
  BY <1>9, <1>10

LEMMA BrokerQueueing == Broker => Queueing
BY DEF Broker, Queueing, WaitXorHold

(* A smaller queue, and handlers that leave it unless they are in it. *)
LEMMA ShrinkQueueing ==
    ASSUME Queueing, queue' \subseteq queue, poll' \in [DOMAIN poll' -> Poller],
           \A i \in queue' : /\ i.conn \in DOMAIN poll'
                             /\ poll'[i.conn].app = poll[i.conn].app
                             /\ poll'[i.conn].granted = poll[i.conn].granted
    PROVE  Queueing'
<1>1. queue' \subseteq Item /\ IsFiniteSet(queue') /\ Cardinality(queue') <= Cardinality(queue)
  BY FS_Subset DEF Queueing
<1>2. QueueBound'
  BY <1>1, FS_CardinalityType, EngineAssumption DEF Queueing, QueueBound
<1>3. WaitersAttached'
  BY DEF Queueing, WaitersAttached
<1> QED
  BY <1>1, <1>2, <1>3 DEF Queueing

LEMMA KeepQueueing ==
    ASSUME Queueing, UNCHANGED <<queue, poll>>
    PROVE  Queueing'
BY DEF Queueing, WaitersAttached, QueueBound

LEMMA BrokerFrom ==
    ASSUME (DOMAIN tickets \subseteq Appliances)',
           (st.InFlight = Cardinality(DOMAIN tickets))',
           Queueing',
           (\A i \in queue : i.app \notin DOMAIN tickets)'
    PROVE  Broker'
BY DEF Broker, Queueing, SlotAccounting, WaitXorHold

-----------------------------------------------------------------------------
(* /acquire *)

LEMMA TryAcquireGrantStep ==
    ASSUME EInv, NEW a \in Appliances, NEW c \in RawClasses, NEW n \in Demands,
           TryAcquireGrant(a, c, n)
    PROVE  Broker' /\ QuotaNext
<1>1. /\ a \notin DOMAIN tickets /\ ~HasAppliance(a)
      /\ AcquireGrant(c, n) /\ UNCHANGED <<queue, poll>>
      /\ DOMAIN tickets' = DOMAIN tickets \cup {a}
  BY DEF TryAcquireGrant, MayAsk, Put
<1>2. /\ st.InFlight < Fleet
      /\ Cardinality(DOMAIN tickets \cup {a}) = st.InFlight + 1
  BY <1>1, OneMore DEF EInv
<1>3. st'.InFlight = Cardinality(DOMAIN tickets')
  BY <1>1, <1>2, GrantSlots DEF EInv
<1>4. Queueing'
  BY <1>1, BrokerQueueing, KeepQueueing DEF EInv
<1>5. \A i \in queue' : i.app \notin DOMAIN tickets'
  BY <1>1 DEF EInv, Broker, WaitXorHold, HasAppliance
<1>6. DOMAIN tickets' \subseteq Appliances
  BY <1>1 DEF EInv, Broker
<1>7. Broker'
  BY <1>3, <1>4, <1>5, <1>6, BrokerFrom
<1>8. QuotaNext
  BY <1>1, <1>2 DEF QuotaNext, Grants
<1> QED
  BY <1>7, <1>8

LEMMA TryAcquireQueueStep ==
    ASSUME EInv, NEW a \in Appliances, NEW c \in RawClasses, NEW n \in Demands,
           NEW conn \in Conns, TryAcquireQueue(a, c, n, conn)
    PROVE  Broker' /\ QuotaNext
<1>1. /\ a \notin DOMAIN tickets /\ ~HasAppliance(a)
      /\ AcquireDeny(c, n) /\ Enqueue(a, c, conn) /\ UNCHANGED tickets
  BY DEF TryAcquireQueue, MayAsk
<1>2. st'.InFlight = Cardinality(DOMAIN tickets')
  BY <1>1, DenySlots DEF EInv, Broker, SlotAccounting
<1>3. Queueing' /\ \A i \in queue' : i \in queue \/ i.app = a
  BY <1>1, BrokerQueueing, EnqueueQueueing DEF EInv
<1>4. \A i \in queue' : i.app \notin DOMAIN tickets'
  BY <1>1, <1>3 DEF EInv, Broker, WaitXorHold
<1>5. DOMAIN tickets' \subseteq Appliances
  BY <1>1 DEF EInv, Broker
<1>6. Broker'
  BY <1>2, <1>3, <1>4, <1>5, BrokerFrom
<1>7. QuotaNext
  BY <1>1 DEF QuotaNext, Others
<1> QED
  BY <1>6, <1>7

LEMMA TryAcquireFullStep ==
    ASSUME EInv, NEW a \in Appliances, NEW c \in RawClasses, NEW n \in Demands,
           TryAcquireFull(a, c, n)
    PROVE  Broker' /\ QuotaNext
<1>1. AcquireDeny(c, n) /\ UNCHANGED <<queue, poll, tickets>>
  BY DEF TryAcquireFull, QueueFull
<1>2. st'.InFlight = Cardinality(DOMAIN tickets')
  BY <1>1, DenySlots DEF EInv, Broker, SlotAccounting
<1>3. Queueing'
  BY <1>1, BrokerQueueing, KeepQueueing DEF EInv
<1>4. Broker'
  BY <1>1, <1>2, <1>3, BrokerFrom DEF EInv, Broker, WaitXorHold
<1>5. QuotaNext
  BY <1>1 DEF QuotaNext, Others
<1> QED
  BY <1>4, <1>5

-----------------------------------------------------------------------------
(* Reports *)

LEMMA HandleReportStep ==
    ASSUME EInv, NEW r \in pending, HandleReport(r)
    PROVE  Broker' /\ QuotaNext
<1>1. /\ r.app \in DOMAIN tickets /\ UNCHANGED <<queue, poll>>
      /\ DOMAIN tickets' = DOMAIN tickets \ {r.app}
  BY DEF HandleReport, Matched, Without, Restrict
<1>2. PICK h \in Headers, lag \in Lags :
         Report(h, lag) \/ \E ra \in RetryAfters : Penalty(h, lag, ra)
  BY DEF HandleReport
<1>3. st'.InFlight = Cardinality(DOMAIN tickets')
  BY <1>1, <1>2, ReportSlots, OneLess DEF EInv
<1>4. Queueing'
  BY <1>1, BrokerQueueing, KeepQueueing DEF EInv
<1>5. Broker'
  BY <1>1, <1>3, <1>4, BrokerFrom DEF EInv, Broker, WaitXorHold
<1>6. QuotaNext
  BY <1>2 DEF QuotaNext, Penalties, Others
<1> QED
  BY <1>5, <1>6

LEMMA ReportAndAcquirePenaltyStep ==
    ASSUME EInv, NEW a \in Appliances, ReportAndAcquirePenalty(a)
    PROVE  Broker' /\ QuotaNext
<1>1. /\ a \in DOMAIN tickets /\ UNCHANGED <<queue, poll>>
      /\ DOMAIN tickets' = DOMAIN tickets \ {a}
  BY DEF ReportAndAcquirePenalty, Combined, Matched, Without, Restrict
<1>2. PICK h \in Headers, lag \in Lags, ra \in RetryAfters : Penalty(h, lag, ra)
  BY DEF ReportAndAcquirePenalty
<1>3. st'.InFlight = Cardinality(DOMAIN tickets')
  BY <1>1, <1>2, ReportSlots, OneLess DEF EInv
<1>4. Queueing'
  BY <1>1, BrokerQueueing, KeepQueueing DEF EInv
<1>5. Broker'
  BY <1>1, <1>3, <1>4, BrokerFrom DEF EInv, Broker, WaitXorHold
<1>6. QuotaNext
  BY <1>2 DEF QuotaNext, Penalties
<1> QED
  BY <1>5, <1>6

LEMMA ReportAndAcquireGrantStep ==
    ASSUME EInv, NEW a \in Appliances, NEW c \in RawClasses, NEW n \in Demands,
           ReportAndAcquireGrant(a, c, n)
    PROVE  Broker' /\ QuotaNext
<1>1. /\ a \in DOMAIN tickets /\ UNCHANGED <<queue, poll>>
      /\ DOMAIN tickets' = DOMAIN tickets
  BY DEF ReportAndAcquireGrant, Combined, Matched, Put
<1>2. PICK h \in Headers, lag \in Lags : ReportAcquireGrant(h, lag, c, n)
  BY DEF ReportAndAcquireGrant
<1>3. st'.InFlight = Cardinality(DOMAIN tickets')
  BY <1>1, <1>2, CombinedSlots DEF EInv, Broker, SlotAccounting
<1>4. Queueing'
  BY <1>1, BrokerQueueing, KeepQueueing DEF EInv
<1>5. Broker'
  BY <1>1, <1>3, <1>4, BrokerFrom DEF EInv, Broker, WaitXorHold
<1>6. QuotaNext
  BY <1>2 DEF QuotaNext, Grants
<1> QED
  BY <1>5, <1>6

LEMMA ReportAndAcquireWaitStep ==
    ASSUME EInv, NEW a \in Appliances, NEW c \in RawClasses, NEW n \in Demands,
           ReportAndAcquireWait(a, c, n)
    PROVE  Broker' /\ QuotaNext
<1>1. /\ a \in DOMAIN tickets
      /\ DOMAIN tickets' = DOMAIN tickets \ {a}
  BY DEF ReportAndAcquireWait, Combined, Matched, Without, Restrict
<1>2. PICK h \in Headers, lag \in Lags : ReportAcquireDeny(h, lag, c, n)
  BY DEF ReportAndAcquireWait
<1>3. st'.InFlight = Cardinality(DOMAIN tickets')
  BY <1>1, <1>2, CombinedSlots, OneLess DEF EInv
<1>4. ~HasAppliance(a)
  BY <1>1 DEF EInv, Broker, WaitXorHold, HasAppliance
<1>5. Queueing' /\ \A i \in queue' : i \in queue \/ i.app = a
  <2>1. CASE QueueFull
    BY <2>1, BrokerQueueing, KeepQueueing DEF EInv, QueueFull
  <2>2. CASE \E conn \in Conns : Enqueue(a, c, conn)
    BY <1>4, <2>2, BrokerQueueing, EnqueueQueueing DEF EInv
  <2> QED
    BY <2>1, <2>2 DEF ReportAndAcquireWait
<1>6. \A i \in queue' : i.app \notin DOMAIN tickets'
  BY <1>1, <1>5 DEF EInv, Broker, WaitXorHold
<1>7. Broker'
  BY <1>1, <1>3, <1>5, <1>6, BrokerFrom DEF EInv, Broker
<1>8. QuotaNext
  BY <1>2 DEF QuotaNext, Others
<1> QED
  BY <1>7, <1>8

-----------------------------------------------------------------------------
(* The dispatch loop *)

LEMMA DispatchItemStep ==
    ASSUME EInv, NEW item \in queue, DispatchItem(item)
    PROVE  Broker' /\ QuotaNext
<1> DEFINE a == item.app
           conn == item.conn
<1>1. /\ DispatchGrant(item.class)
      /\ queue' = queue \ {item}
      /\ DOMAIN tickets' = DOMAIN tickets \cup {a}
      /\ poll' = [poll EXCEPT ![conn].granted = TRUE]
  BY DEF DispatchItem, Put
<1>2. /\ a \in Appliances /\ item.class \in RawClasses
      /\ a \notin DOMAIN tickets
      /\ \A i \in queue : i.app = a \/ i.conn = conn => i = item
  BY DEF EInv, Broker, WaitXorHold, Item
<1>3. /\ st.InFlight < Fleet
      /\ Cardinality(DOMAIN tickets \cup {a}) = st.InFlight + 1
  BY <1>2, OneMore DEF EInv
<1>4. st'.InFlight = Cardinality(DOMAIN tickets')
  BY <1>1, <1>3, DispatchSlots DEF EInv
<1>5. poll \in [DOMAIN poll -> Poller] /\ conn \in DOMAIN poll
  BY DEF EInv, Broker, WaitersAttached
<1>6. /\ DOMAIN poll' = DOMAIN poll
      /\ poll'[conn] = [poll[conn] EXCEPT !.granted = TRUE]
      /\ \A y \in DOMAIN poll : y # conn => poll'[y] = poll[y]
  BY <1>1, <1>5
<1>7. \A y \in DOMAIN poll' : poll'[y] \in Poller
  BY <1>5, <1>6 DEF Poller
<1>8. poll' \in [DOMAIN poll' -> Poller]
  BY <1>1, <1>5, <1>7
<1>9. \A i \in queue' : /\ i.conn \in DOMAIN poll'
                        /\ poll'[i.conn].app = poll[i.conn].app
                        /\ poll'[i.conn].granted = poll[i.conn].granted
  BY <1>1, <1>2, <1>6 DEF EInv, Broker, WaitersAttached
<1>10. Queueing'
  BY <1>1, <1>8, <1>9, BrokerQueueing, ShrinkQueueing DEF EInv
<1>11. \A i \in queue' : i.app \notin DOMAIN tickets'
  BY <1>1, <1>2 DEF EInv, Broker, WaitXorHold
<1>12. DOMAIN tickets' \subseteq Appliances
  BY <1>1, <1>2 DEF EInv, Broker
<1>13. Broker'
  BY <1>4, <1>10, <1>11, <1>12, BrokerFrom
<1>14. QuotaNext
  BY <1>1, <1>2, <1>3 DEF QuotaNext, Grants
<1> QED
  BY <1>13, <1>14

LEMMA DispatchEndStep ==
    ASSUME EInv, DispatchEnd
    PROVE  Broker' /\ QuotaNext
<1>1. DispatchIdle /\ UNCHANGED <<queue, poll, tickets>>
  BY DEF DispatchEnd
<1>2. st'.InFlight = Cardinality(DOMAIN tickets')
  BY <1>1, DispatchSlots DEF EInv, Broker, SlotAccounting
<1>3. Queueing'
  BY <1>1, BrokerQueueing, KeepQueueing DEF EInv
<1>4. Broker'
  BY <1>1, <1>2, <1>3, BrokerFrom DEF EInv, Broker, WaitXorHold
<1>5. QuotaNext
  BY <1>1 DEF QuotaNext, Others
<1> QED
  BY <1>4, <1>5

-----------------------------------------------------------------------------
(* Steps that leave tickets and State alone *)

LEMMA SameTickets ==
    ASSUME EInv, UNCHANGED <<st, tickets>>, Queueing', queue' \subseteq queue
    PROVE  Broker'
<1>1. st'.InFlight = Cardinality(DOMAIN tickets')
  BY DEF EInv, Broker, SlotAccounting
<1> QED
  BY <1>1, BrokerFrom DEF EInv, Broker, WaitXorHold

LEMMA AsideStep ==
    ASSUME EInv, UNCHANGED <<st, tickets, queue, poll>>
    PROVE  Broker'
BY BrokerQueueing, KeepQueueing, SameTickets DEF EInv

LEMMA WakeStep ==
    ASSUME EInv, NEW conn \in Conns, WakeWithToken(conn) \/ WakeWithoutToken(conn)
    PROVE  Broker' /\ UNCHANGED st
<1>1. /\ UNCHANGED <<st, tickets, queue>>
      /\ poll' = Without(poll, {conn})
      /\ conn \in DOMAIN poll /\ poll[conn].granted
  BY DEF WakeWithToken, WakeWithoutToken, Woken
<1>2. poll' = [y \in DOMAIN poll \ {conn} |-> poll[y]]
  BY <1>1 DEF Without, Restrict
<1>3. poll' \in [DOMAIN poll' -> Poller]
  BY <1>2 DEF EInv, Broker
<1>4. \A i \in queue : i.conn # conn
  BY <1>1 DEF EInv, Broker, WaitersAttached
<1>5. \A i \in queue' : /\ i.conn \in DOMAIN poll'
                        /\ poll'[i.conn].app = poll[i.conn].app
                        /\ poll'[i.conn].granted = poll[i.conn].granted
  BY <1>1, <1>2, <1>4 DEF EInv, Broker, WaitersAttached
<1>6. Queueing'
  BY <1>1, <1>3, <1>5, BrokerQueueing, ShrinkQueueing DEF EInv
<1> QED
  BY <1>1, <1>6, SameTickets

(* A handler that gives up takes with it every item that could name it.    *)
LEMMA LeaveStep ==
    ASSUME EInv, NEW conn \in Conns, Leave(conn)
    PROVE  Broker' /\ UNCHANGED st
<1>1. /\ UNCHANGED <<st, tickets>>
      /\ conn \in DOMAIN poll
      /\ queue' = {i \in queue : i.app # poll[conn].app}
      /\ poll' = Without(poll, {conn})
  BY DEF Leave
<1>2. poll' = [y \in DOMAIN poll \ {conn} |-> poll[y]]
  BY <1>1 DEF Without, Restrict
<1>3. poll' \in [DOMAIN poll' -> Poller]
  BY <1>2 DEF EInv, Broker
<1>4. \A i \in queue' : i \in queue /\ i.conn # conn
  BY <1>1 DEF EInv, Broker, WaitersAttached
<1>5. \A i \in queue' : /\ i.conn \in DOMAIN poll'
                        /\ poll'[i.conn].app = poll[i.conn].app
                        /\ poll'[i.conn].granted = poll[i.conn].granted
  BY <1>2, <1>4 DEF EInv, Broker, WaitersAttached
<1>6. queue' \subseteq queue
  BY <1>1
<1>7. Queueing'
  BY <1>3, <1>5, <1>6, BrokerQueueing, ShrinkQueueing DEF EInv
<1> QED
  BY <1>1, <1>6, <1>7, SameTickets

-----------------------------------------------------------------------------
(* The reaper, and time *)

LEMMA ReaperStep ==
    ASSUME EInv, Reaper
    PROVE  Broker' /\ (QuotaNext \/ UNCHANGED st)
<1>1. /\ UNCHANGED <<queue, poll>>
      /\ DOMAIN tickets' = DOMAIN tickets \ Expired
      /\ Expired \subseteq DOMAIN tickets
  BY DEF Reaper, Without, Restrict, Expired
<1>2. /\ IsFiniteSet(DOMAIN tickets) /\ IsFiniteSet(Expired)
      /\ Cardinality(DOMAIN tickets) = st.InFlight
      /\ Cardinality(Expired) \in Nat
      /\ st.InFlight \in Nat /\ st.InFlight <= Fleet
  BY <1>1, TicketsFinite, FS_Subset, FS_CardinalityType DEF EInv, Broker, SlotAccounting
<1>3. Cardinality(DOMAIN tickets \ Expired) = st.InFlight - Cardinality(Expired)
  <2>1. DOMAIN tickets \cap Expired = Expired
    BY <1>1
  <2>2. Cardinality(DOMAIN tickets \ Expired)
           = Cardinality(DOMAIN tickets) - Cardinality(DOMAIN tickets \cap Expired)
    <3>1. IsFiniteSet(DOMAIN tickets)
      BY <1>2
    <3> QED
      BY <3>1, FS_Difference
  <2> QED
    BY <1>2, <2>1, <2>2
<1>4. CASE Expired = {}
  <2>1. UNCHANGED st /\ DOMAIN tickets' = DOMAIN tickets
    BY <1>1, <1>4 DEF Reaper
  <2>2. st'.InFlight = Cardinality(DOMAIN tickets')
    BY <1>2, <2>1
  <2>3. Queueing'
    BY <1>1, BrokerQueueing, KeepQueueing DEF EInv
  <2>4. Broker'
    BY <1>1, <2>1, <2>2, <2>3, BrokerFrom DEF EInv, Broker, WaitXorHold
  <2> QED
    BY <2>1, <2>4
<1>5. CASE Expired # {}
  <2>1. Reap(Cardinality(Expired))
    BY <1>5 DEF Reaper
  <2>2. /\ Cardinality(Expired) \in 1 .. st.InFlight
        /\ st'.InFlight = st.InFlight - Cardinality(Expired)
    BY <2>1, ReapSlots DEF EInv
  <2>3. st'.InFlight = Cardinality(DOMAIN tickets')
    BY <1>1, <1>3, <2>2
  <2>4. Queueing'
    BY <1>1, BrokerQueueing, KeepQueueing DEF EInv
  <2>5. Broker'
    BY <1>1, <2>3, <2>4, BrokerFrom DEF EInv, Broker, WaitXorHold
  <2>6. Cardinality(Expired) \in 1 .. Fleet
    BY <1>2, <2>2, InputsAssumption
  <2>7. QuotaNext
    BY <2>1, <2>6 DEF QuotaNext, Others, Reaps
  <2> QED
    BY <2>5, <2>7
<1> QED
  BY <1>4, <1>5

LEMMA TickStep ==
    ASSUME EInv, Tick
    PROVE  Broker' /\ QuotaNext
<1>1. /\ Elapses /\ UNCHANGED queue
      /\ DOMAIN tickets' = DOMAIN tickets
      /\ poll' = [conn \in DOMAIN poll |->
                    [poll[conn] EXCEPT !.waited = AtMost(@ + 1, PollTimeout)]]
  BY DEF Tick
<1>2. st'.InFlight = Cardinality(DOMAIN tickets')
  BY <1>1, ElapseSound DEF EInv, IInv, Broker, SlotAccounting, Elapses
<1>3. \A conn \in DOMAIN poll :
         /\ poll[conn] \in Poller
         /\ AtMost(poll[conn].waited + 1, PollTimeout) \in Nat
  BY EngineAssumption DEF EInv, Broker, Poller, AtMost
<1>4. /\ poll' \in [DOMAIN poll' -> Poller]
      /\ DOMAIN poll' = DOMAIN poll
      /\ \A conn \in DOMAIN poll : /\ poll'[conn].app = poll[conn].app
                                   /\ poll'[conn].granted = poll[conn].granted
  BY <1>1, <1>3 DEF Poller
<1>5. Queueing'
  BY <1>1, <1>4, BrokerQueueing, ShrinkQueueing DEF EInv, Broker, WaitersAttached
<1>6. Broker'
  BY <1>1, <1>2, <1>5, BrokerFrom DEF EInv, Broker, WaitXorHold
<1>7. QuotaNext
  BY <1>1 DEF QuotaNext, Others
<1> QED
  BY <1>6, <1>7

-----------------------------------------------------------------------------
(* Theorems *)

(* Every step of the broker is one of the State object, or leaves it.      *)
LEMMA EngineStepsQuota ==
    ASSUME EInv, EngineNext
    PROVE  Broker' /\ (QuotaNext \/ UNCHANGED st)
<1>1. CASE Acquire
  BY <1>1, TryAcquireGrantStep, TryAcquireQueueStep, TryAcquireFullStep DEF Acquire
<1>2. CASE \E a \in Appliances : Post(a)
  BY <1>2, AsideStep DEF Post
<1>3. CASE ProcessPending
  <2>1. PICK r \in pending : HandleReport(r) \/ DropReport(r)
    BY <1>3 DEF ProcessPending
  <2>2. CASE HandleReport(r)
    BY <2>2, HandleReportStep
  <2>3. CASE DropReport(r)
    BY <2>3, AsideStep DEF DropReport
  <2> QED
    BY <2>1, <2>2, <2>3
<1>4. CASE ReportAndAcquire
  BY <1>4, ReportAndAcquirePenaltyStep, ReportAndAcquireGrantStep,
     ReportAndAcquireWaitStep DEF ReportAndAcquire
<1>5. CASE DispatchStep
  <2>1. CASE \E item \in queue : DispatchItem(item)
    BY <2>1, DispatchItemStep
  <2>2. CASE DispatchEnd
    BY <2>2, DispatchEndStep
  <2>3. CASE StoreToken
    BY <2>3, AsideStep DEF StoreToken
  <2> QED
    BY <1>5, <2>1, <2>2, <2>3 DEF DispatchStep
<1>6. CASE Handlers
  <2>1. PICK conn \in Conns : \/ WakeWithToken(conn) \/ WakeWithoutToken(conn)
                              \/ Timeout(conn) \/ Disconnect(conn)
    BY <1>6 DEF Handlers
  <2>2. CASE WakeWithToken(conn) \/ WakeWithoutToken(conn)
    BY <2>2, WakeStep
  <2>3. CASE Timeout(conn) \/ Disconnect(conn)
    BY <2>3, LeaveStep DEF Timeout, Disconnect
  <2> QED
    BY <2>1, <2>2, <2>3
<1>7. CASE Tick
  BY <1>7, TickStep
<1>8. CASE Reaper
  BY <1>8, ReaperStep
<1> QED
  BY <1>1, <1>2, <1>3, <1>4, <1>5, <1>6, <1>7, <1>8 DEF EngineNext, EngineStep

LEMMA EngineInitEInv == EngineInit => EInv
<1> SUFFICES ASSUME EngineInit PROVE EInv
  OBVIOUS
<1>1. IInv
  BY NewSound, InputsAssumption DEF EngineInit, QuotaInit, IInv, RawConfig
<1>2. \E cfg \in Configs : st = New(cfg)
  BY DEF EngineInit, QuotaInit
<1>3. /\ st.InFlight = 0 /\ DOMAIN tickets = {} /\ queue = {}
      /\ poll \in [DOMAIN poll -> Poller]
  BY <1>2 DEF EngineInit, New
<1>4. IsFiniteSet({}) /\ Cardinality({}) = 0
  BY FS_EmptySet
<1>5. Broker
  BY <1>3, <1>4, EngineAssumption
     DEF Broker, SlotAccounting, WaitXorHold, WaitersAttached, QueueBound
<1> QED
  BY <1>1, <1>5 DEF EInv

(* The broker's invariant: State, tickets, queue and handlers together. *)
THEOREM EInvAlways == EngineSpec => []EInv
<1>1. EInv /\ [EngineNext]_vars => EInv'
  <2> SUFFICES ASSUME EInv, [EngineNext]_vars PROVE EInv'
    OBVIOUS
  <2>1. CASE EngineNext
    <3>1. Broker' /\ (QuotaNext \/ UNCHANGED st)
      BY <2>1, EngineStepsQuota
    <3>2. IInv'
      BY <3>1, NextStep DEF EInv, IInv
    <3> QED
      BY <3>1, <3>2 DEF EInv
  <2>2. CASE UNCHANGED vars
    BY <2>2, AsideStep DEF vars, EInv, IInv
  <2> QED
    BY <2>1, <2>2
<1> QED
  BY <1>1, EngineInitEInv, PTL DEF EngineSpec

(* The broker implements the State object's specification: whatever the    *)
(* handlers, the queue, the dispatch loop and the reaper do, the State     *)
(* only ever sees the steps of module Quota.                               *)
THEOREM EngineImplementsQuota == EngineSpec => QuotaSpec
<1>1. EngineInit => QuotaInit
  BY DEF EngineInit
<1>2. EInv /\ [EngineNext]_vars => [QuotaNext]_st
  BY EngineStepsQuota DEF vars
<1> QED
  BY <1>1, <1>2, EInvAlways, PTL DEF EngineSpec, QuotaSpec

(* The slots in use are the active tickets, always. *)
THEOREM SlotsAccounted == EngineSpec => []SlotAccounting
<1>1. EInv => SlotAccounting
  BY DEF EInv, Broker
<1> QED
  BY <1>1, EInvAlways, PTL

(* No appliance waits twice, or waits while it holds a ticket. *)
THEOREM OneRequestEach == EngineSpec => []WaitXorHold
<1>1. EInv => WaitXorHold
  BY DEF EInv, Broker
<1> QED
  BY <1>1, EInvAlways, PTL

(* Every waiter in the queue has a live handler that was not yet woken, so *)
(* the dispatch loop never hands a ticket to nobody.                       *)
THEOREM NobodyServedInVain == EngineSpec => []WaitersAttached
<1>1. EInv => WaitersAttached
  BY DEF EInv, Broker
<1> QED
  BY <1>1, EInvAlways, PTL

(* The wait queue never outgrows CAS_MAX_QUEUE. *)
THEOREM QueueBounded == EngineSpec => []QueueBound
<1>1. EInv => QueueBound
  BY DEF EInv, Broker
<1> QED
  BY <1>1, EInvAlways, PTL

(* In the whole broker too, a penalty blocks every path that dispatches. *)
THEOREM BrokerHonoursLockdown == EngineSpec => NoGrantDuringLockdown
BY EngineImplementsQuota, LockdownBlocks, PTL

(* In the whole broker too, no sustained window exceeds its allowance. *)
THEOREM BrokerKeepsAllowance == EngineSpec => []SustainedWithinLimit
BY EngineImplementsQuota, AllowanceKept, PTL

-----------------------------------------------------------------------------
(* Refinement of TicketLease: every step gives one appliance its next      *)
(* standing, takes expired tickets away, ends a penalty, or does nothing   *)
(* an appliance could see.                                                 *)

(* Whether a penalty is being served, before and after a step of the State *)

LEMMA DemandLocked ==
    ASSUME NEW s, Sound(s), NEW c, NEW n \in Demands
    PROVE  Locked(NoteDemand(s, c, n)) = Locked(s)
BY Inputs, NoteDemandType DEF Sound, SameBudget, Locked

LEMMA SettleLocked ==
    ASSUME NEW s, Sound(s)
    PROVE  Locked(Settle(s)) = Locked(s)
<1>1. CASE Locked(s)
  BY <1>1, SettleSound
<1>2. CASE ~Locked(s)
  BY <1>2, SettleSound DEF Locked
<1> QED
  BY <1>1, <1>2

LEMMA IssueLocked ==
    ASSUME NEW s \in State
    PROVE  Locked(Issue(s)) = Locked(s)
BY DEF Issue, DeductSustained, State, Locked

LEMMA ReportLocked ==
    ASSUME NEW s, Sound(s), s.InFlight > 0, NEW h \in Headers, NEW lag \in Lags
    PROVE  /\ Sound(ProcessReport(s, h, lag))
           /\ Locked(ProcessReport(s, h, lag)) = Locked(s)
BY Inputs, ProcessReportSound DEF Locked

LEMMA GrantOpen ==
    ASSUME NEW s, Sound(s), CanDispatch(s)
    PROVE  ~Locked(s) /\ ~Locked(Issue(Settle(s)))
<1>1. ~Locked(s) /\ Settle(s) \in State
  BY DispatchOpen DEF Sound
<1> QED
  BY <1>1, SettleLocked, IssueLocked

LEMMA AcquireLocked ==
    ASSUME IInv, NEW c, NEW n \in Demands
    PROVE  /\ AcquireGrant(c, n) => ~Locked(st) /\ ~Locked(st')
           /\ AcquireDeny(c, n) => Locked(st') = Locked(st)
<1> DEFINE s == NoteDemand(st, c, n)
<1>1. Sound(s) /\ Locked(s) = Locked(st)
  BY DemandSlots, DemandLocked DEF IInv
<1>2. AcquireGrant(c, n) => CanDispatch(s) /\ st' = Issue(Settle(s))
  BY DEF AcquireGrant
<1>3. AcquireDeny(c, n) => st' = Settle(s)
  BY DEF AcquireDeny
<1> HIDE DEF s
<1> QED
  BY <1>1, <1>2, <1>3, GrantOpen, SettleLocked

LEMMA CombinedLocked ==
    ASSUME IInv, NEW h \in Headers, NEW lag \in Lags, NEW c, NEW n \in Demands
    PROVE  /\ ReportAcquireGrant(h, lag, c, n) => ~Locked(st) /\ ~Locked(st')
           /\ ReportAcquireDeny(h, lag, c, n) => Locked(st') = Locked(st)
<1> DEFINE r == ProcessReport(st, h, lag)
           s == NoteDemand(r, c, n)
<1>1. ReportAcquireGrant(h, lag, c, n) =>
         st.InFlight > 0 /\ CanDispatch(s) /\ st' = Issue(Settle(s))
  BY DEF ReportAcquireGrant
<1>2. ReportAcquireDeny(h, lag, c, n) => st.InFlight > 0 /\ st' = Settle(s)
  BY DEF ReportAcquireDeny
<1>3. st.InFlight > 0 => Sound(r) /\ Locked(r) = Locked(st)
  BY ReportLocked DEF IInv
<1> HIDE DEF r
<1>4. st.InFlight > 0 => Sound(s) /\ Locked(s) = Locked(st)
  BY <1>3, DemandSlots, DemandLocked
<1> HIDE DEF s
<1> QED
  BY <1>1, <1>2, <1>4, GrantOpen, SettleLocked

LEMMA ProcessedLocked ==
    ASSUME IInv, NEW h \in Headers, NEW lag \in Lags
    PROVE  /\ Report(h, lag) => Locked(st') = Locked(st)
           /\ \A ra \in RetryAfters : Penalty(h, lag, ra) => Locked(st')
BY Inputs, ReportLocked, ProcessPenaltySound DEF IInv, Report, Penalty, Locked

LEMMA DispatchLocked ==
    ASSUME IInv, NEW c
    PROVE  /\ DispatchGrant(c) => ~Locked(st) /\ ~Locked(st')
           /\ DispatchIdle => Locked(st') = Locked(st)
<1>1. DispatchIdle => Locked(st') = Locked(st)
  BY SettleLocked DEF IInv, DispatchIdle
<1>2. ASSUME DispatchGrant(c)
      PROVE  ~Locked(st) /\ ~Locked(st')
  <2> DEFINE t == Settle(st)
             d == DeductQuota(t, c)
  <2>1. /\ st' = Issue(d)
        /\ HasClassQuota(t, c) \/ HasSharedQuota(t)
    BY <1>2 DEF DispatchGrant
  <2>2. ~Locked(st) /\ ~Locked(t) /\ t \in State
    BY <1>2, DispatchOpen, SettleLocked DEF IInv, DispatchGrant, Sound
  <2> HIDE DEF t
  <2>3. d \in State /\ Locked(d) = Locked(t)
    BY <2>1, <2>2, DeductQuotaType DEF SameBudget, Locked
  <2> HIDE DEF d
  <2> QED
    BY <2>1, <2>2, <2>3, IssueLocked
<1> QED
  BY <1>1, <1>2

LEMMA ReapLocked ==
    ASSUME IInv, NEW k, Reap(k)
    PROVE  Locked(st') = Locked(st)
BY DEF IInv, Sound, State, Reap, Locked

LEMMA ElapseLocked ==
    ASSUME IInv, Elapses
    PROVE  Locked(st') => Locked(st)
BY ElapseSound DEF IInv, Sound, State, Elapses, Locked

-----------------------------------------------------------------------------
(* What a step of the broker does to the standing of the appliances *)

LeaseStep == Leases!LeaseNext \/ UNCHANGED Leases!leaseVars

LEMMA StandingFacts ==
    ASSUME EInv, NEW a
    PROVE  /\ Standing(a) = "held" <=> a \in DOMAIN tickets
           /\ Standing(a) = "waiting" <=> HasAppliance(a)
           /\ Standing(a) = "none" <=> a \notin DOMAIN tickets /\ ~HasAppliance(a)
BY DEF EInv, Broker, WaitXorHold, HasAppliance, Standing

LEMMA StandingAfter ==
    ASSUME Broker', NEW a
    PROVE  /\ Standing(a)' = "held" <=> (a \in DOMAIN tickets)'
           /\ Standing(a)' = "waiting" <=> HasAppliance(a)'
           /\ Standing(a)' = "none" <=> (a \notin DOMAIN tickets /\ ~HasAppliance(a))'
BY DEF Broker, WaitXorHold, HasAppliance, Standing

LEMMA StandingKept ==
    ASSUME NEW b, (b \in DOMAIN tickets)' <=> b \in DOMAIN tickets,
           HasAppliance(b)' <=> HasAppliance(b)
    PROVE  Standing(b)' = Standing(b)
BY DEF Standing

LEMMA NobodyMoves ==
    ASSUME \A b \in Appliances : Standing(b)' = Standing(b), Locked(st') = Locked(st)
    PROVE  LeaseStep
BY DEF LeaseStep, Locked, Leases!leaseVars

LEMMA OneMoves ==
    ASSUME NEW a \in Appliances, NEW from, NEW to,
           Standing(a) \in from, Standing(a)' = to,
           \A b \in Appliances \ {a} : Standing(b)' = Standing(b)
    PROVE  Leases!Becomes(a, from, to)
BY DEF Leases!Becomes

LEMMA Granted ==
    ASSUME NEW a \in Appliances, Leases!Becomes(a, {"none", "waiting"}, "held"),
           ~Locked(st), ~Locked(st')
    PROVE  LeaseStep
BY DEF LeaseStep, Locked, Leases!LeaseNext, Leases!Grant

LEMMA Returned ==
    ASSUME NEW a \in Appliances, Leases!Becomes(a, {"held"}, "none"),
           Locked(st') = Locked(st) \/ Locked(st')
    PROVE  LeaseStep
BY DEF LeaseStep, Locked, Leases!LeaseNext, Leases!Return, Leases!Punish

LEMMA QueuedUp ==
    ASSUME NEW a \in Appliances, Locked(st') = Locked(st),
           \/ Leases!Becomes(a, {"none"}, "waiting")
           \/ Leases!Becomes(a, {"held"}, "waiting")
    PROVE  LeaseStep
BY DEF LeaseStep, Locked, Leases!LeaseNext, Leases!Wait, Leases!Requeue

LEMMA GaveUp ==
    ASSUME NEW a \in Appliances, Leases!Becomes(a, {"waiting"}, "none"),
           Locked(st') = Locked(st)
    PROVE  LeaseStep
BY DEF LeaseStep, Locked, Leases!LeaseNext, Leases!GiveUp

(* Every other appliance keeps its ticket or its place. *)
LEMMA OthersKeep ==
    ASSUME NEW a, \A b : b # a => ((b \in DOMAIN tickets)' <=> b \in DOMAIN tickets),
           \A b : b # a => (HasAppliance(b)' <=> HasAppliance(b))
    PROVE  \A b \in Appliances \ {a} : Standing(b)' = Standing(b)
BY StandingKept

LEMMA AsideLease ==
    ASSUME UNCHANGED <<st, tickets, queue>>
    PROVE  LeaseStep
BY NobodyMoves, StandingKept DEF HasAppliance

(* /acquire *)

LEMMA TryAcquireGrantLease ==
    ASSUME EInv, NEW a \in Appliances, NEW c \in RawClasses, NEW n \in Demands,
           TryAcquireGrant(a, c, n)
    PROVE  LeaseStep
<1>1. /\ AcquireGrant(c, n) /\ UNCHANGED queue
      /\ a \notin DOMAIN tickets /\ ~HasAppliance(a)
      /\ DOMAIN tickets' = DOMAIN tickets \cup {a}
  BY DEF TryAcquireGrant, MayAsk, Put
<1>2. Standing(a) = "none"
  BY <1>1, StandingFacts
<1>3. Standing(a)' = "held"
  BY <1>1, TryAcquireGrantStep, StandingAfter
<1>4. \A b \in Appliances \ {a} : Standing(b)' = Standing(b)
  BY <1>1, OthersKeep DEF HasAppliance
<1>5. Leases!Becomes(a, {"none", "waiting"}, "held")
  BY <1>2, <1>3, <1>4, OneMoves
<1> QED
  BY <1>1, <1>5, AcquireLocked, Granted DEF EInv

LEMMA EnqueueStanding ==
    ASSUME NEW a, NEW c, NEW conn, Enqueue(a, c, conn)
    PROVE  HasAppliance(a)' /\ \A b : b # a => (HasAppliance(b)' <=> HasAppliance(b))
<1>1. PICK item : item.app = a /\ queue' = queue \cup {item}
  BY DEF Enqueue
<1> QED
  BY <1>1 DEF HasAppliance

LEMMA TryAcquireQueueLease ==
    ASSUME EInv, NEW a \in Appliances, NEW c \in RawClasses, NEW n \in Demands,
           NEW conn \in Conns, TryAcquireQueue(a, c, n, conn)
    PROVE  LeaseStep
<1>1. /\ AcquireDeny(c, n) /\ Enqueue(a, c, conn) /\ UNCHANGED tickets
      /\ a \notin DOMAIN tickets /\ ~HasAppliance(a)
  BY DEF TryAcquireQueue, MayAsk
<1>2. Standing(a) = "none"
  BY <1>1, StandingFacts
<1>3. Standing(a)' = "waiting"
  BY <1>1, EnqueueStanding, TryAcquireQueueStep, StandingAfter
<1>4. \A b \in Appliances \ {a} : Standing(b)' = Standing(b)
  BY <1>1, EnqueueStanding, OthersKeep
<1>5. Leases!Becomes(a, {"none"}, "waiting")
  BY <1>2, <1>3, <1>4, OneMoves
<1> QED
  BY <1>1, <1>5, AcquireLocked, QueuedUp DEF EInv

LEMMA TryAcquireFullLease ==
    ASSUME EInv, NEW a \in Appliances, NEW c \in RawClasses, NEW n \in Demands,
           TryAcquireFull(a, c, n)
    PROVE  LeaseStep
<1>1. AcquireDeny(c, n) /\ UNCHANGED <<queue, tickets>>
  BY DEF TryAcquireFull, QueueFull
<1> QED
  BY <1>1, AcquireLocked, NobodyMoves, StandingKept DEF EInv, HasAppliance

(* Reports *)

LEMMA EndsTicket ==
    ASSUME EInv, Broker', NEW a \in DOMAIN tickets, UNCHANGED queue,
           DOMAIN tickets' = DOMAIN tickets \ {a}
    PROVE  a \in Appliances /\ Leases!Becomes(a, {"held"}, "none")
<1>1. a \in Appliances /\ ~HasAppliance(a) /\ Standing(a) = "held"
  BY StandingFacts DEF EInv, Broker, WaitXorHold, HasAppliance
<1>2. Standing(a)' = "none"
  BY <1>1, StandingAfter DEF HasAppliance
<1>3. \A b \in Appliances \ {a} : Standing(b)' = Standing(b)
  BY OthersKeep DEF HasAppliance
<1> QED
  BY <1>1, <1>2, <1>3, OneMoves

LEMMA HandleReportLease ==
    ASSUME EInv, NEW r \in pending, HandleReport(r)
    PROVE  LeaseStep
<1>1. /\ r.app \in DOMAIN tickets /\ UNCHANGED queue
      /\ DOMAIN tickets' = DOMAIN tickets \ {r.app}
  BY DEF HandleReport, Matched, Without, Restrict
<1>2. PICK h \in Headers, lag \in Lags :
         Report(h, lag) \/ \E ra \in RetryAfters : Penalty(h, lag, ra)
  BY DEF HandleReport
<1>3. Locked(st') = Locked(st) \/ Locked(st')
  BY <1>2, ProcessedLocked DEF EInv
<1>4. r.app \in Appliances /\ Leases!Becomes(r.app, {"held"}, "none")
  BY <1>1, HandleReportStep, EndsTicket
<1> QED
  BY <1>3, <1>4, Returned

LEMMA ReportAndAcquirePenaltyLease ==
    ASSUME EInv, NEW a \in Appliances, ReportAndAcquirePenalty(a)
    PROVE  LeaseStep
<1>1. /\ a \in DOMAIN tickets /\ UNCHANGED queue
      /\ DOMAIN tickets' = DOMAIN tickets \ {a}
  BY DEF ReportAndAcquirePenalty, Combined, Matched, Without, Restrict
<1>2. PICK h \in Headers, lag \in Lags, ra \in RetryAfters : Penalty(h, lag, ra)
  BY DEF ReportAndAcquirePenalty
<1>3. Locked(st')
  BY <1>2, ProcessedLocked DEF EInv
<1>4. Leases!Becomes(a, {"held"}, "none")
  BY <1>1, ReportAndAcquirePenaltyStep, EndsTicket
<1> QED
  BY <1>3, <1>4, Returned

LEMMA ReportAndAcquireGrantLease ==
    ASSUME EInv, NEW a \in Appliances, NEW c \in RawClasses, NEW n \in Demands,
           ReportAndAcquireGrant(a, c, n)
    PROVE  LeaseStep
<1>1. UNCHANGED queue /\ DOMAIN tickets' = DOMAIN tickets
  BY DEF ReportAndAcquireGrant, Combined, Matched, Put
<1>2. PICK h \in Headers, lag \in Lags : ReportAcquireGrant(h, lag, c, n)
  BY DEF ReportAndAcquireGrant
<1>3. Locked(st') = Locked(st)
  BY <1>2, CombinedLocked DEF EInv, Locked
<1> QED
  BY <1>1, <1>3, NobodyMoves, StandingKept DEF HasAppliance

LEMMA ReportAndAcquireWaitLease ==
    ASSUME EInv, NEW a \in Appliances, NEW c \in RawClasses, NEW n \in Demands,
           ReportAndAcquireWait(a, c, n)
    PROVE  LeaseStep
<1>1. /\ a \in DOMAIN tickets /\ DOMAIN tickets' = DOMAIN tickets \ {a}
      /\ UNCHANGED queue \/ \E conn \in Conns : Enqueue(a, c, conn)
  BY DEF ReportAndAcquireWait, Combined, Matched, QueueFull, Without, Restrict
<1>2. PICK h \in Headers, lag \in Lags : ReportAcquireDeny(h, lag, c, n)
  BY DEF ReportAndAcquireWait
<1>3. Locked(st') = Locked(st)
  BY <1>2, CombinedLocked DEF EInv
<1>4. Broker'
  BY ReportAndAcquireWaitStep
<1>5. CASE UNCHANGED queue
  BY <1>1, <1>3, <1>4, <1>5, EndsTicket, Returned
<1>6. CASE \E conn \in Conns : Enqueue(a, c, conn)
  <2>1. HasAppliance(a)' /\ \A b : b # a => (HasAppliance(b)' <=> HasAppliance(b))
    BY <1>6, EnqueueStanding
  <2>2. Standing(a) = "held" /\ Standing(a)' = "waiting"
    BY <1>1, <1>4, <2>1, StandingFacts, StandingAfter
  <2>3. \A b \in Appliances \ {a} : Standing(b)' = Standing(b)
    BY <1>1, <2>1, OthersKeep
  <2>4. Leases!Becomes(a, {"held"}, "waiting")
    BY <2>2, <2>3, OneMoves
  <2> QED
    BY <1>3, <2>4, QueuedUp
<1> QED
  BY <1>1, <1>5, <1>6

(* The dispatch loop, the handlers, the reaper, and time *)

LEMMA DispatchItemLease ==
    ASSUME EInv, NEW item \in queue, DispatchItem(item)
    PROVE  LeaseStep
<1> DEFINE a == item.app
<1>1. /\ DispatchGrant(item.class)
      /\ queue' = queue \ {item}
      /\ DOMAIN tickets' = DOMAIN tickets \cup {a}
  BY DEF DispatchItem, Put
<1>2. /\ a \in Appliances /\ HasAppliance(a)
      /\ \A i \in queue : i.app = a => i = item
  BY DEF EInv, Broker, WaitXorHold, Item, HasAppliance
<1>3. Standing(a) = "waiting"
  BY <1>2, StandingFacts
<1>4. Standing(a)' = "held"
  BY <1>1, DispatchItemStep, StandingAfter
<1>5. \A b \in Appliances \ {a} : Standing(b)' = Standing(b)
  BY <1>1, OthersKeep DEF HasAppliance
<1>6. Leases!Becomes(a, {"none", "waiting"}, "held")
  BY <1>2, <1>3, <1>4, <1>5, OneMoves
<1> QED
  BY <1>1, <1>2, <1>6, DispatchLocked, Granted DEF EInv

LEMMA DispatchEndLease ==
    ASSUME EInv, DispatchEnd
    PROVE  LeaseStep
<1>1. DispatchIdle /\ UNCHANGED <<queue, tickets>>
  BY DEF DispatchEnd
<1> QED
  BY <1>1, DispatchLocked, NobodyMoves, StandingKept DEF EInv, HasAppliance

LEMMA LeaveLease ==
    ASSUME EInv, NEW conn \in Conns, Leave(conn)
    PROVE  LeaseStep
<1>1. PICK a \in Appliances : /\ UNCHANGED <<st, tickets>>
                             /\ queue' = {i \in queue : i.app # a}
  BY DEF Leave, EInv, Broker, Poller
<1>2. ~HasAppliance(a)' /\ \A b : b # a => (HasAppliance(b)' <=> HasAppliance(b))
  BY <1>1 DEF HasAppliance
<1>3. CASE HasAppliance(a)
  <2>1. Standing(a) = "waiting" /\ a \notin DOMAIN tickets
    BY <1>3, StandingFacts
  <2>2. Standing(a)' = "none"
    BY <1>1, <1>2, <2>1 DEF Standing
  <2>3. \A b \in Appliances \ {a} : Standing(b)' = Standing(b)
    BY <1>1, <1>2, OthersKeep
  <2>4. Leases!Becomes(a, {"waiting"}, "none")
    BY <1>1, <2>1, <2>2, <2>3, OneMoves
  <2> QED
    BY <1>1, <2>4, GaveUp
<1>4. CASE ~HasAppliance(a)
  <2>1. \A b : HasAppliance(b)' <=> HasAppliance(b)
    BY <1>2, <1>4
  <2> QED
    BY <1>1, <2>1, NobodyMoves, StandingKept
<1> QED
  BY <1>3, <1>4

LEMMA ReaperLease ==
    ASSUME EInv, Reaper
    PROVE  LeaseStep
<1>1. /\ UNCHANGED queue
      /\ DOMAIN tickets' = DOMAIN tickets \ Expired
      /\ Expired \subseteq DOMAIN tickets /\ Expired \subseteq Appliances
      /\ UNCHANGED st \/ Reap(Cardinality(Expired))
  BY DEF Reaper, Without, Restrict, Expired, EInv, Broker
<1>2. Locked(st') = Locked(st)
  BY <1>1, ReapLocked DEF EInv
<1>3. \A a \in Expired : Standing(a) = "held" /\ Standing(a)' = "none"
  <2> TAKE a \in Expired
  <2>1. Standing(a) = "held" /\ ~HasAppliance(a)
    BY <1>1, StandingFacts
  <2> QED
    BY <1>1, <2>1, ReaperStep, StandingAfter DEF HasAppliance
<1>4. \A a \in Appliances \ Expired : Standing(a)' = Standing(a)
  BY <1>1, StandingKept DEF HasAppliance
<1>5. Leases!Expire(Expired)
  BY <1>1, <1>2, <1>3, <1>4 DEF Leases!Expire, Locked
<1> QED
  BY <1>1, <1>5 DEF LeaseStep, Leases!LeaseNext

LEMMA TickLease ==
    ASSUME EInv, Tick
    PROVE  LeaseStep
<1>1. Elapses /\ UNCHANGED queue /\ DOMAIN tickets' = DOMAIN tickets
  BY DEF Tick
<1>2. \A b \in Appliances : Standing(b)' = Standing(b)
  BY <1>1, StandingKept DEF HasAppliance
<1>3. CASE Locked(st') = Locked(st)
  BY <1>2, <1>3, NobodyMoves
<1>4. CASE Locked(st) /\ ~Locked(st')
  BY <1>2, <1>4 DEF LeaseStep, Locked, Leases!LeaseNext, Leases!PenaltyServed
<1> QED
  BY <1>1, <1>3, <1>4, ElapseLocked DEF EInv, Locked

-----------------------------------------------------------------------------
(* Theorem *)

LEMMA EngineStepsLease ==
    ASSUME EInv, EngineNext
    PROVE  LeaseStep
<1>1. CASE Acquire
  BY <1>1, TryAcquireGrantLease, TryAcquireQueueLease, TryAcquireFullLease DEF Acquire
<1>2. CASE \E a \in Appliances : Post(a)
  BY <1>2, AsideLease DEF Post
<1>3. CASE ProcessPending
  BY <1>3, HandleReportLease, AsideLease DEF ProcessPending, DropReport
<1>4. CASE ReportAndAcquire
  BY <1>4, ReportAndAcquirePenaltyLease, ReportAndAcquireGrantLease,
     ReportAndAcquireWaitLease DEF ReportAndAcquire
<1>5. CASE DispatchStep
  BY <1>5, DispatchItemLease, DispatchEndLease, AsideLease DEF DispatchStep, StoreToken
<1>6. CASE Handlers
  BY <1>6, LeaveLease, AsideLease
     DEF Handlers, Timeout, Disconnect, WakeWithToken, WakeWithoutToken
<1>7. CASE Tick
  BY <1>7, TickLease
<1>8. CASE Reaper
  BY <1>8, ReaperLease
<1> QED
  BY <1>1, <1>2, <1>3, <1>4, <1>5, <1>6, <1>7, <1>8 DEF EngineNext, EngineStep

(* The broker keeps the promise of TicketLease, whatever the numbers of    *)
(* appliances and connections, the queue's bound and the scheduling.       *)
THEOREM EngineKeepsLeases == EngineSpec => KeepsLeases
<1>1. EngineInit => Leases!LeaseInit
  <2> SUFFICES ASSUME EngineInit PROVE Leases!LeaseInit
    OBVIOUS
  <2>1. tickets = <<>> /\ queue = {} /\ \E cfg \in Configs : st = New(cfg)
    BY DEF EngineInit, QuotaInit
  <2>2. DOMAIN tickets = {} /\ ~st.LockdownActive
    BY <2>1 DEF New
  <2>3. \A a \in Appliances : Standing(a) = "none"
    BY <2>1, <2>2 DEF Standing, HasAppliance
  <2> QED
    BY <2>2, <2>3 DEF Leases!LeaseInit, Locked
<1>2. EInv /\ [EngineNext]_vars => [Leases!LeaseNext]_(Leases!leaseVars)
  <2> SUFFICES ASSUME EInv, [EngineNext]_vars PROVE LeaseStep
    BY DEF LeaseStep
  <2>1. CASE EngineNext
    BY <2>1, EngineStepsLease
  <2>2. CASE UNCHANGED vars
    BY <2>2, AsideLease DEF vars
  <2> QED
    BY <2>1, <2>2
<1> QED
  BY <1>1, <1>2, EInvAlways, PTL DEF EngineSpec, KeepsLeases, Leases!LeaseSpec
=============================================================================
