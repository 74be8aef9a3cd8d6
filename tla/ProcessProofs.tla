----------------------------- MODULE ProcessProofs -----------------------------
(***************************************************************************)
(* Process, for any number of polls and panels, any channel capacity and   *)
(* any durations: an outdated panel is announced, and a shutdown cuts off  *)
(* nobody before its grace is over.                                        *)
(***************************************************************************)
EXTENDS Process, TLAPS

Stream ==
    [pc : {"closed", "build", "select"}, signals : 0 .. SignalCap,
     current : BOOLEAN, unannounced : BOOLEAN]

ViewTyped == stream \in [Streams -> Stream]

Call ==
    [pc : {"none", "waiting", "granted", "told", "answered", "gone", "cut"}, left : Nat]

CallTyped == call \in [Calls -> Call]

(* Once Shutdown has returned, the grace is over or nobody is being served *)
(* any more, and nobody can come: the listener is closed.                  *)
ServedOrLate ==
    phase \in {"stopped", "drained"} =>
        waited = Grace \/ \A c \in Calls : ~Unanswered(c)

CutAtTheEnd == \A c \in Calls : call[c].pc = "cut" => phase = "exited" /\ waited = Grace

ViewInv == ViewTyped /\ StaleIsAnnounced

GraceInv == CallTyped /\ ServedOrLate /\ CutAtTheEnd

-----------------------------------------------------------------------------
(* The view.  A change leaves every open stream outdated and typed; a      *)
(* broadcast leaves every open stream with a signal.                       *)

LEMMA OutdatedIsTyped ==
    ASSUME NEW v \in [Streams -> Stream], NEW b \in BOOLEAN
    PROVE  /\ Outdated(v, b) \in [Streams -> Stream]
           /\ \A s \in Streams : ~b /\ v[s].pc # "closed" => Outdated(v, b)[s].unannounced
BY DEF Outdated, Stream

LEMMA SignalledIsTyped ==
    ASSUME NEW v \in [Streams -> Stream]
    PROVE  /\ Signalled(v) \in [Streams -> Stream]
           /\ \A s \in Streams : /\ Signalled(v)[s].pc = v[s].pc
                                 /\ v[s].pc # "closed" => Signalled(v)[s].signals > 0
BY LiveViewAssumption DEF Signalled, Stream

LEMMA ChangesKeepView ==
    ASSUME ViewInv
    PROVE  /\ ChangeAndNotify => ViewInv'
           /\ \A g : ChangeThenOwe(g) => ViewInv'
           /\ ChangeSilently => ViewInv'
<1>1. ASSUME ChangeAndNotify PROVE ViewInv'
  <2>1. Outdated(stream, TRUE) \in [Streams -> Stream]
    BY OutdatedIsTyped DEF ViewInv, ViewTyped
  <2> QED
    BY <1>1, <2>1, SignalledIsTyped
       DEF ChangeAndNotify, ViewInv, ViewTyped, StaleIsAnnounced
<1>2. ASSUME NEW g, ChangeThenOwe(g) PROVE ViewInv'
  BY <1>2, OutdatedIsTyped DEF ChangeThenOwe, ViewInv, ViewTyped, StaleIsAnnounced
<1>3. ASSUME ChangeSilently PROVE ViewInv'
  <2>1. stream' \in [Streams -> Stream]
    BY <1>3, OutdatedIsTyped DEF ChangeSilently, ViewInv, ViewTyped
  <2>2. \A s \in Streams : stream'[s].pc = "select" => stream'[s].unannounced
    BY <1>3 DEF ChangeSilently, Outdated, ViewInv, ViewTyped, Stream
  <2> QED
    BY <2>1, <2>2 DEF ViewInv, ViewTyped, StaleIsAnnounced
<1> QED
  BY <1>1, <1>2, <1>3

LEMMA NotifyKeepsView ==
    ASSUME ViewInv, NEW g, Notify(g)
    PROVE  ViewInv'
BY SignalledIsTyped DEF Notify, ViewInv, ViewTyped, StaleIsAnnounced

LEMMA ReaperKeepsView ==
    ASSUME ViewInv, ReaperRound
    PROVE  ViewInv'
<1>1. CASE ChangeThenOwe("reaper")
  BY <1>1, ChangesKeepView
<1>2. CASE owed' = owed \cup {"reaper"} /\ UNCHANGED stream
  BY <1>2 DEF ViewInv, ViewTyped, StaleIsAnnounced
<1> QED
  BY <1>1, <1>2 DEF ReaperRound

(* A stream's own step leaves it busy, closed or showing what is so.       *)
LEMMA OneStreamKeepsView ==
    ASSUME ViewInv, NEW s \in Streams, UNCHANGED owed,
           stream' \in [Streams -> Stream],
           \A t \in Streams \ {s} : stream'[t] = stream[t],
           stream'[s].pc = "select" => stream'[s].current
    PROVE  ViewInv'
BY DEF ViewInv, ViewTyped, StaleIsAnnounced

LEMMA StreamKeepsView ==
    ASSUME ViewInv, NEW s \in Streams, StreamStep(s)
    PROVE  ViewInv'
<1>1. stream \in [Streams -> Stream]
  BY DEF ViewInv, ViewTyped
<1>2. CASE Subscribe(s)
  BY <1>1, <1>2, LiveViewAssumption, OneStreamKeepsView DEF Subscribe, Blank, Stream
<1>3. CASE BuildAndSend(s)
  <2>1. UNCHANGED owed /\ \A t \in Streams \ {s} : stream'[t] = stream[t]
    BY <1>1, <1>3 DEF BuildAndSend
  <2> DEFINE d == [stream[s] EXCEPT !.pc = "select", !.current = TRUE, !.unannounced = FALSE]
  <2>2. d \in Stream /\ d.current
    BY <1>1 DEF Stream
  <2>3. stream' = [stream EXCEPT ![s] = d]
    BY <1>1, <1>3 DEF BuildAndSend, Stream
  <2> HIDE DEF d
  <2>4. stream' \in [Streams -> Stream] /\ stream'[s].current
    BY <1>1, <2>2, <2>3
  <2> QED
    BY <2>1, <2>4, OneStreamKeepsView
<1>4. CASE TakeSignal(s)
  BY <1>1, <1>4, LiveViewAssumption, OneStreamKeepsView DEF TakeSignal, Stream
<1>5. CASE Unsubscribe(s)
  BY <1>1, <1>5, LiveViewAssumption, OneStreamKeepsView DEF Unsubscribe, Closed, Blank, Stream
<1> QED
  BY <1>2, <1>3, <1>4, <1>5 DEF StreamStep

LEMMA NobodyMovesView ==
    ASSUME ViewInv, UNCHANGED viewVars
    PROVE  ViewInv'
BY DEF viewVars, ViewInv, ViewTyped, StaleIsAnnounced

LEMMA CallKeepsView ==
    ASSUME ViewInv, NEW c \in Calls, CallStep(c)
    PROVE  ViewInv'
BY ChangesKeepView, NobodyMovesView
   DEF CallStep, Arrive, Grant, Answer, Timeout, Disconnect, Leave

LEMMA MainKeepsView ==
    ASSUME ViewInv, Main
    PROVE  ViewInv'
<1>1. CASE Signal \/ ShutdownReturns
  BY <1>1, NobodyMovesView DEF Signal, ShutdownReturns, viewVars
<1>2. CASE DrainAll
  BY <1>2, ChangesKeepView DEF DrainAll
<1>3. CASE Exit
  BY <1>3, LiveViewAssumption DEF Exit, Closed, Blank, ViewInv, ViewTyped, StaleIsAnnounced, Stream
<1> QED
  BY <1>1, <1>2, <1>3 DEF Main

LEMMA StepKeepsView ==
    ASSUME ViewInv, [ProcessNext]_processVars
    PROVE  ViewInv'
<1>1. CASE Background
  BY <1>1, ChangesKeepView, NotifyKeepsView, ReaperKeepsView DEF Background
<1>2. CASE StreamsRun
  BY <1>2, StreamKeepsView DEF StreamsRun
<1>3. CASE \E c \in Calls : CallStep(c)
  BY <1>3, CallKeepsView
<1>4. CASE Main
  BY <1>4, MainKeepsView
<1>5. CASE Tick
  BY <1>5, NobodyMovesView DEF Tick, viewVars
<1>6. CASE UNCHANGED processVars
  BY <1>6, NobodyMovesView DEF processVars, viewVars
<1> QED
  BY <1>1, <1>2, <1>3, <1>4, <1>5, <1>6 DEF ProcessNext

-----------------------------------------------------------------------------
(* The grace *)

(* The steps that move one poll: only Arrive makes one be served. *)
LEMMA MovesKeepGrace ==
    ASSUME GraceInv, phase # "exited", NEW c \in Calls,
           NEW from, NEW to \in {"waiting", "granted", "answered", "gone"}, Moves(c, from, to),
           \/ to \in {"answered", "gone"}
           \/ from = {"waiting"}
           \/ phase = "serving"
    PROVE  GraceInv'
<1>1. /\ call[c].pc \in from
      /\ call' = [call EXCEPT ![c].pc = to]
      /\ UNCHANGED <<phase, waited>>
  BY DEF Moves
<1>2. CallTyped'
  BY <1>1 DEF GraceInv, CallTyped, Call
<1>3. ServedOrLate'
  BY <1>1 DEF GraceInv, CallTyped, Call, ServedOrLate, Unanswered
<1>4. CutAtTheEnd'
  BY <1>1 DEF GraceInv, CallTyped, Call, CutAtTheEnd
<1> QED
  BY <1>2, <1>3, <1>4 DEF GraceInv

LEMMA CallKeepsGrace ==
    ASSUME GraceInv, phase # "exited", NEW c \in Calls, CallStep(c)
    PROVE  GraceInv'
<1>1. CASE Arrive(c)
  BY <1>1, MovesKeepGrace DEF Arrive
<1>2. CASE Grant(c)
  BY <1>2, MovesKeepGrace DEF Grant
<1>3. CASE Answer(c)
  BY <1>3, MovesKeepGrace DEF Answer
<1>4. CASE Timeout(c) \/ Disconnect(c)
  BY <1>4, MovesKeepGrace DEF Timeout, Disconnect, Leave
<1> QED
  BY <1>1, <1>2, <1>3, <1>4 DEF CallStep

LEMMA MainKeepsGrace ==
    ASSUME GraceInv, Main
    PROVE  GraceInv'
<1>1. CASE Signal \/ ShutdownReturns
  BY <1>1 DEF Signal, ShutdownReturns, Reach, AllIdle, GraceInv, CallTyped, ServedOrLate,
              CutAtTheEnd, Unanswered
<1>2. CASE DrainAll
  <2>1. CallTyped'
    BY <1>2 DEF DrainAll, GraceInv, CallTyped, Call
  <2>2. ServedOrLate'
    BY <1>2 DEF DrainAll, Reach, Waits, GraceInv, ServedOrLate, Unanswered
  <2>3. CutAtTheEnd'
    BY <1>2 DEF DrainAll, Reach, GraceInv, CallTyped, Call, CutAtTheEnd
  <2> QED
    BY <2>1, <2>2, <2>3 DEF GraceInv
<1>3. CASE Exit
  <2>1. CallTyped'
    BY <1>3 DEF Exit, GraceInv, CallTyped, Call
  <2>2. ServedOrLate'
    BY <1>3 DEF Exit, Reach, ServedOrLate
  <2>3. CutAtTheEnd'
    BY <1>3 DEF Exit, Reach, GraceInv, CallTyped, Call, ServedOrLate, CutAtTheEnd, Unanswered
  <2> QED
    BY <2>1, <2>2, <2>3 DEF GraceInv
<1> QED
  BY <1>1, <1>2, <1>3 DEF Main

LEMMA TickKeepsGrace ==
    ASSUME GraceInv, phase # "exited", Tick
    PROVE  GraceInv'
<1>1. CallTyped'
  BY DEF Tick, GraceInv, CallTyped, Call
<1>2. ServedOrLate'
  BY DEF Tick, GraceInv, CallTyped, Call, ServedOrLate, Unanswered
<1>3. CutAtTheEnd'
  BY DEF Tick, GraceInv, CallTyped, Call, CutAtTheEnd
<1> QED
  BY <1>1, <1>2, <1>3 DEF GraceInv

LEMMA StepKeepsGrace ==
    ASSUME GraceInv, [ProcessNext]_processVars
    PROVE  GraceInv'
<1>1. CASE Background \/ StreamsRun \/ UNCHANGED processVars
  BY <1>1 DEF Background, StreamsRun, processVars, GraceInv, CallTyped, ServedOrLate,
              CutAtTheEnd, Unanswered
<1>2. CASE phase # "exited" /\ \E c \in Calls : CallStep(c)
  BY <1>2, CallKeepsGrace
<1>3. CASE Main
  BY <1>3, MainKeepsGrace
<1>4. CASE phase # "exited" /\ Tick
  BY <1>4, TickKeepsGrace
<1> QED
  BY <1>1, <1>2, <1>3, <1>4 DEF ProcessNext

-----------------------------------------------------------------------------
(* Theorems *)

LEMMA PInvInit == ProcessInit => ViewInv /\ GraceInv
BY LiveViewAssumption, ProcessAssumption
   DEF ProcessInit, LiveViewInit, Closed, Blank, ViewInv, ViewTyped, Stream, StaleIsAnnounced,
       GraceInv, CallTyped, Call, ServedOrLate, CutAtTheEnd

(* No panel is left outdated with nothing on its way to refresh it, unless *)
(* a silent path changed the State: for any number of panels and callers.  *)
THEOREM ProcessAnnouncesStale == ProcessSpec => []StaleIsAnnounced
<1>1. ViewInv => StaleIsAnnounced
  BY DEF ViewInv
<1> QED
  BY <1>1, PInvInit, StepKeepsView, PTL DEF ProcessSpec

(* A shutdown cuts off a poll only after its whole grace, for any number   *)
(* of polls, and any lengths of poll and grace.                            *)
THEOREM ProcessHonoursGrace == ProcessSpec => []GraceHonoured
<1>1. GraceInv => GraceHonoured
  BY DEF GraceInv, CutAtTheEnd, GraceHonoured
<1> QED
  BY <1>1, PInvInit, StepKeepsGrace, PTL DEF ProcessSpec
=============================================================================
