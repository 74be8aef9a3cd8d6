------------------------------- MODULE Process -------------------------------
(***************************************************************************)
(* The life of the process in cmd/cas/main.go: it serves until a signal,   *)
(* shuts the HTTP server down for at most Grace, drains the queue, closes  *)
(* the database and exits.  The requests that can be in progress meanwhile *)
(* are long polls and the event streams of LiveView, whose view the polls  *)
(* change as they come, are served and go.  Tickets and quota are left to  *)
(* Engine: any waiting poll may be granted, at any time.  Time is in units *)
(* of Grace, and nothing is assumed of how fast a goroutine runs.          *)
(***************************************************************************)
EXTENDS LiveView

CONSTANTS
    Calls,      \* long polls
    PollTicks,  \* 30 s
    Grace       \* 10 s

ASSUME ProcessAssumption ==
    PollTicks \in Nat \ {0} /\ Grace \in Nat \ {0} /\ "loop" \in Callers

VARIABLES
    phase,   \* serving, stopping (in Shutdown), stopped (it returned), drained, exited
    waited,  \* time since the signal, up to Grace
    call     \* each poll: [pc, left], left until its timer fires

processVars == <<stream, owed, phase, waited, call>>

Waits(c) == call[c].pc = "waiting"

(* The handler of the poll has not returned. *)
Unanswered(c) == call[c].pc \in {"waiting", "granted", "told"}

Moves(c, from, to) ==
    /\ call[c].pc \in from
    /\ call' = [call EXCEPT ![c].pc = to]
    /\ UNCHANGED <<phase, waited>>

ProcessInit ==
    /\ LiveViewInit
    /\ phase = "serving" /\ waited = 0
    /\ call = [c \in Calls |-> [pc |-> "none", left |-> PollTicks]]

-----------------------------------------------------------------------------
(* Long polls.  The listener is closed as Shutdown begins. *)

Arrive(c) == phase = "serving" /\ Moves(c, {"none"}, "waiting") /\ ChangeAndNotify

Grant(c) == Moves(c, {"waiting"}, "granted") /\ ChangeThenOwe("loop")

(* The handler takes what its channel holds: a slot, or the drain's no. *)
Answer(c) == Moves(c, {"granted", "told"}, "answered") /\ UNCHANGED viewVars

(* RemoveFromQueue is silent, and finds nothing once the item is popped. *)
Leave(c, to) ==
    \/ Moves(c, {"waiting"}, to) /\ ChangeSilently
    \/ Moves(c, {"granted", "told"}, to) /\ UNCHANGED viewVars

Timeout(c) == call[c].left = 0 /\ Leave(c, "answered")

Disconnect(c) == Leave(c, "gone")

CallStep(c) == Arrive(c) \/ Grant(c) \/ Answer(c) \/ Timeout(c) \/ Disconnect(c)

-----------------------------------------------------------------------------
(* main *)

Reach(from, to) == phase = from /\ phase' = to

(* SIGTERM or SIGINT; Shutdown closes the listener and starts to wait. *)
Signal == Reach("serving", "stopping") /\ UNCHANGED <<stream, owed, waited, call>>

(* No request is in progress. *)
AllIdle == (\A c \in Calls : ~Unanswered(c)) /\ (\A s \in Streams : ~Open(s))

\* Mutant: Shutdown without a deadline.
ShutdownPatient == Reach("stopping", "stopped") /\ AllIdle
                   /\ UNCHANGED <<stream, owed, waited, call>>

\* Mutant: Close instead of Shutdown.
ShutdownAtOnce == Reach("stopping", "stopped") /\ UNCHANGED <<stream, owed, waited, call>>

ShutdownReturns ==
    /\ Reach("stopping", "stopped")
    /\ AllIdle \/ waited = Grace
    /\ UNCHANGED <<stream, owed, waited, call>>

(* false to every item in the queue *)
DrainAll ==
    /\ Reach("stopped", "drained")
    /\ call' = [c \in Calls |-> IF Waits(c) THEN [call[c] EXCEPT !.pc = "told"] ELSE call[c]]
    /\ ChangeSilently
    /\ UNCHANGED waited

(* main returns: whatever is still running ends with it. *)
Exit ==
    /\ Reach("drained", "exited")
    /\ call' = [c \in Calls |->
                  IF Unanswered(c) THEN [call[c] EXCEPT !.pc = "cut"] ELSE call[c]]
    /\ stream' = [s \in Streams |-> Closed]
    /\ owed' = {}
    /\ UNCHANGED waited

Tick ==
    /\ call' = [c \in Calls |->
                  IF Unanswered(c) /\ call[c].left > 0
                    THEN [call[c] EXCEPT !.left = @ - 1] ELSE call[c]]
    /\ waited' = IF phase = "stopping" /\ waited < Grace THEN waited + 1 ELSE waited
    /\ UNCHANGED <<stream, owed, phase>>

-----------------------------------------------------------------------------
(* While the process runs; a change of the State with no poll in it is one *)
(* more report, round of the loop, or acquire.                             *)
Background ==
    /\ \/ ChangeAndNotify
       \/ ChangeSilently
       \/ \E g \in Callers \ {"reaper"} : ChangeThenOwe(g)
       \/ \E g \in Callers : Notify(g)
       \/ ReaperRound
    /\ UNCHANGED <<phase, waited, call>>

StreamsRun ==
    /\ \E s \in Streams : StreamStep(s) /\ (Subscribe(s) => phase = "serving")
    /\ UNCHANGED <<phase, waited, call>>

Main == Signal \/ ShutdownReturns \/ DrainAll \/ Exit

ProcessNext ==
    /\ phase # "exited"
    /\ Background \/ StreamsRun \/ (\E c \in Calls : CallStep(c)) \/ Main \/ Tick

ProcessSpec == ProcessInit /\ [][ProcessNext]_processVars

Running(A) == phase # "exited" /\ A /\ UNCHANGED <<phase, waited, call>>

(* The reaper and the streams run, the clock advances and main goes on     *)
(* once it was asked to stop; no client and no poll has to do anything.    *)
ProcessFairSpec ==
    /\ ProcessSpec
    /\ WF_processVars(Running(ReaperRound))
    /\ WF_processVars(Running(Notify("reaper")))
    /\ \A s \in Streams : /\ WF_processVars(Running(BuildAndSend(s)))
                          /\ WF_processVars(Running(TakeSignal(s)))
    /\ WF_processVars(phase # "exited" /\ Tick)
    /\ WF_processVars(ShutdownReturns \/ DrainAll \/ Exit)

-----------------------------------------------------------------------------
(* Properties *)

(* A poll is cut off without an answer only by a shutdown that has waited  *)
(* its whole grace for it.                                                 *)
GraceHonoured == \A c \in Calls : call[c].pc = "cut" => waited = Grace

(* The signal ends the process, whatever polls and panels are open and     *)
(* even if none of their handlers ever returns.                            *)
StopEnds == phase = "stopping" ~> phase = "exited"

(* "Drain waiting long-polls" (main): a poll that DrainAll has told to go  *)
(* gets to answer its client before the process is gone.                   *)
DrainAnswersWaiters ==
    [][\A c \in Calls : call[c].pc = "told" => call'[c].pc # "cut"]_processVars
=============================================================================
