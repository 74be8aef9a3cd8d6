------------------------------ MODULE LiveView ------------------------------
(***************************************************************************)
(* The Notifier and the dashboard's event streams.  A stream is a goroutine *)
(* of serveEvents: it subscribes, shows the State as it finds it, and shows *)
(* it again for every signal it takes.  What the panel shows is reduced to  *)
(* whether it is what the State is now, and the code that changes the State *)
(* to the three ways in which it tells the Notifier:                        *)
(*   - at once, under the State mutex (TryAcquire);                         *)
(*   - after it has unlocked the State (the reaper, the dispatch loop, the  *)
(*     handling of a report);                                               *)
(*   - not at all (RemoveFromQueue, the roll of a window by an acquire that *)
(*     is then turned away, DrainAll).                                      *)
(* buildLiveState takes the State mutex, so a stream sees a change whole.   *)
(***************************************************************************)
EXTENDS Naturals

CONSTANTS
    Streams,    \* event streams that may be open (bound)
    SignalCap,  \* capacity of a subscriber's channel
    Callers     \* goroutines that call Notify after unlocking, the reaper among them

ASSUME LiveViewAssumption == SignalCap \in Nat \ {0} /\ "reaper" \in Callers

VARIABLES
    stream,   \* each stream: [pc, signals, current, unannounced]
    owed      \* the callers that have unlocked the State and not yet notified

viewVars == <<stream, owed>>

(* A stream without a signal that has nothing unannounced to show. *)
Blank(pc, current) ==
    [pc |-> pc, signals |-> 0, current |-> current, unannounced |-> FALSE]

Closed == Blank("closed", TRUE)

Open(s) == stream[s].pc # "closed"

LiveViewInit == stream = [s \in Streams |-> Closed] /\ owed = {}

-----------------------------------------------------------------------------
(* What a change of the State, and a Notify, do to the streams *)

Outdated(v, announced) ==
    [s \in Streams |->
        IF v[s].pc = "closed" THEN v[s]
        ELSE [v[s] EXCEPT !.current = FALSE, !.unannounced = @ \/ ~announced]]

\* Mutant: the broadcast stops at the first subscriber that is full.
SignalledInTurn(v) ==
    IF \E s \in Streams : v[s].signals = SignalCap THEN v
    ELSE [s \in Streams |->
            IF v[s].pc = "closed" THEN v[s] ELSE [v[s] EXCEPT !.signals = @ + 1]]

(* Notify: a subscriber that is full misses this one. *)
Signalled(v) ==
    [s \in Streams |->
        IF v[s].pc = "closed" \/ v[s].signals = SignalCap THEN v[s]
        ELSE [v[s] EXCEPT !.signals = @ + 1]]

ChangeAndNotify == stream' = Signalled(Outdated(stream, TRUE)) /\ UNCHANGED owed

ChangeThenOwe(g) ==
    /\ stream' = Outdated(stream, TRUE)
    /\ owed' = owed \cup {g}

ChangeSilently == stream' = Outdated(stream, FALSE) /\ UNCHANGED owed

Notify(g) ==
    /\ g \in owed
    /\ stream' = Signalled(stream)
    /\ owed' = owed \ {g}

\* Mutant: the reaper leaves the panels alone.
ReaperForgets == ChangeSilently \/ UNCHANGED viewVars

(* Every round of the reaper notifies, whether or not it reaps. *)
ReaperRound ==
    /\ "reaper" \notin owed
    /\ ChangeThenOwe("reaper") \/ (owed' = owed \cup {"reaper"} /\ UNCHANGED stream)

-----------------------------------------------------------------------------
(* serveEvents.  The heartbeat shows nothing and is left out. *)

Subscribe(s) ==
    /\ ~Open(s)
    /\ stream' = [stream EXCEPT ![s] = Blank("build", FALSE)]
    /\ UNCHANGED owed

BuildAndSend(s) ==
    /\ stream[s].pc = "build"
    /\ stream' = [stream EXCEPT ![s].pc = "select", ![s].current = TRUE,
                                ![s].unannounced = FALSE]
    /\ UNCHANGED owed

TakeSignal(s) ==
    /\ stream[s].pc = "select" /\ stream[s].signals > 0
    /\ stream' = [stream EXCEPT ![s].pc = "build", ![s].signals = @ - 1]
    /\ UNCHANGED owed

(* The client leaves, or the server's 40 s for one response are over. *)
Unsubscribe(s) ==
    /\ stream[s].pc = "select"
    /\ stream' = [stream EXCEPT ![s] = Closed]
    /\ UNCHANGED owed

StreamStep(s) == Subscribe(s) \/ BuildAndSend(s) \/ TakeSignal(s) \/ Unsubscribe(s)

-----------------------------------------------------------------------------
(* Properties *)

(* A panel that shows an outdated State will be refreshed: a signal is     *)
(* waiting for it, or a goroutine that changed the State is about to send  *)
(* one - unless the code path changed the State without telling anybody.   *)
(* A signal dropped at a full channel, a subscription that races a change, *)
(* and a change made while the panel is being written are all harmless.    *)
StaleIsAnnounced ==
    \A s \in Streams :
        stream[s].pc = "select" /\ ~stream[s].current =>
            stream[s].signals > 0 \/ owed # {} \/ stream[s].unannounced

(* "The channel receives a value whenever Notify is called" (Subscribe),   *)
(* and the reaper calls it every second: whatever is changed silently or   *)
(* signalled into a full channel, an open panel shows the State as it is   *)
(* again and again.                                                        *)
ViewCatchesUp == \A s \in Streams : []<>(Open(s) => stream[s].current)
=============================================================================
