----------------------------- MODULE MqttClient -----------------------------
(***************************************************************************)
(* One MQTT client from connect to stop: the reconnect loop of             *)
(* src-tauri/src/mqtt.rs, the cancellation and the coalescing emitter of   *)
(* mqtt/lifecycle.rs, and the two commands that meet it in lib.rs: the one *)
(* that shows the window again and the one that replaces the client.       *)
(*                                                                         *)
(* A state of the installation is the number of the message that made it.  *)
(***************************************************************************)
EXTENDS Naturals

CONSTANTS
    MaxMessages,  \* bound on the messages that change the state
    MaxShows,     \* bound on the times the window is shown again
    MaxKeepers    \* bound on the keepalive tasks that exist together

ASSUME ClientAssumption == {MaxMessages, MaxShows, MaxKeepers} \subseteq Nat

VARIABLES
    stopped,     \* the watch value of Shutdown
    guarded,     \* the loop is inside while_running and holds its mutex
    slot,        \* publish_command finds a broker client
    loop,        \* where the reconnect loop is
    event,       \* what the connection has handed to the loop
    keepers, orphans,   \* keepalive tasks of this connection, and of ended ones
    version,     \* the shared InverterState
    carried,     \* the snapshot the loop is emitting
    active, recent, pending, scheduled,   \* PendingState of the emitter
    sleepers,    \* flush tasks that sleep
    overslept,   \* the sleeper's own interval may end before the current one
    flushing,    \* snapshots that flush tasks have taken and not delivered
    hidden,      \* WINDOW_HIDDEN
    show, shows, seen,   \* set_window_hidden(false), its number, its snapshot
    shown,       \* the snapshot the front end received last
    stop,        \* where stop() is
    late         \* an event was delivered after stop() had returned

loopVars == <<guarded, loop, event, carried>>
keepVars == <<keepers, orphans>>
emitVars == <<active, recent, pending, scheduled>>
flushVars == <<sleepers, overslept, flushing>>
showVars == <<hidden, show, shows, seen>>
outVars == <<shown, late>>
stopVars == <<stopped, slot, stop>>
vars == <<loopVars, keepVars, emitVars, flushVars, showVars, outVars, stopVars, version>>

None == 0

Init ==
    /\ stopped = FALSE /\ guarded = FALSE /\ slot = FALSE
    /\ loop = "top" /\ event = "none" /\ carried = None
    /\ keepers = 0 /\ orphans = 0
    /\ version = 0
    /\ active = TRUE /\ recent = FALSE /\ pending = None /\ scheduled = FALSE
    /\ sleepers = 0 /\ overslept = FALSE /\ flushing = {}
    /\ hidden \in BOOLEAN /\ show = "idle" /\ shows = 0 /\ seen = None
    /\ shown = None /\ stop = "idle" /\ late = FALSE

-----------------------------------------------------------------------------
(* The emitter *)

\* An event reaches the front end.
Delivered == late' = (late \/ stop = "done")

\* Mutant: a timer task that has woken up delivers what it took.
BugDispatch(s) == shown' = s /\ Delivered

\* StateEmitter::dispatch, serialized with stop by the emitter's lock.
Dispatch(s) == IF active THEN shown' = s /\ Delivered ELSE UNCHANGED outVars

Schedule ==
    IF scheduled THEN UNCHANGED <<scheduled, sleepers>>
    ELSE scheduled' = TRUE /\ sleepers' = sleepers + 1

\* StateEmitter::queue inside the interval, and outside it or with `force'.
Coalesce(s) == pending' = s /\ Schedule /\ UNCHANGED <<active, recent, overslept>>

EmitNow ==
    /\ recent' = TRUE /\ pending' = None
    /\ overslept' = (sleepers > 0)
    /\ UNCHANGED <<active, scheduled, sleepers>>

\* StateEmitter::take_pending
TakePending ==
    /\ scheduled' = FALSE
    /\ IF active /\ pending # None
       THEN pending' = None /\ recent' = TRUE
       ELSE UNCHANGED <<pending, recent>>
    /\ UNCHANGED active

\* The flush task wakes up when the interval it was scheduled in has ended;
\* another emission may have begun a new one since.
FlushWakes ==
    /\ sleepers > 0 /\ (~recent \/ overslept)
    /\ sleepers' = sleepers - 1 /\ overslept' = FALSE
    /\ TakePending
    /\ flushing' = IF active /\ pending # None THEN flushing \cup {pending} ELSE flushing
    /\ UNCHANGED <<loopVars, keepVars, showVars, outVars, stopVars, version>>

\* It delivers its snapshot unless the window was hidden.
FlushDelivers(s) ==
    /\ s \in flushing
    /\ flushing' = flushing \ {s}
    /\ IF hidden THEN UNCHANGED outVars ELSE Dispatch(s)
    /\ UNCHANGED <<loopVars, keepVars, emitVars, sleepers, overslept, showVars, stopVars, version>>

\* EMIT_INTERVAL is over.  A task that has a snapshot in its hands delivers it
\* in less than that: the two statements follow each other.
IntervalEnds ==
    /\ recent /\ flushing = {} /\ loop # "dispatch" /\ show # "dispatch"
    /\ recent' = FALSE
    /\ UNCHANGED <<loopVars, keepVars, active, pending, scheduled, flushVars, showVars, outVars,
                   stopVars, version>>

-----------------------------------------------------------------------------
(* The reconnect loop: connect and run_mqtt_loop *)

Goto(l) == loop' = l /\ UNCHANGED <<guarded, event, carried>>
LoopOnly == UNCHANGED <<emitVars, flushVars, showVars, outVars, version>>

LoopTop ==
    /\ loop = "top"
    /\ Goto(IF stopped THEN "over" ELSE "build")
    /\ UNCHANGED <<keepVars, stopVars>> /\ LoopOnly

StoreClient ==
    IF stopped THEN Goto("ended") /\ UNCHANGED slot
    ELSE slot' = TRUE /\ Goto("subscribe")

\* The broker client is built and stored in the slot.
Build ==
    /\ loop = "build"
    /\ StoreClient
    /\ UNCHANGED <<keepVars, stopped, stop>> /\ LoopOnly

\* The subscriptions; the portal may be known already.
Subscribe ==
    /\ loop = "subscribe"
    /\ \/ Goto("run") /\ UNCHANGED keepVars
       \/ Goto("run") /\ keepers + orphans < MaxKeepers /\ keepers' = keepers + 1 /\ UNCHANGED orphans
       \/ Goto("ended") /\ UNCHANGED keepVars
    /\ UNCHANGED stopVars /\ LoopOnly

\* The next event of the connection; the flag is read for each one.
NextEvent ==
    /\ loop = "run"
    /\ IF stopped THEN Goto("end") /\ UNCHANGED keepVars
       ELSE \/ /\ event' \in {"message", "notice", "portal", "ack", "error"}
               /\ event' = "message" => version < MaxMessages
               /\ loop' = "event" /\ UNCHANGED <<guarded, carried, keepVars>>
            \/ Goto("end") /\ UNCHANGED keepVars
    /\ UNCHANGED stopVars /\ LoopOnly

\* A portal that was not active yet: its topics and another keepalive task.
DiscoverPortal ==
    /\ loop = "event" /\ event = "portal"
    /\ keepers + orphans < MaxKeepers /\ keepers' = keepers + 1
    /\ event' = "none" /\ loop' = "run" /\ UNCHANGED <<guarded, carried, orphans>>
    /\ UNCHANGED stopVars /\ LoopOnly

\* The portal that is already active is ignored.
KnownPortal ==
    /\ loop = "event" /\ event = "portal"
    /\ event' = "none" /\ loop' = "run" /\ UNCHANGED <<guarded, carried, keepVars>>
    /\ UNCHANGED stopVars /\ LoopOnly

\* while_running: the flag is read under the mutex that stop() takes.
Enter ==
    /\ loop = "event" /\ event \in {"message", "notice", "ack", "error"}
    /\ IF stopped
       THEN /\ loop' = IF event = "error" THEN "ended" ELSE "run"
            /\ event' = "none" /\ UNCHANGED <<guarded, carried>>
       ELSE /\ guarded' = TRUE /\ UNCHANGED <<event, carried>>
            /\ loop' = IF event = "message" THEN "apply" ELSE "tell"
    /\ UNCHANGED <<keepVars, stopVars>> /\ LoopOnly

\* A notification or the connection status is emitted inside while_running.
Tell ==
    /\ loop = "tell" /\ guarded
    /\ Delivered /\ UNCHANGED shown
    /\ guarded' = FALSE /\ event' = "none" /\ UNCHANGED carried
    /\ loop' = CASE event \in {"error", "eof"} -> "ended"
                 [] event = "status" -> "backoff"
                 [] OTHER -> "run"
    /\ UNCHANGED <<keepVars, emitVars, flushVars, showVars, stopVars, version>>

\* handle_message changes the shared state and copies it.
Apply ==
    /\ loop = "apply"
    /\ version' = version + 1 /\ carried' = version'
    /\ loop' = "emit" /\ UNCHANGED <<guarded, event>>
    /\ UNCHANGED <<keepVars, emitVars, flushVars, showVars, outVars, stopVars>>

\* StateEmitter::emit reads WINDOW_HIDDEN first.
Emit ==
    /\ loop = "emit"
    /\ Goto(IF hidden THEN "drop" ELSE "queue")
    /\ UNCHANGED <<keepVars, stopVars>> /\ LoopOnly

Leave == guarded' = FALSE /\ event' = "none" /\ carried' = None /\ loop' = "run"

\* While the window is hidden nothing is kept.
Drop ==
    /\ loop = "drop"
    /\ pending' = None /\ Leave
    /\ UNCHANGED <<keepVars, active, recent, scheduled, flushVars, showVars, outVars, stopVars, version>>

QueueMessage ==
    /\ loop = "queue"
    /\ \/ ~active /\ Leave /\ UNCHANGED <<emitVars, sleepers, overslept>>
       \/ active /\ recent /\ Coalesce(carried) /\ Leave
       \/ active /\ ~recent /\ EmitNow /\ Goto("dispatch")
    /\ UNCHANGED <<keepVars, flushing, showVars, outVars, stopVars, version>>

DispatchMessage ==
    /\ loop = "dispatch"
    /\ Dispatch(carried) /\ Leave
    /\ UNCHANGED <<keepVars, emitVars, flushVars, showVars, stopVars, version>>

\* The loop over the events was left: a last status unless stopped.
EventsEnd ==
    /\ loop = "end"
    /\ IF stopped THEN Goto("ended")
       ELSE loop' = "tell" /\ guarded' = TRUE /\ event' = "eof" /\ UNCHANGED carried
    /\ UNCHANGED <<keepVars, stopVars>> /\ LoopOnly

\* CancelOnDrop when run_mqtt_loop returns.
CancelChildren == orphans' = orphans + keepers /\ keepers' = 0

Ended ==
    /\ loop = "ended"
    /\ Goto(IF stopped THEN "over" ELSE "clear")
    /\ CancelChildren
    /\ UNCHANGED stopVars /\ LoopOnly

\* The slot and the stamp of the ESS mode are cleared, the status is emitted.
ClearSlot ==
    /\ loop = "clear"
    /\ slot' = FALSE
    /\ Goto("status")
    /\ UNCHANGED <<keepVars, stopped, stop>> /\ LoopOnly

EnterStatus ==
    /\ loop = "status"
    /\ IF stopped THEN Goto("backoff")
       ELSE loop' = "tell" /\ guarded' = TRUE /\ event' = "status" /\ UNCHANGED carried
    /\ UNCHANGED <<keepVars, stopVars>> /\ LoopOnly

\* select!: the delay is over, or the session is cancelled.
Backoff ==
    /\ loop = "backoff"
    /\ \/ Goto("top")
       \/ stopped /\ Goto("over")
    /\ UNCHANGED <<keepVars, stopVars>> /\ LoopOnly

\* Mutant: a task whose connection has ended is not told.
BugKeeperCancelled ==
    /\ stopped /\ keepers > 0 /\ keepers' = keepers - 1
    /\ UNCHANGED <<orphans, loopVars, emitVars, flushVars, showVars, outVars, stopVars, version>>

\* A keepalive task sees that its session or its connection was cancelled.
KeeperCancelled ==
    /\ \/ stopped /\ keepers > 0 /\ keepers' = keepers - 1 /\ UNCHANGED orphans
       \/ orphans > 0 /\ orphans' = orphans - 1 /\ UNCHANGED keepers
    /\ UNCHANGED <<loopVars, emitVars, flushVars, showVars, outVars, stopVars, version>>

\* It cannot publish: the queue is full.
KeeperFails ==
    /\ keepers > 0 /\ keepers' = keepers - 1
    /\ UNCHANGED <<orphans, loopVars, emitVars, flushVars, showVars, outVars, stopVars, version>>

-----------------------------------------------------------------------------
(* set_window_hidden *)

Hide ==
    /\ show = "idle" /\ ~hidden
    /\ hidden' = TRUE
    /\ UNCHANGED <<show, shows, seen, loopVars, keepVars, emitVars, flushVars, outVars, stopVars, version>>

Show ==
    /\ show = "idle" /\ hidden /\ shows < MaxShows
    /\ hidden' = FALSE /\ show' = "lock" /\ shows' = shows + 1 /\ UNCHANGED seen
    /\ UNCHANGED <<loopVars, keepVars, emitVars, flushVars, outVars, stopVars, version>>

ShowTo(p) == show' = p /\ UNCHANGED <<hidden, shows>>
ShowKeeps == UNCHANGED <<loopVars, keepVars, stopVars, version>>

\* The MqttState mutex is held from here on; a client that is being stopped is
\* not in it any more.  get_state copies the state.
ReadState ==
    /\ show = "lock"
    /\ IF stop = "idle" THEN ShowTo("queue") /\ seen' = version ELSE ShowTo("idle") /\ UNCHANGED seen
    /\ ShowKeeps /\ UNCHANGED <<emitVars, flushVars, outVars>>

\* emit with force; the same thread hides the window, so it is still visible.
QueueShown ==
    /\ show = "queue"
    /\ \/ active /\ EmitNow /\ ShowTo("dispatch") /\ UNCHANGED seen
       \/ ~active /\ ShowTo("idle") /\ seen' = None /\ UNCHANGED <<emitVars, sleepers, overslept>>
    /\ ShowKeeps /\ UNCHANGED <<flushing, outVars>>

DispatchShown ==
    /\ show = "dispatch"
    /\ Dispatch(seen) /\ ShowTo("idle") /\ seen' = None
    /\ ShowKeeps /\ UNCHANGED <<emitVars, flushVars>>

-----------------------------------------------------------------------------
(* stop(), called with the MqttState mutex held *)

\* The mutexes of MqttState and of while_running are free.
Raise == stop = "idle" /\ show \notin {"queue", "dispatch"} /\ ~guarded

\* Shutdown::stop
StopFlag ==
    /\ Raise
    /\ stopped' = TRUE /\ stop' = "emitter" /\ UNCHANGED slot
    /\ UNCHANGED <<loopVars, keepVars, emitVars, flushVars, showVars, outVars, version>>

\* StateEmitter::stop
StopEmitter ==
    /\ stop = "emitter"
    /\ active' = FALSE /\ pending' = None /\ stop' = "slot"
    /\ UNCHANGED <<loopVars, keepVars, recent, scheduled, flushVars, showVars, outVars, stopped, slot, version>>

\* The broker client is taken out of the slot and disconnected.
StopSlot ==
    /\ stop = "slot"
    /\ slot' = FALSE /\ stop' = "done" /\ UNCHANGED stopped
    /\ UNCHANGED <<loopVars, keepVars, emitVars, flushVars, showVars, outVars, version>>

-----------------------------------------------------------------------------
Loop ==
    \/ LoopTop \/ Build \/ Subscribe \/ NextEvent \/ DiscoverPortal \/ KnownPortal \/ Enter \/ Tell
    \/ Apply \/ Emit \/ Drop \/ QueueMessage \/ DispatchMessage \/ EventsEnd \/ Ended \/ ClearSlot
    \/ EnterStatus \/ Backoff

Flush == FlushWakes \/ \E s \in 1 .. MaxMessages : FlushDelivers(s)

Window == Hide \/ Show \/ ReadState \/ QueueShown \/ DispatchShown

Stop == StopFlag \/ StopEmitter \/ StopSlot

Next == Loop \/ Flush \/ Window \/ Stop \/ IntervalEnds \/ KeeperCancelled \/ KeeperFails

Spec == Init /\ [][Next]_vars

\* The tasks are polled, time passes, a connection that was disconnected yields an event,
\* and stop() runs to its end once it has begun.
Fairness ==
    /\ WF_vars(Loop) /\ WF_vars(Flush) /\ WF_vars(IntervalEnds) /\ WF_vars(KeeperCancelled)
    /\ WF_vars(StopEmitter) /\ WF_vars(StopSlot)

FairSpec == Spec /\ Fairness

-----------------------------------------------------------------------------
(* Properties *)

\* A burst schedules at most one flush, whatever forces an emission meanwhile.
TypeOK ==
    /\ {stopped, guarded, slot, active, recent, scheduled, overslept, hidden, late} \subseteq BOOLEAN
    /\ loop \in {"top", "build", "subscribe", "run", "event", "tell", "apply", "emit", "drop", "queue",
                 "dispatch", "end", "ended", "clear", "status", "backoff", "over"}
    /\ event \in {"none", "message", "notice", "portal", "ack", "error", "eof", "status"}
    /\ {version, carried, pending, seen, shown} \subseteq 0 .. MaxMessages
    /\ flushing \subseteq 1 .. MaxMessages
    /\ keepers \in 0 .. MaxKeepers /\ orphans \in 0 .. MaxKeepers
    /\ sleepers \in 0 .. 1
    /\ show \in {"idle", "lock", "queue", "dispatch"} /\ shows \in 0 .. MaxShows
    /\ stop \in {"idle", "emitter", "slot", "done"}

\* When stop() has returned, nothing of this client reaches the front end:
\* neither an event of the loop, nor a flush that was already awake.  Nor can it
\* publish: the reconnect loop does not put a broker client into the slot that
\* stop() has emptied.
SilentAfterStop == ~late /\ (stop = "done" => ~slot)

Quiet ==
    /\ loop \notin {"emit", "drop", "queue", "dispatch"}
    /\ sleepers = 0 /\ flushing = {} /\ show = "idle"

\* When nothing is on its way, a visible window has the newest snapshot.
NewestIsShown == Quiet /\ stop = "idle" /\ ~hidden /\ version > 0 => shown = version

\* A burst ends with its newest snapshot in a window that was not hidden meanwhile:
\* what the emitter keeps back, it delivers by its one scheduled flush.
BurstEndsNewest == shows = 0 => NewestIsShown

\* What the front end gets of this client: nothing after stop, and of a burst the newest.
StreamIsTrue == TypeOK /\ SilentAfterStop /\ BurstEndsNewest

\* After stop the reconnect loop and every keepalive task end.
StoppedTasksEnd == stop = "done" ~> (loop = "over" /\ keepers + orphans = 0 /\ sleepers = 0)
=============================================================================
