-------------------------- MODULE InverterCommands --------------------------
(***************************************************************************)
(* The controls of the inverter (src-tauri/src/lib.rs, gateway.rs,         *)
(* gateway_actions.rs, inverter_control.rs, the commands of mqtt.rs): a    *)
(* request is checked against fresh telemetry, written at most once, over  *)
(* the transport that was active when it started, and an override is       *)
(* confirmed by the controller's answer to this request. The controller    *)
(* and the queue in front of it are external: it may be away, other        *)
(* clients use it too, a write may be lost or, over MQTT, delivered twice. *)
(***************************************************************************)
EXTENDS Naturals, Sequences

CONSTANTS
    Request,    \* the requests of this application, each with its own request id
    Other,      \* the request id of another client
    MaxChanges  \* bound on what the controller, its clients and the links do on their own

VARIABLES
    transport,  \* the occupied slot: "mqtt", "gateway" or "none"
    session,    \* the connection; a reconnect begins another one
    ctrl,       \* the controller: its flag, the override and the request it answered last
    inbox,      \* writes on their way to the controller
    view,       \* what the MQTT client holds of the controller's telemetry
    shown,      \* what the gateway poller shows of it
    req,        \* the requests
    writes,     \* how often each request was written
    applied,    \* the overrides the controller carried out
    changes

vars == <<transport, session, ctrl, inbox, view, shown, req, writes, applied, changes>>
-----------------------------------------------------------------------------
None == {}
Value == {0, 1}                \* an override in watts, a flag, a mode
Kind == {"override", "toggle", "flip", "ess", "cycle", "tariff", "water"}
NoStatus == [value |-> 0, id |-> None, error |-> FALSE]
Fresh == [at |-> "idle", via |-> "none", session |-> 0, kind |-> "override", value |-> 0]

Init ==
    /\ transport \in {"mqtt", "gateway"}
    /\ session = 0
    /\ ctrl = [up |-> TRUE, flag |-> 0, status |-> NoStatus]
    /\ inbox = <<>>
    /\ view = [flag |-> None, status |-> None, ess |-> "unknown"]
    /\ shown = [flag |-> None, status |-> None, cached |-> FALSE]
    /\ req = [r \in Request |-> Fresh]
    /\ writes = [r \in Request |-> 0]
    /\ applied = {}
    /\ changes = 0

EnsureActive(r) == req[r].session = session /\ transport = "gateway"
Goto(r, at) == req' = [req EXCEPT ![r].at = at]
\* One write: it is queued, or refused, or queued although its answer is lost.
Queued(r, v) ==
    /\ inbox' = Append(inbox, [id |-> r, kind |-> req[r].kind, value |-> v, via |-> req[r].via])
    /\ writes' = [writes EXCEPT ![r] = @ + 1]
-----------------------------------------------------------------------------
(* perform_action and set_setpoint_override: the transport is the slot that is taken. *)

\* Malformed payloads and entities that are not flags are refused before any transport.
Begin(r, kind, v) ==
    /\ req[r].at = "idle"
    /\ req' = [req EXCEPT ![r] = [at |-> IF transport = "none" THEN "refused" ELSE "start",
                                  via |-> transport, session |-> session, kind |-> kind, value |-> v]]
    /\ UNCHANGED <<transport, session, ctrl, inbox, view, shown, writes, applied, changes>>

\* Writes that carry their whole value need no reading first.
NeedsSnapshot(kind) == kind \in {"override", "flip", "ess", "tariff", "water"}

\* What a snapshot must say before the write: the capability, and a controller that is up.
\* A toggle without a state writes the opposite of the flag that was read, an absolute value.
Snapshot(r) ==
    /\ req[r].at = "start" /\ req[r].via = "gateway" /\ NeedsSnapshot(req[r].kind)
    /\ \/ ~EnsureActive(r) /\ Goto(r, "refused")
       \/ EnsureActive(r) /\ Goto(r, "refused")                   \* the read failed
       \/ /\ EnsureActive(r)
          /\ req' = IF ctrl.up
                    THEN [req EXCEPT ![r].at = "write",
                                     ![r].value = IF req[r].kind = "flip" THEN 1 - ctrl.flag ELSE @]
                    ELSE [req EXCEPT ![r].at = "refused"]
    /\ UNCHANGED <<transport, session, ctrl, inbox, view, shown, writes, applied, changes>>

NoSnapshot(r) ==
    /\ req[r].at = "start" /\ req[r].via = "gateway" /\ ~NeedsSnapshot(req[r].kind)
    /\ Goto(r, "write")
    /\ UNCHANGED <<transport, session, ctrl, inbox, view, shown, writes, applied, changes>>

AfterWrite(r) == IF req[r].kind = "override" THEN "confirm" ELSE "ok"

\* post_command: never repeated, whatever became of the answer.
Post(r) ==
    /\ req[r].at = "write" /\ req[r].via = "gateway"
    /\ \/ ~EnsureActive(r) /\ Goto(r, "refused") /\ UNCHANGED <<inbox, writes>>
       \/ EnsureActive(r) /\ Queued(r, req[r].value) /\ Goto(r, AfterWrite(r))
       \/ EnsureActive(r) /\ Queued(r, req[r].value) /\ Goto(r, "failed")
       \/ EnsureActive(r) /\ Goto(r, "failed") /\ UNCHANGED <<inbox, writes>>
    /\ UNCHANGED <<transport, session, ctrl, view, shown, applied, changes>>

\* The answer to this request: an error, another value, or the confirmation.
Verdict(r, status) ==
    IF status.error \/ status.value # req[r].value THEN "failed" ELSE "ok"

\* Mutant: the confirmation compares the value and not the request id.
ConfirmByValue(r) ==
    /\ req[r].at = "confirm" /\ req[r].via = "gateway"
    /\ EnsureActive(r) /\ ctrl.up /\ ctrl.status.value = req[r].value
    /\ Goto(r, Verdict(r, ctrl.status))
    /\ UNCHANGED <<transport, session, ctrl, inbox, view, shown, writes, applied, changes>>

Confirm(r) ==
    /\ req[r].at = "confirm" /\ req[r].via = "gateway"
    /\ \/ (~EnsureActive(r) \/ ~ctrl.up) /\ Goto(r, "failed")
       \/ /\ EnsureActive(r) /\ ctrl.up /\ ctrl.status.id = {r}
          /\ Goto(r, Verdict(r, ctrl.status))
    /\ UNCHANGED <<transport, session, ctrl, inbox, view, shown, writes, applied, changes>>

Deadline(r) ==
    /\ req[r].kind = "override"
    /\ \/ req[r].at = "confirm"
       \/ req[r].via = "gateway" /\ req[r].at \in {"start", "write"}
    /\ Goto(r, "failed")
    /\ UNCHANGED <<transport, session, ctrl, inbox, view, shown, writes, applied, changes>>
-----------------------------------------------------------------------------
(* The same requests over MQTT. *)

\* publish_command, request_setpoint_override, set_water_mode: an override needs a known
\* status, an ESS mode one that was observed live and lately; a flag never seen counts as off.
MayPublish(r) ==
    /\ transport = "mqtt" /\ req[r].session = session
    /\ req[r].kind = "override" => view.status # None
    /\ req[r].kind = "ess" => view.ess = "live"

Published(r) == IF req[r].kind = "flip" THEN IF view.flag = {1} THEN 0 ELSE 1 ELSE req[r].value

Publish(r) ==
    /\ req[r].at = "start" /\ req[r].via = "mqtt"
    /\ \/ MayPublish(r) /\ Queued(r, Published(r)) /\ Goto(r, AfterWrite(r))
       \/ Goto(r, "refused") /\ UNCHANGED <<inbox, writes>>    \* not allowed, or the client is full
    /\ UNCHANGED <<transport, session, ctrl, view, shown, applied, changes>>

\* The confirmation is awaited in the state of the client that took the write.
ConfirmMqtt(r) ==
    /\ req[r].at = "confirm" /\ req[r].via = "mqtt" /\ req[r].session = session
    /\ \E s \in view.status : s.id = {r} /\ Goto(r, IF s.error THEN "failed" ELSE "ok")
    /\ UNCHANGED <<transport, session, ctrl, inbox, view, shown, writes, applied, changes>>
-----------------------------------------------------------------------------
(* The controller, its telemetry and the connections. *)
OnItsOwn == changes < MaxChanges /\ changes' = changes + 1

\* An override is answered with its request id, as carried out or as an error.
Execute ==
    /\ inbox # <<>> /\ ctrl.up
    /\ LET c == Head(inbox) IN
       \E error \in BOOLEAN :
          /\ error => c.kind = "override"
          /\ ctrl' = CASE c.kind = "override" ->
                            [ctrl EXCEPT !.status = [value |-> IF error THEN @.value ELSE c.value,
                                                     id |-> {c.id}, error |-> error]]
                       [] c.kind \in {"toggle", "flip"} -> [ctrl EXCEPT !.flag = c.value]
                       [] OTHER -> ctrl
          /\ applied' = applied \cup (IF c.kind = "override" /\ ~error THEN {<<c.id, c.value>>} ELSE {})
          /\ \/ inbox' = Tail(inbox) /\ UNCHANGED changes
             \/ c.via = "mqtt" /\ c.kind \notin {"override", "ess"} /\ OnItsOwn /\ UNCHANGED inbox
    /\ UNCHANGED <<transport, session, view, shown, req, writes>>

Lose ==
    /\ inbox # <<>> /\ OnItsOwn /\ inbox' = Tail(inbox)
    /\ UNCHANGED <<transport, session, ctrl, view, shown, req, writes, applied>>

OtherClient ==
    /\ OnItsOwn
    /\ \E v \in Value : \/ ctrl' = [ctrl EXCEPT !.status = [value |-> v, id |-> {Other}, error |-> FALSE]]
                        \/ ctrl' = [ctrl EXCEPT !.flag = v]
                        \/ ctrl' = [ctrl EXCEPT !.up = ~@]
    /\ UNCHANGED <<transport, session, inbox, view, shown, req, writes, applied>>

\* One of the daemon's topics, live or retained. A retained mode carries no observation time.
Telemetry ==
    /\ transport = "mqtt" /\ ctrl.up
    /\ \/ view' = [view EXCEPT !.status = {ctrl.status}]
       \/ view' = [view EXCEPT !.flag = {ctrl.flag}]
       \/ view' = [view EXCEPT !.ess = "live"]
       \/ view' = [view EXCEPT !.ess = "retained"]
    /\ UNCHANGED <<transport, session, ctrl, inbox, shown, req, writes, applied, changes>>

\* The observation grows older than the command accepts.
EssExpires ==
    /\ view.ess = "live" /\ view' = [view EXCEPT !.ess = "old"]
    /\ UNCHANGED <<transport, session, ctrl, inbox, shown, req, writes, applied, changes>>

\* A poll replaces what is shown of the controller; a failed one withdraws its controls.
PollOk ==
    /\ transport = "gateway"
    /\ shown' = IF ctrl.up THEN [flag |-> {ctrl.flag}, status |-> {ctrl.status}, cached |-> FALSE]
                ELSE [flag |-> None, status |-> None, cached |-> FALSE]
    /\ UNCHANGED <<transport, session, ctrl, inbox, view, req, writes, applied, changes>>

PollFails ==
    /\ transport = "gateway"
    /\ shown' = [flag |-> None, status |-> None, cached |-> TRUE]
    /\ UNCHANGED <<transport, session, ctrl, inbox, view, req, writes, applied, changes>>

Reconnect ==
    /\ OnItsOwn
    /\ transport' \in {"mqtt", "gateway", "none"}
    /\ session' = session + 1
    /\ view' = [flag |-> None, status |-> None, ess |-> "unknown"]
    /\ shown' = [flag |-> None, status |-> None, cached |-> FALSE]
    /\ UNCHANGED <<ctrl, inbox, req, writes, applied>>

Next ==
    \/ \E r \in Request : \/ \E kind \in Kind, v \in Value : Begin(r, kind, v)
                          \/ Snapshot(r) \/ NoSnapshot(r) \/ Post(r) \/ Confirm(r) \/ Deadline(r)
                          \/ Publish(r) \/ ConfirmMqtt(r)
    \/ Execute \/ Lose \/ OtherClient \/ Telemetry \/ EssExpires
    \/ PollOk \/ PollFails \/ Reconnect

Spec == Init /\ [][Next]_vars
-----------------------------------------------------------------------------
\* An override is reported as set only when the controller carried out this very request
\* with this value, whatever other clients, lost answers and reconnects did meanwhile.
ConfirmedMeansApplied ==
    \A r \in Request : req[r].kind = "override" /\ req[r].at = "ok" => <<r, req[r].value>> \in applied

\* A request is written at most once, also when its answer is lost, and one reported as
\* refused was not written at all.
WrittenAtMostOnce ==
    \A r \in Request : writes[r] <= 1 /\ (req[r].at = "refused" => writes[r] = 0)

\* Both together: the outcome told of a command is what happened to it.
CommandsAreTrue == ConfirmedMeansApplied /\ WrittenAtMostOnce
=============================================================================
