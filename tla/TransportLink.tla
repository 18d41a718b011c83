--------------------------- MODULE TransportLink ---------------------------
(***************************************************************************)
(* Which transport shows the installation: the front end's                 *)
(* src/composables/useConnection.ts with transportSession.ts and           *)
(* connectionPolicy.ts, against the native commands connect_mqtt,          *)
(* connect_gateway and disconnect_inverter of src-tauri/src/lib.rs.        *)
(*                                                                         *)
(* Every replacement of the transport has a token, which its client puts   *)
(* into its events.  The composable has one owner, so an attempt is        *)
(* current exactly while its token is: a flow that lost its token returns  *)
(* at its next await without an effect and is dropped here at once, and so *)
(* is a command that still waits for its turn.  A token nobody holds any   *)
(* more stands for a fresh one.                                            *)
(***************************************************************************)
EXTENDS Naturals, Sequences, FiniteSetsExt

CONSTANTS
    Configs,      \* the sets of transports that may be configured
    Failing,      \* the calls that may fail: "config", "mqtt", "igw"
    PromptBroker, \* a reachable broker acknowledges before the watchdog fires
    MaxToken,     \* bound on the tokens held at the same time
    MaxSaves,     \* bound on the configurations saved
    MaxWakes,     \* bound on the wake-ups that reconnect
    MaxChanges,   \* bound on the changes of reachability
    MaxEvents     \* bound on the events on their way to the front end

ASSUME LinkAssumption ==
    /\ Configs \subseteq SUBSET {"mqtt", "igw"} /\ Failing \subseteq {"config", "mqtt", "igw"}
    /\ PromptBroker \in BOOLEAN
    /\ {MaxToken, MaxSaves, MaxWakes, MaxChanges, MaxEvents} \subseteq Nat
    /\ MaxToken > MaxEvents + 7   \* more tokens than places that can hold one

VARIABLES
    mqttUp, igwUp, changes,    \* what is reachable
    cfg, saves, due,           \* the configuration; connectMqtt is to be called
    token, active, enabled, dual, focusable, wakes,
    source, connected,         \* dataSource and mqttConnected
    offline, watchdog, reconnect, recovery,   \* timers; the interval has a token
    flow, probe,               \* the current attempt, and the recovery probe
    queued, running,           \* transportOperations
    mq, mqLink, gw, gwLink,    \* the native slots and what their clients reported
    ghost,                     \* a stopped poller that is still inside a batch
    events

worldVars == <<mqttUp, igwUp, changes>>
cfgVars == <<cfg, saves, due>>
sessVars == <<token, active, enabled, dual, focusable, wakes>>
viewVars == <<source, connected>>
timerVars == <<offline, watchdog, reconnect, recovery>>
taskVars == <<flow, probe>>
opVars == <<queued, running>>
nativeVars == <<mq, mqLink, gw, gwLink, ghost>>
vars == <<worldVars, cfgVars, sessVars, viewVars, timerVars, taskVars, opVars, nativeVars, events>>

NoToken == 0
NoFlow == [kind |-> "none", at |-> "none", cfg |-> {}]
NoProbe == [at |-> "none", tok |-> NoToken]
NoCommand == [cmd |-> "none", tok |-> NoToken, at |-> "none"]

Init ==
    /\ mqttUp \in BOOLEAN /\ igwUp \in BOOLEAN /\ changes = 0
    /\ cfg \in Configs /\ saves = 0 /\ due = TRUE
    /\ token = NoToken /\ active = FALSE /\ enabled = FALSE /\ dual = FALSE /\ focusable = FALSE
    /\ wakes = 0
    /\ source = "mqtt" /\ connected = FALSE
    /\ offline = FALSE /\ watchdog = FALSE /\ reconnect = FALSE /\ recovery = NoToken
    /\ flow = NoFlow /\ probe = NoProbe
    /\ queued = "none" /\ running = NoCommand
    /\ mq = NoToken /\ mqLink = FALSE /\ gw = NoToken /\ gwLink = FALSE /\ ghost = NoToken
    /\ events = <<>>

Held ==
    {token, recovery, probe.tok, running.tok, mq, gw, ghost} \cup {events[i].tok : i \in DOMAIN events}

\* transportIsOwned
Owned == enabled /\ token # NoToken

\* reserveTransportSession: an identity that no client, event or timer has.
Reserve ==
    /\ (1 .. MaxToken) \ Held # {}
    /\ token' = Min((1 .. MaxToken) \ Held)
    /\ active' = FALSE

\* beginTransportReplacement: the recovery interval goes on under its old token.
Begin ==
    /\ Reserve
    /\ offline' = FALSE /\ watchdog' = FALSE /\ reconnect' = FALSE
    /\ queued' = "none"

-----------------------------------------------------------------------------
(* connectMqtt *)

\* cleanup, and the first attempt.
ConnectMqtt ==
    /\ Begin
    /\ enabled' = FALSE /\ focusable' = FALSE
    /\ recovery' = NoToken /\ probe' = NoProbe
    /\ flow' = [kind |-> "connect", at |-> "config", cfg |-> {}]
    /\ UNCHANGED <<dual, running, viewVars, nativeVars, events, worldVars>>

\* The application starts, or a configuration was saved.
CallConnect ==
    /\ due /\ due' = FALSE
    /\ ConnectMqtt
    /\ UNCHANGED <<cfg, saves, wakes>>

SaveConfig(c) ==
    /\ saves < MaxSaves /\ saves' = saves + 1
    /\ c \in Configs /\ cfg' = c /\ due' = TRUE
    /\ UNCHANGED <<worldVars, sessVars, viewVars, timerVars, taskVars, opVars, nativeVars, events>>

FlowAt(k, a) == flow.kind = k /\ flow.at = a
FlowTo(a) == flow' = [flow EXCEPT !.at = a]

Outside == UNCHANGED <<worldVars, cfgVars, nativeVars, events>>

\* getAppConfig resolves: applyConnectionConfig, and the listeners.
ConfigLoaded ==
    /\ FlowAt("connect", "config")
    /\ enabled' = (cfg # {})
    /\ dual' = (cfg = {"mqtt", "igw"})
    /\ flow' = [flow EXCEPT !.at = IF dual' THEN "probe" ELSE "start", !.cfg = cfg]
    /\ UNCHANGED <<token, active, focusable, wakes, viewVars, timerVars, probe, opVars>> /\ Outside

\* It fails: the error is logged and nothing is scheduled.
ConfigFails ==
    /\ FlowAt("connect", "config") /\ "config" \in Failing
    /\ connected' = FALSE /\ flow' = NoFlow
    /\ UNCHANGED <<sessVars, source, timerVars, probe, opVars>> /\ Outside

\* startMqtt and startIgw up to the invocation.
StartMqtt ==
    /\ source' = "mqtt" /\ connected' = FALSE
    /\ queued' = "mqtt"

StartIgw ==
    /\ source' = "igw" /\ connected' = FALSE
    /\ queued' = "igw"

\* chooseStartupSource
Startup(reachable) ==
    IF flow.cfg = {"mqtt", "igw"} THEN IF reachable THEN "mqtt" ELSE "igw"
    ELSE IF "mqtt" \in flow.cfg THEN "mqtt"
    ELSE IF "igw" \in flow.cfg THEN "igw"
    ELSE "none"

\* startSelectedTransport; stopMqttRecoveryProbe comes first.
StartSelected ==
    /\ FlowAt("connect", "probe") \/ FlowAt("connect", "start")
    /\ recovery' = NoToken
    /\ CASE Startup(mqttUp) = "mqtt" -> StartMqtt /\ FlowTo("mqtt") /\ UNCHANGED watchdog
         [] Startup(mqttUp) = "igw" -> StartIgw /\ FlowTo("igw") /\ watchdog' = FALSE
         [] OTHER -> /\ source' = "mqtt" /\ connected' = FALSE
                     /\ queued' = "disconnect" /\ FlowTo("disconnect") /\ UNCHANGED watchdog
    /\ UNCHANGED <<sessVars, offline, reconnect, probe, running>> /\ Outside

\* The optional features are connected, the wake listener is registered and the
\* initial state is read.
FlowDone ==
    /\ FlowAt("connect", "features")
    /\ focusable' = TRUE /\ flow' = NoFlow
    /\ UNCHANGED <<token, active, enabled, dual, wakes, viewVars, timerVars, probe, opVars>> /\ Outside

-----------------------------------------------------------------------------
(* failoverToIgw *)

Failover ==
    /\ Owned /\ Begin
    /\ flow' = [kind |-> "failover", at |-> "config", cfg |-> {}]
    /\ UNCHANGED <<enabled, dual, focusable, wakes, recovery, probe, running>>

\* The configuration is read again; without IGW a reconnect is scheduled.
FailoverConfig ==
    /\ FlowAt("failover", "config")
    /\ IF "igw" \in cfg
       THEN StartIgw /\ FlowTo("igw") /\ watchdog' = FALSE /\ UNCHANGED reconnect
       ELSE flow' = NoFlow /\ reconnect' = TRUE /\ UNCHANGED <<viewVars, queued, watchdog>>
    /\ UNCHANGED <<sessVars, offline, recovery, probe, running>> /\ Outside

FailoverFails ==
    /\ FlowAt("failover", "config") /\ "config" \in Failing
    /\ flow' = NoFlow /\ reconnect' = TRUE
    /\ UNCHANGED <<sessVars, viewVars, offline, watchdog, recovery, probe, opVars>> /\ Outside

-----------------------------------------------------------------------------
(* tryRecoverMqtt *)

\* Called by the recovery interval and by a wake-up.
TryRecover ==
    /\ dual /\ source = "igw" /\ probe = NoProbe /\ Owned
    /\ probe' = [at |-> "config", tok |-> token]

StillCurrent == probe.tok = token /\ Owned

RecoverConfig ==
    /\ probe.at = "config"
    /\ probe' = IF StillCurrent /\ "mqtt" \in cfg THEN [probe EXCEPT !.at = "ping"] ELSE NoProbe
    /\ UNCHANGED <<sessVars, viewVars, timerVars, flow, opVars>> /\ Outside

RecoverFails ==
    /\ probe.at = "config" /\ "config" \in Failing
    /\ probe' = NoProbe
    /\ UNCHANGED <<sessVars, viewVars, timerVars, flow, opVars>> /\ Outside

\* The broker does not answer, or somebody else has replaced the transport.
ProbeEnds ==
    /\ probe.at = "ping" /\ ~(mqttUp /\ StillCurrent)
    /\ probe' = NoProbe
    /\ UNCHANGED <<sessVars, viewVars, timerVars, flow, opVars>> /\ Outside

\* The broker answers: stopMqttRecoveryProbe, a new attempt and startMqtt.
SwitchBack ==
    /\ probe.at = "ping" /\ mqttUp /\ StillCurrent
    /\ Reserve
    /\ offline' = FALSE /\ watchdog' = FALSE /\ reconnect' = FALSE /\ recovery' = NoToken
    /\ StartMqtt
    /\ flow' = [kind |-> "recover", at |-> "mqtt", cfg |-> {}]
    /\ probe' = [at |-> "switch", tok |-> token']
    /\ UNCHANGED <<enabled, dual, focusable, wakes, running>> /\ Outside

\* The finally of a switch whose attempt is over or was overtaken.
SwitchEnds ==
    /\ probe.at = "switch" /\ (flow.kind # "recover")
    /\ probe' = NoProbe
    /\ UNCHANGED <<sessVars, viewVars, timerVars, flow, opVars>> /\ Outside

-----------------------------------------------------------------------------
(* The serialized native commands: invokeTransport *)

\* activateTransportSession, before the command is invoked.
Activate == active' = (active \/ queued # "disconnect")

Dispatch ==
    /\ queued # "none" /\ running = NoCommand
    /\ running' = [cmd |-> queued, tok |-> token, at |-> "begin"]
    /\ queued' = "none"
    /\ Activate
    /\ UNCHANGED <<token, enabled, dual, focusable, wakes, viewVars, timerVars, taskVars>> /\ Outside

FrontEnd == UNCHANGED <<worldVars, cfgVars, sessVars, viewVars, timerVars, taskVars, queued, events>>

\* GatewayClient::stop aborts the poller; a batch in progress is completed.
StopGateway == gw' = NoToken /\ gwLink' = FALSE /\ (ghost' = ghost \/ (gw # NoToken /\ ghost' = gw))
StopMqtt == mq' = NoToken /\ mqLink' = FALSE

NativeTo(a) == running' = [running EXCEPT !.at = a]

\* Mutant: the gateway is left running.
BugFirstStopOfMqtt == UNCHANGED <<gw, gwLink, ghost>>

\* connect_mqtt stops the gateway first.
FirstStopOfMqtt == StopGateway

\* connect_mqtt and disconnect_inverter stop both; connect_gateway checks its
\* arguments before it stops anything.
NativeFirst ==
    /\ running.at = "begin"
    /\ \/ running.cmd \in {"mqtt", "disconnect"} /\ FirstStopOfMqtt /\ UNCHANGED <<mq, mqLink>>
       \/ running.cmd = "igw" /\ StopMqtt /\ UNCHANGED <<gw, gwLink, ghost>>
    /\ NativeTo("second")
    /\ FrontEnd

GatewayRefused ==
    /\ running.at = "begin" /\ running.cmd = "igw" /\ "igw" \in Failing
    /\ NativeTo("failed")
    /\ UNCHANGED nativeVars /\ FrontEnd

NativeSecond ==
    /\ running.at = "second"
    /\ \/ running.cmd = "disconnect" /\ StopMqtt /\ UNCHANGED <<gw, gwLink, ghost>> /\ NativeTo("ok")
       \/ running.cmd = "mqtt" /\ StopMqtt /\ UNCHANGED <<gw, gwLink, ghost>> /\ NativeTo("third")
       \/ /\ running.cmd = "igw" /\ NativeTo("ok") /\ UNCHANGED <<mq, mqLink>>
          /\ gw' = running.tok /\ gwLink' = FALSE
          /\ (ghost' = ghost \/ (gw # NoToken /\ ghost' = gw))
    /\ FrontEnd

\* configure_transport may refuse the credentials; otherwise the client starts.
StartClient ==
    /\ running.at = "third"
    /\ \/ mq' = running.tok /\ mqLink' = FALSE /\ NativeTo("ok")
       \/ "mqtt" \in Failing /\ NativeTo("failed") /\ UNCHANGED <<mq, mqLink>>
    /\ UNCHANGED <<gw, gwLink, ghost>> /\ FrontEnd

Answers(ok) == running.at = ok /\ running' = NoCommand /\ UNCHANGED queued

\* The answer of a command whose attempt was replaced is ignored.
StaleAnswer ==
    /\ running.at \in {"ok", "failed"} /\ running.tok # token
    /\ running' = NoCommand
    /\ UNCHANGED <<queued, sessVars, viewVars, timerVars, taskVars>> /\ Outside

Mine == running.tok = token

\* startMqttConnectWatchdog
Watched == enabled /\ dual

\* Mutant: a failover does not start to look for the broker.
BugProbing == recovery

\* startMqttRecoveryProbe
Probing == IF dual /\ Owned THEN token ELSE NoToken

\* deactivateTransportSession
Deactivate == active' = FALSE

\* startMqtt succeeds: the interval is stopped, a dual path is watched.
MqttStarted ==
    /\ Answers("ok") /\ Mine /\ flow.at = "mqtt"
    /\ recovery' = NoToken /\ watchdog' = Watched
    /\ flow' = IF flow.kind = "connect" THEN [flow EXCEPT !.at = "features"] ELSE NoFlow
    /\ UNCHANGED <<sessVars, viewVars, offline, reconnect, probe>> /\ Outside

\* startIgw succeeds.
IgwStarted ==
    /\ Answers("ok") /\ Mine /\ flow.at = "igw"
    /\ recovery' = Probing
    /\ flow' = IF flow.kind = "connect" THEN [flow EXCEPT !.at = "features"] ELSE NoFlow
    /\ UNCHANGED <<sessVars, viewVars, offline, watchdog, reconnect, probe>> /\ Outside

Disconnected ==
    /\ Answers("ok") /\ Mine /\ flow.at = "disconnect"
    /\ FlowTo("features")
    /\ UNCHANGED <<sessVars, viewVars, timerVars, probe>> /\ Outside

\* connect_mqtt failed.  With IGW configured the gateway takes over under a new
\* token, otherwise the error ends connectMqtt.
MqttRefused ==
    /\ running.at = "failed" /\ Mine /\ flow.at = "mqtt"
    /\ running' = NoCommand
    /\ IF flow.kind = "connect" /\ "igw" \notin flow.cfg
       THEN /\ Deactivate /\ flow' = NoFlow /\ connected' = FALSE
            /\ UNCHANGED <<token, queued, source, timerVars>>
       ELSE /\ Reserve /\ offline' = FALSE /\ watchdog' = FALSE /\ reconnect' = FALSE
            /\ StartIgw /\ FlowTo("igw") /\ UNCHANGED recovery
    /\ UNCHANGED <<enabled, dual, focusable, wakes, probe>> /\ Outside

\* connect_gateway failed: a failover or a recovery schedules a reconnect, but
\* the error ends connectMqtt.
IgwRefused ==
    /\ Answers("failed") /\ Mine /\ flow.at = "igw"
    /\ Deactivate /\ flow' = NoFlow
    /\ IF flow.kind = "connect" THEN connected' = FALSE /\ UNCHANGED reconnect
       ELSE reconnect' = TRUE /\ UNCHANGED connected
    /\ UNCHANGED <<token, enabled, dual, focusable, wakes, source, offline, watchdog, recovery, probe>>
    /\ Outside

-----------------------------------------------------------------------------
(* Timers and wake-ups *)

OfflineFires ==
    /\ offline
    /\ connected' = (connected /\ ~Owned) /\ UNCHANGED source
    /\ IF Owned /\ dual /\ source = "mqtt" THEN Failover
       ELSE offline' = FALSE /\ UNCHANGED <<sessVars, watchdog, reconnect, recovery, taskVars, opVars>>
    /\ Outside

\* shouldWatchdogFailoverToIgw
ShouldFailover == dual /\ source = "mqtt" /\ ~connected

WatchdogFires ==
    /\ watchdog /\ (PromptBroker => connected \/ ~(mqttUp /\ mq = token))
    /\ IF Owned /\ ShouldFailover THEN Failover
       ELSE watchdog' = FALSE /\ UNCHANGED <<sessVars, offline, reconnect, recovery, taskVars, opVars>>
    /\ UNCHANGED viewVars /\ Outside

RecoveryTick ==
    /\ recovery # NoToken /\ recovery = token
    /\ TryRecover
    /\ UNCHANGED <<sessVars, viewVars, timerVars, flow, opVars>> /\ Outside

ReconnectFires ==
    /\ reconnect /\ Owned
    /\ ConnectMqtt
    /\ UNCHANGED <<cfgVars, wakes>>

\* window-focused
Wake ==
    /\ focusable /\ enabled /\ ~connected /\ token # NoToken
    /\ wakes < MaxWakes /\ wakes' = wakes + 1
    /\ IF dual /\ source = "igw" THEN TryRecover /\ UNCHANGED reconnect
       ELSE reconnect' = TRUE /\ UNCHANGED probe
    /\ UNCHANGED <<token, active, enabled, dual, focusable, viewVars, offline, watchdog, recovery, flow, opVars>>
    /\ Outside

-----------------------------------------------------------------------------
(* Events *)

Emit(t, up) == Len(events) < MaxEvents /\ events' = Append(events, [tok |-> t, up |-> up])

EmitKeeps == UNCHANGED <<worldVars, cfgVars, sessVars, viewVars, timerVars, taskVars, opVars>>

\* The reconnect loop reports each connection and each failed attempt.
MqttReports ==
    /\ mq # NoToken /\ (mqttUp => ~mqLink)
    /\ mqLink' = mqttUp /\ Emit(mq, mqttUp)
    /\ UNCHANGED <<mq, gw, gwLink, ghost>> /\ EmitKeeps

\* The poller reports changes; it starts out disconnected.
GatewayReports ==
    /\ gw # NoToken /\ gwLink # igwUp
    /\ gwLink' = igwUp /\ Emit(gw, igwUp)
    /\ UNCHANGED <<mq, mqLink, gw, ghost>> /\ EmitKeeps

GhostReports(up) ==
    /\ ghost # NoToken
    /\ ghost' = NoToken /\ Emit(ghost, up)
    /\ UNCHANGED <<mq, mqLink, gw, gwLink>> /\ EmitKeeps

GhostEnds ==
    /\ ghost # NoToken
    /\ ghost' = NoToken
    /\ UNCHANGED <<mq, mqLink, gw, gwLink, events>> /\ EmitKeeps

\* Mutant: the event's session is not compared.
BugAccepts(e) == Owned /\ active

\* acceptsNotification
Accepts(e) == Owned /\ active /\ e.tok = token

\* The listener of mqtt-connection-status.
Receive ==
    /\ events # <<>>
    /\ events' = Tail(events)
    /\ \/ ~Accepts(Head(events)) /\ UNCHANGED <<offline, watchdog, connected>>
       \/ Accepts(Head(events)) /\ Head(events).up
            /\ offline' = FALSE /\ watchdog' = FALSE /\ connected' = TRUE
       \/ Accepts(Head(events)) /\ ~Head(events).up
            /\ offline' = TRUE /\ UNCHANGED <<watchdog, connected>>
    /\ UNCHANGED <<worldVars, cfgVars, sessVars, source, reconnect, recovery, taskVars, opVars, nativeVars>>

-----------------------------------------------------------------------------
(* The network *)

Change ==
    /\ changes < MaxChanges /\ changes' = changes + 1
    /\ \/ mqttUp' = ~mqttUp /\ UNCHANGED igwUp
       \/ igwUp' = ~igwUp /\ UNCHANGED mqttUp
    /\ UNCHANGED <<cfgVars, sessVars, viewVars, timerVars, taskVars, opVars, nativeVars, events>>

-----------------------------------------------------------------------------
Flows ==
    \/ CallConnect \/ ConfigLoaded \/ ConfigFails \/ StartSelected \/ FlowDone
    \/ FailoverConfig \/ FailoverFails
    \/ RecoverConfig \/ RecoverFails \/ ProbeEnds \/ SwitchBack \/ SwitchEnds

Commands ==
    \/ Dispatch \/ NativeFirst \/ GatewayRefused \/ NativeSecond \/ StartClient \/ StaleAnswer
    \/ MqttStarted \/ IgwStarted \/ Disconnected \/ MqttRefused \/ IgwRefused

Timers == OfflineFires \/ WatchdogFires \/ RecoveryTick \/ ReconnectFires

Reports == MqttReports \/ GatewayReports \/ GhostEnds \/ \E up \in BOOLEAN : GhostReports(up)

Next ==
    \/ Flows \/ Commands \/ Timers \/ Reports \/ Receive \/ Wake \/ Change
    \/ \E c \in Configs : SaveConfig(c)

Spec == Init /\ [][Next]_vars

\* Promises settle, commands return, timers fire, clients report and events
\* arrive.  Nothing has to become reachable and nobody has to wake the window.
Fairness ==
    /\ WF_vars(CallConnect) /\ WF_vars(ConfigLoaded) /\ WF_vars(StartSelected) /\ WF_vars(FlowDone)
    /\ WF_vars(FailoverConfig \/ FailoverFails)
    /\ WF_vars(RecoverConfig \/ RecoverFails \/ ProbeEnds \/ SwitchBack) /\ WF_vars(SwitchEnds)
    /\ WF_vars(Commands)
    /\ WF_vars(OfflineFires) /\ WF_vars(WatchdogFires) /\ WF_vars(RecoveryTick) /\ WF_vars(ReconnectFires)
    /\ WF_vars(MqttReports) /\ WF_vars(GatewayReports) /\ WF_vars(GhostEnds) /\ WF_vars(Receive)

FairSpec == Spec /\ Fairness

-----------------------------------------------------------------------------
(* Properties *)

\* The timers that fail over or recover run only with both transports.
TypeOK ==
    /\ {mqttUp, igwUp, due, active, enabled, dual, focusable, connected, offline, watchdog, reconnect,
        mqLink, gwLink} \subseteq BOOLEAN
    /\ cfg \in Configs
    /\ {token, recovery, probe.tok, running.tok, mq, gw, ghost} \subseteq 0 .. MaxToken
    /\ source \in {"mqtt", "igw"}
    /\ flow.kind \in {"none", "connect", "failover", "recover"}
    /\ flow.at \in {"none", "config", "probe", "start", "mqtt", "igw", "disconnect", "features"}
    /\ probe.at \in {"none", "config", "ping", "switch"}
    /\ queued \in {"none", "mqtt", "igw", "disconnect"}
    /\ running.cmd \in {"none", "mqtt", "igw", "disconnect"}
    /\ running.at \in {"none", "begin", "second", "third", "ok", "failed"}
    /\ \A i \in DOMAIN events : events[i].tok \in 1 .. MaxToken
    /\ (1 .. MaxToken) \ Held # {}
    /\ watchdog \/ recovery # NoToken => dual

\* The two transports are exclusive: no installation is fed by two clients.
Exclusive == mq = NoToken \/ gw = NoToken

\* When the light goes on, the client that is shown as the source is the one
\* that runs: no event of a replaced client can do it.
ConnectedIsLive ==
    [][~connected /\ connected' => token = IF source = "mqtt" THEN mq ELSE gw]_vars

Idle == flow = NoFlow /\ queued = "none" /\ running = NoCommand

\* At rest the front end and the core agree on the transport.
SourceAgrees ==
    Idle /\ active => IF source = "mqtt" THEN mq = token ELSE gw = token

\* One transport feeds the installation, and at rest it is the one that is shown.
OneTransport == TypeOK /\ Exclusive /\ SourceAgrees

\* A reachable broker is preferred: with both transports configured the
\* connection comes back to MQTT, from every failover and from the start.
MqttIsPreferred == <>[](mqttUp /\ dual /\ ~due) => <>[](source = "mqtt" /\ connected)

\* While the broker is unreachable, a reachable gateway takes over.
GatewayTakesOver == <>[](~mqttUp /\ igwUp /\ dual /\ ~due) => <>[](source = "igw" /\ connected)
=============================================================================
