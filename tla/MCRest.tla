------------------------------- MODULE MCRest -------------------------------
(***************************************************************************)
(* What must come to rest: the front end's choice of a transport           *)
(* (TransportLink), a client that was stopped (MqttClient), what a worker  *)
(* notified (WorkerNotices), and the windows that show media               *)
(* (MediaService). Each behaviour runs one of them, fairly; the others     *)
(* rest. Each fairness condition is that of its module, conjunct by        *)
(* conjunct: of those at rest nothing is ever enabled.                     *)
(***************************************************************************)
EXTENDS TransportLink

CONSTANTS MaxMessages, MaxShows, MaxKeepers,
          Id, Clip, Camera, Title, QueueCapacity, VideoCapacity, SeenCapacity, PerMinute, GlobalPerMinute,
          Minute, DedupTTL, DeliveryTTL, PreviewTTL, VideoCooldown, MappedCooldown,
          Item, MaxQueued, MaxWindows, MaxTransfers, MaxReads, EventCapacity,
          MaxMediaBytes, ByteLimit, MaxAttempts, MaxFaults

VARIABLES focus,
          stopped, guarded, slot, loop, event, keepers, orphans, version, carried, emitting, recent, pending,
          scheduled, sleepers, overslept, flushing, hidden, show, shows, seen, shown, stop, late,
          worker, lease, gen, notes, videos, global, wake, since, repeated,
          root, item, task, file, asked, adapter, window, reads, granted, broken, shutdown, faults

clientVars == <<stopped, guarded, slot, loop, event, keepers, orphans, version, carried, emitting, recent, pending,
                scheduled, sleepers, overslept, flushing, hidden, show, shows, seen, shown, stop, late>>
noticeVars == <<worker, lease, gen, notes, videos, global, wake, since, repeated>>
mediaVars == <<root, item, task, file, asked, adapter, window, reads, granted, broken, shutdown, faults>>
Client == INSTANCE MqttClient WITH active <- emitting
Notices == INSTANCE WorkerNotices WITH running <- worker
Player == INSTANCE MediaService WITH events <- asked, active <- granted

\* Both transports are configured: the only case with a failover.
Dual == {{"mqtt", "igw"}}
Bytes == [k \in {"video"} |-> 2]

RestInit ==
    /\ focus \in {"link", "client", "notices", "media"}
    /\ Init /\ Client!Init /\ Notices!Init /\ Player!Init
    /\ focus # "client" => ~hidden
    /\ focus # "link" => mqttUp /\ igwUp
    /\ focus # "media" => file = [i \in Item |-> "none"]

RestNext ==
    /\ UNCHANGED focus
    /\ \/ focus = "link" /\ Next /\ UNCHANGED <<clientVars, noticeVars, mediaVars>>
       \/ focus = "client" /\ Client!Next /\ UNCHANGED <<vars, noticeVars, mediaVars>>
       \/ focus = "notices" /\ Notices!Next /\ UNCHANGED <<vars, clientVars, mediaVars>>
       \/ focus = "media" /\ Player!Next /\ UNCHANGED <<vars, clientVars, noticeVars>>

LinkFairness ==
    /\ WF_vars(focus = "link" /\ CallConnect) /\ WF_vars(focus = "link" /\ ConfigLoaded)
    /\ WF_vars(focus = "link" /\ StartSelected) /\ WF_vars(focus = "link" /\ FlowDone)
    /\ WF_vars(focus = "link" /\ (FailoverConfig \/ FailoverFails))
    /\ WF_vars(focus = "link" /\ (RecoverConfig \/ RecoverFails \/ ProbeEnds \/ SwitchBack))
    /\ WF_vars(focus = "link" /\ SwitchEnds) /\ WF_vars(focus = "link" /\ Commands)
    /\ WF_vars(focus = "link" /\ OfflineFires) /\ WF_vars(focus = "link" /\ WatchdogFires)
    /\ WF_vars(focus = "link" /\ RecoveryTick) /\ WF_vars(focus = "link" /\ ReconnectFires)
    /\ WF_vars(focus = "link" /\ MqttReports) /\ WF_vars(focus = "link" /\ GatewayReports)
    /\ WF_vars(focus = "link" /\ GhostEnds) /\ WF_vars(focus = "link" /\ Receive)

ClientFairness ==
    /\ WF_clientVars(focus = "client" /\ Client!Loop) /\ WF_clientVars(focus = "client" /\ Client!Flush)
    /\ WF_clientVars(focus = "client" /\ Client!IntervalEnds)
    /\ WF_clientVars(focus = "client" /\ Client!KeeperCancelled)
    /\ WF_clientVars(focus = "client" /\ Client!StopEmitter) /\ WF_clientVars(focus = "client" /\ Client!StopSlot)

NoticeFairness ==
    /\ WF_noticeVars(focus = "notices" /\ Notices!Forward)
    /\ WF_noticeVars(focus = "notices" /\ (Notices!BeginDispatch \/ Notices!Dispatch))

MediaFairness ==
    /\ WF_mediaVars(focus = "media" /\ Player!AdapterStep) /\ WF_mediaVars(focus = "media" /\ Player!ShutdownStep)
    /\ \A i \in Item : /\ WF_mediaVars(focus = "media" /\ Player!TaskStep(i))
                       /\ WF_mediaVars(focus = "media" /\ Player!Destroyed(i))
                       /\ WF_mediaVars(focus = "media" /\ Player!EndRead(i))

RestSpec ==
    /\ RestInit /\ [][RestNext]_<<focus, vars, clientVars, noticeVars, mediaVars>>
    /\ LinkFairness /\ ClientFairness /\ NoticeFairness /\ MediaFairness
-----------------------------------------------------------------------------
\* With both transports the connection settles on the preferred one that is reachable.
ConnectionSettles == focus = "link" => MqttIsPreferred /\ GatewayTakesOver
\* After stop the reconnect loop and every keepalive task end.
StoppedTasksEnd == focus = "client" => Client!StoppedTasksEnd
\* A queued notification is shown or dropped as soon as no media comes between.
NoticesDrain == focus = "notices" => Notices!NoticesDrain
\* A revoked generation's windows are closed, unless the system refused.
RevokedWindowsClose == focus = "media" => Player!RevokedWindowsClose
=============================================================================
