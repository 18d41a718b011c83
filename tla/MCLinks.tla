------------------------------- MODULE MCLinks -------------------------------
(***************************************************************************)
(* What carries messages between the processes of the system: one MQTT     *)
(* client (MqttClient), the front end's choice of a transport              *)
(* (TransportLink), the pipe to a worker across a restart (ActionPath),    *)
(* and the commands of the Home Assistant worker (HomeAssistantActions).   *)
(* They share no state the properties read: each behaviour runs one of     *)
(* them, the others rest.                                                  *)
(***************************************************************************)
EXTENDS MqttClient

CONSTANTS Configs, Failing, PromptBroker, MaxToken, MaxSaves, MaxWakes, MaxChanges, MaxEvents,
          Request, Control, NoAction, Static, MaxInFlight, ControlCap, PipeCap, MaxRestarts, MaxLeases, MaxDue,
          HomeRequest, Settings, MaxActive, MaxEpoch, MaxSeen

VARIABLES focus,
          mqttUp, igwUp, changes, cfg, saves, due, token, chosen, enabled, dual, focusable, wakes, source, connected,
          offline, watchdog, reconnect, recovery, flow, probe, queued, running, mq, mqLink, gw, gwLink, ghost, events,
          authorized, stopping, sup, gen, outcome, open, offer, numeric, leases, cmds, waiting, out, rejected,
          wr, hand, torn, got, call, ans, want, reqGen, deadline, cancel, reply, begun,
          controls, net, link, lock, number, offered, dirty, granted, displayed, noted, req, wire, wrote, fresh

linkVars == <<mqttUp, igwUp, changes, cfg, saves, due, token, chosen, enabled, dual, focusable, wakes, source,
              connected, offline, watchdog, reconnect, recovery, flow, probe, queued, running, mq, mqLink, gw, gwLink,
              ghost, events>>
pathVars == <<authorized, stopping, sup, gen, outcome, open, offer, numeric, leases, cmds, waiting, out, rejected,
              wr, hand, torn, got, call, ans, want, reqGen, deadline, cancel, reply, begun>>
homeVars == <<controls, net, link, lock, number, offered, dirty, granted, displayed, noted, req, wire, wrote, fresh>>

\* Instances of the proof modules, whose theorems LinksProofs applies.
Link == INSTANCE TransportLinkProofs WITH active <- chosen
Path == INSTANCE ActionPathProofs WITH stop <- stopping, pending <- waiting, due <- deadline
Home == INSTANCE HomeAssistantActions WITH Request <- HomeRequest, shown <- displayed, seen <- noted

ASSUME LinksAssumption == Link!LinkAssumption /\ Path!ActionAssumption

\* Both transports, one, or none.
Saved == {{"mqtt", "igw"}, {"mqtt"}, {}}
EachControl == {{"lock"}, {"toggle"}, {"number"}}

LinksInit ==
    /\ focus \in {"client", "link", "path", "home"}
    /\ Init /\ Link!Init /\ Path!Init /\ Home!Init
    /\ focus # "client" => ~hidden
    /\ focus # "link" => mqttUp /\ igwUp /\ cfg = {}
    /\ focus # "home" => controls = {"lock"}

LinksNext ==
    /\ UNCHANGED focus
    /\ \/ focus = "client" /\ Next /\ UNCHANGED <<linkVars, pathVars, homeVars>>
       \/ focus = "link" /\ Link!Next /\ UNCHANGED <<vars, pathVars, homeVars>>
       \/ focus = "path" /\ Path!Next /\ UNCHANGED <<vars, linkVars, homeVars>>
       \/ focus = "home" /\ Home!Next /\ UNCHANGED <<vars, linkVars, pathVars>>

LinksSpec == LinksInit /\ [][LinksNext]_<<focus, vars, linkVars, pathVars, homeVars>>
-----------------------------------------------------------------------------
\* One transport feeds the installation, and at rest it is the one that is shown.
OneTransport == Link!OneTransport
\* No event of a replaced client switches the light on.
ConnectedIsLive == Link!ConnectedIsLive
\* No process reads a request of its predecessor's dashboard or the rest of a torn frame.
PipesAreClean == Path!PipesAreClean
\* The first byte of a request goes out only with authority and a current lease.
FirstByteAuthorized == Path!FirstByteAuthorized
\* A service call is released only on a grant nothing has touched.
WritesAreCurrent == Home!WritesAreCurrent
\* A request is answered once, and truly when it says that nothing was submitted.
AnswersAreTrue == Home!AnswersAreTrue
\* A rejected token is not tried again.
RejectionIsTerminal == Home!RejectionIsTerminal
=============================================================================
