----------------------------- MODULE MCLiveData -----------------------------
(***************************************************************************)
(* The live data the user sees and acts on: the inverter's devices         *)
(* (VictronState), its banners (VictronBanners), its commands              *)
(* (InverterCommands), the gateway's snapshots (GatewaySnapshot), the      *)
(* home's entities (HomeAssistantBook), and what workers notify            *)
(* (WorkerNotices). They share no state the properties read: each          *)
(* behaviour runs one of them, the others rest.                            *)
(***************************************************************************)
EXTENDS Naturals, FiniteSets, Sequences

CONSTANTS Installations, Instances, Sample, DaemonValue, HighPower, LowWater, Preferred, MaxSamples,
          Slot, Topic, VoltageTopics, MaxNotices, Request, Other, MaxChanges,
          Polled, Configured,
          Explicit, Found, Capacity, MaxBuffer, PageSize, HomeChanges, MaxSessions,
          Id, Clip, Camera, Title, QueueCapacity, VideoCapacity, SeenCapacity, PerMinute, GlobalPerMinute,
          Minute, DedupTTL, DeliveryTTL, PreviewTTL, VideoCooldown, MappedCooldown

VARIABLES focus,
          services, devices, lapsed, st, cache, alerts, lowWater, notified, hidden, samples,
          slots, seen, alarms, cell, handler, dismissing, ui, raw, raced, notices,
          transport, session, ctrl, inbox, view, shown, req, writes, applied, changes,
          answer, state, visible, window, online, override, polling,
          remote, homeSession, feed, read, bulk, row, probe, found, catalog, lists, host, homeChanges, sessions,
          running, lease, gen, notes, videos, global, wake, since, repeated

stateVars == <<services, devices, lapsed, st, cache, alerts, lowWater, notified, hidden, samples>>
bannerVars == <<slots, seen, alarms, cell, handler, dismissing, ui, raw, raced, notices>>
commandVars == <<transport, session, ctrl, inbox, view, shown, req, writes, applied, changes>>
gatewayVars == <<answer, state, visible, window, online, override, polling>>
bookVars == <<remote, homeSession, feed, read, bulk, row, probe, found, catalog, lists, host, homeChanges, sessions>>
noticeVars == <<running, lease, gen, notes, videos, global, wake, since, repeated>>

\* notices counts the messages of a run, up to a bound.
ASSUME BannerAssumption == MaxNotices \in Nat

\* Request ids are random, so another client's is never one of ours.
ASSUME CommandAssumption == Other \notin Request

State == INSTANCE VictronState
Banners == INSTANCE VictronBanners
Commands == INSTANCE InverterCommands
Gateway == INSTANCE GatewaySnapshot WITH Snapshot <- Polled
Book == INSTANCE HomeAssistantBook WITH session <- homeSession, changes <- homeChanges, MaxChanges <- HomeChanges
Notices == INSTANCE WorkerNotices

\* Entities are numbers, in lexical order; discovery leaves the configured ones out
\* (discovery.rs, Discovery::matches). The first configured one is the lock.
ASSUME EntityAssumption ==
    /\ Explicit \in (SUBSET Nat) \ {{}} /\ IsFiniteSet(Explicit)
    /\ Found \in SUBSET Nat /\ IsFiniteSet(Found) /\ Explicit \cap Found = {}
    /\ Capacity \in Nat /\ MaxBuffer \in Nat /\ PageSize \in Nat \ {0}

\* The memory of notifications is as large as the rate and the times demand.
ASSUME NoticesAssumption == Notices!NoticeLimits /\ Notices!SeenHolds

\* The settings choose at most one instance for each role.
ASSUME ChoiceAssumption == \A r \in Gateway!Role : \A i, j \in Configured[r] : i = j

Homes == {{"battery"}, {"solarcharger", "pvinverter"}, {"vebus", "system"}, {"vebus"},
          {"acload", "system"}, {"tank", "pump"}, {"ev", "evcharger"}}
Services == {"battery", "solarcharger", "pvinverter", "vebus", "system", "acload", "tank", "pump",
             "ev", "evcharger"}
Roles == {"tank", "pump", "valve", "ev", "evcharger"}
Ids == [k \in Services |-> IF k \in {"battery", "solarcharger", "pump", "ev"} THEN {1, 2} ELSE {1}]
Chosen == [r \in Roles |->
              CASE r = "pump" -> {2} [] r = "ev" -> {1} [] OTHER -> {}]

Blank == [grid |-> [p \in {1, 2} |-> {}], volt |-> {}, vebus |-> <<>>, chargers |-> <<>>, pvs |-> <<>>,
          batteries |-> <<>>, loads |-> <<>>, tank |-> <<>>, pump |-> <<>>, ev |-> <<>>, evcharger |-> <<>>,
          caps |-> {}, controller |-> {}, platform |-> <<>>]
Battery(n, s, f, t) == [volt |-> {2}, name |-> {n}, serial |-> s, flow |-> f, togo |-> t]
Pump(on, m, r) == [on |-> on, mode |-> m, run |-> r]
NoChoice == [r \in Roles |-> {}]
Controller(flags, ov, choice) ==
    {[flags |-> flags, ess |-> {1}, override |-> ov, backup |-> {1}, choice |-> choice]}
Answers ==
    {[Blank EXCEPT !.grid[1] = x, !.grid[2] = y] : x, y \in {{}, {{}}, {{1}}}}
    \cup {[Blank EXCEPT !.batteries = b, !.volt = {1}] :
             b \in {[i \in {1, 2} |-> IF i = 1 THEN Battery("pack", {}, {"Charging"}, t) ELSE Battery("pack", {}, f, {})]
                      : f \in {{}, {"Idle"}, {"Charging"}}, t \in {{}, {60}}}
                  \cup {[i \in {3} |-> Battery("shunt", {7}, f, {30})] : f \in {{}, {"Charging"}}}}
    \cup {[Blank EXCEPT !.pump = [i \in {1, 2} |-> Pump(on, m, {1})], !.tank = [i \in {3} |-> [on |-> on, level |-> {5}]],
                         !.caps = c, !.controller = k] :
             on \in {{}, {0}, {1}}, m \in {{}, {2}}, c \in {{}, {"water_mode"}},
             k \in {{}, Controller({1}, {}, [NoChoice EXCEPT !["pump"] = {4}])}}
    \cup {[Blank EXCEPT !.controller = Controller(f, ov, NoChoice), !.caps = {"setpoint_override"}] :
             f \in {{}, {1}}, ov \in {{}, {500}}}
    \cup {[Blank EXCEPT !.chargers = [i \in {1} |-> [power |-> p, name |-> n]], !.pvs = [i \in {1} |-> p],
                         !.vebus = [i \in {0, 1} |-> IF i = 0 THEN {} ELSE p],
                         !.loads = [i \in {1} |-> [on |-> {1}, power |-> p, name |-> n]]] :
             p \in {{}, {1}}, n \in {{}, {"name"}}}
    \cup {[Blank EXCEPT !.ev = e, !.evcharger = [i \in {40} |-> [on |-> {}, soc |-> {80}]]] :
             e \in {<<>>, [i \in {22} |-> [on |-> {0}, soc |-> {70}]], [i \in {22} |-> [on |-> {}, soc |-> {70}]]}}
    \cup {[Blank EXCEPT !.platform = [i \in d |-> [ack |-> a, time |-> t, desc |-> {1}]]] :
             d \in {{0}, {0, 1}}, a \in {{0}, {1}}, t \in {{}, {1}, {2}}}
NoneConfigured == NoChoice

Init ==
    /\ focus \in {"state", "banners", "commands", "gateway", "home", "notices"}
    /\ State!Init /\ Banners!Init /\ Commands!Init /\ Gateway!Init /\ Book!Init /\ Notices!Init
    /\ focus # "state" => services = {"vebus"}
    /\ focus # "commands" => transport = "mqtt"
    /\ focus # "home" => remote = [e \in Book!Entity |-> "on"]

Next ==
    /\ UNCHANGED focus
    /\ \/ /\ focus = "state" /\ State!Next
          /\ UNCHANGED <<bannerVars, commandVars, gatewayVars, bookVars, noticeVars>>
       \/ /\ focus = "banners" /\ Banners!Next
          /\ UNCHANGED <<stateVars, commandVars, gatewayVars, bookVars, noticeVars>>
       \/ /\ focus = "commands" /\ Commands!Next
          /\ UNCHANGED <<stateVars, bannerVars, gatewayVars, bookVars, noticeVars>>
       \/ /\ focus = "gateway" /\ Gateway!Next
          /\ UNCHANGED <<stateVars, bannerVars, commandVars, bookVars, noticeVars>>
       \/ /\ focus = "home" /\ Book!Next
          /\ UNCHANGED <<stateVars, bannerVars, commandVars, gatewayVars, noticeVars>>
       \/ /\ focus = "notices" /\ Notices!Next
          /\ UNCHANGED <<stateVars, bannerVars, commandVars, gatewayVars, bookVars>>

Spec == Init /\ [][Next]_<<focus, stateVars, bannerVars, commandVars, gatewayVars, bookVars, noticeVars>>
-----------------------------------------------------------------------------
\* After each step with news the tiles show what the live devices report, not what the daemon says.
ReadingsAreOwn == State!ReadingsAreOwn
\* The window shows the alarm banners the slots ask for.
BannersFollowSlots == Banners!BannersFollowSlots
\* The outcome told of a command is what happened to it.
CommandsAreTrue == Commands!CommandsAreTrue
\* A control is offered only on the answer to the latest poll of the gateway.
ControlsAreLive == Gateway!ControlsAreLive
\* Once every event is applied the rows show the current states.
ShownIsCurrent == Book!ShownIsCurrent
\* The settings editor is offered whole lists of the running worker.
ChoicesAreWhole == Book!ChoicesAreWhole
\* Nothing is admitted twice within its memory, nor a camera within the cooldown it is remembered for.
NoRepeats == Notices!NoRepeats
=============================================================================
