--------------------------- MODULE GatewaySnapshot ---------------------------
(***************************************************************************)
(* The poller of the remote gateway (src-tauri/src/gateway.rs, gateway/    *)
(* notifications.rs): every two seconds one snapshot of the whole          *)
(* installation, or an error, replaces what the window shows.              *)
(*                                                                         *)
(* An optional value is a set of at most one element; a device section is  *)
(* a function of the instances it lists. The gateway is external: any      *)
(* snapshot of the set Snapshot may be the next answer.                    *)
(***************************************************************************)
EXTENDS Integers, FiniteSetsExt, Functions

CONSTANTS
    Snapshot,   \* the answers the gateway may give
    Configured  \* Configured[role]: the instance chosen in the settings, optional

VARIABLES
    answer,     \* the answer to the last poll, None when it failed
    state,      \* the client's InverterState
    visible,    \* GatewayNotifications: the banners of the last good snapshot
    window,     \* the banners the window shows
    online,     \* connected_emitted
    override,   \* the override status last emitted on its own
    polling    \* the poller has not been stopped

vars == <<answer, state, visible, window, online, override, polling>>
-----------------------------------------------------------------------------
None == {}
Or(a, b) == IF a # None THEN a ELSE b
Phase == {1, 2}
Role == {"tank", "pump", "valve", "ev", "evcharger"}
Default == [r \in Role |-> CASE r = "tank" -> None [] r = "pump" -> {1} [] r = "valve" -> {2}
                             [] r = "ev" -> {22} [] r = "evcharger" -> {40}]

\* The answer of a gateway that knows nothing.
Empty == [grid |-> [p \in Phase |-> None], volt |-> None, vebus |-> <<>>, chargers |-> <<>>,
          pvs |-> <<>>, batteries |-> <<>>, loads |-> <<>>, tank |-> <<>>, pump |-> <<>>,
          ev |-> <<>>, evcharger |-> <<>>, caps |-> {}, controller |-> None, platform |-> <<>>]
-----------------------------------------------------------------------------
(* snapshot_to_state. *)
\* A null invalidates a phase, a path that is absent says nothing of it.
GridOf(snap) ==
    LET g == [p \in Phase |-> UNION snap.grid[p]] IN
    [g |-> g,
     avail |-> [p \in Phase |-> {v # None : v \in snap.grid[p]}],
     gt |-> IF g[1] \cup g[2] = None THEN None ELSE {SumSet(g[1]) + SumSet(g[2])}]

FirstKnown(f) ==
    LET known == {i \in DOMAIN f : f[i] # None} IN IF known = {} THEN None ELSE f[Min(known)]

\* A device without a single reading is left out; the total counts those with power.
ListedChargers(snap) ==
    {i \in DOMAIN snap.chargers : snap.chargers[i].power # None \/ snap.chargers[i].name # None}
ListedPvs(snap) == {i \in DOMAIN snap.pvs : snap.pvs[i] # None}
SolarOf(snap) ==
    LET mppt == MapThenSumSet(LAMBDA i : SumSet(snap.chargers[i].power), ListedChargers(snap))
        pv == MapThenSumSet(LAMBDA i : SumSet(snap.pvs[i]), ListedPvs(snap))
    IN  IF ListedChargers(snap) \cup ListedPvs(snap) = {} THEN None ELSE {mppt + pv}

\* Time-to-go only while the battery charges or discharges.
BatteriesOf(snap) ==
    LET b == snap.batteries
        listed == {i \in DOMAIN b : \E f \in {"volt", "flow", "name"} : b[i][f] # None}
    IN  [i \in listed |-> [b[i] EXCEPT !.togo = IF b[i].flow \in {None, {"Idle"}} THEN None ELSE @]]

\* The bank is the shunt; the system's aggregate only without one.
BankOf(snap) ==
    LET b == BatteriesOf(snap)
        shunts == {i \in DOMAIN b : b[i].name = {"shunt"}}
    IN  IF shunts # {} THEN b[Min(shunts)].volt ELSE snap.volt

Connected(d) == d.on \in {None, {1}}

LoadsOf(snap) ==
    [i \in {j \in DOMAIN snap.loads : Connected(snap.loads[j]) /\ snap.loads[j].power # None} |->
        snap.loads[i]]

\* The local choice, then the controller's, then the default. A chosen device that is
\* missing stays unknown: no other one takes its place.
SnapshotInstances(snap) ==
    [r \in Role |->
        Or(Configured[r],
           Or(UNION {c.choice[r] : c \in snap.controller},
              IF r = "tank" /\ DOMAIN snap.tank # {} THEN {Min(DOMAIN snap.tank)} ELSE Default[r]))]

\* The chosen device of a section, while it is listed and not reported as disconnected.
Chosen(section, id) == {section[i] : i \in {j \in id \cap DOMAIN section : Connected(section[j])}}

\* The water buttons are controls: they need the capability and a known mode.
SwitchOf(snap, id) ==
    LET may == {d \in Chosen(snap.pump, id) : d.mode # None /\ "water_mode" \in snap.caps}
    IN  [run |-> UNION {d.run : d \in may}, mode |-> UNION {d.mode : d \in may}]

WaterEvOf(snap) ==
    LET id == SnapshotInstances(snap)
        car == Chosen(snap.ev, id["ev"])
        charger == Chosen(snap.evcharger, id["evcharger"])
    IN  [level |-> UNION {d.level : d \in Chosen(snap.tank, id["tank"])},
         pump |-> SwitchOf(snap, id["pump"]),
         valve |-> SwitchOf(snap, id["valve"]),
         soc |-> Or(UNION {d.soc : d \in car},
                    IF DOMAIN snap.ev = {} THEN UNION {d.soc : d \in charger} ELSE None),
         present |-> car # {}]

\* The status of the override: unknown without the capability, or when it is malformed.
SnapshotOverrideStatus(snap) ==
    IF "setpoint_override" \in snap.caps THEN UNION {c.override : c \in snap.controller} ELSE None

\* A controller that has expired takes its controls with it.
ControllerOf(snap) ==
    [flags |-> UNION {c.flags : c \in snap.controller},
     ess |-> UNION {c.ess : c \in snap.controller},
     observed |-> UNION {c.ess : c \in snap.controller} # None,
     override |-> SnapshotOverrideStatus(snap),
     backup |-> UNION {c.backup : c \in snap.controller}]

SnapshotToState(snap) ==
    [grid |-> GridOf(snap), setpoint |-> FirstKnown(snap.vebus), solar |-> SolarOf(snap),
     batteries |-> BatteriesOf(snap), bank |-> BankOf(snap), loads |-> LoadsOf(snap),
     water |-> WaterEvOf(snap), controls |-> ControllerOf(snap), cached |-> FALSE]

\* A reading that is absent now is kept from the state before, while something flows. The
\* first battery that agrees in serial, instance or name counts as the same one.
SameBattery(p, i, b) == {j \in DOMAIN p : \/ p[j].serial # None /\ p[j].serial = b.serial
                                          \/ j = i
                                          \/ p[j].name # None /\ p[j].name = b.name}
PreserveBatteryTimeToGo(prev, next) ==
    [next EXCEPT !.batteries =
        [i \in DOMAIN @ |->
            LET same == SameBattery(prev.batteries, i, @[i])
            IN  IF @[i].togo # None \/ @[i].flow = {"Idle"} \/ same = {} THEN @[i]
                ELSE [@[i] EXCEPT !.togo = prev.batteries[Min(same)].togo]]]

\* Mutant: the failed poll only marks the state as cached.
MarkCached(s) == [s EXCEPT !.cached = TRUE]

\* Readings stay, as cached ones; everything a command could act on is withdrawn.
InvalidateGatewayControls(s) ==
    [s EXCEPT !.cached = TRUE, !.water = WaterEvOf(Empty), !.controls = ControllerOf(Empty)]
-----------------------------------------------------------------------------
\* GatewayNotifications::update: complete slots that are neither acknowledged nor unnamed.
Banners(snap) ==
    LET shows(s) == s.ack = {0} /\ s.time # None /\ s.desc # None
    IN  [i \in {j \in DOMAIN snap.platform : shows(snap.platform[j])} |-> snap.platform[i]]

\* Only differences are emitted.
Emitted(before, next, win) ==
    LET upsert == {i \in DOMAIN next : i \notin DOMAIN before \/ before[i] # next[i]}
        clear == DOMAIN before \ DOMAIN next
    IN  [i \in (DOMAIN win \cup upsert) \ clear |-> IF i \in upsert THEN next[i] ELSE win[i]]

Init ==
    /\ answer = None
    /\ state = SnapshotToState(Empty)
    /\ visible = <<>> /\ window = <<>>
    /\ online = FALSE
    /\ override = None
    /\ polling = TRUE

PollOk(snap) ==
    /\ polling
    /\ answer' = {snap}
    /\ visible' = Banners(snap)
    /\ window' = Emitted(visible, visible', window)
    /\ state' = PreserveBatteryTimeToGo(state, SnapshotToState(snap))
    /\ online' = TRUE
    /\ override' = state'.controls.override
    /\ UNCHANGED polling

\* A failed poll neither clears banners nor shows them again.
PollFails ==
    /\ polling
    /\ answer' = None
    /\ override' = None
    /\ state' = InvalidateGatewayControls(state)
    /\ online' = FALSE
    /\ UNCHANGED <<visible, window, polling>>

\* The user dismisses a banner in the window; the gateway is asked to acknowledge it.
DismissInWindow ==
    /\ \E i \in DOMAIN window : window' = [j \in DOMAIN window \ {i} |-> window[j]]
    /\ UNCHANGED <<answer, state, visible, online, override, polling>>

\* stop() aborts the poller wherever it is, or it ends by itself and says so.
Stop ==
    /\ polling /\ polling' = FALSE
    /\ \/ UNCHANGED <<online, override>>
       \/ online' = FALSE /\ override' = None
    /\ UNCHANGED <<answer, state, visible, window>>

Next ==
    \/ \E snap \in Snapshot : PollOk(snap)
    \/ PollFails
    \/ DismissInWindow
    \/ Stop

Spec == Init /\ [][Next]_vars
-----------------------------------------------------------------------------
\* A control is offered only on the answer to the latest poll: the poll succeeded, its
\* controller was alive, a switch is the chosen one and connected, and the override that was
\* announced is the one in the state.
ControlsAreLive ==
    LET c == state.controls
        w == state.water
        snaps == answer
    IN  /\ c.flags # {} \/ c.ess # None \/ c.override # None => \E s \in snaps : s.controller # None
        /\ w.pump.mode # None \/ w.valve.mode # None =>
              \E s \in snaps : /\ "water_mode" \in s.caps
                               /\ \E i \in DOMAIN s.pump : s.pump[i].on \in {None, {1}}
        /\ Configured["pump"] # None /\ w.pump.mode # None =>
              \E s \in snaps : Configured["pump"] \subseteq DOMAIN s.pump
        /\ polling => override = c.override /\ online = (answer # None)
=============================================================================
