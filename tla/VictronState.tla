---------------------------- MODULE VictronState ----------------------------
(***************************************************************************)
(* The live state of the dashboard (src-tauri/src/mqtt.rs, mqtt/cerbo.rs): *)
(* samples of the services of a Cerbo GX and partial snapshots of the      *)
(* inverter-control daemon are merged, message by message, into the tiles. *)
(*                                                                         *)
(* An optional value is a set of at most one element. Numbers are small    *)
(* integers; the thresholds keep their role. Of tiles that are computed    *)
(* alike (voltage and SoC, current and power, L1 and L2) one or two stand  *)
(* for the rest. Messages of one connection are handled one at a time.     *)
(***************************************************************************)
EXTENDS Integers, FiniteSetsExt, Functions

CONSTANTS
    Installations,  \* the sets of services an installation may publish
    Instances,      \* Instances[k]: the instance numbers of service k
    Sample,         \* the numbers a service may publish
    DaemonValue,    \* the number the daemon publishes
    HighPower,      \* watts above it raise an alert
    LowWater,       \* levels below it raise an alert
    Preferred,      \* Preferred[role]: the configured instance, optional
    MaxSamples      \* bound on the messages handled

VARIABLES
    services,   \* the services this installation publishes
    devices,    \* CerboDevices: what each instance last published
    lapsed,     \* clocks that ran out: entries past their TTL, EV samples, alerts
    st,         \* InverterState: the tiles
    cache,      \* EvCache
    alerts,     \* NotificationState: the alerts that are raised
    lowWater,   \* the water level last notified
    notified,   \* the alerts raised by the last message
    hidden,     \* WINDOW_HIDDEN
    samples     \* messages handled

vars == <<services, devices, lapsed, st, cache, alerts, lowWater, notified, hidden, samples>>
-----------------------------------------------------------------------------
None == {}
Or(a, b) == IF a # None THEN a ELSE b
The(opt) == CHOOSE v \in opt : TRUE
OrZero(opt) == IF opt = None THEN 0 ELSE The(opt)
\* The sum over the phases that have a value.
SumOf(f) == IF \A p \in {1, 2} : f[p] = None THEN None ELSE {OrZero(f[1]) + OrZero(f[2])}
Phase == {1, 2}
GxDevices == {"battery", "solarcharger", "pvinverter", "vebus", "system"}
NamedServices == {"tank", "pump", "ev", "evcharger"}
Service == GxDevices \cup NamedServices \cup {"acload"}

\* What a service has published before its first field arrives.
Blank == [k \in Service |->
    CASE k = "battery" -> [name |-> None, volt |-> None, amps |-> None, flows |-> FALSE, togo |-> None]
      [] k \in {"solarcharger", "pvinverter"} -> [name |-> None, serial |-> None, power |-> None]
      [] k = "vebus" -> [l |-> [p \in Phase |-> None], ac |-> None, setpoint |-> None]
      [] k = "system" -> [g |-> [p \in Phase |-> None], seen |-> {}, t |-> [p \in Phase |-> None]]
      [] k = "acload" -> [power |-> None, custom |-> None, product |-> None]
      [] OTHER -> [custom |-> None, product |-> None]]

\* The tiles before anything arrived.
NoTiles == [volt |-> None, amps |-> None, batteries |-> None,
            mppt |-> None, mpptParts |-> None, chargers |-> None, pv |-> None, pvParts |-> None,
            solar |-> None, g |-> [p \in Phase |-> None], avail |-> [p \in Phase |-> None],
            gt |-> None, t |-> [p \in Phase |-> None], tt |-> None, setpoint |-> None,
            loads |-> None, names |-> <<>>, found |-> None,
            water |-> None, pump |-> None, valve |-> None,
            soc |-> None, charging |-> None, present |-> {}]

Init ==
    /\ services \in Installations
    /\ devices = [k \in Service |-> <<>>]
    /\ lapsed = {}
    /\ st = NoTiles
    /\ cache = [soc |-> None, charging |-> None, present |-> {}]
    /\ alerts = {}
    /\ lowWater = None
    /\ notified = {}
    /\ hidden = FALSE
    /\ samples = 0
-----------------------------------------------------------------------------
Live(d, k) == DOMAIN d[k]
First(d, k) == d[k][Min(Live(d, k))]
Total(d, k) == MapThenSumSet(LAMBDA i : OrZero(d[k][i].power), Live(d, k))

\* The entry is created by any message of its instance, also one without a known path.
Entry(d, k, i) == IF i \in Live(d, k) THEN d[k][i] ELSE Blank[k]
WithEntry(d, k, i, e) ==
    [d EXCEPT ![k] = [j \in Live(d, k) \cup {i} |-> IF j = i THEN e ELSE d[k][j]]]

\* Entries past their TTL are forgotten when the next message of a service arrives.
SweepStale(d) == [k \in Service |-> [i \in {j \in Live(d, k) : <<k, j>> \notin lapsed} |-> d[k][i]]]

Shunts(d) == {i \in Live(d, "battery") : d["battery"][i].name = {"shunt"}}
HasShunt(d) == Shunts(d) # {}
OwnsVebusMode(d) == \E i \in Live(d, "vebus") : d["vebus"][i].setpoint # None
OwnsChargers(d) == Live(d, "solarcharger") # {}
OwnsPv(d) == Live(d, "pvinverter") # {}
OwnsSolar(d) == OwnsChargers(d) \/ OwnsPv(d)

DisplayName(e) == Or(e.custom, e.product)

\* Identical product names get the end of the serial, or else the instance, as suffix.
Label(f, i) ==
    IF f[i].name # None /\ \E j \in DOMAIN f \ {i} : f[j].name = f[i].name
    THEN <<f[i].name, Or(f[i].serial, {i})>>
    ELSE <<f[i].name, None>>
DisambiguateNames(f) == [i \in DOMAIN f |-> Label(f, i)]
-----------------------------------------------------------------------------
(* apply_cerbo_to_state: what the broker's devices know wins over the tiles; an
   empty map leaves them alone. *)

\* The shunt alone meters the bank. Time-to-go is hidden while nothing flows.
OverlayBank(d, s) ==
    LET b == d["battery"]
        shunt == b[Min(Shunts(d))]
    IN  [s EXCEPT !.volt = IF HasShunt(d) THEN Or(shunt.volt, @) ELSE @,
                  !.amps = IF HasShunt(d) THEN Or(shunt.amps, {0}) ELSE @,
                  !.batteries = IF DOMAIN b = {} THEN @
                                ELSE {[i \in DOMAIN b |-> IF b[i].flows THEN b[i].togo ELSE None]}]

\* A side without devices keeps what the daemon said of it.
OverlaySolar(d, s) ==
    LET mppt == IF OwnsChargers(d) THEN {Total(d, "solarcharger")} ELSE Or(s.mppt, s.mpptParts)
        pv == IF OwnsPv(d) THEN {Total(d, "pvinverter")} ELSE Or(s.pv, s.pvParts)
    IN  [s EXCEPT !.mppt = IF OwnsChargers(d) THEN mppt ELSE @,
                  !.chargers = IF OwnsChargers(d) THEN {DisambiguateNames(d["solarcharger"])} ELSE @,
                  !.pv = IF OwnsPv(d) THEN pv ELSE @,
                  !.solar = IF OwnsSolar(d) THEN {OrZero(mppt) + OrZero(pv)} ELSE @]

\* systemcalc: a phase it has published is shown as published, a null included.
OverlaySystem(d, s) ==
    IF Live(d, "system") = {} THEN s
    ELSE LET sys == First(d, "system")
             t == [p \in Phase |-> Or(sys.t[p], s.t[p])]
         IN  [s EXCEPT !.g = [p \in Phase |-> IF p \in sys.seen THEN sys.g[p] ELSE @[p]],
                       !.avail = [p \in Phase |-> IF p \in sys.seen THEN {sys.g[p] # None} ELSE @[p]],
                       !.t = t,
                       !.tt = Or(SumOf(t), @)]

\* VE.Bus: the grid only where nothing is shown and systemcalc did not invalidate it.
Fallback(s, v, p) == s.g[p] = None /\ s.avail[p] # {FALSE} /\ v.l[p] # None
OverlayVebus(d, s) ==
    IF Live(d, "vebus") = {} THEN s
    ELSE LET v == First(d, "vebus")
             g == [p \in Phase |-> IF Fallback(s, v, p) THEN v.l[p] ELSE s.g[p]]
         IN  [s EXCEPT !.g = g,
                       !.avail = [p \in Phase |-> IF Fallback(s, v, p) THEN {TRUE} ELSE @[p]],
                       !.gt = IF @ # None THEN @
                              ELSE IF \A p \in Phase : g[p] # None THEN SumOf(g)
                              ELSE v.ac,
                       !.setpoint = Or(v.setpoint, @)]

\* The total is the sum of the phases that are available.
OverlayTotal(s) ==
    IF \A p \in Phase : s.avail[p] = None THEN s
    ELSE [s EXCEPT !.gt = SumOf(s.g)]

\* Loads are keyed by instance; a name once known is kept.
LoadPowers(d) == LET a == d["acload"] IN [i \in {j \in DOMAIN a : a[j].power # None} |-> The(a[i].power)]
OverlayLoads(d, s) ==
    LET a == d["acload"]
        named == {i \in DOMAIN a : DisplayName(a[i]) # None}
    IN  IF DOMAIN a = {} THEN s
        ELSE [s EXCEPT !.loads = {LoadPowers(d)},
                       !.names = [i \in DOMAIN @ \cup named |->
                                    IF i \in named THEN DisplayName(a[i]) ELSE @[i]]]

\* The inventory for the settings page, only ever replaced by one that is not empty.
OverlayFound(d, s) ==
    LET found == UNION {{<<k, i, DisplayName(d[k][i])>> : i \in Live(d, k)} : k \in NamedServices}
    IN  [s EXCEPT !.found = IF found = {} THEN @ ELSE found]

ApplyCerboToState(d, s) ==
    OverlayFound(d, OverlayLoads(d, OverlayTotal(OverlayVebus(d, OverlaySystem(d,
        OverlaySolar(d, OverlayBank(d, s)))))))
-----------------------------------------------------------------------------
(* One message of a service: the fields it may carry, as functions of the entry. A
   null or malformed number reads as None; systemcalc's grid tells the two apart. *)
Number == {None} \cup {{v} : v \in Sample}

BatteryFields(e) ==
    {[e EXCEPT !.name = {n}] : n \in {"shunt", "chain"}}
    \cup {[e EXCEPT !.volt = x] : x \in Number}
    \cup {[e EXCEPT !.amps = x, !.flows = IF x = None THEN @ ELSE x # {0}] : x \in Number}
    \cup {[e EXCEPT !.togo = x] : x \in Number}

SolarFields(e) ==
    {[e EXCEPT !.power = x] : x \in Number}
    \cup {[e EXCEPT !.name = {"MPPT"}], [e EXCEPT !.serial = {"tail"}]}

VebusFields(e) ==
    {[e EXCEPT !.l[p] = x] : p \in Phase, x \in Number}
    \cup {[e EXCEPT !.ac = x] : x \in Number} \cup {[e EXCEPT !.setpoint = x] : x \in Number}

SystemFields(e) ==
    {[e EXCEPT !.g[p] = x, !.seen = @ \cup {p}] : p \in Phase, x \in Number}
    \cup {[e EXCEPT !.t[p] = x] : p \in Phase, x \in Number}

ApplyDeviceMessage(k, e) ==
    CASE k = "battery" -> BatteryFields(e)
      [] k = "vebus" -> VebusFields(e)
      [] k = "system" -> SystemFields(e)
      [] OTHER -> SolarFields(e)

\* An empty name is no name: what was known stays.
NameFields(e) == {[e EXCEPT !.custom = {"custom"}], [e EXCEPT !.product = {"product"}]}
ApplyAcloadMessage(e) == NameFields(e) \cup {[e EXCEPT !.power = x] : x \in Number}
-----------------------------------------------------------------------------
(* The handlers. Every message of a service sweeps, is applied to its entry and, when
   its path is known, to the tiles. *)
Handled == samples < MaxSamples /\ samples' = samples + 1
\* The clocks that still matter: not those the message restarts or of entries that are gone.
Restart(clocks) == lapsed' = {x \in lapsed \ clocks : x[1] \in Service => x[2] \in Live(devices', x[1])}

DeviceMessage(k, i) ==
    /\ Handled /\ k \in services \cap GxDevices /\ i \in Instances[k]
    /\ LET swept == SweepStale(devices)
       IN  \E e \in ApplyDeviceMessage(k, Entry(swept, k, i)) :
              /\ devices' = WithEntry(swept, k, i, e)
              /\ st' = ApplyCerboToState(devices', st)
    /\ Restart({<<k, i>>})
    /\ notified' = {}
    /\ UNCHANGED <<services, cache, alerts, lowWater, hidden>>

\* A path that is not known, or a grid sample without an envelope: only the entry is made.
UnknownPath(k, i) ==
    /\ Handled /\ k \in services \cap GxDevices /\ i \in Instances[k]
    /\ LET swept == SweepStale(devices)
       IN  devices' = WithEntry(swept, k, i, Entry(swept, k, i))
    /\ Restart({<<k, i>>})
    /\ notified' = {}
    /\ UNCHANGED <<services, st, cache, alerts, lowWater, hidden>>

AcloadMessage(i) ==
    /\ Handled /\ "acload" \in services /\ i \in Instances["acload"]
    /\ LET swept == SweepStale(devices)
       IN  \E e \in ApplyAcloadMessage(Entry(swept, "acload", i)) :
              devices' = WithEntry(swept, "acload", i, e)
    /\ st' = ApplyCerboToState(devices', st)
    /\ Restart({<<"acload", i>>})
    /\ notified' = {}
    /\ UNCHANGED <<services, cache, alerts, lowWater, hidden>>

\* The configured instance while it is there, or while nothing is; else the lowest.
ResolveActiveInstance(role, d, k) ==
    LET p == Preferred[role] IN
    IF p # None /\ (Live(d, k) = {} \/ p \subseteq Live(d, k)) THEN p
    ELSE IF Live(d, k) = {} THEN None ELSE {Min(Live(d, k))}

ActiveValve(d) ==
    LET p == Preferred["valve"]
        others == Live(d, "pump") \ ResolveActiveInstance("pump", d, "pump")
    IN  IF p # None /\ p \subseteq Live(d, "pump") THEN p
        ELSE IF others = {} THEN None ELSE {Min(others)}

\* The tile an instance's value belongs to: only the active instances have one.
WaterTile(d, k, i) ==
    CASE k = "tank" /\ ResolveActiveInstance("tank", d, "tank") = {i} -> "water"
      [] k = "pump" /\ ResolveActiveInstance("pump", d, "pump") = {i} -> "pump"
      [] k = "pump" /\ ResolveActiveInstance("pump", d, "pump") # {i}
                    /\ ActiveValve(d) = {i} -> "valve"
      [] OTHER -> "none"

WaterMessage(k, i) ==
    /\ Handled /\ k \in services \cap {"tank", "pump"} /\ i \in Instances[k]
    /\ LET swept == SweepStale(devices)
           e == Entry(swept, k, i)
       IN  \/ /\ \E n \in NameFields(e) : devices' = WithEntry(swept, k, i, n)
              /\ st' = ApplyCerboToState(devices', st)
           \/ /\ devices' = WithEntry(swept, k, i, e)
              /\ \E v \in Sample : LET tile == WaterTile(devices', k, i) IN
                    st' = ApplyCerboToState(devices',
                        IF tile = "none" THEN st ELSE [st EXCEPT ![tile] = {v}])
    /\ Restart({<<k, i>>})
    /\ notified' = {}
    /\ UNCHANGED <<services, cache, alerts, lowWater, hidden>>

\* EvCache::update: a sample younger than the throttle is kept, a negative SoC never
\* replaces one.
Update(field, v) ==
    /\ ~(field = "soc" /\ v < 0 /\ cache.soc # None)
    /\ cache[field] = None \/ <<"sample", field>> \in lapsed

ApplyEvMessage(k, field, v) ==
    /\ cache' = [cache EXCEPT ![field] = IF Update(field, v) THEN {v} ELSE @,
                              !.present = @ \cup {k}]
    /\ st' = ApplyCerboToState(devices', [st EXCEPT ![field] = cache'[field]])

EvMessage(k, i) ==
    /\ Handled /\ k \in services \cap {"ev", "evcharger"} /\ i \in Instances[k]
    /\ LET swept == SweepStale(devices)
           e == Entry(swept, k, i)
       IN  \/ /\ \E n \in NameFields(e) : devices' = WithEntry(swept, k, i, n)
              /\ st' = ApplyCerboToState(devices', st)
              /\ Restart({<<k, i>>}) /\ UNCHANGED cache
           \/ /\ devices' = WithEntry(swept, k, i, e)
              /\ ResolveActiveInstance(k, devices', k) = {i}
              /\ \E field \in {"soc", "charging"}, v \in Sample \cup {-1} :
                    /\ ApplyEvMessage(k, field, v)
                    /\ Restart({<<k, i>>} \cup IF Update(field, v) THEN {<<"sample", field>>} ELSE {})
           \/ /\ devices' = WithEntry(swept, k, i, e)
              /\ ResolveActiveInstance(k, devices', k) # {i}
              /\ st' = ApplyCerboToState(devices', st)
              /\ Restart({<<k, i>>}) /\ UNCHANGED cache
    /\ notified' = {}
    /\ UNCHANGED <<services, alerts, lowWater, hidden>>
-----------------------------------------------------------------------------
(* A snapshot of the daemon: any subset of its fields. *)
DaemonField == {"solar", "bank", "setpoint", "mpptParts", "chargers", "pv", "pvParts",
                "batteries", "loads"}

\* Fields the Cerbo owns are skipped; the others replace what was there when present.
MergeDaemon(raw, d, s) ==
    LET takes(f, owned) == f \in raw /\ ~owned
        value(f, owned, old) == IF takes(f, owned) THEN {DaemonValue} ELSE old
        parts == value("mpptParts", OwnsChargers(d), s.mpptParts)
        list(v) == {[i \in {0} |-> v]}
    IN  [s EXCEPT
            !.solar = value("solar", OwnsSolar(d), @),
            !.volt = value("bank", HasShunt(d), @),
            !.amps = value("bank", HasShunt(d), @),
            !.setpoint = value("setpoint", OwnsVebusMode(d), @),
            !.mpptParts = parts,
            !.mppt = IF OwnsChargers(d) THEN @ ELSE parts,
            !.chargers = IF takes("chargers", OwnsChargers(d)) THEN list(<<None, None>>) ELSE @,
            !.pv = value("pv", OwnsPv(d), @),
            !.pvParts = value("pvParts", OwnsPv(d), @),
            !.batteries = IF takes("batteries", Live(d, "battery") # {}) THEN list(None) ELSE @,
            !.loads = IF takes("loads", Live(d, "acload") # {}) THEN list(DaemonValue) ELSE @]

\* The alerts a state can judge, and those whose reading is over the threshold.
Judged(s) == (IF s.loads = None THEN {} ELSE {a \in alerts : a[1] = "load"})
             \cup (IF s.tt = None THEN {} ELSE {<<"alert", "consumption">>})
             \cup (IF s.solar = None THEN {} ELSE {<<"alert", "solar">>})
Over(s) == UNION {{<<"load", i>> : i \in {j \in DOMAIN l : l[j] > HighPower}} : l \in s.loads}
           \cup {<<"alert", "consumption">> : v \in {w \in s.tt : w > HighPower}}
           \cup {<<"alert", "solar">> : v \in {w \in s.solar : w > HighPower}}

\* should_alert: at once, then again only after the cooldown; resolved alerts are forgotten.
\* The water level alerts again whenever it differs from the level last notified.
Alert(s) ==
    LET due == {a \in Over(s) : a \notin alerts \/ a \in lapsed}
        low == {v \in s.water : v < LowWater}
    IN  /\ alerts' = (alerts \ Judged(s)) \cup Over(s)
        /\ lowWater' = IF s.water = None THEN lowWater ELSE low
        /\ notified' = due \cup {<<"alert", "water">> : v \in low \ lowWater}
        /\ lapsed' = {x \in lapsed \ due : x[1] \in {"load", "alert"} => x \in alerts'}

RestoreInto(c, s) ==
    [s EXCEPT !.soc = Or(c.soc, @), !.charging = Or(c.charging, @), !.present = @ \cup c.present]

\* Mutant: the daemon's snapshot is merged last, whoever owns the tiles.
MergeDaemonLast(raw) ==
    /\ Handled
    /\ st' = RestoreInto(cache, MergeDaemon(raw, [k \in Service |-> <<>>], ApplyCerboToState(devices, st)))
    /\ notified' = {}
    /\ UNCHANGED <<services, devices, lapsed, cache, alerts, lowWater, hidden>>

ProcessStateUpdate(raw) ==
    /\ Handled
    /\ LET merged == ApplyCerboToState(devices, MergeDaemon(raw, devices, st))
       IN  /\ IF hidden THEN notified' = {} /\ UNCHANGED <<alerts, lowWater, lapsed>>
                        ELSE Alert(merged)
           /\ st' = RestoreInto(cache, merged)
    /\ UNCHANGED <<services, devices, cache, hidden>>

\* A TTL, the throttle of an EV sample or the cooldown of an alert runs out.
Elapse ==
    /\ \E x \in UNION {{<<k, i>> : i \in Live(devices, k)} : k \in Service}
               \cup {<<"sample", f>> : f \in {g \in {"soc", "charging"} : cache[g] # None}}
               \cup alerts :
          x \notin lapsed /\ lapsed' = lapsed \cup {x}
    /\ notified' = {}
    /\ UNCHANGED <<services, devices, st, cache, alerts, lowWater, hidden, samples>>

SetWindowHidden ==
    /\ hidden' = ~hidden
    /\ notified' = {}
    /\ UNCHANGED <<services, devices, lapsed, st, cache, alerts, lowWater, samples>>

Next ==
    \/ \E k \in GxDevices : \E i \in Instances[k] : DeviceMessage(k, i) \/ UnknownPath(k, i)
    \/ \E i \in Instances["acload"] : AcloadMessage(i)
    \/ \E k \in {"tank", "pump"} : \E i \in Instances[k] : WaterMessage(k, i)
    \/ \E k \in {"ev", "evcharger"} : \E i \in Instances[k] : EvMessage(k, i)
    \/ \E raw \in {{f} : f \in DaemonField} \cup {DaemonField} : ProcessStateUpdate(raw)
    \/ Elapse
    \/ SetWindowHidden

Spec == Init /\ [][Next]_vars
-----------------------------------------------------------------------------
\* A tile for which a live device has reported shows that report and not what the daemon says:
\* the shunt's voltage, the sum of chargers and inverters, the VE.Bus setpoint, the loads.
NoDaemonBleed(d, s) ==
    /\ HasShunt(d) /\ d["battery"][Min(Shunts(d))].volt # None
          => s.volt = d["battery"][Min(Shunts(d))].volt
    /\ OwnsChargers(d) /\ OwnsPv(d)
          => s.solar = {Total(d, "solarcharger") + Total(d, "pvinverter")}
    /\ Live(d, "vebus") # {} /\ First(d, "vebus").setpoint # None
          => s.setpoint = First(d, "vebus").setpoint
    /\ Live(d, "acload") # {} => s.loads = {LoadPowers(d)}

\* A phase systemcalc has published is shown as published: declared invalid it is blank, and not
\* replaced by the VE.Bus reading; the total counts exactly the phases that are shown.
GridIsHonest(d, s) ==
    /\ Live(d, "system") # {} =>
          \A p \in Phase : p \in First(d, "system").seen => s.g[p] = First(d, "system").g[p]
    /\ (\E p \in Phase : s.avail[p] # None) => s.gt = SumOf(s.g)
    /\ \A p \in Phase : s.avail[p] = {FALSE} => s.g[p] = None

\* A live entry changed: all that a message on an unknown path does is to make a blank entry
\* and to sweep others.
News ==
    /\ devices' # devices
    /\ \E k \in Service : \E i \in Live(devices', k) : devices'[k][i] # Entry(SweepStale(devices), k, i)

\* Whatever the order in which samples, names, snapshots and expiries arrive: a step that brings
\* news of a device, or changes a tile, leaves tiles that show what the live devices report.
ReadingsAreOwn ==
    [][News \/ st' # st => NoDaemonBleed(devices', st') /\ GridIsHonest(devices', st')]_vars
=============================================================================
