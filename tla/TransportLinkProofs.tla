------------------------ MODULE TransportLinkProofs ------------------------
(***************************************************************************)
(* Proofs about TransportLink for any configurations, failures, reports    *)
(* and number of replacements: one transport feeds the installation, at    *)
(* rest it is the one that is shown, and only its own report switches the  *)
(* light on.                                                               *)
(***************************************************************************)
EXTENDS TransportLink, FiniteSetTheorems, SequenceTheorems, WellFoundedInduction, TLAPS

\* The records that TypeOK looks into.
FlowRecords ==
    [kind : {"none", "connect", "failover", "recover"},
     at : {"none", "config", "probe", "start", "mqtt", "igw", "disconnect", "features"},
     cfg : SUBSET {"mqtt", "igw"}]
ProbeRecords == [at : {"none", "config", "ping", "switch"}, tok : 0 .. MaxToken]
CommandRecords ==
    [cmd : {"none", "mqtt", "igw", "disconnect"}, tok : 0 .. MaxToken,
     at : {"none", "begin", "second", "third", "ok", "failed"}]
EventRecords == [tok : 1 .. MaxToken, up : BOOLEAN]

RecordTypes ==
    /\ flow \in FlowRecords /\ probe \in ProbeRecords /\ running \in CommandRecords
    /\ events \in Seq(EventRecords) /\ Len(events) <= MaxEvents

\* One native command at a time, and where it is in stopping and starting clients.
CommandInv ==
    /\ running.cmd = "none" <=> running = NoCommand
    /\ running.at = "none" <=> running = NoCommand
    /\ running # NoCommand => running.tok # NoToken
    /\ running.at = "second" => IF running.cmd = "igw" THEN mq = NoToken ELSE gw = NoToken
    /\ running.at = "third" => running.cmd = "mqtt" /\ mq = NoToken /\ gw = NoToken
    /\ running.at = "ok" /\ running.cmd = "mqtt" => mq = running.tok
    /\ running.at = "ok" /\ running.cmd = "igw" => gw = running.tok
    /\ Exclusive

\* The current attempt runs its command.
Running == running # NoCommand /\ running.tok = token

\* An attempt has one command, for the source that it shows: first it is to be chosen,
\* then queued, then running, and then it is done.
FlowInv ==
    /\ flow.kind = "none" <=> flow.at = "none"
    /\ flow.at = "none" => flow = NoFlow
    /\ flow # NoFlow => token # NoToken
    /\ flow.at \in {"config", "probe", "start"} => queued = "none" /\ ~Running /\ ~active
    /\ queued # "none" => flow.at = queued /\ ~Running /\ ~active
    /\ flow.at \in {"mqtt", "igw", "disconnect"} => queued # "none" \/ Running
    /\ Running => queued = "none" /\ flow.at = running.cmd
    /\ flow.at \in {"mqtt", "igw"} => source = flow.at
    /\ flow.at = "disconnect" => ~active
    /\ FlowAt("connect", "config") => ~watchdog /\ recovery = NoToken

\* While the session is active its client is the one that is shown, or its command is running.
ActiveInv ==
    active =>
        /\ token # NoToken
        /\ running = NoCommand \/ Running
        /\ ~Running => token = IF source = "mqtt" THEN mq ELSE gw

\* Nobody but the client of the current attempt reports under its token, and not before
\* its command has started it.
ReportInv ==
    token # NoToken =>
        /\ ghost # token
        /\ mq = token \/ gw = token => running = NoCommand \/ (Running /\ running.at = "ok")
        /\ mq = token => source = "mqtt" /\ flow.at \in {"mqtt", "features", "none"} /\ queued = "none"
        /\ gw = token => source = "igw" /\ flow.at \in {"igw", "features", "none"} /\ queued = "none"
        /\ \A i \in 1 .. Len(events) : events[i].tok = token => mq = token \/ gw = token

IInv == TypeOK /\ RecordTypes /\ CommandInv /\ FlowInv /\ ActiveInv /\ ReportInv
-----------------------------------------------------------------------------
(* Tokens.                                                                  *)

\* A nonempty set of numbers has a least element.
LEMMA Least ==
    ASSUME NEW T \in SUBSET Nat, T # {}
    PROVE  Min(T) \in T
<1> DEFINE R == OpToRel(<, Nat)
<1>1. \E x \in T : \A y \in T : ~ (<<y, x>> \in R)
  <2>1. IsWellFoundedOn(R, Nat)
    BY NatLessThanWellFounded, Zenon
  <2> HIDE DEF R
  <2> QED
    BY <2>1, WFMin
<1>2. \A x, y \in Nat : <<y, x>> \in R <=> y < x
  BY Zenon DEF OpToRel
<1> HIDE DEF R
<1>3. \E x \in T : \A y \in T : x <= y
  <2>1. PICK x \in T : \A y \in T : ~ (<<y, x>> \in R)
    BY <1>1
  <2>2. \A y \in T : ~(y < x)
    BY <1>2, <2>1, Zenon
  <2> QED
    BY <2>2
<1> QED
  BY <1>3 DEF Min

\* What TypeOK says of single variables.
FlagTypes ==
    {mqttUp, igwUp, due, active, enabled, dual, focusable, connected, offline, watchdog, reconnect,
     mqLink, gwLink} \subseteq BOOLEAN
PlainTypes ==
    /\ cfg \in Configs
    /\ {token, recovery, mq, gw, ghost} \subseteq 0 .. MaxToken
    /\ source \in {"mqtt", "igw"}
    /\ queued \in {"none", "mqtt", "igw", "disconnect"}

\* Two parts that are invariants in their own right.
FreeToken == (1 .. MaxToken) \ Held # {}
DualTimers == watchdog \/ recovery # NoToken => dual

\* TypeOK in its parts, with the types of the records.
LEMMA TypeParts == TypeOK /\ RecordTypes <=> FlagTypes /\ PlainTypes /\ RecordTypes /\ FreeToken /\ DualTimers
<1>1. ASSUME RecordTypes PROVE \A i \in DOMAIN events : events[i].tok \in 1 .. MaxToken
  <2>1. \A i \in 1 .. Len(events) : events[i] \in EventRecords
    BY <1>1, ElementOfSeq DEF RecordTypes
  <2>2. DOMAIN events = 1 .. Len(events)
    BY <1>1, LenProperties DEF RecordTypes
  <2> QED
    BY <2>1, <2>2 DEF EventRecords
<1>2. ASSUME RecordTypes
      PROVE  /\ {probe.tok, running.tok} \subseteq 0 .. MaxToken
             /\ flow.kind \in {"none", "connect", "failover", "recover"}
             /\ flow.at \in {"none", "config", "probe", "start", "mqtt", "igw", "disconnect", "features"}
             /\ probe.at \in {"none", "config", "ping", "switch"}
             /\ running.cmd \in {"none", "mqtt", "igw", "disconnect"}
             /\ running.at \in {"none", "begin", "second", "third", "ok", "failed"}
  BY <1>2 DEF RecordTypes, FlowRecords, ProbeRecords, CommandRecords
<1> QED
  BY <1>1, <1>2 DEF TypeOK, FlagTypes, PlainTypes, FreeToken, DualTimers

\* reserveTransportSession makes a token that nothing else has.
Fresh ==
    /\ token' \in 1 .. MaxToken /\ active' = FALSE
    /\ token' \notin {token, recovery, probe.tok, running.tok, mq, gw, ghost}
    /\ \A i \in 1 .. Len(events) : events[i].tok # token'

LEMMA ReserveIsFresh ==
    ASSUME RecordTypes, Reserve
    PROVE  Fresh
<1> DEFINE F == (1 .. MaxToken) \ Held
<1>1. F \in SUBSET Nat /\ F # {} /\ token' = Min(F) /\ active' = FALSE
  BY DEF Reserve
<1>2. token' \in F
  BY <1>1, Least
<1>3. DOMAIN events = 1 .. Len(events)
  BY LenProperties DEF RecordTypes
<1> QED
  BY <1>1, <1>2, <1>3 DEF Fresh, Held

\* The first n numbers.
LEMMA UpTo ==
    ASSUME NEW n \in Nat
    PROVE  IsFiniteSet(1 .. n) /\ Cardinality(1 .. n) = n
BY FS_Interval

\* Seven variables hold at most seven tokens.
LEMMA SevenHolders ==
    ASSUME NEW a, NEW b, NEW c, NEW d, NEW e, NEW f, NEW g
    PROVE  IsFiniteSet({a, b, c, d, e, f, g}) /\ Cardinality({a, b, c, d, e, f, g}) <= 7
<1> DEFINE S == {a, b, c, d, e, f, g}
           h == [i \in 1 .. 7 |-> IF i = 1 THEN a ELSE IF i = 2 THEN b ELSE IF i = 3 THEN c
                                  ELSE IF i = 4 THEN d ELSE IF i = 5 THEN e ELSE IF i = 6 THEN f ELSE g]
<1>1. h \in [1 .. 7 -> S]
  OBVIOUS
<1>2. h[1] = a /\ h[2] = b /\ h[3] = c /\ h[4] = d /\ h[5] = e /\ h[6] = f /\ h[7] = g
  OBVIOUS
<1> HIDE DEF h
<1>3. \A x \in S : \E i \in 1 .. 7 : h[i] = x
  BY <1>2
<1> HIDE DEF S
<1>4. h \in Surjection(1 .. 7, S)
  BY <1>1, <1>3, Zenon DEF Surjection
<1>5. IsFiniteSet(1 .. 7) /\ Cardinality(1 .. 7) = 7
  BY UpTo
<1>6. IsFiniteSet(S) /\ Cardinality(S) <= 7
  BY <1>4, <1>5, FS_Surjection
<1> QED
  BY <1>6 DEF S

\* There are more tokens than places that can hold one.
LEMMA TokensLast ==
    ASSUME PlainTypes, RecordTypes
    PROVE  FreeToken
<1> DEFINE E == {events[i].tok : i \in DOMAIN events}
<1> DEFINE H == {token, recovery, probe.tok, running.tok, mq, gw, ghost}
<1>1. DOMAIN events = 1 .. Len(events) /\ Len(events) \in Nat /\ Len(events) <= MaxEvents
  BY LenProperties DEF RecordTypes
<1>2. IsFiniteSet(E) /\ Cardinality(E) <= MaxEvents
  <2> DEFINE f == [i \in 1 .. Len(events) |-> events[i].tok]
  <2>1. f \in Surjection(1 .. Len(events), E)
    BY <1>1 DEF Surjection
  <2>2. IsFiniteSet(1 .. Len(events)) /\ Cardinality(1 .. Len(events)) = Len(events)
    BY <1>1, UpTo
  <2> HIDE DEF f, E
  <2>3. IsFiniteSet(E) /\ Cardinality(E) <= Len(events)
    BY <2>1, <2>2, FS_Surjection
  <2>4. Cardinality(E) \in Nat
    BY <2>3, FS_CardinalityType
  <2> QED
    BY <1>1, <2>3, <2>4, LinkAssumption
<1>3. IsFiniteSet(H) /\ Cardinality(H) <= 7
  BY SevenHolders
<1> HIDE DEF E, H
<1>4. IsFiniteSet(H \cup E) /\ Cardinality(H \cup E) <= MaxEvents + 7
  <2>1. Cardinality(H) \in Nat /\ Cardinality(E) \in Nat
    BY <1>2, <1>3, FS_CardinalityType
  <2>2. IsFiniteSet(H \cup E) /\ Cardinality(H \cup E) = Cardinality(H) + Cardinality(E) - Cardinality(H \cap E)
    BY <1>2, <1>3, FS_Union
  <2>3. Cardinality(H \cap E) \in Nat
    BY <1>3, FS_Intersection, FS_CardinalityType
  <2> QED
    BY <1>2, <1>3, <2>1, <2>2, <2>3, LinkAssumption
<1>5. ~((1 .. MaxToken) \subseteq H \cup E)
  <2> SUFFICES ASSUME (1 .. MaxToken) \subseteq H \cup E PROVE FALSE
    OBVIOUS
  <2>1. Cardinality(1 .. MaxToken) <= Cardinality(H \cup E)
    BY <1>4, FS_Subset
  <2>2. Cardinality(1 .. MaxToken) = MaxToken
    BY UpTo, LinkAssumption
  <2>3. Cardinality(H \cup E) \in Nat
    BY <1>4, FS_CardinalityType
  <2> QED
    BY <1>4, <2>1, <2>2, <2>3, LinkAssumption
<1> QED
  BY <1>5 DEF FreeToken, Held, H, E

\* An attempt that goes on, or ends, is a record of an attempt.
LEMMA MoveFlow ==
    ASSUME flow \in FlowRecords
    PROVE  NoFlow \in FlowRecords /\ [flow EXCEPT !.at = "igw"] \in FlowRecords
BY DEF FlowRecords, NoFlow
-----------------------------------------------------------------------------
(* Every step keeps the parts of the invariant. *)
\* Every step keeps the flags Boolean.
LEMMA FlagStep ==
    ASSUME RecordTypes, FlagTypes, [Next]_vars
    PROVE  FlagTypes'
<1>0. Reserve => Fresh
  BY ReserveIsFresh
<1> USE <1>0, LinkAssumption
        DEF Fresh, NoToken, NoFlow, NoProbe, NoCommand, FlagTypes,
            worldVars, cfgVars, sessVars, viewVars, timerVars, taskVars, opVars, nativeVars
<1>1. CASE CallConnect
  BY Zenon, <1>1 DEF CallConnect, ConnectMqtt, Begin
<1>2. CASE ConfigLoaded
  BY Zenon, <1>2 DEF ConfigLoaded, FlowAt, Outside
<1>3. CASE ConfigFails
  BY Zenon, <1>3 DEF ConfigFails, FlowAt, Outside
<1>4. CASE StartSelected
  BY Zenon, <1>4 DEF StartSelected, FlowAt, FlowTo, StartMqtt, StartIgw, Startup, Outside
<1>5. CASE FlowDone
  BY Zenon, <1>5 DEF FlowDone, FlowAt, Outside
<1>6. CASE FailoverConfig
  BY Zenon, <1>6 DEF FailoverConfig, FlowAt, FlowTo, StartIgw, Outside
<1>7. CASE FailoverFails
  BY Zenon, <1>7 DEF FailoverFails, FlowAt, Outside
<1>8. CASE RecoverConfig
  BY Zenon, <1>8 DEF RecoverConfig, StillCurrent, Owned, Outside
<1>9. CASE RecoverFails
  BY Zenon, <1>9 DEF RecoverFails, Outside
<1>10. CASE ProbeEnds
  BY Zenon, <1>10 DEF ProbeEnds, StillCurrent, Outside
<1>11. CASE SwitchBack
  BY Zenon, <1>11 DEF SwitchBack, StillCurrent, Owned, StartMqtt, Outside
<1>12. CASE SwitchEnds
  BY Zenon, <1>12 DEF SwitchEnds, Outside
<1>13. CASE Dispatch
  BY Zenon, <1>13 DEF Dispatch, Activate, Outside
<1>14. CASE NativeFirst
  BY Zenon, <1>14 DEF NativeFirst, FirstStopOfMqtt, StopGateway, StopMqtt, NativeTo, FrontEnd
<1>15. CASE GatewayRefused
  BY Zenon, <1>15 DEF GatewayRefused, NativeTo, FrontEnd
<1>16. CASE NativeSecond
  BY Zenon, <1>16 DEF NativeSecond, StopMqtt, NativeTo, FrontEnd
<1>17. CASE StartClient
  BY Zenon, <1>17 DEF StartClient, NativeTo, FrontEnd
<1>18. CASE StaleAnswer
  BY Zenon, <1>18 DEF StaleAnswer, Outside
<1>19. CASE MqttStarted
  BY Zenon, <1>19 DEF MqttStarted, Answers, Mine, Watched, Outside
<1>20. CASE IgwStarted
  BY Zenon, <1>20 DEF IgwStarted, Answers, Mine, Probing, Owned, Outside
<1>21. CASE Disconnected
  BY Zenon, <1>21 DEF Disconnected, Answers, Mine, FlowTo, Outside
<1>22. CASE MqttRefused
  BY Zenon, <1>22 DEF MqttRefused, Mine, Deactivate, StartIgw, FlowTo, Outside
<1>23. CASE IgwRefused
  BY Zenon, <1>23 DEF IgwRefused, Answers, Mine, Deactivate, Outside
<1>24. CASE OfflineFires
  BY Zenon, <1>24 DEF OfflineFires, Owned, Failover, Begin, Outside
<1>25. CASE WatchdogFires
  BY Zenon, <1>25 DEF WatchdogFires, Owned, ShouldFailover, Failover, Begin, Outside
<1>26. CASE RecoveryTick
  BY Zenon, <1>26 DEF RecoveryTick, TryRecover, Owned, Outside
<1>27. CASE ReconnectFires
  BY Zenon, <1>27 DEF ReconnectFires, Owned, ConnectMqtt, Begin
<1>28. CASE MqttReports
  BY Zenon, <1>28 DEF MqttReports, Emit, EmitKeeps
<1>29. CASE GatewayReports
  BY Zenon, <1>29 DEF GatewayReports, Emit, EmitKeeps
<1>30. CASE GhostEnds
  BY Zenon, <1>30 DEF GhostEnds, EmitKeeps
<1>31. ASSUME NEW up \in BOOLEAN, GhostReports(up) PROVE FlagTypes'
  BY Zenon, <1>31 DEF GhostReports, Emit, EmitKeeps
<1>32. CASE Receive
  BY Zenon, <1>32 DEF Receive, Accepts, Owned
<1>33. CASE Wake
  BY Zenon, <1>33 DEF Wake, TryRecover, Owned, Outside
<1>34. CASE Change
  BY Zenon, <1>34 DEF Change
<1>35. ASSUME NEW c \in Configs, SaveConfig(c) PROVE FlagTypes'
  BY Zenon, <1>35 DEF SaveConfig
<1>36. CASE UNCHANGED vars
  BY <1>36 DEF vars
<1> QED
  BY ONLY <1>1, <1>2, <1>3, <1>4, <1>5, <1>6, <1>7, <1>8, <1>9, <1>10, <1>11, <1>12, <1>13, <1>14,
          <1>15, <1>16, <1>17, <1>18, <1>19, <1>20, <1>21, <1>22, <1>23, <1>24, <1>25, <1>26, <1>27,
          <1>28, <1>29, <1>30, <1>31, <1>32, <1>33, <1>34, <1>35, <1>36, [Next]_vars
     DEF Next, Flows, Commands, Timers, Reports

\* Every step keeps the types of the single variables.
LEMMA PlainStep ==
    ASSUME PlainTypes, RecordTypes, [Next]_vars
    PROVE  PlainTypes'
<1>0. Reserve => Fresh
  BY ReserveIsFresh
<1> USE <1>0, LinkAssumption
        DEF Fresh, NoToken, NoFlow, NoProbe, NoCommand, PlainTypes, RecordTypes, CommandRecords,
            worldVars, cfgVars, sessVars, viewVars, timerVars, taskVars, opVars, nativeVars
<1>1. CASE CallConnect
  BY <1>1 DEF CallConnect, ConnectMqtt, Begin
<1>2. CASE ConfigLoaded
  BY <1>2 DEF ConfigLoaded, FlowAt, Outside
<1>3. CASE ConfigFails
  BY <1>3 DEF ConfigFails, FlowAt, Outside
<1>4. CASE StartSelected
  BY <1>4 DEF StartSelected, FlowAt, FlowTo, StartMqtt, StartIgw, Startup, Outside
<1>5. CASE FlowDone
  BY <1>5 DEF FlowDone, FlowAt, Outside
<1>6. CASE FailoverConfig
  BY <1>6 DEF FailoverConfig, FlowAt, FlowTo, StartIgw, Outside
<1>7. CASE FailoverFails
  BY <1>7 DEF FailoverFails, FlowAt, Outside
<1>8. CASE RecoverConfig
  BY <1>8 DEF RecoverConfig, StillCurrent, Owned, Outside
<1>9. CASE RecoverFails
  BY <1>9 DEF RecoverFails, Outside
<1>10. CASE ProbeEnds
  BY <1>10 DEF ProbeEnds, StillCurrent, Outside
<1>11. CASE SwitchBack
  BY <1>11 DEF SwitchBack, StillCurrent, Owned, StartMqtt, Outside
<1>12. CASE SwitchEnds
  BY <1>12 DEF SwitchEnds, Outside
<1>13. CASE Dispatch
  BY <1>13 DEF Dispatch, Activate, Outside
<1>14. CASE NativeFirst
  BY <1>14 DEF NativeFirst, FirstStopOfMqtt, StopGateway, StopMqtt, NativeTo, FrontEnd
<1>15. CASE GatewayRefused
  BY <1>15 DEF GatewayRefused, NativeTo, FrontEnd
<1>16. CASE NativeSecond
  BY <1>16 DEF NativeSecond, StopMqtt, NativeTo, FrontEnd
<1>17. CASE StartClient
  BY <1>17 DEF StartClient, NativeTo, FrontEnd
<1>18. CASE StaleAnswer
  BY <1>18 DEF StaleAnswer, Outside
<1>19. CASE MqttStarted
  BY <1>19 DEF MqttStarted, Answers, Mine, Watched, Outside
<1>20. CASE IgwStarted
  BY <1>20 DEF IgwStarted, Answers, Mine, Probing, Owned, Outside
<1>21. CASE Disconnected
  BY <1>21 DEF Disconnected, Answers, Mine, FlowTo, Outside
<1>22. CASE MqttRefused
  BY <1>22 DEF MqttRefused, Mine, Deactivate, StartIgw, FlowTo, Outside
<1>23. CASE IgwRefused
  BY <1>23 DEF IgwRefused, Answers, Mine, Deactivate, Outside
<1>24. CASE OfflineFires
  BY <1>24 DEF OfflineFires, Owned, Failover, Begin, Outside
<1>25. CASE WatchdogFires
  BY <1>25 DEF WatchdogFires, Owned, ShouldFailover, Failover, Begin, Outside
<1>26. CASE RecoveryTick
  BY <1>26 DEF RecoveryTick, TryRecover, Owned, Outside
<1>27. CASE ReconnectFires
  BY <1>27 DEF ReconnectFires, Owned, ConnectMqtt, Begin
<1>28. CASE MqttReports
  BY <1>28 DEF MqttReports, Emit, EmitKeeps
<1>29. CASE GatewayReports
  BY <1>29 DEF GatewayReports, Emit, EmitKeeps
<1>30. CASE GhostEnds
  BY <1>30 DEF GhostEnds, EmitKeeps
<1>31. ASSUME NEW up \in BOOLEAN, GhostReports(up) PROVE PlainTypes'
  BY <1>31 DEF GhostReports, Emit, EmitKeeps
<1>32. CASE Receive
  BY <1>32 DEF Receive, Accepts, Owned
<1>33. CASE Wake
  BY <1>33 DEF Wake, TryRecover, Owned, Outside
<1>34. CASE Change
  BY <1>34 DEF Change
<1>35. ASSUME NEW c \in Configs, SaveConfig(c) PROVE PlainTypes'
  BY <1>35 DEF SaveConfig
<1>36. CASE UNCHANGED vars
  BY <1>36 DEF vars
<1> QED
  BY ONLY <1>1, <1>2, <1>3, <1>4, <1>5, <1>6, <1>7, <1>8, <1>9, <1>10, <1>11, <1>12, <1>13, <1>14,
          <1>15, <1>16, <1>17, <1>18, <1>19, <1>20, <1>21, <1>22, <1>23, <1>24, <1>25, <1>26, <1>27,
          <1>28, <1>29, <1>30, <1>31, <1>32, <1>33, <1>34, <1>35, <1>36, [Next]_vars
     DEF Next, Flows, Commands, Timers, Reports

\* Every step keeps the types of the records and the bound on events.
LEMMA RecordStep ==
    ASSUME FlagTypes, PlainTypes, RecordTypes, [Next]_vars
    PROVE  RecordTypes'
<1>0. Reserve => Fresh
  BY ReserveIsFresh
<1> USE <1>0, LinkAssumption
        DEF Fresh, NoToken, NoFlow, NoProbe, NoCommand, RecordTypes, FlowRecords, ProbeRecords,
            CommandRecords, EventRecords, PlainTypes,
            worldVars, cfgVars, sessVars, viewVars, timerVars, taskVars, opVars, nativeVars
<1>1. CASE CallConnect
  BY <1>1 DEF CallConnect, ConnectMqtt, Begin
<1>2. CASE ConfigLoaded
  BY <1>2 DEF ConfigLoaded, FlowAt, Outside
<1>3. CASE ConfigFails
  BY <1>3 DEF ConfigFails, FlowAt, Outside
<1>4. CASE StartSelected
  <2>1. flow' \in FlowRecords
    BY <1>4 DEF StartSelected, FlowAt, FlowTo, StartMqtt, StartIgw, Startup, Outside
  <2>2. UNCHANGED <<probe, events>> /\ (running' = running \/ running' = NoCommand)
    BY <1>4 DEF StartSelected, FlowAt, FlowTo, StartMqtt, StartIgw, Startup, Outside
  <2> QED
    BY <2>1, <2>2
<1>5. CASE FlowDone
  BY <1>5 DEF FlowDone, FlowAt, Outside
<1>6. CASE FailoverConfig
  <2>1. flow' \in FlowRecords
    <3>1. flow' = NoFlow \/ flow' = [flow EXCEPT !.at = "igw"]
      BY <1>6 DEF FailoverConfig, FlowAt, FlowTo, StartIgw, Outside
    <3> QED
      BY ONLY <3>1, MoveFlow, RecordTypes, Zenon DEF RecordTypes
  <2>2. UNCHANGED <<probe, events>> /\ (running' = running \/ running' = NoCommand)
    BY <1>6 DEF FailoverConfig, FlowAt, FlowTo, StartIgw, Outside
  <2> QED
    BY <2>1, <2>2
<1>7. CASE FailoverFails
  BY <1>7 DEF FailoverFails, FlowAt, Outside
<1>8. CASE RecoverConfig
  BY <1>8 DEF RecoverConfig, StillCurrent, Owned, Outside
<1>9. CASE RecoverFails
  BY <1>9 DEF RecoverFails, Outside
<1>10. CASE ProbeEnds
  BY <1>10 DEF ProbeEnds, StillCurrent, Outside
<1>11. CASE SwitchBack
  BY <1>11 DEF SwitchBack, StillCurrent, Owned, StartMqtt, Outside
<1>12. CASE SwitchEnds
  BY <1>12 DEF SwitchEnds, Outside
<1>13. CASE Dispatch
  BY <1>13 DEF Dispatch, Activate, Outside
<1>14. CASE NativeFirst
  BY <1>14 DEF NativeFirst, FirstStopOfMqtt, StopGateway, StopMqtt, NativeTo, FrontEnd
<1>15. CASE GatewayRefused
  BY <1>15 DEF GatewayRefused, NativeTo, FrontEnd
<1>16. CASE NativeSecond
  BY <1>16 DEF NativeSecond, StopMqtt, NativeTo, FrontEnd
<1>17. CASE StartClient
  BY <1>17 DEF StartClient, NativeTo, FrontEnd
<1>18. CASE StaleAnswer
  BY <1>18 DEF StaleAnswer, Outside
<1>19. CASE MqttStarted
  <2>1. flow' \in FlowRecords
    BY <1>19 DEF MqttStarted, Answers, Mine, Watched, Outside
  <2>2. UNCHANGED <<probe, events>> /\ (running' = running \/ running' = NoCommand)
    BY <1>19 DEF MqttStarted, Answers, Mine, Watched, Outside
  <2> QED
    BY <2>1, <2>2
<1>20. CASE IgwStarted
  <2>1. flow' \in FlowRecords
    BY <1>20 DEF IgwStarted, Answers, Mine, Probing, Owned, Outside
  <2>2. UNCHANGED <<probe, events>> /\ (running' = running \/ running' = NoCommand)
    BY <1>20 DEF IgwStarted, Answers, Mine, Probing, Owned, Outside
  <2> QED
    BY <2>1, <2>2
<1>21. CASE Disconnected
  <2>1. flow' \in FlowRecords
    BY <1>21 DEF Disconnected, Answers, Mine, FlowTo, Outside
  <2>2. UNCHANGED <<probe, events>> /\ (running' = running \/ running' = NoCommand)
    BY <1>21 DEF Disconnected, Answers, Mine, FlowTo, Outside
  <2> QED
    BY <2>1, <2>2
<1>22. CASE MqttRefused
  <2>1. flow' \in FlowRecords
    <3>1. flow' = NoFlow \/ flow' = [flow EXCEPT !.at = "igw"]
      BY <1>22 DEF MqttRefused, Mine, Deactivate, StartIgw, FlowTo, Outside
    <3> QED
      BY ONLY <3>1, MoveFlow, RecordTypes, Zenon DEF RecordTypes
  <2>2. UNCHANGED <<probe, events>> /\ (running' = running \/ running' = NoCommand)
    BY <1>22 DEF MqttRefused, Mine, Deactivate, StartIgw, FlowTo, Outside
  <2> QED
    BY <2>1, <2>2
<1>23. CASE IgwRefused
  BY <1>23 DEF IgwRefused, Answers, Mine, Deactivate, Outside
<1>24. CASE OfflineFires
  BY <1>24 DEF OfflineFires, Owned, Failover, Begin, Outside
<1>25. CASE WatchdogFires
  BY <1>25 DEF WatchdogFires, Owned, ShouldFailover, Failover, Begin, Outside
<1>26. CASE RecoveryTick
  BY <1>26 DEF RecoveryTick, TryRecover, Owned, Outside
<1>27. CASE ReconnectFires
  BY <1>27 DEF ReconnectFires, Owned, ConnectMqtt, Begin
<1>28. CASE MqttReports
  <2>1. UNCHANGED <<flow, probe, running>>
    BY <1>28 DEF MqttReports, Emit, EmitKeeps
  <2>2. Len(events) < MaxEvents /\ \E e \in EventRecords : events' = Append(events, e)
    BY <1>28 DEF MqttReports, Emit, EmitKeeps, FlagTypes
  <2>3. events' \in Seq(EventRecords) /\ Len(events') <= MaxEvents
    BY <2>2, AppendProperties, LenProperties
  <2> QED
    BY <2>1, <2>3
<1>29. CASE GatewayReports
  <2>1. UNCHANGED <<flow, probe, running>>
    BY <1>29 DEF GatewayReports, Emit, EmitKeeps
  <2>2. Len(events) < MaxEvents /\ \E e \in EventRecords : events' = Append(events, e)
    BY <1>29 DEF GatewayReports, Emit, EmitKeeps, FlagTypes
  <2>3. events' \in Seq(EventRecords) /\ Len(events') <= MaxEvents
    BY <2>2, AppendProperties, LenProperties
  <2> QED
    BY <2>1, <2>3
<1>30. CASE GhostEnds
  BY <1>30 DEF GhostEnds, EmitKeeps
<1>31. ASSUME NEW up \in BOOLEAN, GhostReports(up) PROVE RecordTypes'
  <2>1. UNCHANGED <<flow, probe, running>>
    BY <1>31 DEF GhostReports, Emit, EmitKeeps
  <2>2. Len(events) < MaxEvents /\ events' = Append(events, [tok |-> ghost, up |-> up]) /\ ghost # NoToken
    BY <1>31 DEF GhostReports, Emit, EmitKeeps
  <2>3. [tok |-> ghost, up |-> up] \in EventRecords
    BY <2>2
  <2>4. events' \in Seq(EventRecords) /\ Len(events') <= MaxEvents
    BY <2>2, <2>3, AppendProperties, LenProperties
  <2> QED
    BY <2>1, <2>4
<1>32. CASE Receive
  BY <1>32 DEF Receive, Accepts, Owned
<1>33. CASE Wake
  BY <1>33 DEF Wake, TryRecover, Owned, Outside
<1>34. CASE Change
  BY <1>34 DEF Change
<1>35. ASSUME NEW c \in Configs, SaveConfig(c) PROVE RecordTypes'
  BY <1>35 DEF SaveConfig
<1>36. CASE UNCHANGED vars
  BY <1>36 DEF vars
<1> QED
  BY ONLY <1>1, <1>2, <1>3, <1>4, <1>5, <1>6, <1>7, <1>8, <1>9, <1>10, <1>11, <1>12, <1>13, <1>14,
          <1>15, <1>16, <1>17, <1>18, <1>19, <1>20, <1>21, <1>22, <1>23, <1>24, <1>25, <1>26, <1>27,
          <1>28, <1>29, <1>30, <1>31, <1>32, <1>33, <1>34, <1>35, <1>36, [Next]_vars
     DEF Next, Flows, Commands, Timers, Reports

\* A command stops the other client before it starts its own.
LEMMA CommandStep ==
    ASSUME PlainTypes, RecordTypes, CommandInv, FlowInv, [Next]_vars
    PROVE  CommandInv'
<1>0. Reserve => Fresh
  BY ReserveIsFresh
<1> USE <1>0, LinkAssumption
        DEF Fresh, NoToken, NoFlow, NoProbe, NoCommand, RecordTypes, FlowRecords, ProbeRecords,
            CommandRecords, EventRecords, PlainTypes, FlowInv, CommandInv, Exclusive, Running,
            worldVars, cfgVars, sessVars, viewVars, timerVars, taskVars, opVars, nativeVars
<1>1. CASE CallConnect
  BY <1>1 DEF CallConnect, ConnectMqtt, Begin
<1>2. CASE ConfigLoaded
  BY <1>2 DEF ConfigLoaded, FlowAt, Outside
<1>3. CASE ConfigFails
  BY <1>3 DEF ConfigFails, FlowAt, Outside
<1>4. CASE StartSelected
  BY <1>4 DEF StartSelected, FlowAt, FlowTo, StartMqtt, StartIgw, Startup, Outside
<1>5. CASE FlowDone
  BY <1>5 DEF FlowDone, FlowAt, Outside
<1>6. CASE FailoverConfig
  BY <1>6 DEF FailoverConfig, FlowAt, FlowTo, StartIgw, Outside
<1>7. CASE FailoverFails
  BY <1>7 DEF FailoverFails, FlowAt, Outside
<1>8. CASE RecoverConfig
  BY <1>8 DEF RecoverConfig, StillCurrent, Owned, Outside
<1>9. CASE RecoverFails
  BY <1>9 DEF RecoverFails, Outside
<1>10. CASE ProbeEnds
  BY <1>10 DEF ProbeEnds, StillCurrent, Outside
<1>11. CASE SwitchBack
  BY <1>11 DEF SwitchBack, StillCurrent, Owned, StartMqtt, Outside
<1>12. CASE SwitchEnds
  BY <1>12 DEF SwitchEnds, Outside
<1>13. CASE Dispatch
  BY <1>13 DEF Dispatch, Activate, Outside
<1>14. CASE NativeFirst
  BY <1>14 DEF NativeFirst, FirstStopOfMqtt, StopGateway, StopMqtt, NativeTo, FrontEnd
<1>15. CASE GatewayRefused
  BY <1>15 DEF GatewayRefused, NativeTo, FrontEnd
<1>16. CASE NativeSecond
  BY <1>16 DEF NativeSecond, StopMqtt, NativeTo, FrontEnd
<1>17. CASE StartClient
  BY <1>17 DEF StartClient, NativeTo, FrontEnd
<1>18. CASE StaleAnswer
  BY <1>18 DEF StaleAnswer, Outside
<1>19. CASE MqttStarted
  BY <1>19 DEF MqttStarted, Answers, Mine, Watched, Outside
<1>20. CASE IgwStarted
  BY <1>20 DEF IgwStarted, Answers, Mine, Probing, Owned, Outside
<1>21. CASE Disconnected
  BY <1>21 DEF Disconnected, Answers, Mine, FlowTo, Outside
<1>22. CASE MqttRefused
  BY <1>22 DEF MqttRefused, Mine, Deactivate, StartIgw, FlowTo, Outside
<1>23. CASE IgwRefused
  BY <1>23 DEF IgwRefused, Answers, Mine, Deactivate, Outside
<1>24. CASE OfflineFires
  BY <1>24 DEF OfflineFires, Owned, Failover, Begin, Outside
<1>25. CASE WatchdogFires
  BY <1>25 DEF WatchdogFires, Owned, ShouldFailover, Failover, Begin, Outside
<1>26. CASE RecoveryTick
  BY <1>26 DEF RecoveryTick, TryRecover, Owned, Outside
<1>27. CASE ReconnectFires
  BY <1>27 DEF ReconnectFires, Owned, ConnectMqtt, Begin
<1>28. CASE MqttReports
  BY <1>28 DEF MqttReports, Emit, EmitKeeps
<1>29. CASE GatewayReports
  BY <1>29 DEF GatewayReports, Emit, EmitKeeps
<1>30. CASE GhostEnds
  BY <1>30 DEF GhostEnds, EmitKeeps
<1>31. ASSUME NEW up \in BOOLEAN, GhostReports(up) PROVE CommandInv'
  BY <1>31 DEF GhostReports, Emit, EmitKeeps
<1>32. CASE Receive
  BY <1>32 DEF Receive, Accepts, Owned
<1>33. CASE Wake
  BY <1>33 DEF Wake, TryRecover, Owned, Outside
<1>34. CASE Change
  BY <1>34 DEF Change
<1>35. ASSUME NEW c \in Configs, SaveConfig(c) PROVE CommandInv'
  BY <1>35 DEF SaveConfig
<1>36. CASE UNCHANGED vars
  BY <1>36 DEF vars
<1> QED
  BY ONLY <1>1, <1>2, <1>3, <1>4, <1>5, <1>6, <1>7, <1>8, <1>9, <1>10, <1>11, <1>12, <1>13, <1>14,
          <1>15, <1>16, <1>17, <1>18, <1>19, <1>20, <1>21, <1>22, <1>23, <1>24, <1>25, <1>26, <1>27,
          <1>28, <1>29, <1>30, <1>31, <1>32, <1>33, <1>34, <1>35, <1>36, [Next]_vars
     DEF Next, Flows, Commands, Timers, Reports

\* An attempt has one command.
LEMMA FlowStep ==
    ASSUME PlainTypes, RecordTypes, CommandInv, FlowInv, DualTimers, [Next]_vars
    PROVE  (FlowInv /\ DualTimers)'
<1>0. Reserve => Fresh
  BY ReserveIsFresh
<1> USE <1>0, LinkAssumption
        DEF Fresh, NoToken, NoFlow, NoProbe, NoCommand, RecordTypes, FlowRecords, ProbeRecords,
            CommandRecords, EventRecords, PlainTypes, CommandInv, FlowInv, DualTimers, FlowAt, Running,
            worldVars, cfgVars, sessVars, viewVars, timerVars, taskVars, opVars, nativeVars
<1>1. CASE CallConnect
  BY <1>1 DEF CallConnect, ConnectMqtt, Begin
<1>2. CASE ConfigLoaded
  BY <1>2 DEF ConfigLoaded, FlowAt, Outside
<1>3. CASE ConfigFails
  BY <1>3 DEF ConfigFails, FlowAt, Outside
<1>4. CASE StartSelected
  BY <1>4 DEF StartSelected, FlowAt, FlowTo, StartMqtt, StartIgw, Startup, Outside
<1>5. CASE FlowDone
  BY <1>5 DEF FlowDone, FlowAt, Outside
<1>6. CASE FailoverConfig
  BY <1>6 DEF FailoverConfig, FlowAt, FlowTo, StartIgw, Outside
<1>7. CASE FailoverFails
  BY <1>7 DEF FailoverFails, FlowAt, Outside
<1>8. CASE RecoverConfig
  BY <1>8 DEF RecoverConfig, StillCurrent, Owned, Outside
<1>9. CASE RecoverFails
  BY <1>9 DEF RecoverFails, Outside
<1>10. CASE ProbeEnds
  BY <1>10 DEF ProbeEnds, StillCurrent, Outside
<1>11. CASE SwitchBack
  BY <1>11 DEF SwitchBack, StillCurrent, Owned, StartMqtt, Outside
<1>12. CASE SwitchEnds
  BY <1>12 DEF SwitchEnds, Outside
<1>13. CASE Dispatch
  BY <1>13 DEF Dispatch, Activate, Outside
<1>14. CASE NativeFirst
  BY <1>14 DEF NativeFirst, FirstStopOfMqtt, StopGateway, StopMqtt, NativeTo, FrontEnd
<1>15. CASE GatewayRefused
  BY <1>15 DEF GatewayRefused, NativeTo, FrontEnd
<1>16. CASE NativeSecond
  BY <1>16 DEF NativeSecond, StopMqtt, NativeTo, FrontEnd
<1>17. CASE StartClient
  BY <1>17 DEF StartClient, NativeTo, FrontEnd
<1>18. CASE StaleAnswer
  BY <1>18 DEF StaleAnswer, Outside
<1>19. CASE MqttStarted
  BY <1>19 DEF MqttStarted, Answers, Mine, Watched, Outside
<1>20. CASE IgwStarted
  BY <1>20 DEF IgwStarted, Answers, Mine, Probing, Owned, Outside
<1>21. CASE Disconnected
  BY <1>21 DEF Disconnected, Answers, Mine, FlowTo, Outside
<1>22. CASE MqttRefused
  BY <1>22 DEF MqttRefused, Mine, Deactivate, StartIgw, FlowTo, Outside
<1>23. CASE IgwRefused
  BY <1>23 DEF IgwRefused, Answers, Mine, Deactivate, Outside
<1>24. CASE OfflineFires
  BY <1>24 DEF OfflineFires, Owned, Failover, Begin, Outside
<1>25. CASE WatchdogFires
  <2>1. CASE Owned /\ ShouldFailover
    BY <1>25, <2>1 DEF WatchdogFires, Owned, ShouldFailover, Failover, Begin, Outside
  <2>2. CASE ~(Owned /\ ShouldFailover)
    BY <1>25, <2>2 DEF WatchdogFires, Outside
  <2> QED
    BY <2>1, <2>2
<1>26. CASE RecoveryTick
  BY <1>26 DEF RecoveryTick, TryRecover, Owned, Outside
<1>27. CASE ReconnectFires
  BY <1>27 DEF ReconnectFires, Owned, ConnectMqtt, Begin
<1>28. CASE MqttReports
  BY <1>28 DEF MqttReports, Emit, EmitKeeps
<1>29. CASE GatewayReports
  BY <1>29 DEF GatewayReports, Emit, EmitKeeps
<1>30. CASE GhostEnds
  BY <1>30 DEF GhostEnds, EmitKeeps
<1>31. ASSUME NEW up \in BOOLEAN, GhostReports(up) PROVE (FlowInv /\ DualTimers)'
  BY <1>31 DEF GhostReports, Emit, EmitKeeps
<1>32. CASE Receive
  BY <1>32 DEF Receive, Accepts, Owned
<1>33. CASE Wake
  BY <1>33 DEF Wake, TryRecover, Owned, Outside
<1>34. CASE Change
  BY <1>34 DEF Change
<1>35. ASSUME NEW c \in Configs, SaveConfig(c) PROVE (FlowInv /\ DualTimers)'
  BY <1>35 DEF SaveConfig
<1>36. CASE UNCHANGED vars
  BY <1>36 DEF vars
<1> QED
  BY ONLY <1>1, <1>2, <1>3, <1>4, <1>5, <1>6, <1>7, <1>8, <1>9, <1>10, <1>11, <1>12, <1>13, <1>14,
          <1>15, <1>16, <1>17, <1>18, <1>19, <1>20, <1>21, <1>22, <1>23, <1>24, <1>25, <1>26, <1>27,
          <1>28, <1>29, <1>30, <1>31, <1>32, <1>33, <1>34, <1>35, <1>36, [Next]_vars
     DEF Next, Flows, Commands, Timers, Reports

\* An active session shows the client that its command has started.
LEMMA ActiveStep ==
    ASSUME PlainTypes, RecordTypes, CommandInv, FlowInv, ActiveInv, ReportInv, [Next]_vars
    PROVE  ActiveInv'
<1>0. Reserve => Fresh
  BY ReserveIsFresh
<1> USE <1>0, LinkAssumption
        DEF Fresh, NoToken, NoFlow, NoProbe, NoCommand, RecordTypes, FlowRecords, ProbeRecords,
            CommandRecords, EventRecords, PlainTypes, CommandInv, FlowInv, ActiveInv, ReportInv, Running,
            worldVars, cfgVars, sessVars, viewVars, timerVars, taskVars, opVars, nativeVars
<1>1. CASE CallConnect
  BY <1>1 DEF CallConnect, ConnectMqtt, Begin
<1>2. CASE ConfigLoaded
  BY <1>2 DEF ConfigLoaded, FlowAt, Outside
<1>3. CASE ConfigFails
  BY <1>3 DEF ConfigFails, FlowAt, Outside
<1>4. CASE StartSelected
  BY <1>4 DEF StartSelected, FlowAt, FlowTo, StartMqtt, StartIgw, Startup, Outside
<1>5. CASE FlowDone
  BY <1>5 DEF FlowDone, FlowAt, Outside
<1>6. CASE FailoverConfig
  BY <1>6 DEF FailoverConfig, FlowAt, FlowTo, StartIgw, Outside
<1>7. CASE FailoverFails
  BY <1>7 DEF FailoverFails, FlowAt, Outside
<1>8. CASE RecoverConfig
  BY <1>8 DEF RecoverConfig, StillCurrent, Owned, Outside
<1>9. CASE RecoverFails
  BY <1>9 DEF RecoverFails, Outside
<1>10. CASE ProbeEnds
  BY <1>10 DEF ProbeEnds, StillCurrent, Outside
<1>11. CASE SwitchBack
  BY <1>11 DEF SwitchBack, StillCurrent, Owned, StartMqtt, Outside
<1>12. CASE SwitchEnds
  BY <1>12 DEF SwitchEnds, Outside
<1>13. CASE Dispatch
  BY <1>13 DEF Dispatch, Activate, Outside
<1>14. CASE NativeFirst
  BY <1>14 DEF NativeFirst, FirstStopOfMqtt, StopGateway, StopMqtt, NativeTo, FrontEnd
<1>15. CASE GatewayRefused
  BY <1>15 DEF GatewayRefused, NativeTo, FrontEnd
<1>16. CASE NativeSecond
  BY <1>16 DEF NativeSecond, StopMqtt, NativeTo, FrontEnd
<1>17. CASE StartClient
  BY <1>17 DEF StartClient, NativeTo, FrontEnd
<1>18. CASE StaleAnswer
  BY <1>18 DEF StaleAnswer, Outside
<1>19. CASE MqttStarted
  BY <1>19 DEF MqttStarted, Answers, Mine, Watched, Outside
<1>20. CASE IgwStarted
  BY <1>20 DEF IgwStarted, Answers, Mine, Probing, Owned, Outside
<1>21. CASE Disconnected
  BY <1>21 DEF Disconnected, Answers, Mine, FlowTo, Outside
<1>22. CASE MqttRefused
  BY <1>22 DEF MqttRefused, Mine, Deactivate, StartIgw, FlowTo, Outside
<1>23. CASE IgwRefused
  BY <1>23 DEF IgwRefused, Answers, Mine, Deactivate, Outside
<1>24. CASE OfflineFires
  BY <1>24 DEF OfflineFires, Owned, Failover, Begin, Outside
<1>25. CASE WatchdogFires
  BY <1>25 DEF WatchdogFires, Owned, ShouldFailover, Failover, Begin, Outside
<1>26. CASE RecoveryTick
  BY <1>26 DEF RecoveryTick, TryRecover, Owned, Outside
<1>27. CASE ReconnectFires
  BY <1>27 DEF ReconnectFires, Owned, ConnectMqtt, Begin
<1>28. CASE MqttReports
  BY <1>28 DEF MqttReports, Emit, EmitKeeps
<1>29. CASE GatewayReports
  BY <1>29 DEF GatewayReports, Emit, EmitKeeps
<1>30. CASE GhostEnds
  BY <1>30 DEF GhostEnds, EmitKeeps
<1>31. ASSUME NEW up \in BOOLEAN, GhostReports(up) PROVE ActiveInv'
  BY <1>31 DEF GhostReports, Emit, EmitKeeps
<1>32. CASE Receive
  BY <1>32 DEF Receive, Accepts, Owned
<1>33. CASE Wake
  BY <1>33 DEF Wake, TryRecover, Owned, Outside
<1>34. CASE Change
  BY <1>34 DEF Change
<1>35. ASSUME NEW c \in Configs, SaveConfig(c) PROVE ActiveInv'
  BY <1>35 DEF SaveConfig
<1>36. CASE UNCHANGED vars
  BY <1>36 DEF vars
<1> QED
  BY ONLY <1>1, <1>2, <1>3, <1>4, <1>5, <1>6, <1>7, <1>8, <1>9, <1>10, <1>11, <1>12, <1>13, <1>14,
          <1>15, <1>16, <1>17, <1>18, <1>19, <1>20, <1>21, <1>22, <1>23, <1>24, <1>25, <1>26, <1>27,
          <1>28, <1>29, <1>30, <1>31, <1>32, <1>33, <1>34, <1>35, <1>36, [Next]_vars
     DEF Next, Flows, Commands, Timers, Reports

\* Only the current client reports under its token.
LEMMA ReportStep ==
    ASSUME PlainTypes, RecordTypes, CommandInv, FlowInv, ActiveInv, ReportInv, [Next]_vars
    PROVE  ReportInv'
<1>0. Reserve => Fresh
  BY ReserveIsFresh
<1> USE <1>0, LinkAssumption
        DEF Fresh, NoToken, NoFlow, NoProbe, NoCommand, RecordTypes, FlowRecords, ProbeRecords,
            CommandRecords, EventRecords, PlainTypes, CommandInv, FlowInv, ActiveInv, ReportInv, Running,
            worldVars, cfgVars, sessVars, viewVars, timerVars, taskVars, opVars, nativeVars
<1>1. CASE CallConnect
  BY <1>1 DEF CallConnect, ConnectMqtt, Begin
<1>2. CASE ConfigLoaded
  BY <1>2 DEF ConfigLoaded, FlowAt, Outside
<1>3. CASE ConfigFails
  BY <1>3 DEF ConfigFails, FlowAt, Outside
<1>4. CASE StartSelected
  BY <1>4 DEF StartSelected, FlowAt, FlowTo, StartMqtt, StartIgw, Startup, Outside
<1>5. CASE FlowDone
  BY <1>5 DEF FlowDone, FlowAt, Outside
<1>6. CASE FailoverConfig
  BY <1>6 DEF FailoverConfig, FlowAt, FlowTo, StartIgw, Outside
<1>7. CASE FailoverFails
  BY <1>7 DEF FailoverFails, FlowAt, Outside
<1>8. CASE RecoverConfig
  BY <1>8 DEF RecoverConfig, StillCurrent, Owned, Outside
<1>9. CASE RecoverFails
  BY <1>9 DEF RecoverFails, Outside
<1>10. CASE ProbeEnds
  BY <1>10 DEF ProbeEnds, StillCurrent, Outside
<1>11. CASE SwitchBack
  BY <1>11 DEF SwitchBack, StillCurrent, Owned, StartMqtt, Outside
<1>12. CASE SwitchEnds
  BY <1>12 DEF SwitchEnds, Outside
<1>13. CASE Dispatch
  BY <1>13 DEF Dispatch, Activate, Outside
<1>14. CASE NativeFirst
  BY <1>14 DEF NativeFirst, FirstStopOfMqtt, StopGateway, StopMqtt, NativeTo, FrontEnd
<1>15. CASE GatewayRefused
  BY <1>15 DEF GatewayRefused, NativeTo, FrontEnd
<1>16. CASE NativeSecond
  BY <1>16 DEF NativeSecond, StopMqtt, NativeTo, FrontEnd
<1>17. CASE StartClient
  BY <1>17 DEF StartClient, NativeTo, FrontEnd
<1>18. CASE StaleAnswer
  BY <1>18 DEF StaleAnswer, Outside
<1>19. CASE MqttStarted
  BY <1>19 DEF MqttStarted, Answers, Mine, Watched, Outside
<1>20. CASE IgwStarted
  BY <1>20 DEF IgwStarted, Answers, Mine, Probing, Owned, Outside
<1>21. CASE Disconnected
  BY <1>21 DEF Disconnected, Answers, Mine, FlowTo, Outside
<1>22. CASE MqttRefused
  BY <1>22 DEF MqttRefused, Mine, Deactivate, StartIgw, FlowTo, Outside
<1>23. CASE IgwRefused
  BY <1>23 DEF IgwRefused, Answers, Mine, Deactivate, Outside
<1>24. CASE OfflineFires
  BY <1>24 DEF OfflineFires, Owned, Failover, Begin, Outside
<1>25. CASE WatchdogFires
  BY <1>25 DEF WatchdogFires, Owned, ShouldFailover, Failover, Begin, Outside
<1>26. CASE RecoveryTick
  BY <1>26 DEF RecoveryTick, TryRecover, Owned, Outside
<1>27. CASE ReconnectFires
  BY <1>27 DEF ReconnectFires, Owned, ConnectMqtt, Begin
<1>28. CASE MqttReports
  BY <1>28 DEF MqttReports, Emit, EmitKeeps
<1>29. CASE GatewayReports
  BY <1>29 DEF GatewayReports, Emit, EmitKeeps
<1>30. CASE GhostEnds
  BY <1>30 DEF GhostEnds, EmitKeeps
<1>31. ASSUME NEW up \in BOOLEAN, GhostReports(up) PROVE ReportInv'
  BY <1>31 DEF GhostReports, Emit, EmitKeeps
<1>32. CASE Receive
  <2>1. /\ UNCHANGED <<token, ghost, mq, gw, running, source, flow, queued>>
        /\ events # <<>> /\ events' = Tail(events)
    BY <1>32 DEF Receive
  <2>2. \A i \in 1 .. Len(events') : i + 1 \in 1 .. Len(events) /\ events'[i] = events[i + 1]
    BY <2>1, HeadTailProperties, LenProperties
  <2>3. token # NoToken => \A j \in 1 .. Len(events) : events[j].tok = token => mq = token \/ gw = token
    BY Zenon DEF ReportInv
  <2>4. token # NoToken => \A i \in 1 .. Len(events') : events'[i].tok = token => mq = token \/ gw = token
    BY ONLY <2>2, <2>3
  <2>5. /\ token' = token /\ ghost' = ghost /\ mq' = mq /\ gw' = gw /\ running' = running
        /\ source' = source /\ flow' = flow /\ queued' = queued
    BY <2>1
  <2> QED
    BY ONLY <2>4, <2>5, ReportInv DEF ReportInv, Running
<1>33. CASE Wake
  BY <1>33 DEF Wake, TryRecover, Owned, Outside
<1>34. CASE Change
  BY <1>34 DEF Change
<1>35. ASSUME NEW c \in Configs, SaveConfig(c) PROVE ReportInv'
  BY <1>35 DEF SaveConfig
<1>36. CASE UNCHANGED vars
  BY <1>36 DEF vars
<1> QED
  BY ONLY <1>1, <1>2, <1>3, <1>4, <1>5, <1>6, <1>7, <1>8, <1>9, <1>10, <1>11, <1>12, <1>13, <1>14,
          <1>15, <1>16, <1>17, <1>18, <1>19, <1>20, <1>21, <1>22, <1>23, <1>24, <1>25, <1>26, <1>27,
          <1>28, <1>29, <1>30, <1>31, <1>32, <1>33, <1>34, <1>35, <1>36, [Next]_vars
     DEF Next, Flows, Commands, Timers, Reports

\* Only a notification switches the light on.
ConnectedMove == Receive \/ (connected' => connected)

LEMMA ConnectedStep ==
    ASSUME [Next]_vars
    PROVE  ConnectedMove
<1> USE DEF ConnectedMove, worldVars, cfgVars, sessVars, viewVars, timerVars, taskVars, opVars, nativeVars
<1>1. CASE CallConnect
  BY Zenon, <1>1 DEF CallConnect, ConnectMqtt, Begin
<1>2. CASE ConfigLoaded
  BY Zenon, <1>2 DEF ConfigLoaded, FlowAt, Outside
<1>3. CASE ConfigFails
  BY Zenon, <1>3 DEF ConfigFails, FlowAt, Outside
<1>4. CASE StartSelected
  BY Zenon, <1>4 DEF StartSelected, FlowAt, FlowTo, StartMqtt, StartIgw, Startup, Outside
<1>5. CASE FlowDone
  BY Zenon, <1>5 DEF FlowDone, FlowAt, Outside
<1>6. CASE FailoverConfig
  BY Zenon, <1>6 DEF FailoverConfig, FlowAt, FlowTo, StartIgw, Outside
<1>7. CASE FailoverFails
  BY Zenon, <1>7 DEF FailoverFails, FlowAt, Outside
<1>8. CASE RecoverConfig
  BY Zenon, <1>8 DEF RecoverConfig, StillCurrent, Owned, Outside
<1>9. CASE RecoverFails
  BY Zenon, <1>9 DEF RecoverFails, Outside
<1>10. CASE ProbeEnds
  BY Zenon, <1>10 DEF ProbeEnds, StillCurrent, Outside
<1>11. CASE SwitchBack
  BY Zenon, <1>11 DEF SwitchBack, StillCurrent, Owned, StartMqtt, Outside
<1>12. CASE SwitchEnds
  BY Zenon, <1>12 DEF SwitchEnds, Outside
<1>13. CASE Dispatch
  BY Zenon, <1>13 DEF Dispatch, Activate, Outside
<1>14. CASE NativeFirst
  BY Zenon, <1>14 DEF NativeFirst, FirstStopOfMqtt, StopGateway, StopMqtt, NativeTo, FrontEnd
<1>15. CASE GatewayRefused
  BY Zenon, <1>15 DEF GatewayRefused, NativeTo, FrontEnd
<1>16. CASE NativeSecond
  BY Zenon, <1>16 DEF NativeSecond, StopMqtt, NativeTo, FrontEnd
<1>17. CASE StartClient
  BY Zenon, <1>17 DEF StartClient, NativeTo, FrontEnd
<1>18. CASE StaleAnswer
  BY Zenon, <1>18 DEF StaleAnswer, Outside
<1>19. CASE MqttStarted
  BY Zenon, <1>19 DEF MqttStarted, Answers, Mine, Watched, Outside
<1>20. CASE IgwStarted
  BY Zenon, <1>20 DEF IgwStarted, Answers, Mine, Probing, Owned, Outside
<1>21. CASE Disconnected
  BY Zenon, <1>21 DEF Disconnected, Answers, Mine, FlowTo, Outside
<1>22. CASE MqttRefused
  BY Zenon, <1>22 DEF MqttRefused, Mine, Deactivate, StartIgw, FlowTo, Outside
<1>23. CASE IgwRefused
  BY Zenon, <1>23 DEF IgwRefused, Answers, Mine, Deactivate, Outside
<1>24. CASE OfflineFires
  BY Zenon, <1>24 DEF OfflineFires, Owned, Failover, Begin, Outside
<1>25. CASE WatchdogFires
  BY Zenon, <1>25 DEF WatchdogFires, Owned, ShouldFailover, Failover, Begin, Outside
<1>26. CASE RecoveryTick
  BY Zenon, <1>26 DEF RecoveryTick, TryRecover, Owned, Outside
<1>27. CASE ReconnectFires
  BY Zenon, <1>27 DEF ReconnectFires, Owned, ConnectMqtt, Begin
<1>28. CASE MqttReports
  BY Zenon, <1>28 DEF MqttReports, Emit, EmitKeeps
<1>29. CASE GatewayReports
  BY Zenon, <1>29 DEF GatewayReports, Emit, EmitKeeps
<1>30. CASE GhostEnds
  BY Zenon, <1>30 DEF GhostEnds, EmitKeeps
<1>31. ASSUME NEW up \in BOOLEAN, GhostReports(up) PROVE ConnectedMove
  BY Zenon, <1>31 DEF GhostReports, Emit, EmitKeeps
<1>32. CASE Receive
  BY Zenon, <1>32 DEF Receive, Accepts, Owned
<1>33. CASE Wake
  BY Zenon, <1>33 DEF Wake, TryRecover, Owned, Outside
<1>34. CASE Change
  BY Zenon, <1>34 DEF Change
<1>35. ASSUME NEW c \in Configs, SaveConfig(c) PROVE ConnectedMove
  BY Zenon, <1>35 DEF SaveConfig
<1>36. CASE UNCHANGED vars
  BY <1>36 DEF vars
<1> QED
  BY ONLY <1>1, <1>2, <1>3, <1>4, <1>5, <1>6, <1>7, <1>8, <1>9, <1>10, <1>11, <1>12, <1>13, <1>14,
          <1>15, <1>16, <1>17, <1>18, <1>19, <1>20, <1>21, <1>22, <1>23, <1>24, <1>25, <1>26, <1>27,
          <1>28, <1>29, <1>30, <1>31, <1>32, <1>33, <1>34, <1>35, <1>36, [Next]_vars
     DEF Next, Flows, Commands, Timers, Reports
-----------------------------------------------------------------------------
\* The inductive invariant, for any configurations, failures and number of replacements.
THEOREM Invariance == Spec => []IInv
<1>1. Init => IInv
  <2> SUFFICES ASSUME Init PROVE IInv
    OBVIOUS
  <2> USE LinkAssumption DEF Init, NoToken, NoFlow, NoProbe, NoCommand
  <2>1. FlagTypes
    BY Zenon DEF FlagTypes
  <2>2. PlainTypes /\ RecordTypes /\ DualTimers
    BY DEF PlainTypes, RecordTypes, FlowRecords, ProbeRecords, CommandRecords, DualTimers
  <2>3. CommandInv /\ FlowInv /\ ActiveInv /\ ReportInv
    BY DEF CommandInv, Exclusive, FlowInv, FlowAt, Running, ActiveInv, ReportInv
  <2> QED
    BY <2>1, <2>2, <2>3, TokensLast, TypeParts DEF IInv
<1>2. ASSUME IInv, [Next]_vars PROVE IInv'
  <2>1. FlagTypes /\ PlainTypes /\ RecordTypes /\ DualTimers /\ CommandInv /\ FlowInv /\ ActiveInv /\ ReportInv
    BY <1>2, TypeParts DEF IInv
  <2>2. FlagTypes' /\ PlainTypes' /\ RecordTypes'
    BY <1>2, <2>1, FlagStep, PlainStep, RecordStep
  <2>3. CommandInv' /\ FlowInv' /\ DualTimers' /\ ActiveInv' /\ ReportInv'
    BY <1>2, <2>1, CommandStep, FlowStep, ActiveStep, ReportStep
  <2>4. FreeToken'
    BY <2>2, TokensLast, PTL
  <2>5. (TypeOK /\ RecordTypes <=> FlagTypes /\ PlainTypes /\ RecordTypes /\ FreeToken /\ DualTimers)'
    BY TypeParts, PTL
  <2> QED
    BY <2>2, <2>3, <2>4, <2>5 DEF IInv
<1> QED
  BY <1>1, <1>2, PTL DEF Spec

\* The commands of lib.rs and the attempts of useConnection.ts together: two clients never feed
\* the installation, and at rest the one that runs is the one that is shown.
THEOREM OneTransportAtATime == Spec => []OneTransport
<1>1. IInv => OneTransport
  <2> SUFFICES ASSUME IInv PROVE SourceAgrees
    BY DEF IInv, CommandInv, OneTransport
  <2> QED
    BY DEF IInv, ActiveInv, Running, SourceAgrees, Idle, NoCommand
<1> QED
  BY <1>1, Invariance, PTL

\* acceptsNotification lets only the running client of the source that is shown switch the
\* light on.
THEOREM LightIsLive == Spec => ConnectedIsLive
<1> DEFINE Live == ~connected /\ connected' => token = IF source = "mqtt" THEN mq ELSE gw
<1>1. IInv /\ [Next]_vars => [Live]_vars
  <2> SUFFICES ASSUME IInv, [Next]_vars, ~connected, connected'
               PROVE  token = IF source = "mqtt" THEN mq ELSE gw
    OBVIOUS
  <2>1. Receive
    BY ConnectedStep DEF ConnectedMove
  <2>2. events # <<>> /\ Accepts(Head(events))
    BY <2>1 DEF Receive
  <2>3. Head(events) = events[1] /\ 1 \in 1 .. Len(events)
    BY <2>2, LenProperties, EmptySeq DEF IInv, RecordTypes
  <2>4. token # NoToken /\ events[1].tok = token
    BY <2>2, <2>3 DEF Accepts, Owned
  <2>5. (mq = token /\ source = "mqtt") \/ (gw = token /\ source = "igw")
    BY <2>3, <2>4 DEF IInv, ReportInv
  <2> QED
    BY <2>5
<1> QED
  BY <1>1, Invariance, PTL DEF Spec, ConnectedIsLive
=============================================================================
