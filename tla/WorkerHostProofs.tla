-------------------------- MODULE WorkerHostProofs --------------------------
(***************************************************************************)
(* Proofs about WorkerHost for any sets of plugins, entries and callers    *)
(* and any limits.                                                         *)
(***************************************************************************)
EXTENDS WorkerHost, TLAPS

(* What revoke_epoch assigns is well typed. *)
LEMMA RevokeTypes ==
    ASSUME TypeOK, RevokeAuthority
    PROVE  /\ enabled' \in BOOLEAN /\ epoch' \in Nat
           /\ lease' \in [Entry -> {"none", "active", "revoked"}]
           /\ stop' \in [Entry -> BOOLEAN]
           /\ state' \in [Entry -> States]
           /\ shown' \in [Entry -> BOOLEAN]
<1>1. enabled' \in BOOLEAN
  BY Zenon DEF RevokeAuthority
<1>0. epoch' \in Nat
  BY DEF RevokeAuthority, TypeOK
<1>2. lease' \in [Entry -> {"none", "active", "revoked"}]
  BY DEF RevokeAuthority, TypeOK, Revoked
<1>3. stop' \in [Entry -> BOOLEAN]
  BY DEF RevokeAuthority, TypeOK, Raised
<1>4. state' \in [Entry -> States]
  BY DEF RevokeAuthority, TypeOK, States
<1>5. shown' \in [Entry -> BOOLEAN]
  BY DEF RevokeAuthority, TypeOK
<1> QED
  BY <1>0, <1>1, <1>2, <1>3, <1>4, <1>5

(* Every step keeps the types. *)
LEMMA TypeStep == TypeOK /\ [Next]_vars => TypeOK'
<1> SUFFICES ASSUME TypeOK, [Next]_vars PROVE TypeOK'
  OBVIOUS
<1> USE DEF TypeOK, authVars, snapVars, taskVars, entryVars, callVars
<1>1. ASSUME NEW p \in Plugin, NEW e \in Entry, NEW x \in 0 .. MaxEpoch, Register(p, e, x)
      PROVE  TypeOK'
  BY <1>1 DEF Register, Goto, States, SupAt
<1>2. ASSUME NEW e \in Entry, Supervise(e) PROVE TypeOK'
  <2>1. CASE SuperviseLoop(e)
    BY <2>1 DEF SuperviseLoop, Goto, SupAt
  <2>2. CASE SpawnRefused(e)
    BY <2>2 DEF SpawnRefused, Goto, SupAt
  <2>3. CASE SpawnGeneration(e)
    BY <2>3 DEF SpawnGeneration, NewGeneration, Goto, SupAt, States
  <2>4. CASE SpawnFails(e)
    BY <2>4 DEF SpawnFails, NewGeneration, Goto, SupAt, States
  <2>5. CASE PipesOpen(e)
    BY <2>5 DEF PipesOpen, Goto, SupAt
  <2>6. CASE PipesFail(e)
    BY <2>6 DEF PipesFail, Revoked, Goto, SupAt
  <2>7. ASSUME NEW o \in {"stopped", "exited", "failed"}, Leave(e, o) PROVE TypeOK'
    BY <2>7 DEF Leave, Goto, SupAt, Outcomes, Phases
  <2>8. CASE HelloFails(e) \/ StopSeen(e) \/ ChildExit(e) \/ PipeClosed(e) \/ StartupTimeout(e)
             \/ ProtocolFailure(e) \/ FrameUnauthorized(e)
    BY ONLY <2>7, <2>8 DEF HelloFails, StopSeen, ChildExit, PipeClosed, StartupTimeout,
                           ProtocolFailure, FrameUnauthorized
  <2>9. CASE Handshake(e)
    BY <2>9 DEF Handshake, Phases
  <2>10. CASE Ready(e)
    BY <2>10 DEF Ready, Phases, States
  <2>11. CASE Contribute(e)
    BY <2>11 DEF Contribute
  <2>12. CASE RevokeGeneration(e)
    BY <2>12 DEF RevokeGeneration, Revoked, Goto, SupAt
  <2>13. CASE ClearSnapshot(e)
    BY <2>13 DEF ClearSnapshot, Goto, SupAt, States
  <2>14. CASE Reap(e)
    BY <2>14, HostAssumption DEF Reap, Terminate, MayRestart, Goto, SupAt, Outcomes
  <2>15. CASE ReapFails(e)
    BY <2>15 DEF ReapFails, Terminate, Goto, SupAt, Outcomes
  <2>16. CASE AbortReap(e)
    BY <2>16 DEF AbortReap, Terminate, Goto, SupAt, Outcomes
  <2>17. CASE BackoffEnds(e)
    BY <2>17 DEF BackoffEnds, Goto, SupAt
  <2>18. CASE FailEntry(e)
    BY <2>18 DEF FailEntry, Revoked, Goto, SupAt, States
  <2>19. CASE Finish(e)
    BY <2>19 DEF Finish, Goto, SupAt, States
  <2>20. CASE SignalDone(e)
    BY <2>20 DEF SignalDone, Goto, SupAt
  <2> QED
    BY ONLY <1>2, <2>1, <2>2, <2>3, <2>4, <2>5, <2>6, <2>8, <2>9, <2>10, <2>11, <2>12, <2>13,
            <2>14, <2>15, <2>16, <2>17, <2>18, <2>19, <2>20 DEF Supervise
<1>3. ASSUME NEW e \in Entry, WorkerExits(e) \/ LateReap(e) PROVE TypeOK'
  BY <1>3 DEF WorkerExits, LateReap
<1>4. CASE Revoke
  BY <1>4, RevokeTypes DEF Revoke, RevokeAuthority
<1>5. ASSUME NEW x \in 0 .. MaxEpoch, ResumeInEpoch(x) PROVE TypeOK'
  BY <1>5 DEF ResumeInEpoch
<1>6. CASE Callers
  <2> SUFFICES ASSUME NEW c \in Caller,
                      \/ \E p \in Plugin, o \in {"stop", "remove"} : FindEntry(c, o, p)
                      \/ SignalStop(c) \/ WaitRevoked(c) \/ StopAll(c)
                      \/ ShutdownFlag(c) \/ ShutdownRevoke(c) \/ CollectEntries(c) \/ Return(c)
               PROVE  TypeOK'
    BY <1>6 DEF Callers
  <2> Registered \subseteq Entry
    BY DEF Registered
  <2>1. ASSUME NEW p \in Plugin, NEW o \in {"stop", "remove"}, FindEntry(c, o, p) PROVE TypeOK'
    BY <2>1 DEF FindEntry, Call, Ops, CallAt, Results
  <2>2. CASE SignalStop(c)
    BY <2>2 DEF SignalStop, Revoked, Raised, CallAt
  <2>3. CASE WaitRevoked(c)
    BY <2>3 DEF WaitRevoked, Call, Ops, CallAt, Results
  <2>4. CASE StopAll(c)
    BY <2>4, RevokeTypes DEF StopAll, RevokeAuthority, Call, Ops, CallAt, Results
  <2>5. CASE ShutdownFlag(c)
    BY <2>5 DEF ShutdownFlag, Call, Ops, CallAt, Results
  <2>6. CASE ShutdownRevoke(c)
    BY <2>6, RevokeTypes DEF ShutdownRevoke, RevokeAuthority, CallAt
  <2>7. CASE CollectEntries(c)
    BY <2>7 DEF CollectEntries, CallAt
  <2>8. CASE Return(c)
    BY <2>8 DEF Return, Answer, CallAt, Results
  <2> QED
    BY <2>1, <2>2, <2>3, <2>4, <2>5, <2>6, <2>7, <2>8
<1>7. CASE UNCHANGED vars
  BY <1>7 DEF vars
<1> QED
  BY ONLY <1>1, <1>2, <1>3, <1>4, <1>5, <1>6, <1>7, [Next]_vars DEF Next

(* A registry slot is taken or given up only when its previous entry has    *)
(* ended and was reaped.                                                    *)
LEMMA SlotsStep ==
    ASSUME IInv, TypeOK', [Next]_vars
    PROVE  SlotsInv'
<1> USE DEF authVars, snapVars, taskVars, entryVars, callVars
<1>f. CASE UNCHANGED <<registry, plugin, done, reaped>>
  BY <1>f DEF IInv, TypeOK, SlotsInv
<1>1. ASSUME NEW p \in Plugin, NEW e \in Entry, NEW x \in 0 .. MaxEpoch, Register(p, e, x)
      PROVE  SlotsInv'
  BY <1>1, HostAssumption DEF IInv, TypeOK, SlotsInv, TaskInv, Register, Replaceable
<1>2. ASSUME NEW e \in Entry, Supervise(e) PROVE SlotsInv'
  <2>1. CASE SpawnGeneration(e)
    BY <2>1, HostAssumption DEF IInv, TypeOK, SlotsInv, TaskInv, SpawnGeneration
  <2>2. CASE Reap(e)
    BY <2>2, HostAssumption DEF IInv, TypeOK, SlotsInv, TaskInv, Reap, Terminate
  <2>3. CASE ReapFails(e) \/ AbortReap(e)
    BY <2>3, HostAssumption DEF IInv, TypeOK, SlotsInv, TaskInv, ReapFails, AbortReap, Terminate
  <2>4. CASE SignalDone(e)
    BY <2>4, HostAssumption DEF IInv, TypeOK, SlotsInv, TaskInv, SignalDone
  <2> QED
    BY ONLY <1>2, <1>f, <2>1, <2>2, <2>3, <2>4
       DEF Supervise, SuperviseLoop, SpawnRefused, SpawnFails, PipesOpen, PipesFail,
           HelloFails, StopSeen, ChildExit, PipeClosed, StartupTimeout, ProtocolFailure,
           FrameUnauthorized, Leave, Handshake, Ready, Contribute, RevokeGeneration, ClearSnapshot, BackoffEnds,
           FailEntry, Finish, entryVars
<1>3. ASSUME NEW c \in Caller, Return(c) PROVE SlotsInv'
  BY <1>3, HostAssumption DEF IInv, TypeOK, SlotsInv, TaskInv, Return
<1> QED
  BY ONLY <1>f, <1>1, <1>2, <1>3, [Next]_vars
     DEF Next, WorkerExits, LateReap, Revoke, RevokeAuthority, ResumeInEpoch, Callers, FindEntry,
         SignalStop, WaitRevoked, StopAll, ShutdownFlag, ShutdownRevoke, CollectEntries,
         entryVars, vars

(* The position of a supervisor task fixes its entry's process and flags.   *)
LEMMA TaskStep ==
    ASSUME IInv, TypeOK', [Next]_vars
    PROVE  TaskInv'
<1> USE HostAssumption DEF authVars, snapVars, taskVars, entryVars, callVars
<1>f. CASE UNCHANGED <<plugin, sup, proc, done, reaped>>
  BY <1>f DEF IInv, TypeOK, TaskInv
<1>1. ASSUME NEW p \in Plugin, NEW e \in Entry, NEW x \in 0 .. MaxEpoch, Register(p, e, x)
      PROVE  TaskInv'
  BY <1>1 DEF IInv, TypeOK, TaskInv, Register, Goto
<1>2. ASSUME NEW e \in Entry, Supervise(e) PROVE TaskInv'
  <2> USE DEF IInv, TypeOK, TaskInv, Goto
  <2>1. CASE SuperviseLoop(e) \/ SpawnRefused(e)
    BY <2>1 DEF SuperviseLoop, SpawnRefused
  <2>2. CASE SpawnGeneration(e)
    BY <2>2 DEF SpawnGeneration
  <2>3. CASE SpawnFails(e)
    BY <2>3 DEF SpawnFails
  <2>4. CASE PipesOpen(e) \/ PipesFail(e)
    BY <2>4 DEF PipesOpen, PipesFail
  <2>5. ASSUME NEW o \in Outcomes, sup[e] \in {"pipes", "run"}, Leave(e, o) PROVE TaskInv'
    BY <2>5 DEF Leave
  <2>6. CASE HelloFails(e) \/ StopSeen(e) \/ ChildExit(e) \/ PipeClosed(e) \/ StartupTimeout(e)
             \/ ProtocolFailure(e) \/ FrameUnauthorized(e)
    BY ONLY <2>5, <2>6 DEF Outcomes, HelloFails, StopSeen, ChildExit, PipeClosed, StartupTimeout,
                           ProtocolFailure, FrameUnauthorized
  <2>7. CASE RevokeGeneration(e) \/ ClearSnapshot(e)
    BY <2>7 DEF RevokeGeneration, ClearSnapshot
  <2>8. CASE Reap(e)
    BY <2>8 DEF Reap, Terminate
  <2>9. CASE ReapFails(e)
    BY <2>9 DEF ReapFails, Terminate
  <2>10. CASE AbortReap(e)
    BY <2>10 DEF AbortReap, Terminate
  <2>11. CASE BackoffEnds(e) \/ FailEntry(e) \/ Finish(e)
    BY <2>11 DEF BackoffEnds, FailEntry, Finish
  <2>12. CASE SignalDone(e)
    BY <2>12 DEF SignalDone
  <2> QED
    BY ONLY <1>2, <1>f, <2>1, <2>2, <2>3, <2>4, <2>6, <2>7, <2>8, <2>9, <2>10, <2>11, <2>12
       DEF Supervise, Handshake, Ready, Contribute, taskVars, entryVars
<1>3. ASSUME NEW e \in Entry, WorkerExits(e) \/ LateReap(e) PROVE TaskInv'
  BY <1>3 DEF IInv, TypeOK, TaskInv, WorkerExits, LateReap
<1> QED
  BY ONLY <1>f, <1>1, <1>2, <1>3, [Next]_vars
     DEF Next, Revoke, RevokeAuthority, ResumeInEpoch, Callers, FindEntry, SignalStop,
         WaitRevoked, StopAll, ShutdownFlag, ShutdownRevoke, CollectEntries, Return,
         taskVars, entryVars, vars

(* No entry belongs to a future epoch, and none of a revoked one is         *)
(* authorized again: revocation advances the epoch.                         *)
LEMMA EpochStep ==
    ASSUME IInv, TypeOK', [Next]_vars
    PROVE  EpochInv'
<1> USE HostAssumption DEF authVars, snapVars, taskVars, entryVars, callVars
<1>f. CASE UNCHANGED <<plugin, entryEpoch, epoch, enabled>>
  BY <1>f DEF IInv, TypeOK, EpochInv
<1>1. ASSUME NEW p \in Plugin, NEW e \in Entry, NEW x \in 0 .. MaxEpoch, Register(p, e, x)
      PROVE  EpochInv'
  BY <1>1 DEF IInv, TypeOK, EpochInv, Register
<1>2. CASE RevokeAuthority
  BY <1>2 DEF IInv, TypeOK, EpochInv, RevokeAuthority
<1>3. ASSUME NEW x \in 0 .. MaxEpoch, ResumeInEpoch(x) PROVE EpochInv'
  BY <1>3 DEF IInv, TypeOK, EpochInv, ResumeInEpoch
<1>4. ASSUME NEW e \in Entry, Supervise(e) PROVE UNCHANGED <<plugin, entryEpoch, epoch, enabled>>
  BY ONLY <1>4
     DEF Supervise, SuperviseLoop, SpawnRefused, SpawnGeneration, SpawnFails, PipesOpen,
         PipesFail, HelloFails, StopSeen, ChildExit, PipeClosed, StartupTimeout, ProtocolFailure,
         FrameUnauthorized, Leave, Handshake, Ready, Contribute, RevokeGeneration, ClearSnapshot,
         Reap, ReapFails, AbortReap, Terminate, BackoffEnds, FailEntry, Finish, SignalDone,
         entryVars, authVars
<1> QED
  BY ONLY <1>f, <1>1, <1>2, <1>3, <1>4, [Next]_vars
     DEF Next, WorkerExits, LateReap, Revoke, Callers, FindEntry, SignalStop, WaitRevoked,
         StopAll, ShutdownFlag, ShutdownRevoke, CollectEntries, Return, entryVars, authVars, vars

(* An entry whose task has not ended is the registered one of its plugin.   *)
LEMMA LiveIsRegistered ==
    ASSUME IInv, NEW e \in Entry, sup[e] \notin {"none", "over"}
    PROVE  e \in Registered /\ plugin[e] \in Plugin /\ registry[plugin[e]] = e
BY HostAssumption DEF IInv, TypeOK, SlotsInv, TaskInv, Registered

(* An active lease belongs to an authorized, unstopped generation.          *)
LEMMA LeaseStep ==
    ASSUME IInv, TypeOK', [Next]_vars
    PROVE  LeaseInv'
<1> USE HostAssumption DEF authVars, snapVars, taskVars, entryVars, callVars, Authorized
<1>f. CASE UNCHANGED <<lease, sup, enabled, epoch, entryEpoch, stop>>
  BY <1>f DEF IInv, TypeOK, LeaseInv
<1>1. ASSUME NEW p \in Plugin, NEW e \in Entry, NEW x \in 0 .. MaxEpoch, Register(p, e, x)
      PROVE  LeaseInv'
  BY <1>1 DEF IInv, TypeOK, TaskInv, LeaseInv, Register, Goto
<1>2. ASSUME NEW e \in Entry, Supervise(e) PROVE LeaseInv'
  <2> USE DEF IInv, TypeOK, TaskInv, LeaseInv, Goto
  <2>1. CASE SuperviseLoop(e) \/ SpawnRefused(e)
    BY <2>1 DEF SuperviseLoop, SpawnRefused
  <2>2. CASE SpawnGeneration(e)
    BY <2>2 DEF SpawnGeneration, MaySpawn
  <2>3. CASE SpawnFails(e)
    BY <2>3 DEF SpawnFails
  <2>4. CASE PipesOpen(e)
    BY <2>4 DEF PipesOpen
  <2>5. ASSUME NEW o \in Outcomes, sup[e] \in {"pipes", "run"}, Leave(e, o) PROVE LeaseInv'
    BY <2>5 DEF Leave
  <2>6. CASE HelloFails(e) \/ StopSeen(e) \/ ChildExit(e) \/ PipeClosed(e) \/ StartupTimeout(e)
             \/ ProtocolFailure(e) \/ FrameUnauthorized(e)
    BY ONLY <2>5, <2>6 DEF Outcomes, HelloFails, StopSeen, ChildExit, PipeClosed, StartupTimeout,
                           ProtocolFailure, FrameUnauthorized
  <2>7. CASE PipesFail(e) \/ RevokeGeneration(e) \/ FailEntry(e)
    BY <2>7 DEF PipesFail, RevokeGeneration, FailEntry, Revoked
  <2>8. CASE ClearSnapshot(e) \/ BackoffEnds(e) \/ Finish(e) \/ SignalDone(e)
    BY <2>8 DEF ClearSnapshot, BackoffEnds, Finish, SignalDone
  <2>9. CASE Reap(e) \/ ReapFails(e) \/ AbortReap(e)
    BY <2>9 DEF Reap, ReapFails, AbortReap, Terminate
  <2> QED
    BY ONLY <1>2, <1>f, <2>1, <2>2, <2>3, <2>4, <2>6, <2>7, <2>8, <2>9
       DEF Supervise, Handshake, Ready, Contribute, taskVars, entryVars, authVars
<1>3. CASE RevokeAuthority
  BY <1>3, LiveIsRegistered DEF IInv, TypeOK, LeaseInv, RevokeAuthority, Revoked
<1>4. ASSUME NEW x \in 0 .. MaxEpoch, ResumeInEpoch(x) PROVE LeaseInv'
  BY <1>4 DEF IInv, TypeOK, LeaseInv, ResumeInEpoch
<1>5. ASSUME NEW c \in Caller, SignalStop(c) PROVE LeaseInv'
  BY <1>5 DEF IInv, TypeOK, LeaseInv, SignalStop, Revoked, Raised
<1> QED
  BY ONLY <1>f, <1>1, <1>2, <1>3, <1>4, <1>5, [Next]_vars
     DEF Next, WorkerExits, LateReap, Revoke, Callers, FindEntry, WaitRevoked, StopAll,
         ShutdownFlag, ShutdownRevoke, CollectEntries, Return, taskVars, entryVars, authVars, vars

(* A worker is shown as running only in the session that registered it.     *)
LEMMA RunningStep ==
    ASSUME IInv, TypeOK', [Next]_vars
    PROVE  RunningInv'
<1> USE HostAssumption DEF authVars, snapVars, taskVars, entryVars, callVars, Authorized
<1>f. CASE UNCHANGED <<state, shown, sup, phase, enabled, epoch, entryEpoch>>
  BY <1>f DEF IInv, TypeOK, RunningInv
<1>1. ASSUME NEW p \in Plugin, NEW e \in Entry, NEW x \in 0 .. MaxEpoch, Register(p, e, x)
      PROVE  RunningInv'
  BY <1>1 DEF IInv, TypeOK, TaskInv, RunningInv, Register, Goto
<1>2. ASSUME NEW e \in Entry, Supervise(e) PROVE RunningInv'
  <2> USE DEF IInv, TypeOK, TaskInv, RunningInv, Goto
  <2>1. CASE SuperviseLoop(e) \/ SpawnRefused(e)
    BY <2>1 DEF SuperviseLoop, SpawnRefused
  <2>2. CASE SpawnGeneration(e) \/ SpawnFails(e)
    BY <2>2 DEF SpawnGeneration, SpawnFails, NewGeneration
  <2>3. CASE PipesOpen(e) \/ PipesFail(e)
    BY <2>3 DEF PipesOpen, PipesFail
  <2>5. ASSUME NEW o \in Outcomes, sup[e] \in {"pipes", "run"}, Leave(e, o) PROVE RunningInv'
    BY <2>5 DEF Leave
  <2>6. CASE HelloFails(e) \/ StopSeen(e) \/ ChildExit(e) \/ PipeClosed(e) \/ StartupTimeout(e)
             \/ ProtocolFailure(e) \/ FrameUnauthorized(e)
    BY ONLY <2>5, <2>6 DEF Outcomes, HelloFails, StopSeen, ChildExit, PipeClosed, StartupTimeout,
                           ProtocolFailure, FrameUnauthorized
  <2>7. CASE Handshake(e)
    BY <2>7 DEF Handshake
  <2>8. CASE Ready(e)
    BY <2>8 DEF Ready
  <2>9. CASE Contribute(e)
    BY <2>9 DEF Contribute
  <2>10. CASE RevokeGeneration(e)
    BY <2>10 DEF RevokeGeneration
  <2>11. CASE ClearSnapshot(e) \/ FailEntry(e) \/ Finish(e)
    BY <2>11 DEF ClearSnapshot, FailEntry, Finish
  <2>12. CASE Reap(e) \/ ReapFails(e) \/ AbortReap(e)
    BY <2>12 DEF Reap, ReapFails, AbortReap, Terminate
  <2>13. CASE BackoffEnds(e) \/ SignalDone(e)
    BY <2>13 DEF BackoffEnds, SignalDone
  <2> QED
    BY ONLY <1>2, <2>1, <2>2, <2>3, <2>6, <2>7, <2>8, <2>9, <2>10, <2>11, <2>12, <2>13
       DEF Supervise
<1>3. CASE RevokeAuthority
  BY <1>3, LiveIsRegistered DEF IInv, TypeOK, RunningInv, RevokeAuthority
<1>4. ASSUME NEW x \in 0 .. MaxEpoch, ResumeInEpoch(x) PROVE RunningInv'
  BY <1>4, LiveIsRegistered DEF IInv, TypeOK, TaskInv, EpochInv, RunningInv, ResumeInEpoch
<1> QED
  BY ONLY <1>f, <1>1, <1>2, <1>3, <1>4, [Next]_vars
     DEF Next, WorkerExits, LateReap, Revoke, Callers, FindEntry, SignalStop, WaitRevoked,
         StopAll, ShutdownFlag, ShutdownRevoke, CollectEntries, Return, snapVars, taskVars,
         entryVars, authVars, vars

(* What a caller waits for stays registered or ended, and what stop, remove *)
(* and shutdown established stays so.                                       *)
LEMMA CallStep ==
    ASSUME IInv, TypeOK', [Next]_vars
    PROVE  CallInv'
<1> USE HostAssumption DEF authVars, snapVars, taskVars, entryVars, callVars
<1>f. CASE UNCHANGED <<op, at, awaited, result, plugin, done, reaped, stopped, enabled>>
  BY <1>f DEF IInv, TypeOK, CallInv
<1>1. ASSUME NEW p \in Plugin, NEW e \in Entry, NEW x \in 0 .. MaxEpoch, Register(p, e, x)
      PROVE  CallInv'
  BY <1>1 DEF IInv, TypeOK, CallInv, Register
<1>2. ASSUME NEW e \in Entry, Supervise(e) PROVE CallInv'
  <2> USE DEF IInv, TypeOK, TaskInv, CallInv
  <2>1. CASE SpawnGeneration(e)
    BY <2>1 DEF SpawnGeneration
  <2>2. CASE Reap(e) \/ ReapFails(e) \/ AbortReap(e)
    BY <2>2 DEF Reap, ReapFails, AbortReap, Terminate
  <2>3. CASE SignalDone(e)
    BY <2>3 DEF SignalDone
  <2> QED
    BY ONLY <1>2, <1>f, <2>1, <2>2, <2>3
       DEF Supervise, SuperviseLoop, SpawnRefused, SpawnFails, PipesOpen, PipesFail,
           HelloFails, StopSeen, ChildExit, PipeClosed, StartupTimeout, ProtocolFailure, FrameUnauthorized, Leave,
           Handshake, Ready, Contribute, RevokeGeneration, ClearSnapshot, BackoffEnds, FailEntry,
           Finish, authVars, entryVars, callVars
<1>3. CASE Revoke
  BY <1>3 DEF IInv, TypeOK, CallInv, Revoke, RevokeAuthority
<1>4. ASSUME NEW x \in 0 .. MaxEpoch, ResumeInEpoch(x) PROVE CallInv'
  BY <1>4 DEF IInv, TypeOK, CallInv, ResumeInEpoch
<1>5. ASSUME NEW c \in Caller,
             \/ \E p \in Plugin, o \in {"stop", "remove"} : FindEntry(c, o, p)
             \/ SignalStop(c) \/ WaitRevoked(c) \/ StopAll(c)
             \/ ShutdownFlag(c) \/ ShutdownRevoke(c) \/ CollectEntries(c) \/ Return(c)
      PROVE  CallInv'
  <2> USE DEF IInv, TypeOK, CallInv
  <2>0. Registered \subseteq Entry /\ \A e \in Registered : plugin[e] # NoPlugin
    BY DEF Registered, SlotsInv
  <2>1. ASSUME NEW p \in Plugin, NEW o \in {"stop", "remove"}, FindEntry(c, o, p) PROVE CallInv'
    BY <2>1 DEF FindEntry, Call, SlotsInv
  <2>2. CASE SignalStop(c)
    BY <2>2 DEF SignalStop
  <2>3. CASE WaitRevoked(c)
    BY <2>0, <2>3 DEF WaitRevoked, Call
  <2>4. CASE StopAll(c)
    BY <2>4 DEF StopAll, RevokeAuthority, Call
  <2>5. CASE ShutdownFlag(c)
    BY <2>5 DEF ShutdownFlag, Call
  <2>6. CASE ShutdownRevoke(c)
    BY <2>6 DEF ShutdownRevoke, RevokeAuthority
  <2>7. CASE CollectEntries(c)
    <3>1. \A e \in Entry : plugin[e] # NoPlugin => e \in Registered \/ done[e]
      BY DEF Registered, SlotsInv
    <3> QED
      BY <2>0, <2>7, <3>1 DEF CollectEntries
  <2>8. CASE Return(c)
    BY <2>8 DEF Return, Answer
  <2> QED
    BY ONLY <1>5, <2>1, <2>2, <2>3, <2>4, <2>5, <2>6, <2>7, <2>8
<1> QED
  BY ONLY <1>f, <1>1, <1>2, <1>3, <1>4, <1>5, [Next]_vars
     DEF Next, WorkerExits, LateReap, Callers, entryVars, authVars, callVars, vars

(* The snapshot of an entry in the session follows its task, and stays      *)
(* stopped or failed once the task has returned.                            *)
LEMMA StatusStep ==
    ASSUME IInv, TypeOK', [Next]_vars
    PROVE  StatusInv'
<1> USE HostAssumption DEF authVars, snapVars, taskVars, entryVars, callVars, Authorized
<1>f. CASE UNCHANGED <<state, sup, phase, outcome, enabled, epoch, entryEpoch>>
  BY <1>f DEF IInv, TypeOK, StatusInv
<1>1. ASSUME NEW p \in Plugin, NEW e \in Entry, NEW x \in 0 .. MaxEpoch, Register(p, e, x)
      PROVE  StatusInv'
  BY <1>1 DEF IInv, TypeOK, TaskInv, StatusInv, Register, Goto
<1>2. ASSUME NEW e \in Entry, Supervise(e) PROVE StatusInv'
  <2> USE DEF IInv, TypeOK, StatusInv, Goto
  <2>1. CASE SuperviseLoop(e) \/ SpawnRefused(e)
    BY <2>1 DEF SuperviseLoop, SpawnRefused
  <2>2. CASE SpawnGeneration(e) \/ SpawnFails(e)
    BY <2>2 DEF SpawnGeneration, SpawnFails, NewGeneration
  <2>3. CASE PipesOpen(e) \/ PipesFail(e)
    BY <2>3 DEF PipesOpen, PipesFail
  <2>5. ASSUME NEW o \in Outcomes, sup[e] \in {"pipes", "run"}, Leave(e, o) PROVE StatusInv'
    BY <2>5 DEF Leave, RunningInv, Phases
  <2>6. CASE HelloFails(e) \/ StopSeen(e) \/ ChildExit(e) \/ PipeClosed(e) \/ StartupTimeout(e)
             \/ ProtocolFailure(e) \/ FrameUnauthorized(e)
    BY ONLY <2>5, <2>6 DEF Outcomes, HelloFails, StopSeen, ChildExit, PipeClosed, StartupTimeout,
                           ProtocolFailure, FrameUnauthorized
  <2>7. CASE Handshake(e)
    BY <2>7 DEF Handshake
  <2>8. CASE Ready(e)
    BY <2>8 DEF Ready
  <2>9. CASE RevokeGeneration(e)
    BY <2>9 DEF RevokeGeneration
  <2>10. CASE ClearSnapshot(e)
    BY <2>10 DEF ClearSnapshot
  <2>11. CASE FailEntry(e) \/ Finish(e)
    BY <2>11 DEF FailEntry, Finish
  <2>12. CASE Reap(e) \/ ReapFails(e) \/ AbortReap(e)
    BY <2>12 DEF Reap, ReapFails, AbortReap, Terminate, MayRestart
  <2>13. CASE BackoffEnds(e) \/ SignalDone(e)
    BY <2>13 DEF BackoffEnds, SignalDone
  <2> QED
    BY ONLY <1>2, <1>f, <2>1, <2>2, <2>3, <2>6, <2>7, <2>8, <2>9, <2>10, <2>11, <2>12, <2>13
       DEF Supervise, Contribute, taskVars, entryVars, authVars
<1>3. CASE RevokeAuthority
  BY <1>3 DEF IInv, TypeOK, StatusInv, RevokeAuthority
<1>4. ASSUME NEW x \in 0 .. MaxEpoch, ResumeInEpoch(x) PROVE StatusInv'
  BY <1>4 DEF IInv, TypeOK, TaskInv, EpochInv, StatusInv, ResumeInEpoch
<1> QED
  BY ONLY <1>f, <1>1, <1>2, <1>3, <1>4, [Next]_vars
     DEF Next, WorkerExits, LateReap, Revoke, Callers, FindEntry, SignalStop, WaitRevoked,
         StopAll, ShutdownFlag, ShutdownRevoke, CollectEntries, Return, snapVars, taskVars,
         entryVars, authVars, vars

(* The inductive invariant holds initially and is kept by every step.       *)
THEOREM Invariance == Spec => []IInv
<1>1. Init => IInv
  <2> SUFFICES ASSUME Init PROVE IInv
    OBVIOUS
  <2>1. enabled \in BOOLEAN /\ stopped \in BOOLEAN
    BY Zenon DEF Init
  <2>2. TypeOK
    BY <2>1, HostAssumption DEF Init, TypeOK, States, SupAt, Phases, Outcomes, Ops, CallAt, Results
  <2>3. SlotsInv /\ TaskInv /\ EpochInv
    BY HostAssumption DEF Init, SlotsInv, TaskInv, EpochInv
  <2>4. LeaseInv /\ RunningInv /\ CallInv /\ StatusInv
    BY DEF Init, LeaseInv, RunningInv, CallInv, StatusInv
  <2> QED
    BY <2>2, <2>3, <2>4 DEF IInv
<1>2. IInv /\ [Next]_vars => IInv'
  <2> SUFFICES ASSUME IInv, [Next]_vars PROVE IInv'
    OBVIOUS
  <2>1. TypeOK'
    BY TypeStep DEF IInv
  <2> QED
    BY <2>1, SlotsStep, TaskStep, EpochStep, LeaseStep, RunningStep, CallStep, StatusStep
       DEF IInv
<1> QED
  BY <1>1, <1>2, PTL DEF Spec

(* Every variable keeps its type, and a supervisor never counts more than   *)
(* MAX_RESTARTS restarts.                                                   *)
THEOREM TypeCorrect == Spec => []TypeOK
<1>1. IInv => TypeOK
  BY DEF IInv
<1> QED
  BY <1>1, Invariance, PTL

(* Two processes of one plugin never exist at the same time: an entry that  *)
(* lost its slot was reaped, and only one entry holds the slot.             *)
THEOREM SingleProcess == Spec => []OneProcessPerPlugin
<1>1. IInv => OneProcessPerPlugin
  BY HostAssumption DEF IInv, TypeOK, SlotsInv, TaskInv, OneProcessPerPlugin
<1> QED
  BY <1>1, Invariance, PTL

(* commit_if_active succeeds only for the registered, unstopped, unreaped   *)
(* generation of the enabled session.                                       *)
THEOREM LeaseCurrency == Spec => []LeaseIsCurrent
<1>1. IInv => LeaseIsCurrent
  <2> SUFFICES ASSUME IInv, NEW e \in Entry, lease[e] = "active"
               PROVE  Authorized(e) /\ ~stop[e] /\ ~reaped[e] /\ proc[e] # "none"
                      /\ registry[plugin[e]] = e
    BY DEF LeaseIsCurrent
  <2>1. Authorized(e) /\ ~stop[e] /\ sup[e] \in {"pipes", "run", "revoke"}
    BY DEF IInv, LeaseInv
  <2>2. ~reaped[e] /\ proc[e] # "none"
    BY <2>1 DEF IInv, TaskInv
  <2> QED
    BY <2>1, <2>2, LiveIsRegistered
<1> QED
  BY <1>1, Invariance, PTL

(* The dashboard shows contributions only of a running worker of the        *)
(* enabled session.                                                         *)
THEOREM DashboardCurrency == Spec => []DashboardIsCurrent
<1>1. IInv => DashboardIsCurrent
  BY DEF IInv, RunningInv, DashboardIsCurrent
<1> QED
  BY <1>1, Invariance, PTL

(* Neither native work nor the dashboard outlives a worker's authority.      *)
THEOREM AuthorityCurrency == Spec => []AuthorityIsCurrent
<1>1. LeaseIsCurrent /\ DashboardIsCurrent => AuthorityIsCurrent
  BY DEF AuthorityIsCurrent
<1> QED
  BY <1>1, LeaseCurrency, DashboardCurrency, PTL

(* When stop or remove answers Ok the process is gone and its task ended.   *)
THEOREM OkIsFinal == Spec => []OkMeansReaped
<1>1. IInv => OkMeansReaped
  BY DEF IInv, TypeOK, TaskInv, CallInv, OkMeansReaped
<1> QED
  BY <1>1, Invariance, PTL

(* After shutdown has revoked nothing enables the host again, and when it   *)
(* returns every task ever registered has ended.                            *)
THEOREM ShutdownFinal == Spec => []ShutdownIsTerminal
<1>1. IInv => ShutdownIsTerminal
  BY DEF IInv, TypeOK, TaskInv, CallInv, ShutdownIsTerminal
<1> QED
  BY <1>1, Invariance, PTL

(* What has ended or was shut down stays so, as its caller was told.        *)
THEOREM EndingsFinal == Spec => []EndingsAreFinal
<1>1. OkMeansReaped /\ ShutdownIsTerminal => EndingsAreFinal
  BY DEF EndingsAreFinal
<1> QED
  BY <1>1, OkIsFinal, ShutdownFinal, PTL

-----------------------------------------------------------------------------
(* The host keeps the contract of PluginWorkers.                           *)

Workers == [p \in Plugin |-> Status(registry[p])]

\* The four kinds of entries that a status tells apart.
Coming(e) == Authorized(e) /\ state[e] \in {"starting", "restarting"}
Up(e) == Authorized(e) /\ state[e] = "running"
Stuck(e) == ~Coming(e) /\ ~Up(e) /\ done[e] /\ ~reaped[e]
Over(e) == ~Coming(e) /\ ~Up(e) /\ ~(done[e] /\ ~reaped[e])

(* The status of an entry names its kind.                                   *)
LEMMA StatusKinds ==
    ASSUME NEW e \in Entry
    PROVE  /\ Coming(e) => Status(e) = "starting"
           /\ Up(e) => Status(e) = "running"
           /\ Stuck(e) => Status(e) = "stuck"
           /\ Over(e) => Status(e) = "over"
BY HostAssumption DEF Coming, Up, Stuck, Over, Status

(* The same in the next state.                                              *)
LEMMA StatusKindsNext ==
    ASSUME NEW e \in Entry
    PROVE  /\ Coming(e)' => Status(e)' = "starting"
           /\ Up(e)' => Status(e)' = "running"
           /\ Stuck(e)' => Status(e)' = "stuck"
           /\ Over(e)' => Status(e)' = "over"
BY HostAssumption DEF Coming, Up, Stuck, Over, Status

(* An entry shown as starting or running has a task that goes on.           *)
LEMMA LiveKinds ==
    ASSUME IInv, NEW e \in Entry, sup[e] # "none", Coming(e) \/ Up(e)
    PROVE  ~done[e] /\ sup[e] \notin {"returned", "over"}
BY DEF IInv, TypeOK, TaskInv, StatusInv, Coming, Up

(* What changes one live entry only changes the status of its plugin.       *)
LEMMA OneWorker ==
    ASSUME IInv, NEW e \in Entry, sup[e] \notin {"none", "over"},
           UNCHANGED <<enabled, epoch, registry, plugin, entryEpoch>>,
           \A f \in Entry \ {e} :
               state'[f] = state[f] /\ done'[f] = done[f] /\ reaped'[f] = reaped[f]
    PROVE  /\ plugin[e] \in Plugin
           /\ Workers[plugin[e]] = Status(e)
           /\ Workers' = [Workers EXCEPT ![plugin[e]] = Status(e)']
<1>1. plugin[e] \in Plugin /\ registry[plugin[e]] = e
  BY LiveIsRegistered
<1>2. ASSUME NEW p \in Plugin, p # plugin[e] PROVE Status(registry[p])' = Status(registry[p])
  <2>1. registry[p] = NoEntry \/ registry[p] \in Entry \ {e}
    BY <1>2 DEF IInv, TypeOK, SlotsInv
  <2> QED
    BY <2>1 DEF Status, Authorized
<1>3. Status(registry[plugin[e]])' = Status(e)'
  BY <1>1 DEF Status, Authorized
<1>4. Workers'[plugin[e]] = Status(e)'
  BY <1>1, <1>3 DEF Workers, Status, Authorized
<1>5. ASSUME NEW p \in Plugin, p # plugin[e] PROVE Workers'[p] = Workers[p]
  BY <1>2, <1>5 DEF Workers, Status, Authorized
<1>6. Workers' = [p \in Plugin |-> Workers'[p]] /\ Workers = [p \in Plugin |-> Workers[p]]
  BY DEF Workers
<1>7. Workers[plugin[e]] = Status(e)
  BY <1>1 DEF Workers
<1> HIDE DEF Workers
<1> QED
  BY <1>1, <1>4, <1>5, <1>6, <1>7

(* A supervisor changes nothing of other entries.                           *)
LEMMA TaskFrame ==
    ASSUME IInv, NEW e \in Entry, Supervise(e)
    PROVE  /\ sup[e] \notin {"none", "over"}
           /\ UNCHANGED <<enabled, epoch, stopped, registry, plugin, entryEpoch>>
           /\ \A f \in Entry \ {e} :
                 state'[f] = state[f] /\ done'[f] = done[f] /\ reaped'[f] = reaped[f]
<1> USE DEF IInv, TypeOK, authVars, snapVars, taskVars, entryVars, callVars
<1>1. CASE SuperviseLoop(e) \/ SpawnRefused(e) \/ PipesOpen(e) \/ PipesFail(e) \/ BackoffEnds(e)
           \/ Handshake(e) \/ Contribute(e) \/ RevokeGeneration(e)
  BY <1>1 DEF SuperviseLoop, SpawnRefused, PipesOpen, PipesFail, BackoffEnds, Handshake,
              Contribute, RevokeGeneration
<1>2. CASE SpawnGeneration(e) \/ SpawnFails(e)
  BY <1>2 DEF SpawnGeneration, SpawnFails, NewGeneration
<1>3. CASE HelloFails(e) \/ StopSeen(e) \/ ChildExit(e) \/ PipeClosed(e) \/ StartupTimeout(e)
           \/ ProtocolFailure(e) \/ FrameUnauthorized(e)
  BY <1>3 DEF HelloFails, StopSeen, ChildExit, PipeClosed, StartupTimeout, ProtocolFailure,
              FrameUnauthorized, Leave
<1>4. CASE Ready(e) \/ ClearSnapshot(e) \/ FailEntry(e) \/ Finish(e) \/ SignalDone(e)
  BY <1>4 DEF Ready, ClearSnapshot, FailEntry, Finish, SignalDone
<1>5. CASE Reap(e) \/ ReapFails(e) \/ AbortReap(e)
  BY <1>5 DEF Reap, ReapFails, AbortReap, Terminate
<1> QED
  BY ONLY <1>1, <1>2, <1>3, <1>4, <1>5, Supervise(e) DEF Supervise

(* No step of a supervisor revives what is not shown as alive: it spawns    *)
(* and handshakes only while its entry is shown as starting.                *)
LEMMA NoRevival ==
    ASSUME IInv, NEW e \in Entry, Supervise(e), Coming(e)' \/ Up(e)'
    PROVE  Coming(e) \/ Up(e)
<1> USE DEF IInv, TypeOK, StatusInv, Coming, Up, Authorized,
            authVars, snapVars, taskVars, entryVars, callVars
<1>f. CASE UNCHANGED <<state, enabled, epoch, entryEpoch>>
  BY <1>f
<1>1. CASE SpawnGeneration(e) \/ SpawnFails(e)
  BY <1>1 DEF SpawnGeneration, SpawnFails, MaySpawn
<1>2. CASE Ready(e)
  BY <1>2, HostAssumption DEF Ready
<1>3. CASE ClearSnapshot(e)
  BY <1>3 DEF ClearSnapshot
<1>4. CASE FailEntry(e) \/ Finish(e)
  BY <1>4 DEF FailEntry, Finish
<1> QED
  BY ONLY <1>f, <1>1, <1>2, <1>3, <1>4, Supervise(e)
     DEF Supervise, SuperviseLoop, SpawnRefused, PipesOpen, PipesFail, HelloFails, StopSeen,
         ChildExit, PipeClosed, StartupTimeout, ProtocolFailure, FrameUnauthorized, Leave,
         Handshake, Contribute, RevokeGeneration, Reap, ReapFails, AbortReap, Terminate,
         BackoffEnds, SignalDone, snapVars, entryVars, authVars

(* A supervisor's step is a change of its worker, or none that is seen.     *)
LEMMA TaskChangesWorker ==
    ASSUME IInv, NEW e \in Entry, Supervise(e)
    PROVE  \/ /\ plugin[e] \in Plugin
              /\ Contract!WorkerChanges(plugin[e])
              /\ UNCHANGED <<enabled, epoch, stopped>>
           \/ UNCHANGED Contract!vars
<1>1. /\ sup[e] \notin {"none", "over"}
      /\ UNCHANGED <<enabled, epoch, stopped, registry, plugin, entryEpoch>>
      /\ \A f \in Entry \ {e} :
            state'[f] = state[f] /\ done'[f] = done[f] /\ reaped'[f] = reaped[f]
  BY TaskFrame
<1>2. /\ plugin[e] \in Plugin
      /\ Workers[plugin[e]] = Status(e)
      /\ Workers' = [Workers EXCEPT ![plugin[e]] = Status(e)']
  BY <1>1, OneWorker
<1>3. ~Stuck(e)
  BY <1>1 DEF IInv, TypeOK, TaskInv, Stuck
<1>4. Over(e) => Over(e)' \/ Stuck(e)'
  BY NoRevival DEF Over, Stuck
<1>5. /\ Coming(e) \/ Up(e) \/ Over(e) \/ Stuck(e)
      /\ Coming(e)' \/ Up(e)' \/ Over(e)' \/ Stuck(e)'
  BY DEF Over, Stuck
<1>6. \/ Status(e) = "starting" /\ Status(e)' \in {"starting", "running", "over", "stuck"}
      \/ Status(e) = "running" /\ Status(e)' \in {"starting", "running", "over", "stuck"}
      \/ Status(e) = "over" /\ Status(e)' \in {"over", "stuck"}
  BY <1>3, <1>4, <1>5, StatusKinds, StatusKindsNext
<1>7. CASE Status(e)' = Status(e)
  <2>1. Workers' = Workers
    BY <1>2, <1>7 DEF Workers
  <2> QED
    BY <1>1, <2>1 DEF Contract!vars, Workers
<1>8. CASE Status(e)' # Status(e)
  <2>1. Contract!WorkerChanges(plugin[e])
    BY <1>2, <1>6, <1>8 DEF Contract!WorkerChanges, Contract!Live, Contract!Becomes, Workers
  <2> QED
    BY <1>1, <1>2, <2>1
<1> QED
  BY <1>7, <1>8

(* What changes no snapshot, end, epoch or slot changes no status.          *)
LEMMA SameWorkers ==
    ASSUME UNCHANGED <<enabled, epoch, stopped, registry, entryEpoch, state, done, reaped>>
    PROVE  UNCHANGED Contract!vars
BY DEF Contract!vars, Status, Authorized

(* A registered entry is one of the four kinds, and its status says which.  *)
LEMMA StatusOfSlot ==
    ASSUME IInv, NEW p \in Plugin
    PROVE  /\ Workers[p] = Status(registry[p])
           /\ registry[p] = NoEntry => Workers[p] = "none"
           /\ registry[p] # NoEntry => registry[p] \in Entry /\ sup[registry[p]] # "none"
BY HostAssumption DEF IInv, TypeOK, SlotsInv, TaskInv, Workers, Status

(* register launches a worker under the authority, in a slot that is free   *)
(* or whose worker is over.                                                 *)
LEMMA RegisterLaunches ==
    ASSUME IInv, TypeOK', NEW p \in Plugin, NEW e \in Entry, NEW x \in 0 .. MaxEpoch,
           Register(p, e, x)
    PROVE  Contract!Launch(p)
<1> USE HostAssumption
<1>1. enabled /\ ~stopped /\ plugin[e] = NoPlugin /\ Replaceable(p)
  BY DEF Register
<1>2. /\ UNCHANGED <<enabled, epoch, stopped, done, reaped>>
      /\ registry' = [registry EXCEPT ![p] = e]
      /\ entryEpoch' = [entryEpoch EXCEPT ![e] = epoch]
      /\ state' = [state EXCEPT ![e] = "starting"]
  BY DEF Register, authVars
<1>3. Workers[p] \in {"none", "over"}
  <2>1. CASE registry[p] = NoEntry
    BY <2>1, StatusOfSlot
  <2>2. CASE registry[p] # NoEntry
    <3>1. Over(registry[p]) /\ registry[p] \in Entry
      BY <1>1, <2>2, StatusOfSlot DEF Replaceable, Over, Coming, Up
    <3> QED
      BY <3>1, StatusKinds, StatusOfSlot
  <2> QED
    BY <2>1, <2>2
<1>4. Workers'[p] = "starting"
  <2>1. registry'[p] = e /\ entryEpoch'[e] = epoch' /\ enabled' /\ state'[e] = "starting"
    BY <1>1, <1>2 DEF IInv, TypeOK
  <2> QED
    BY <2>1 DEF Workers, Status, Authorized
<1>5. ASSUME NEW q \in Plugin, q # p PROVE Workers'[q] = Workers[q]
  <2>1. registry'[q] = registry[q]
    BY <1>2, <1>5 DEF IInv, TypeOK
  <2>2. registry[q] = NoEntry \/ registry[q] \in Entry \ {e}
    BY <1>1 DEF IInv, TypeOK, SlotsInv
  <2>3. registry[q] # NoEntry =>
            entryEpoch'[registry[q]] = entryEpoch[registry[q]] /\ state'[registry[q]] = state[registry[q]]
    BY <1>2, <2>2 DEF IInv, TypeOK
  <2> QED
    BY <1>2, <2>1, <2>2, <2>3 DEF Workers, Status, Authorized
<1>6. Workers' = [Workers EXCEPT ![p] = "starting"]
  <2>1. Workers' = [q \in Plugin |-> Workers'[q]] /\ Workers = [q \in Plugin |-> Workers[q]]
    BY DEF Workers
  <2> QED
    BY ONLY <1>4, <1>5, <2>1
<1> QED
  BY <1>1, <1>2, <1>3, <1>6 DEF Contract!Launch, Contract!Becomes, Workers

(* revoke_epoch ends every worker that is shown as alive.                   *)
LEMMA RevokeEnds ==
    ASSUME IInv, RevokeAuthority, UNCHANGED stopped
    PROVE  Contract!RevokeEpoch
<1> USE HostAssumption
<1>1. ~enabled' /\ epoch' = epoch + 1 /\ UNCHANGED <<registry, entryEpoch, done, reaped>>
  BY DEF RevokeAuthority
<1>2. ASSUME NEW p \in Plugin
      PROVE  Workers'[p] = IF Workers[p] \in {"starting", "running"} THEN "over" ELSE Workers[p]
  <2>1. CASE registry[p] = NoEntry
    BY <1>1, <2>1 DEF Workers, Status
  <2>2. CASE registry[p] # NoEntry
    <3> DEFINE e == registry[p]
    <3>1. e \in Entry /\ sup[e] # "none" /\ Workers[p] = Status(e)
      BY <2>2, StatusOfSlot
    <3>2. Workers'[p] = IF done[e] /\ ~reaped[e] THEN "stuck" ELSE "over"
      BY <1>1, <2>2 DEF Workers, Status, Authorized
    <3>3. Coming(e) \/ Up(e) => ~done[e]
      BY <3>1, LiveKinds
    <3>4. Coming(e) \/ Up(e) \/ Over(e) \/ Stuck(e)
      BY DEF Over, Stuck
    <3> HIDE DEF e
    <3>5. CASE Coming(e) \/ Up(e)
      BY <3>1, <3>2, <3>3, <3>5, StatusKinds
    <3>6. CASE Over(e)
      BY <3>1, <3>2, <3>6, StatusKinds DEF Over
    <3>7. CASE Stuck(e)
      BY <3>1, <3>2, <3>7, StatusKinds DEF Stuck
    <3> QED
      BY <3>4, <3>5, <3>6, <3>7
  <2> QED
    BY <2>1, <2>2
<1>3. Workers' = [p \in Plugin |-> Workers'[p]]
  BY DEF Workers
<1>4. Workers' = [p \in Plugin |-> IF Workers[p] \in {"starting", "running"}
                                   THEN "over" ELSE Workers[p]]
  BY ONLY <1>2, <1>3
<1>5. enabled' = FALSE
  BY Zenon DEF RevokeAuthority
<1> QED
  BY <1>1, <1>4, <1>5 DEF Contract!RevokeEpoch, Contract!Live, Workers

(* A resume within an epoch brings no worker of an earlier epoch back.      *)
LEMMA ResumeResumes ==
    ASSUME IInv, NEW x \in 0 .. MaxEpoch, ResumeInEpoch(x)
    PROVE  Contract!Resume
<1> USE HostAssumption
<1>1. ~stopped /\ enabled' = TRUE
      /\ UNCHANGED <<epoch, stopped, registry, entryEpoch, state, done, reaped>>
  BY Zenon DEF ResumeInEpoch, snapVars, entryVars
<1>2. ASSUME NEW p \in Plugin PROVE Status(registry[p])' = Status(registry[p])
  <2>1. registry[p] # NoEntry => (Authorized(registry[p])' <=> Authorized(registry[p]))
    BY <1>1 DEF IInv, TypeOK, SlotsInv, EpochInv, Authorized
  <2> QED
    BY <1>1, <2>1 DEF Status
<1>3. Workers' = Workers
  BY <1>2 DEF Workers
<1> QED
  BY <1>1, <1>3 DEF Contract!Resume, Workers

(* A returning caller removes at most the one worker it awaited, when that  *)
(* one is over.                                                             *)
LEMMA ReturnRemoves ==
    ASSUME IInv, NEW c \in Caller, Return(c)
    PROVE  (\E p \in Plugin : Contract!Remove(p)) \/ UNCHANGED Contract!vars
<1> USE HostAssumption
<1>1. UNCHANGED <<enabled, epoch, stopped, entryEpoch, state, done, reaped>>
  BY DEF Return, authVars, snapVars, entryVars
<1>2. CASE registry' = registry
  BY <1>1, <1>2, SameWorkers
<1>3. CASE registry' # registry
  <2>1. /\ op[c] = "remove"
        /\ \A e \in awaited[c] : done[e] /\ reaped[e]
        /\ registry' = [q \in Plugin |-> IF registry[q] \in awaited[c] THEN NoEntry ELSE registry[q]]
    BY <1>3 DEF Return
  <2>2. PICK p \in Plugin : registry[p] \in awaited[c]
    BY <1>3, <2>1 DEF IInv, TypeOK
  <2>3. \A q \in Plugin : registry[q] \in awaited[c] => q = p
    <3>1. \A e, f \in awaited[c] : e = f
      BY <2>1 DEF IInv, CallInv
    <3>2. awaited[c] \subseteq Entry
      BY DEF IInv, TypeOK
    <3> QED
      BY <2>2, <3>1, <3>2 DEF IInv, SlotsInv
  <2>4. registry[p] \in Entry /\ done[registry[p]] /\ reaped[registry[p]]
    BY <2>1, <2>2 DEF IInv, TypeOK
  <2>5. sup[registry[p]] # "none" /\ Workers[p] = Status(registry[p])
    BY <2>4, StatusOfSlot
  <2>6. Workers[p] = "over"
    <3>1. Over(registry[p])
      BY <2>4, <2>5, LiveKinds DEF Over
    <3> QED
      BY <2>4, <2>5, <3>1, StatusKinds
  <2>7. Workers'[p] = "none"
    BY <2>1, <2>2 DEF Workers, Status
  <2>8. ASSUME NEW q \in Plugin, q # p PROVE Workers'[q] = Workers[q]
    <3>1. registry'[q] = registry[q]
      BY <2>1, <2>3, <2>8
    <3> QED
      BY <1>1, <3>1 DEF Workers, Status, Authorized
  <2>9. Workers' = [q \in Plugin |-> Workers'[q]] /\ Workers = [q \in Plugin |-> Workers[q]]
    BY DEF Workers
  <2>10. Workers' = [Workers EXCEPT ![p] = "none"]
    BY ONLY <2>7, <2>8, <2>9
  <2> QED
    BY <1>1, <2>6, <2>10 DEF Contract!Remove, Contract!Becomes, Workers
<1> QED
  BY <1>2, <1>3

(* Every step of the host is one of the contract, or none that is seen.     *)
LEMMA ContractStep ==
    ASSUME IInv, TypeOK', [Next]_vars
    PROVE  [Contract!Next]_(Contract!vars)
<1> USE DEF authVars, snapVars, taskVars, entryVars, callVars
<1>1. ASSUME NEW p \in Plugin, NEW e \in Entry, NEW x \in 0 .. MaxEpoch, Register(p, e, x)
      PROVE  Contract!Next
  BY <1>1, RegisterLaunches DEF Contract!Next
<1>2. ASSUME NEW e \in Entry, Supervise(e)
      PROVE  Contract!Next \/ UNCHANGED Contract!vars
  BY <1>2, TaskChangesWorker DEF Contract!Next
<1>3. CASE RevokeAuthority /\ UNCHANGED stopped
  BY <1>3, RevokeEnds DEF Contract!Next
<1>4. ASSUME NEW x \in 0 .. MaxEpoch, ResumeInEpoch(x) PROVE Contract!Next
  BY <1>4, ResumeResumes DEF Contract!Next
<1>5. ASSUME NEW c \in Caller, Return(c) PROVE Contract!Next \/ UNCHANGED Contract!vars
  BY <1>5, ReturnRemoves DEF Contract!Next
<1>6. ASSUME NEW c \in Caller, ShutdownFlag(c) PROVE Contract!Next
  <2>1. /\ stopped' = TRUE
        /\ UNCHANGED <<enabled, epoch, registry, entryEpoch, state, done, reaped>>
    BY <1>6, Zenon DEF ShutdownFlag
  <2>2. Workers' = Workers
    BY <2>1 DEF Workers, Status, Authorized
  <2> QED
    BY <2>1, <2>2 DEF Contract!Shutdown, Contract!Next, Workers
<1>7. CASE UNCHANGED <<enabled, epoch, stopped, registry, entryEpoch, state, done, reaped>>
  BY <1>7, SameWorkers
<1> QED
  BY ONLY <1>1, <1>2, <1>3, <1>4, <1>5, <1>6, <1>7, [Next]_vars
     DEF Next, WorkerExits, LateReap, Revoke, Callers, FindEntry, SignalStop, WaitRevoked,
         StopAll, ShutdownRevoke, CollectEntries, snapVars, entryVars, authVars, vars

(* The host implements what PluginWorkers promises to the package store and *)
(* the session transitions: a worker is launched only under the authority   *)
(* and never beside one that is left, a revocation ends all workers in one  *)
(* step, and none comes back without a new registration.                    *)
THEOREM KeepsItsContract == Spec => KeepsContract
<1>1. Init => Contract!Init
  <2> SUFFICES ASSUME Init PROVE Contract!Init
    OBVIOUS
  <2>1. enabled = TRUE /\ epoch = 0 /\ stopped = FALSE /\ registry = [p \in Plugin |-> NoEntry]
    BY Zenon DEF Init
  <2>2. Workers = [p \in Plugin |-> "none"]
    BY <2>1 DEF Workers, Status
  <2> QED
    BY <2>1, <2>2 DEF Contract!Init, Workers
<1>2. IInv /\ IInv' /\ [Next]_vars => [Contract!Next]_(Contract!vars)
  BY ContractStep DEF IInv
<1> QED
  BY <1>1, <1>2, Invariance, PTL DEF Spec, KeepsContract, Contract!Spec
=============================================================================
