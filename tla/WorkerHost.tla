----------------------------- MODULE WorkerHost -----------------------------
(***************************************************************************)
(* The plugin worker host of src-tauri/src/plugins/runtime.rs: the session *)
(* authority, the registry of worker entries, the supervisor task of each  *)
(* entry with its bounded restarts, the generation lease of each process   *)
(* (plugins/generation.rs) and the callers that stop, remove, revoke and   *)
(* shut down.                                                              *)
(*                                                                         *)
(* A step is what happens between two points at which another task can run:*)
(* one critical section of the authority or registry mutex, one branch of  *)
(* a select!, one statement after an await.  The locks of a WorkerEntry    *)
(* that revoke_generation takes one after the other form one step.         *)
(***************************************************************************)
EXTENDS Naturals, FiniteSets

CONSTANTS
    Plugin,        \* plugin identities
    NoPlugin,
    Entry,         \* Arc<WorkerEntry> handles: one per successful registration
    NoEntry,
    Caller,        \* tasks that call stop, remove, stop_all, wait_revoked, shutdown
    Configured,    \* plugins whose WorkerSpec carries a configuration
    MaxWorkers,    \* MAX_WORKERS
    MaxRestarts,   \* MAX_RESTARTS
    MaxEpoch       \* bound on the number of revocations

ASSUME HostAssumption ==
    /\ NoPlugin \notin Plugin
    /\ NoEntry \notin Entry
    /\ Configured \subseteq Plugin
    /\ IsFiniteSet(Plugin)
    /\ MaxWorkers \in Nat \ {0}
    /\ MaxRestarts \in Nat
    /\ MaxEpoch \in Nat

VARIABLES
    enabled, epoch,   \* Authority
    stopped,          \* HostInner.stopped
    registry,         \* HostInner.entries
    plugin,           \* the entry's plugin_id, NoPlugin until registered
    entryEpoch,       \* WorkerEntry.epoch
    stop,             \* the entry's stop watch channel
    done,             \* the entry's done watch channel
    reaped,           \* WorkerEntry.reaped
    state,            \* PluginSnapshot.state
    generation,       \* PluginSnapshot.generation
    restarts,         \* supervise's restart_count
    lease,            \* the generation lease, and with it snapshot.instance_id
    shown,            \* the snapshot has contributions
    sup,              \* where the supervisor task is
    phase,            \* StartupPhase of run_generation
    outcome,          \* Outcome of the last run_generation
    proc,             \* the operating-system process
    op, at, awaited, result   \* a caller's operation, progress, entries, answer

authVars == <<enabled, epoch, stopped>>
snapVars == <<state, generation, shown>>
taskVars == <<sup, phase, outcome, restarts>>
entryVars == <<plugin, entryEpoch, stop, done, reaped, lease, proc>>
callVars == <<op, at, awaited, result>>
vars == <<authVars, registry, snapVars, taskVars, entryVars, callVars>>

States == {"starting", "running", "restarting", "stopped", "failed"}
SupAt == {"none", "loop", "spawn", "pipes", "run", "revoke", "update", "terminate",
          "backoff", "abort", "fail", "final", "returned", "over"}
Phases == {"identity", "configuration", "running"}
Outcomes == {"none", "stopped", "exited", "failed"}
Ops == {"none", "stop", "remove", "stop_all", "wait_revoked", "shutdown"}
CallAt == {"idle", "found", "flagged", "revoked", "waiting", "returned"}
Results == {"none", "ok", "worker_error", "already_registered"}

Init ==
    /\ enabled = TRUE /\ epoch = 0 /\ stopped = FALSE
    /\ registry = [p \in Plugin |-> NoEntry]
    /\ plugin = [e \in Entry |-> NoPlugin]
    /\ entryEpoch = [e \in Entry |-> 0]
    /\ stop = [e \in Entry |-> FALSE]
    /\ done = [e \in Entry |-> FALSE]
    /\ reaped = [e \in Entry |-> TRUE]
    /\ state = [e \in Entry |-> "stopped"]
    /\ generation = [e \in Entry |-> 0]
    /\ restarts = [e \in Entry |-> 0]
    /\ lease = [e \in Entry |-> "none"]
    /\ shown = [e \in Entry |-> FALSE]
    /\ sup = [e \in Entry |-> "none"]
    /\ phase = [e \in Entry |-> "identity"]
    /\ outcome = [e \in Entry |-> "none"]
    /\ proc = [e \in Entry |-> "none"]
    /\ op = [c \in Caller |-> "none"]
    /\ at = [c \in Caller |-> "idle"]
    /\ awaited = [c \in Caller |-> {}]
    /\ result = [c \in Caller |-> "none"]

-----------------------------------------------------------------------------
(* Helpers *)

Registered == {registry[p] : p \in Plugin} \ {NoEntry}

\* WorkerEntry::authorized
Authorized(e) == enabled /\ entryEpoch[e] = epoch

\* revoke_generation on every entry of es: the lease is revoked and with it
\* the snapshot loses its instance_id.
Revoked(es) ==
    [e \in Entry |-> IF e \in es /\ lease[e] = "active" THEN "revoked" ELSE lease[e]]

\* stop.send(true) on every entry of es.  Once supervise has returned its
\* receiver is gone and the send changes nothing.
Raised(es) ==
    [e \in Entry |-> IF e \in es /\ sup[e] \notin {"returned", "over"} THEN TRUE ELSE stop[e]]

Goto(e, where) == sup' = [sup EXCEPT ![e] = where]

-----------------------------------------------------------------------------
(* Registration: PluginHost::register under the authority and registry locks. *)

\* Mutant: a registration whose process was not reaped is replaced.
BugReplaceable(p) == registry[p] # NoEntry => done[registry[p]]

\* The previous registration of p, if any, may be replaced.
Replaceable(p) ==
    registry[p] # NoEntry =>
        /\ state[registry[p]] \in {"stopped", "failed"}
        /\ done[registry[p]]
        /\ reaped[registry[p]]

HasRoom(p) ==
    registry[p] # NoEntry \/ Cardinality({q \in Plugin : registry[q] # NoEntry}) < MaxWorkers

\* expected is the epoch of the session that authorized the operation.
Register(p, e, expected) ==
    /\ ~stopped
    /\ enabled /\ expected = epoch
    /\ plugin[e] = NoPlugin
    /\ Replaceable(p)
    /\ HasRoom(p)
    /\ registry' = [registry EXCEPT ![p] = e]
    /\ plugin' = [plugin EXCEPT ![e] = p]
    /\ entryEpoch' = [entryEpoch EXCEPT ![e] = epoch]
    /\ state' = [state EXCEPT ![e] = "starting"]
    /\ generation' = [generation EXCEPT
           ![e] = IF registry[p] = NoEntry THEN 0 ELSE generation[registry[p]]]
    /\ Goto(e, "loop")
    /\ UNCHANGED <<authVars, shown, phase, outcome, restarts, stop, done, reaped, lease, proc,
                   callVars>>

-----------------------------------------------------------------------------
(* The supervisor task: supervise, spawn_generation, run_generation. *)

\* Mutant: the recheck under the authority lock forgets stop.
BugMaySpawn(e) == Authorized(e)

\* What spawn_generation checks under the authority lock.
MaySpawn(e) == Authorized(e) /\ ~stop[e]

\* The head of supervise's loop reads stop and authority.
SuperviseLoop(e) ==
    /\ sup[e] = "loop"
    /\ Goto(e, IF stop[e] \/ ~Authorized(e) THEN "final" ELSE "spawn")
    /\ UNCHANGED <<authVars, registry, snapVars, phase, outcome, restarts, entryVars, callVars>>

\* spawn_generation finds the session revoked or the entry stopped.
SpawnRefused(e) ==
    /\ sup[e] = "spawn"
    /\ ~MaySpawn(e)
    /\ Goto(e, "final")
    /\ UNCHANGED <<authVars, registry, snapVars, phase, outcome, restarts, entryVars, callVars>>

\* The snapshot update that precedes Command::spawn.
NewGeneration(e) ==
    /\ state' = [state EXCEPT ![e] = IF restarts[e] = 0 THEN "starting" ELSE "restarting"]
    /\ generation' = [generation EXCEPT ![e] = @ + 1]
    /\ shown' = [shown EXCEPT ![e] = FALSE]

\* A child process starts under the authority lock with a fresh lease.
SpawnGeneration(e) ==
    /\ sup[e] = "spawn"
    /\ MaySpawn(e)
    /\ NewGeneration(e)
    /\ proc' = [proc EXCEPT ![e] = "alive"]
    /\ lease' = [lease EXCEPT ![e] = "active"]
    /\ reaped' = [reaped EXCEPT ![e] = FALSE]
    /\ Goto(e, "pipes")
    /\ UNCHANGED <<authVars, registry, phase, outcome, restarts, plugin, entryEpoch, stop,
                   done, callVars>>

\* Command::spawn fails: fail_entry follows.
SpawnFails(e) ==
    /\ sup[e] = "spawn"
    /\ MaySpawn(e)
    /\ NewGeneration(e)
    /\ Goto(e, "fail")
    /\ UNCHANGED <<authVars, registry, phase, outcome, restarts, entryVars, callVars>>

\* WorkerPipes::new takes the three pipes and run_generation queues the hello.
PipesOpen(e) ==
    /\ sup[e] = "pipes"
    /\ Goto(e, "run")
    /\ UNCHANGED <<authVars, registry, snapVars, phase, outcome, restarts, entryVars, callVars>>

\* WorkerPipes::new returns None: revoke, then terminate without pipes.
PipesFail(e) ==
    /\ sup[e] = "pipes"
    /\ lease' = Revoked({e})
    /\ Goto(e, "abort")
    /\ UNCHANGED <<authVars, registry, snapVars, phase, outcome, restarts, plugin, entryEpoch,
                   stop, done, reaped, proc, callVars>>

\* run_generation leaves its loop with outcome o; its startup phase ends with it.
Leave(e, o) ==
    /\ outcome' = [outcome EXCEPT ![e] = o]
    /\ phase' = [phase EXCEPT ![e] = "identity"]
    /\ Goto(e, "revoke")
    /\ UNCHANGED <<authVars, registry, snapVars, restarts, entryVars, callVars>>

\* The hello frame cannot be queued.
HelloFails(e) == sup[e] = "pipes" /\ Leave(e, "failed")

\* stop.changed(): the first branch of the biased select!.  A stop sent after
\* that branch was polled does not prevent one of the branches below.
StopSeen(e) == sup[e] = "run" /\ stop[e] /\ Leave(e, "stopped")

\* child.wait() completes.
ChildExit(e) == sup[e] = "run" /\ proc[e] = "exited" /\ Leave(e, "exited")

\* End of file on stdout or a failed pipe write.
PipeClosed(e) == sup[e] = "run" /\ Authorized(e) /\ Leave(e, "exited")

\* Mutant: the deadline covers the identity handshake only.
BugStartupTimeout(e) == sup[e] = "run" /\ phase[e] = "identity" /\ Leave(e, "failed")

\* The tick branch finds the startup deadline passed.
StartupTimeout(e) == sup[e] = "run" /\ phase[e] # "running" /\ Leave(e, "failed")

\* A frame is malformed, unauthorized, out of protocol or over the rate limit,
\* or the writer reports a timeout or a cancelled partial frame.
ProtocolFailure(e) == sup[e] = "run" /\ Authorized(e) /\ Leave(e, "failed")

\* A frame arrives and the session is no longer the entry's.
FrameUnauthorized(e) == sup[e] = "run" /\ ~Authorized(e) /\ Leave(e, "stopped")

\* The identity handshake of a worker that needs its configuration first.
Handshake(e) ==
    /\ sup[e] = "run" /\ Authorized(e)
    /\ phase[e] = "identity" /\ plugin[e] \in Configured
    /\ phase' = [phase EXCEPT ![e] = "configuration"]
    /\ UNCHANGED <<authVars, registry, snapVars, sup, outcome, restarts, entryVars, callVars>>

\* The frame that completes startup: the worker is running.
Ready(e) ==
    /\ sup[e] = "run" /\ Authorized(e)
    /\ phase[e] = IF plugin[e] \in Configured THEN "configuration" ELSE "identity"
    /\ phase' = [phase EXCEPT ![e] = "running"]
    /\ state' = [state EXCEPT ![e] = "running"]
    /\ UNCHANGED <<authVars, registry, generation, shown, sup, outcome, restarts, entryVars,
                   callVars>>

\* A contributions frame replaces what the dashboard shows of the worker.
Contribute(e) ==
    /\ sup[e] = "run" /\ Authorized(e) /\ phase[e] = "running"
    /\ \E visible \in BOOLEAN : shown' = [shown EXCEPT ![e] = visible]
    /\ UNCHANGED <<authVars, registry, state, generation, taskVars, entryVars, callVars>>

\* supervise revokes the generation when run_generation has returned ...
RevokeGeneration(e) ==
    /\ sup[e] = "revoke"
    /\ lease' = Revoked({e})
    /\ Goto(e, "update")
    /\ UNCHANGED <<authVars, registry, snapVars, phase, outcome, restarts, plugin, entryEpoch,
                   stop, done, reaped, proc, callVars>>

\* ... and clears the snapshot before it awaits the process.
ClearSnapshot(e) ==
    /\ sup[e] = "update"
    /\ state' = [state EXCEPT ![e] = IF outcome[e] = "stopped" THEN "stopped" ELSE "restarting"]
    /\ shown' = [shown EXCEPT ![e] = FALSE]
    /\ Goto(e, "terminate")
    /\ UNCHANGED <<authVars, registry, generation, phase, outcome, restarts, entryVars, callVars>>

\* terminate: shutdown frame, grace period, kill, bounded wait for the reap.
\* The outcome of the iteration is then used up.
Terminate(e, ok) ==
    /\ proc' = IF ok THEN [proc EXCEPT ![e] = "none"] ELSE proc
    /\ reaped' = [reaped EXCEPT ![e] = ok]
    /\ outcome' = [outcome EXCEPT ![e] = "none"]
    /\ UNCHANGED <<authVars, registry, snapVars, phase, plugin, entryEpoch, stop, done,
                   lease, callVars>>

\* An exited worker that has restarts left is started again after a backoff.
MayRestart(e) == outcome[e] = "exited" /\ restarts[e] < MaxRestarts

Reap(e) ==
    /\ sup[e] = "terminate"
    /\ Terminate(e, TRUE)
    /\ Goto(e, IF outcome[e] = "stopped" THEN "final"
               ELSE IF MayRestart(e) THEN "backoff" ELSE "fail")
    /\ restarts' = IF MayRestart(e) THEN [restarts EXCEPT ![e] = @ + 1] ELSE restarts

ReapFails(e) ==
    /\ sup[e] = "terminate"
    /\ Terminate(e, FALSE)
    /\ Goto(e, "fail")
    /\ UNCHANGED restarts

\* The same wait on the path without pipes; fail_entry follows either way.
AbortReap(e) ==
    /\ sup[e] = "abort"
    /\ \E ok \in BOOLEAN : Terminate(e, ok)
    /\ Goto(e, "fail")
    /\ UNCHANGED restarts

\* The restart backoff ends by its timer or by a stop.
BackoffEnds(e) ==
    /\ sup[e] = "backoff"
    /\ Goto(e, "loop")
    /\ UNCHANGED <<authVars, registry, snapVars, phase, outcome, restarts, entryVars, callVars>>

\* fail_entry, after which supervise returns.
FailEntry(e) ==
    /\ sup[e] = "fail"
    /\ lease' = Revoked({e})
    /\ state' = [state EXCEPT ![e] = "failed"]
    /\ shown' = [shown EXCEPT ![e] = FALSE]
    /\ Goto(e, "returned")
    /\ UNCHANGED <<authVars, registry, generation, phase, outcome, restarts, plugin, entryEpoch,
                   stop, done, reaped, proc, callVars>>

\* The tail of supervise after a stop.
Finish(e) ==
    /\ sup[e] = "final"
    /\ state' = [state EXCEPT ![e] = "stopped"]
    /\ shown' = [shown EXCEPT ![e] = FALSE]
    /\ Goto(e, "returned")
    /\ UNCHANGED <<authVars, registry, generation, phase, outcome, restarts, entryVars, callVars>>

\* The spawned task sends on the done channel.
SignalDone(e) ==
    /\ sup[e] = "returned"
    /\ done' = [done EXCEPT ![e] = TRUE]
    /\ Goto(e, "over")
    /\ UNCHANGED <<authVars, registry, snapVars, phase, outcome, restarts, plugin, entryEpoch,
                   stop, reaped, lease, proc, callVars>>

Supervise(e) ==
    \/ SuperviseLoop(e) \/ SpawnRefused(e) \/ SpawnGeneration(e) \/ SpawnFails(e)
    \/ PipesOpen(e) \/ PipesFail(e)
    \/ HelloFails(e) \/ StopSeen(e) \/ ChildExit(e) \/ PipeClosed(e) \/ StartupTimeout(e)
    \/ ProtocolFailure(e) \/ FrameUnauthorized(e)
    \/ Handshake(e) \/ Ready(e) \/ Contribute(e)
    \/ RevokeGeneration(e) \/ ClearSnapshot(e) \/ Reap(e) \/ ReapFails(e) \/ AbortReap(e)
    \/ BackoffEnds(e) \/ FailEntry(e) \/ Finish(e) \/ SignalDone(e)

-----------------------------------------------------------------------------
(* The operating system: a worker exits by itself, and a process that could *)
(* not be reaped in time dies after its registration was given up.          *)

WorkerExits(e) ==
    /\ proc[e] = "alive"
    /\ proc' = [proc EXCEPT ![e] = "exited"]
    /\ UNCHANGED <<authVars, registry, snapVars, taskVars, plugin, entryEpoch, stop, done, reaped,
                   lease, callVars>>

LateReap(e) ==
    /\ sup[e] \in {"fail", "returned", "over"} /\ proc[e] # "none"
    /\ proc' = [proc EXCEPT ![e] = "none"]
    /\ UNCHANGED <<authVars, registry, snapVars, taskVars, plugin, entryEpoch, stop, done, reaped,
                   lease, callVars>>

-----------------------------------------------------------------------------
(* Authority and callers *)

\* The body of revoke_epoch under the authority lock.
RevokeAuthority ==
    /\ enabled' = FALSE
    /\ epoch' = epoch + 1
    /\ lease' = Revoked(Registered)
    /\ stop' = Raised(Registered)
    /\ state' = [e \in Entry |-> IF e \in Registered THEN "stopped" ELSE state[e]]
    /\ shown' = [e \in Entry |-> IF e \in Registered THEN FALSE ELSE shown[e]]
    /\ UNCHANGED <<registry, generation, taskVars, plugin, entryEpoch, done, reaped, proc>>

\* revoke: a logout or policy change.
Revoke == epoch < MaxEpoch /\ RevokeAuthority /\ UNCHANGED <<stopped, callVars>>

\* Mutant: a resume that does not look at the shutdown flag.
BugResumeInEpoch(captured) ==
    /\ captured = epoch
    /\ enabled' = TRUE
    /\ UNCHANGED <<epoch, stopped, registry, snapVars, taskVars, entryVars, callVars>>

\* resume_in_epoch by the session transition that captured this epoch; resume
\* is the same with the current epoch.
ResumeInEpoch(captured) ==
    /\ ~stopped /\ captured = epoch
    /\ enabled' = TRUE
    /\ UNCHANGED <<epoch, stopped, registry, snapVars, taskVars, entryVars, callVars>>

Call(c, o, where, es, r) ==
    /\ op' = [op EXCEPT ![c] = o]
    /\ at' = [at EXCEPT ![c] = where]
    /\ awaited' = [awaited EXCEPT ![c] = es]
    /\ result' = [result EXCEPT ![c] = r]

Free(c) == at[c] \in {"idle", "returned"}

\* stop and remove first look the entry up.
FindEntry(c, o, p) ==
    /\ Free(c) /\ o \in {"stop", "remove"} /\ registry[p] # NoEntry
    /\ Call(c, o, "found", {registry[p]}, "none")
    /\ UNCHANGED <<authVars, registry, snapVars, taskVars, entryVars>>

\* Mutant: the lease is revoked but the supervisor is not told.
BugSignalStop(c) ==
    /\ at[c] = "found"
    /\ lease' = Revoked(awaited[c])
    /\ at' = [at EXCEPT ![c] = "waiting"]
    /\ UNCHANGED <<authVars, registry, snapVars, taskVars, plugin, entryEpoch, stop, done, reaped,
                   proc, op, awaited, result>>

\* Then revoke its generation and signal stop under the authority lock.
SignalStop(c) ==
    /\ at[c] = "found"
    /\ lease' = Revoked(awaited[c])
    /\ stop' = Raised(awaited[c])
    /\ at' = [at EXCEPT ![c] = "waiting"]
    /\ UNCHANGED <<authVars, registry, snapVars, taskVars, plugin, entryEpoch, done, reaped, proc,
                   op, awaited, result>>

\* wait_revoked collects the entries of revoked sessions.
WaitRevoked(c) ==
    /\ Free(c)
    /\ Call(c, "wait_revoked", "waiting", {e \in Registered : ~Authorized(e)}, "none")
    /\ UNCHANGED <<authVars, registry, snapVars, taskVars, entryVars>>

\* stop_all revokes the session ...
StopAll(c) ==
    /\ Free(c) /\ epoch < MaxEpoch
    /\ RevokeAuthority
    /\ Call(c, "stop_all", "revoked", {}, "none")
    /\ UNCHANGED stopped

\* (shutdown sets the flag outside the authority lock and then calls stop_all;
\* bound: the application shuts its host down once)
ShutdownFlag(c) ==
    /\ Free(c) /\ ~stopped
    /\ stopped' = TRUE
    /\ Call(c, "shutdown", "flagged", {}, "none")
    /\ UNCHANGED <<enabled, epoch, registry, snapVars, taskVars, entryVars>>

ShutdownRevoke(c) ==
    /\ at[c] = "flagged"
    /\ RevokeAuthority
    /\ at' = [at EXCEPT ![c] = "revoked"]
    /\ UNCHANGED <<stopped, op, awaited, result>>

\* ... and then collects the registered entries to wait for.
CollectEntries(c) ==
    /\ at[c] = "revoked"
    /\ awaited' = [awaited EXCEPT ![c] = Registered]
    /\ at' = [at EXCEPT ![c] = "waiting"]
    /\ UNCHANGED <<authVars, registry, snapVars, taskVars, entryVars, op, result>>

\* Mutant: the answer does not depend on the reap.
BugAnswer(c) ==
    IF op[c] = "remove" /\ \E e \in awaited[c] : registry[plugin[e]] \notin {e, NoEntry}
    THEN "already_registered" ELSE "ok"

\* What stop and remove report once the supervisor is done: an unreaped
\* process, a replacement registered meanwhile, or success.
Answer(c) ==
    IF op[c] \in {"stop", "remove"} /\ \E e \in awaited[c] : ~reaped[e] THEN "worker_error"
    ELSE IF op[c] = "remove" /\ \E e \in awaited[c] : registry[plugin[e]] \notin {e, NoEntry}
    THEN "already_registered" ELSE "ok"

\* wait_stopped returns for every awaited entry and the caller answers; remove
\* releases the registry slot only of the very entry it stopped.
Return(c) ==
    /\ at[c] = "waiting"
    /\ \A e \in awaited[c] : done[e]
    /\ at' = [at EXCEPT ![c] = "returned"]
    /\ result' = [result EXCEPT ![c] = Answer(c)]
    /\ registry' = IF op[c] = "remove" /\ \A e \in awaited[c] : reaped[e]
                   THEN [p \in Plugin |->
                            IF registry[p] \in awaited[c] THEN NoEntry ELSE registry[p]]
                   ELSE registry
    /\ UNCHANGED <<authVars, snapVars, taskVars, entryVars, op, awaited>>

Callers ==
    \E c \in Caller :
        \/ \E p \in Plugin, o \in {"stop", "remove"} : FindEntry(c, o, p)
        \/ SignalStop(c) \/ WaitRevoked(c) \/ StopAll(c)
        \/ ShutdownFlag(c) \/ ShutdownRevoke(c) \/ CollectEntries(c) \/ Return(c)

Next ==
    \/ \E p \in Plugin, e \in Entry, expected \in 0 .. MaxEpoch : Register(p, e, expected)
    \/ \E e \in Entry : Supervise(e) \/ WorkerExits(e) \/ LateReap(e)
    \/ Revoke
    \/ \E captured \in 0 .. MaxEpoch : ResumeInEpoch(captured)
    \/ Callers

Spec == Init /\ [][Next]_vars

\* Fairness.  Outside run_generation every await of a supervisor is bounded by
\* a timeout; inside it a stop, the exit of the child and the startup deadline
\* wake the select!.  Callers run on once what they await has happened.
Advance(e) == sup[e] # "run" /\ Supervise(e)

Fairness ==
    /\ \A e \in Entry :
          /\ WF_vars(Advance(e)) /\ WF_vars(StopSeen(e))
          /\ WF_vars(ChildExit(e)) /\ WF_vars(StartupTimeout(e))
    /\ \A c \in Caller :
          /\ WF_vars(SignalStop(c)) /\ WF_vars(ShutdownRevoke(c))
          /\ WF_vars(CollectEntries(c)) /\ WF_vars(Return(c))

FairSpec == Spec /\ Fairness

-----------------------------------------------------------------------------
(* Properties *)

\* Every variable keeps its type; a supervisor never counts more than
\* MAX_RESTARTS restarts.
TypeOK ==
    /\ enabled \in BOOLEAN /\ epoch \in Nat /\ stopped \in BOOLEAN
    /\ registry \in [Plugin -> Entry \cup {NoEntry}]
    /\ plugin \in [Entry -> Plugin \cup {NoPlugin}]
    /\ entryEpoch \in [Entry -> Nat]
    /\ stop \in [Entry -> BOOLEAN]
    /\ done \in [Entry -> BOOLEAN]
    /\ reaped \in [Entry -> BOOLEAN]
    /\ state \in [Entry -> States]
    /\ generation \in [Entry -> Nat]
    /\ restarts \in [Entry -> 0 .. MaxRestarts]
    /\ lease \in [Entry -> {"none", "active", "revoked"}]
    /\ shown \in [Entry -> BOOLEAN]
    /\ sup \in [Entry -> SupAt]
    /\ phase \in [Entry -> Phases]
    /\ outcome \in [Entry -> Outcomes]
    /\ proc \in [Entry -> {"none", "alive", "exited"}]
    /\ op \in [Caller -> Ops]
    /\ at \in [Caller -> CallAt]
    /\ awaited \in [Caller -> SUBSET Entry]
    /\ result \in [Caller -> Results]

\* Two processes of one plugin never exist at the same time, whatever stops,
\* removals, re-registrations and failed reaps happen: register replaces only
\* an entry that is done and reaped, and remove frees only the slot of the
\* entry it waited for.
OneProcessPerPlugin ==
    \A e, f \in Entry :
        (e # f /\ plugin[e] = plugin[f] /\ plugin[e] # NoPlugin)
            => proc[e] = "none" \/ proc[f] = "none"

\* An active generation lease, the right to commit native work, belongs to a
\* registered, unstopped entry of the enabled session whose process has not
\* been reaped.  Every other holder sees commit_if_active refuse.
LeaseIsCurrent ==
    \A e \in Entry : lease[e] = "active" =>
        /\ Authorized(e) /\ ~stop[e]
        /\ ~reaped[e] /\ proc[e] # "none"
        /\ registry[plugin[e]] = e

\* The dashboard shows contributions only of a running worker of the enabled
\* session: revoke_epoch clears them under the authority lock and no late frame
\* or status update brings them back.
DashboardIsCurrent ==
    \A e \in Entry : shown[e] \/ state[e] = "running" => state[e] = "running" /\ Authorized(e)

\* Both together: neither native work nor the dashboard outlives the worker's authority.
AuthorityIsCurrent == LeaseIsCurrent /\ DashboardIsCurrent

\* When stop or remove answers Ok the entry's process is gone for good.
OkMeansReaped ==
    \A c \in Caller : (at[c] = "returned" /\ result[c] = "ok" /\ op[c] \in {"stop", "remove"})
        => \A e \in awaited[c] : proc[e] = "none" /\ sup[e] = "over"

\* Once shutdown has revoked, no resume enables the host again; once it has
\* returned, every registration ever made has ended, and a process that is left
\* is one whose reap failed, so that its registration can never be replaced.
ShutdownIsTerminal ==
    \A c \in Caller : op[c] = "shutdown" =>
        /\ at[c] \in {"revoked", "waiting", "returned"} => ~enabled
        /\ at[c] = "returned" => \A e \in Entry : plugin[e] # NoPlugin =>
               done[e] /\ (proc[e] # "none" => ~reaped[e])

\* Both together: what has ended or was shut down stays so, as its caller was told.
EndingsAreFinal == OkMeansReaped /\ ShutdownIsTerminal

\* stop, remove, wait_revoked and shutdown return.
CallersReturn ==
    \A c \in Caller :
        (at[c] \in {"found", "flagged", "waiting"} /\ op[c] # "stop_all") ~> at[c] = "returned"

\* Startup and restart resolve: the worker runs, or its entry is stopped or
\* failed, which is what the package manager polls for.
StartupResolves ==
    \A e \in Entry :
        state[e] \in {"starting", "restarting"} ~> state[e] \in {"running", "stopped", "failed"}

\* What the users of the host may take of a plugin's worker: the snapshot's state while
\* the session is the entry's, and then whether its process was reaped.
Status(e) ==
    CASE e = NoEntry -> "none"
      [] e # NoEntry /\ Authorized(e) /\ state[e] \in {"starting", "restarting"} -> "starting"
      [] e # NoEntry /\ Authorized(e) /\ state[e] = "running" -> "running"
      [] OTHER -> IF done[e] /\ ~reaped[e] THEN "stuck" ELSE "over"

Contract == INSTANCE PluginWorkers WITH worker <- [p \in Plugin |-> Status(registry[p])]

\* The package store and the session transitions may take the host for this contract: a
\* status never claims a live worker of another epoch, only a launch under the authority
\* revives one, and a worker that could not be reaped keeps its plugin for ever.
KeepsContract == Contract!Spec

-----------------------------------------------------------------------------
(* The parts of the inductive invariant behind the safety properties. *)

\* The registry maps a plugin to an entry of that plugin, and an entry that has
\* lost its slot has ended with its process reaped.
SlotsInv ==
    /\ \A p \in Plugin : registry[p] # NoEntry => plugin[registry[p]] = p
    /\ \A e \in Entry : plugin[e] # NoPlugin /\ registry[plugin[e]] # e => done[e] /\ reaped[e]

\* How far an entry's task is decides what its flags can be.
TaskInv ==
    \A e \in Entry :
        /\ plugin[e] = NoPlugin <=> sup[e] = "none"
        /\ plugin[e] = NoPlugin => proc[e] = "none"
        /\ done[e] <=> sup[e] = "over"
        /\ proc[e] # "none" => ~reaped[e]
        /\ sup[e] \in {"none", "loop", "spawn", "backoff", "final"} => reaped[e]
        /\ sup[e] \in {"pipes", "run", "revoke", "update", "terminate", "abort"}
              => proc[e] # "none"

\* The entries of the current epoch exist only while the session is enabled.
EpochInv ==
    \A e \in Entry : plugin[e] # NoPlugin =>
        /\ entryEpoch[e] <= epoch
        /\ entryEpoch[e] = epoch => enabled

\* Where a lease can be active and a worker be shown as running.
LeaseInv ==
    \A e \in Entry :
        lease[e] = "active" => sup[e] \in {"pipes", "run", "revoke"} /\ Authorized(e) /\ ~stop[e]

RunningInv ==
    \A e \in Entry :
        /\ state[e] = "running" => sup[e] \in {"run", "revoke", "update"} /\ Authorized(e)
        /\ shown[e] => state[e] = "running"
        /\ sup[e] # "run" => phase[e] = "identity"
        /\ sup[e] = "run" /\ phase[e] = "running" /\ Authorized(e) => state[e] = "running"

\* What a caller waits for is registered, and what it answered stays true.
CallInv ==
    \A c \in Caller :
        /\ \A e \in awaited[c] : plugin[e] # NoPlugin
        /\ at[c] = "returned" => \A e \in awaited[c] : done[e]
        /\ at[c] = "returned" /\ result[c] = "ok" /\ op[c] \in {"stop", "remove"}
              => \A e \in awaited[c] : reaped[e]
        /\ op[c] \in {"stop", "remove"} => \A e, f \in awaited[c] : e = f
        /\ at[c] = "revoked" => op[c] \in {"stop_all", "shutdown"}
        /\ op[c] = "shutdown" => stopped
        /\ op[c] = "shutdown" /\ at[c] \in {"revoked", "waiting", "returned"} => ~enabled
        /\ op[c] = "shutdown" /\ at[c] \in {"waiting", "returned"} =>
              \A e \in Entry : plugin[e] # NoPlugin => e \in awaited[c] \/ done[e]
        /\ at[c] = "flagged" => op[c] = "shutdown"
        /\ at[c] = "found" => op[c] \in {"stop", "remove"}

\* What the snapshot of an authorized entry shows while its task goes on, and that of any
\* entry once it has returned.
StatusInv ==
    \A e \in Entry :
        /\ sup[e] \in {"returned", "over"} => state[e] \in {"stopped", "failed"}
        /\ Authorized(e) =>
              /\ sup[e] \in {"loop", "spawn", "pipes", "backoff"}
                    => state[e] \in {"starting", "restarting"}
              /\ sup[e] = "run" /\ phase[e] # "running" => state[e] \in {"starting", "restarting"}
              /\ sup[e] \in {"revoke", "update"}
                    => state[e] \in {"starting", "restarting", "running"}
              /\ sup[e] = "terminate" /\ outcome[e] # "stopped" => state[e] = "restarting"

IInv ==
    /\ TypeOK /\ SlotsInv /\ TaskInv /\ EpochInv /\ LeaseInv /\ RunningInv /\ CallInv
    /\ StatusInv
=============================================================================
