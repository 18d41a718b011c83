----------------------------- MODULE AppSession -----------------------------
(***************************************************************************)
(* Who may run plugin workers: the unlock session of src-tauri/src/auth.rs, *)
(* the access policy and plugin declarations of the saved configuration,   *)
(* and the transitions of plugins/bridge.rs and plugins/application.rs that *)
(* turn them into an authorized epoch of the worker host.                  *)
(*                                                                         *)
(* Two gates order the threads: CONFIG_UPDATE_GATE around every change of  *)
(* the configuration, and the bridge's session_gate around every session   *)
(* transition.  The SESSION and authority mutexes are held for one step,   *)
(* except by recover_session, which keeps SESSION until it has resumed.    *)
(***************************************************************************)
EXTENDS Naturals, FiniteSets

CONSTANTS
    Thread,       \* threads that run commands and callbacks
    Watcher,      \* the task of watch_session_expiry
    Nobody,       \* a free lock
    Policy,       \* access policies with authentication enabled
    Off,          \* the policy with auth_enabled = false
    Declaration,  \* what desktop_plugins can declare
    Unreadable,   \* the result of a failed load_config; no declarations yet
    MaxOps        \* bound on the commands issued

ASSUME SessionAssumption ==
    /\ Watcher \in Thread /\ Nobody \notin Thread
    /\ Off \notin Policy
    /\ Unreadable \notin Declaration \cup Policy \cup {Off}
    /\ MaxOps \in Nat

VARIABLES
    policy, declared,     \* the configuration file
    readable,             \* the configuration can be decrypted
    session, granted,     \* SESSION, and the policy it was granted under
    enabled, epoch, stopped,   \* the worker host's Authority and stopped flag
    desired,              \* Reconciliation.desired
    closing,              \* ApplicationInner.closing
    exitStarted, exitFinished, exited,   \* ExitGate, and the process has exited
    work,                 \* a worker is starting, running or restarting
    restores,             \* epochs whose restore task has not run yet
    cfgGate, sessGate, sessLock,   \* holders of the three locks
    pc, owed,             \* a thread's position, the transitions it still owes
    polT, declT, unlockedT, epochT,   \* a thread's local values
    left                  \* commands that may still be issued

config == <<policy, declared, readable>>
auth == <<session, granted>>
host == <<enabled, epoch, stopped, work, restores>>
exit == <<closing, exitStarted, exitFinished, exited>>
locks == <<cfgGate, sessGate, sessLock>>
locals == <<polT, declT, unlockedT, epochT>>
vars == <<config, auth, host, desired, exit, locks, pc, owed, locals, left>>

Init ==
    /\ policy \in Policy \cup {Off} /\ declared \in Declaration
    /\ readable \in BOOLEAN
    /\ session = "none" /\ granted = Off
    \* install runs the first transition before any command
    /\ enabled = (readable /\ policy = Off) /\ epoch = 1 /\ stopped = FALSE
    /\ desired = IF readable THEN declared ELSE Unreadable
    /\ closing = FALSE /\ exitStarted = FALSE /\ exitFinished = FALSE /\ exited = FALSE
    /\ work = FALSE /\ restores = IF enabled THEN {1} ELSE {}
    /\ cfgGate = Nobody /\ sessGate = Nobody /\ sessLock = Nobody
    /\ pc = [t \in Thread |-> "idle"]
    /\ owed = [t \in Thread |-> 0]
    /\ polT = [t \in Thread |-> Off]
    /\ declT = [t \in Thread |-> Unreadable]
    /\ unlockedT = [t \in Thread |-> FALSE]
    /\ epochT = [t \in Thread |-> 0]
    /\ left = MaxOps

-----------------------------------------------------------------------------
(* Helpers *)

Goto(t, where) == pc' = [pc EXCEPT ![t] = where]

\* A command starts: the bound counts it.
Begin(t, where) ==
    /\ pc[t] = "idle" /\ t # Watcher /\ left > 0 /\ ~exited
    /\ left' = left - 1
    /\ Goto(t, where)

\* require_session: load_config, then the session lookup if the policy asks for it.
RequireSession == readable /\ (policy = Off \/ (sessLock = Nobody /\ session = "live"))
SessionMissing == ~readable \/ (policy # Off /\ sessLock = Nobody /\ session # "live")

\* commit_in_epoch and is_authorized_epoch
AuthorizedEpoch(e) == ~stopped /\ enabled /\ epoch = e

\* revoke_epoch also stops every worker.
RevokeEpoch ==
    /\ enabled' = FALSE /\ epoch' = epoch + 1 /\ work' = FALSE
    /\ UNCHANGED <<stopped, restores>>

\* The thread gives up the locks it holds and returns.
Return(t) ==
    /\ cfgGate' = IF cfgGate = t THEN Nobody ELSE cfgGate
    /\ sessGate' = IF sessGate = t THEN Nobody ELSE sessGate
    /\ sessLock' = IF sessLock = t THEN Nobody ELSE sessLock
    /\ Goto(t, "idle")

\* The thread calls authentication_changed n times, with the locks it holds.
Notify(t, n) == Goto(t, "gate") /\ owed' = [owed EXCEPT ![t] = n]

\* lock() of CONFIG_UPDATE_GATE
TakeConfigGate(t) == cfgGate = Nobody /\ cfgGate' = t /\ UNCHANGED <<sessGate, sessLock>>

-----------------------------------------------------------------------------
(* auth.rs: login, biometric login, logout, expiry *)

BeginLogin(t) ==
    /\ Begin(t, "login")
    /\ UNCHANGED <<config, auth, host, desired, exit, locks, owed, locals>>

\* login_with_config under the gate: the credentials fit the policy or not.
LoginLoad(t) ==
    /\ pc[t] = "login"
    /\ IF readable /\ policy # Off
       THEN TakeConfigGate(t) /\ polT' = [polT EXCEPT ![t] = policy] /\ Goto(t, "grant")
       ELSE cfgGate = Nobody /\ Goto(t, "idle") /\ UNCHANGED <<locks, polT>>
    /\ UNCHANGED <<config, auth, host, desired, exit, owed, declT, unlockedT, epochT, left>>

\* grant, drop of the gate, notify.
LoginGrant(t) ==
    /\ pc[t] = "grant"
    /\ sessLock = Nobody
    /\ session' = "live" /\ granted' = polT[t]
    /\ cfgGate' = Nobody
    /\ Notify(t, 1)
    /\ UNCHANGED <<config, host, desired, exit, sessGate, sessLock, locals, left>>

LoginRefused(t) ==
    /\ pc[t] = "grant"
    /\ Return(t)
    /\ UNCHANGED <<config, auth, host, desired, exit, owed, locals, left>>

\* auth_biometric loads the policy without the gate and prompts.
BeginBiometric(t) ==
    /\ readable /\ policy # Off
    /\ Begin(t, "prompt")
    /\ polT' = [polT EXCEPT ![t] = policy]
    /\ UNCHANGED <<config, auth, host, desired, exit, locks, owed, declT, unlockedT, epochT>>

BiometricRecheck(t) == policy = polT[t]

BiometricAnswer(t) ==
    /\ pc[t] = "prompt"
    /\ IF BiometricRecheck(t) THEN TakeConfigGate(t) /\ Goto(t, "grant")
       ELSE cfgGate = Nobody /\ Goto(t, "idle") /\ UNCHANGED locks
    /\ UNCHANGED <<config, auth, host, desired, exit, owed, locals, left>>

Logout(t) ==
    /\ pc[t] = "idle" /\ t # Watcher /\ left > 0 /\ ~exited /\ sessLock = Nobody
    /\ left' = left - 1
    /\ session' = "none" /\ UNCHANGED granted
    /\ Notify(t, 1)
    /\ UNCHANGED <<config, host, desired, exit, locks, locals>>

\* SESSION_TTL passes; whoever looks next may also drop the session.
Expire ==
    /\ session = "live"
    /\ session' = "expired"
    /\ UNCHANGED <<config, granted, host, desired, exit, locks, pc, owed, locals, left>>

\* The credential store becomes available.
ConfigReadable ==
    /\ ~readable
    /\ readable' = TRUE
    /\ UNCHANGED <<policy, declared, auth, host, desired, exit, locks, pc, owed, locals, left>>

-----------------------------------------------------------------------------
(* Changes of the configuration, all under CONFIG_UPDATE_GATE *)

\* save_config: gate, load, require_session; the password is then derived.
BeginSave(t) ==
    /\ Begin(t, "save_check")
    /\ RequireSession
    /\ TakeConfigGate(t)
    /\ UNCHANGED <<config, auth, host, desired, exit, owed, locals>>

\* The second require_session, and management_epoch of save_configuration.
SaveCheck(t) ==
    /\ pc[t] = "save_check" /\ RequireSession
    /\ epochT' = [epochT EXCEPT ![t] = epoch]
    /\ unlockedT' = [unlockedT EXCEPT ![t] = AuthorizedEpoch(epoch) /\ ~exitStarted]
    /\ Goto(t, "save_write")
    /\ UNCHANGED <<config, auth, host, desired, exit, locks, owed, polT, declT, left>>

\* The session is gone: require_session returns the error, require_access of
\* the bridge also starts a transition.
SaveRefused(t) ==
    /\ pc[t] = "save_check" /\ SessionMissing
    /\ \/ Return(t) /\ UNCHANGED owed
       \/ ~exitStarted /\ Notify(t, 1) /\ UNCHANGED locks
    /\ UNCHANGED <<config, auth, host, desired, exit, locals, left>>

\* The configuration is written.  New declarations are written in the epoch
\* that was checked, or not at all; transitions owed: one for a changed policy,
\* one for changed declarations.
SaveWrite(t) ==
    /\ pc[t] = "save_write"
    /\ \E p \in Policy \cup {Off}, d \in Declaration :
          /\ d # declared => unlockedT[t] /\ AuthorizedEpoch(epochT[t])
          /\ policy' = p /\ declared' = d
          /\ LET n == (IF p # policy THEN 1 ELSE 0) + (IF d # declared THEN 1 ELSE 0) IN
                /\ owed' = [owed EXCEPT ![t] = n]
                /\ IF n = 0 THEN Return(t)
                   ELSE Goto(t, IF p # policy THEN "save_revoke" ELSE "gate") /\ UNCHANGED locks
    /\ UNCHANGED <<readable, auth, host, desired, exit, locals, left>>

SaveAborts(t) ==
    /\ pc[t] = "save_write"
    /\ Return(t)
    /\ UNCHANGED <<config, auth, host, desired, exit, owed, locals, left>>

\* revoke_policy_session
SaveRevoke(t) ==
    /\ pc[t] = "save_revoke" /\ sessLock = Nobody
    /\ session' = "none"
    /\ Goto(t, "gate")
    /\ UNCHANGED <<config, granted, host, desired, exit, locks, owed, locals, left>>

\* Commands of the settings window capture the epoch and check the session ...
BeginManaged(t) ==
    /\ RequireSession /\ AuthorizedEpoch(epoch) /\ ~exitStarted
    /\ Begin(t, "managed")
    /\ epochT' = [epochT EXCEPT ![t] = epoch]
    /\ UNCHANGED <<config, auth, host, desired, exit, locks, owed, polT, declT, unlockedT>>

\* ... and a command whose session is missing starts a transition instead.
AccessDenied(t) ==
    /\ pc[t] = "idle" /\ t # Watcher /\ left > 0
    /\ SessionMissing /\ ~exitStarted
    /\ left' = left - 1
    /\ Notify(t, 1)
    /\ UNCHANGED <<config, auth, host, desired, exit, locks, locals>>

\* finish_management checks both again, under the gate.
ManagedCheck(t) ==
    /\ pc[t] = "managed" /\ RequireSession /\ AuthorizedEpoch(epochT[t]) /\ ~exitStarted
    /\ TakeConfigGate(t)
    /\ Goto(t, "managed_write")
    /\ UNCHANGED <<config, auth, host, desired, exit, owed, locals, left>>

ManagedRefused(t) ==
    /\ pc[t] = "managed" /\ cfgGate = Nobody
    /\ \/ SessionMissing /\ ~exitStarted /\ TakeConfigGate(t) /\ Notify(t, 1)
       \/ /\ exitStarted \/ (RequireSession /\ ~AuthorizedEpoch(epochT[t]))
          /\ Goto(t, "idle") /\ UNCHANGED <<locks, owed>>
    /\ UNCHANGED <<config, auth, host, desired, exit, locals, left>>

\* persist_plugin_change: the declaration changes on disk and in memory, in the
\* epoch and without a transition; enabling then starts the worker in it.  A
\* change of declarations that could not be loaded has no entry to change.
PersistPluginChange(t) ==
    /\ pc[t] = "managed_write" /\ AuthorizedEpoch(epochT[t])
    /\ \E d \in Declaration :
          /\ declared' = d
          /\ desired' = IF desired = Unreadable THEN Unreadable ELSE d
    /\ restores' = restores \cup {epochT[t]}
    /\ cfgGate' = Nobody /\ UNCHANGED <<sessGate, sessLock>>
    /\ Goto(t, "managed_done")
    /\ UNCHANGED <<policy, readable, auth, enabled, epoch, stopped, work, exit, owed, locals,
                   left>>

\* finish_management before the command answers.
ManagedDone(t) ==
    /\ pc[t] = "managed_done"
    /\ \/ SessionMissing /\ ~exitStarted /\ Notify(t, 1)
       \/ (exitStarted \/ RequireSession) /\ Goto(t, "idle") /\ UNCHANGED owed
    /\ UNCHANGED <<config, auth, host, desired, exit, locks, locals, left>>

\* restore_configuration: written in the epoch; a change of the declarations or
\* of the modules is followed by a transition without the gate.
RestoreConfiguration(t) ==
    /\ pc[t] = "managed_write" /\ AuthorizedEpoch(epochT[t])
    /\ \E d \in Declaration :
          /\ declared' = d
          /\ \/ cfgGate' = Nobody /\ UNCHANGED <<sessGate, sessLock>> /\ Notify(t, 1)
             \/ d = declared /\ Return(t) /\ UNCHANGED owed
    /\ UNCHANGED <<policy, readable, auth, host, desired, exit, locals, left>>

ManagedAborts(t) ==
    /\ pc[t] = "managed_write" /\ ~AuthorizedEpoch(epochT[t])
    /\ Return(t)
    /\ UNCHANGED <<config, auth, host, desired, exit, owed, locals, left>>

-----------------------------------------------------------------------------
(* authentication_changed: one session transition *)

\* Mutant: the transition does not wait for the one in progress.
BugTakeSessionGate(t) == sessGate' = t /\ UNCHANGED <<cfgGate, sessLock>>

TakeSessionGate(t) == sessGate = Nobody /\ sessGate' = t /\ UNCHANGED <<cfgGate, sessLock>>

EnterTransition(t) ==
    /\ pc[t] = "gate"
    /\ TakeSessionGate(t)
    /\ Goto(t, "sample")
    /\ UNCHANGED <<config, auth, host, desired, exit, owed, locals, left>>

\* exit.started and the policy are read ...
SamplePolicy(t) ==
    /\ pc[t] = "sample"
    /\ polT' = [polT EXCEPT ![t] = IF exitStarted \/ ~readable THEN Unreadable ELSE policy]
    /\ Goto(t, "sample_session")
    /\ UNCHANGED <<config, auth, host, desired, exit, locks, owed, declT, unlockedT, epochT, left>>

\* ... then the session, if that policy asks for one ...
SampleSession(t) ==
    /\ pc[t] = "sample_session"
    /\ polT[t] \in Policy => sessLock = Nobody
    /\ unlockedT' = [unlockedT EXCEPT
           ![t] = polT[t] = Off \/ (polT[t] \in Policy /\ session = "live")]
    /\ Goto(t, "load")
    /\ UNCHANGED <<config, auth, host, desired, exit, locks, owed, polT, declT, epochT, left>>

\* ... then the declarations, before session_configured revokes the epoch.
LoadDeclarations(t) ==
    /\ pc[t] = "load"
    /\ declT' = [declT EXCEPT ![t] = IF readable THEN declared ELSE Unreadable]
    /\ Goto(t, "revoke")
    /\ UNCHANGED <<config, auth, host, desired, exit, locks, owed, polT, unlockedT, epochT, left>>

\* transition_session
RevokeSession(t) ==
    /\ pc[t] = "revoke"
    /\ RevokeEpoch
    /\ epochT' = [epochT EXCEPT ![t] = epoch + 1]
    /\ Goto(t, "configure")
    /\ UNCHANGED <<config, auth, desired, exit, locks, owed, polT, declT, unlockedT, left>>

Configure(t) ==
    /\ pc[t] = "configure"
    /\ desired' = declT[t]
    /\ Goto(t, "closing")
    /\ UNCHANGED <<config, auth, host, exit, locks, owed, locals, left>>

\* Another owed call follows, or the thread returns.
EndTransition(t) ==
    /\ owed' = [owed EXCEPT ![t] = @ - 1]
    /\ IF owed[t] > 1 THEN sessGate' = Nobody /\ Goto(t, "gate") /\ UNCHANGED <<cfgGate, sessLock>>
       ELSE Return(t)

StayLocked(t) ==
    /\ pc[t] = "closing" /\ (~unlockedT[t] \/ closing)
    /\ EndTransition(t)
    /\ UNCHANGED <<config, auth, host, desired, exit, locals, left>>

NotClosing(t) ==
    /\ pc[t] = "closing" /\ unlockedT[t] /\ ~closing
    /\ Goto(t, "resume")
    /\ UNCHANGED <<config, auth, host, desired, exit, locks, owed, locals, left>>

\* resume_in_epoch
MayResume(t) == ~stopped /\ epoch = epochT[t]

Resume(t) ==
    /\ pc[t] = "resume"
    /\ enabled' = (enabled \/ MayResume(t))
    /\ restores' = IF MayResume(t) THEN restores \cup {epochT[t]} ELSE restores
    /\ EndTransition(t)
    /\ UNCHANGED <<config, auth, epoch, stopped, work, desired, exit, locals, left>>

\* restore_session's task: reconcile starts workers only in its own epoch and
\* only if the declarations could be loaded.
Restore(e) ==
    /\ e \in restores
    /\ restores' = restores \ {e}
    /\ work' = (work \/ (AuthorizedEpoch(e) /\ desired # Unreadable))
    /\ UNCHANGED <<config, auth, enabled, epoch, stopped, desired, exit, locks, pc, owed,
                   locals, left>>

-----------------------------------------------------------------------------
(* auth_status: recover_session_if_needed *)

BeginStatus(t) ==
    /\ RequireSession
    /\ Begin(t, "recover")
    /\ UNCHANGED <<config, auth, host, desired, exit, locks, owed, locals>>

\* config_gate, then session_gate.
RecoverGates(t) ==
    \/ pc[t] = "recover" /\ TakeConfigGate(t) /\ Goto(t, "recover_gate")
    \/ pc[t] = "recover_gate" /\ TakeSessionGate(t) /\ Goto(t, "recover_check")

RecoverEnter(t) ==
    /\ RecoverGates(t)
    /\ UNCHANGED <<config, auth, host, desired, exit, owed, locals, left>>

\* Exiting, already authorized, unreadable or locked: nothing to recover.
RecoverRefused(t) ==
    /\ pc[t] = "recover_check"
    /\ exitStarted \/ AuthorizedEpoch(epoch) \/ SessionMissing
    /\ Return(t)
    /\ UNCHANGED <<config, auth, host, desired, exit, owed, locals, left>>

\* session_authority keeps SESSION locked; session_configured(true, ..) follows.
RecoverSample(t) ==
    /\ pc[t] = "recover_check"
    /\ ~exitStarted /\ ~AuthorizedEpoch(epoch)
    /\ readable /\ sessLock = Nobody /\ (policy = Off \/ session = "live")
    /\ sessLock' = t /\ UNCHANGED <<cfgGate, sessGate>>
    /\ declT' = [declT EXCEPT ![t] = declared]
    /\ unlockedT' = [unlockedT EXCEPT ![t] = TRUE]
    /\ owed' = [owed EXCEPT ![t] = 1]
    /\ Goto(t, "revoke")
    /\ UNCHANGED <<config, auth, host, desired, exit, polT, epochT, left>>

-----------------------------------------------------------------------------
(* watch_session_expiry, and the exit of the application *)

\* Mutant: the watcher looks only at a session that was never opened.
BugExpired == policy # Off /\ session = "none"

\* require_session fails for work that is still owned.
Expired == SessionMissing

WatchTick ==
    /\ pc[Watcher] = "idle" /\ ~exitStarted
    /\ work /\ Expired
    /\ Notify(Watcher, 1)
    /\ UNCHANGED <<config, auth, host, desired, exit, locks, locals, left>>

\* ExitGate::request
MayExit == exitFinished

\* ExitRequested: prevented until the cleanup has finished; the first one owns it.
ExitRequested(t) ==
    /\ pc[t] = "idle" /\ t # Watcher /\ left > 0
    /\ left' = left - 1
    /\ exited' = MayExit
    /\ exitStarted' = (exitStarted \/ ~MayExit)
    /\ Goto(t, IF exitStarted \/ MayExit THEN "idle" ELSE "exit_flag")
    /\ UNCHANGED <<config, auth, host, desired, closing, exitFinished, locks, owed, locals>>

\* begin_shutdown
BeginShutdown(t) ==
    \/ pc[t] = "exit_flag" /\ closing' = TRUE /\ Goto(t, "exit_revoke") /\ UNCHANGED host
    \/ pc[t] = "exit_revoke" /\ RevokeEpoch /\ Goto(t, "exit_close") /\ UNCHANGED closing

\* close begins with begin_shutdown once more.
ExitBegins(t) ==
    /\ \/ BeginShutdown(t)
       \/ pc[t] = "exit_close" /\ RevokeEpoch /\ Goto(t, "exit_wait") /\ UNCHANGED closing
    /\ UNCHANGED <<config, auth, desired, exitStarted, exitFinished, exited, locks, owed, locals,
                   left>>

\* The manager or the media service cannot be closed: a later request tries again.
CloseFails(t) ==
    /\ pc[t] = "exit_wait"
    /\ exitStarted' = FALSE
    /\ Goto(t, "idle")
    /\ UNCHANGED <<config, auth, host, desired, closing, exitFinished, exited, locks, owed,
                   locals, left>>

\* They are closed: host.shutdown.
HostShutdown(t) ==
    /\ \/ pc[t] = "exit_wait" /\ stopped' = TRUE /\ Goto(t, "exit_host")
          /\ UNCHANGED <<enabled, epoch, work, restores>>
       \/ pc[t] = "exit_host" /\ RevokeEpoch /\ Goto(t, "exit_done")
    /\ UNCHANGED <<config, auth, desired, exit, locks, owed, locals, left>>

\* finished is stored, then app.exit requests the exit once more.
ExitFinish(t) ==
    /\ \/ pc[t] = "exit_done" /\ exitFinished' = TRUE /\ Goto(t, "exit_app") /\ UNCHANGED exited
       \/ pc[t] = "exit_app" /\ exited' = MayExit /\ Goto(t, "idle") /\ UNCHANGED exitFinished
    /\ UNCHANGED <<config, auth, host, desired, closing, exitStarted, locks, owed, locals, left>>

-----------------------------------------------------------------------------

Command(t) ==
    \/ BeginLogin(t) \/ BeginBiometric(t) \/ Logout(t) \/ BeginSave(t) \/ BeginManaged(t)
    \/ AccessDenied(t) \/ BeginStatus(t) \/ ExitRequested(t)

Advance(t) ==
    \/ LoginLoad(t) \/ LoginGrant(t) \/ LoginRefused(t)
    \/ SaveCheck(t) \/ SaveRefused(t) \/ SaveWrite(t) \/ SaveAborts(t) \/ SaveRevoke(t)
    \/ ManagedCheck(t) \/ ManagedRefused(t) \/ PersistPluginChange(t) \/ RestoreConfiguration(t)
    \/ ManagedDone(t) \/ ManagedAborts(t)
    \/ EnterTransition(t) \/ SamplePolicy(t) \/ SampleSession(t) \/ LoadDeclarations(t)
    \/ RevokeSession(t) \/ Configure(t) \/ StayLocked(t) \/ NotClosing(t) \/ Resume(t)
    \/ RecoverEnter(t) \/ RecoverRefused(t) \/ RecoverSample(t)
    \/ ExitBegins(t) \/ CloseFails(t) \/ HostShutdown(t) \/ ExitFinish(t)

Next ==
    /\ ~exited
    /\ \/ \E t \in Thread : Command(t) \/ Advance(t) \/ BiometricAnswer(t)
       \/ \E e \in restores : Restore(e)
       \/ WatchTick \/ Expire \/ ConfigReadable

Spec == Init /\ [][Next]_vars

\* Threads and the watcher are scheduled; the user may leave the biometric
\* prompt unanswered.  The gates are free for ever once all commands are done.
Fairness ==
    /\ \A t \in Thread : WF_vars(~exited /\ Advance(t))
    /\ WF_vars(~exited /\ WatchTick)

FairSpec == Spec /\ Fairness

-----------------------------------------------------------------------------
(* Properties *)

PcAt == {"idle", "login", "grant", "prompt", "save_check", "save_write", "save_revoke", "managed",
         "managed_write", "managed_done", "gate", "sample", "sample_session", "load", "revoke", "configure",
         "closing", "resume", "recover", "recover_gate", "recover_check", "exit_flag",
         "exit_revoke", "exit_close", "exit_wait", "exit_host", "exit_done", "exit_app"}

\* Every variable keeps its type; a lock has one holder, and a thread that is
\* idle holds none and owes no transition.
TypeOK ==
    /\ policy \in Policy \cup {Off} /\ declared \in Declaration /\ readable \in BOOLEAN
    /\ session \in {"none", "live", "expired"} /\ granted \in Policy \cup {Off}
    /\ enabled \in BOOLEAN /\ epoch \in Nat /\ stopped \in BOOLEAN
    /\ desired \in Declaration \cup {Unreadable}
    /\ closing \in BOOLEAN /\ exitStarted \in BOOLEAN /\ exitFinished \in BOOLEAN
    /\ exited \in BOOLEAN /\ work \in BOOLEAN /\ restores \in SUBSET Nat
    /\ cfgGate \in Thread \cup {Nobody}
    /\ sessGate \in Thread \cup {Nobody}
    /\ sessLock \in Thread \cup {Nobody}
    /\ pc \in [Thread -> PcAt] /\ owed \in [Thread -> 0 .. 2]
    /\ polT \in [Thread -> Policy \cup {Off, Unreadable}]
    /\ declT \in [Thread -> Declaration \cup {Unreadable}]
    /\ unlockedT \in [Thread -> BOOLEAN] /\ epochT \in [Thread -> Nat]
    /\ left \in 0 .. MaxOps
    /\ \A t \in Thread : pc[t] = "idle" => t \notin {cfgGate, sessGate, sessLock} /\ owed[t] = 0

\* A thread is bound to revoke the host before it returns, having sampled the
\* state of the session after the change or not sampled it yet.
Revoking(t) ==
    \/ pc[t] \in {"save_revoke", "gate", "sample"}
    \/ pc[t] = "sample_session" /\ polT[t] # Off
    \/ pc[t] \in {"load", "revoke"} /\ ~unlockedT[t]

\* The host is never left enabled for a session that was closed: after a logout
\* or a policy change that closed it, some transition is on its way to revoke the
\* host, however many logins, recoveries and transitions overlap.
NoStrayAuthority ==
    enabled /\ policy # Off /\ session = "none" => \E t \in Thread : Revoking(t)

\* A live session was granted under the policy in force, or the save that
\* changed the policy is about to close it: a login that verified the old
\* password cannot outlive its replacement.
SessionMatchesPolicy ==
    session = "live" => granted = policy \/ \E t \in Thread : pc[t] = "save_revoke"

\* Once begin_shutdown has revoked, no overlapping unlock or recovery enables
\* the host again, also after a cleanup that failed.  The process exits only
\* after the workers and the host were stopped, however often the user quits.
ClosingIsFinal ==
    /\ closing => ~enabled \/ \E t \in Thread : pc[t] = "exit_revoke"
    /\ exited => stopped /\ ~enabled /\ ~work

\* Together: what is authorized follows the session, the session the policy, and
\* both end with the process.
AuthorityFollowsSession == TypeOK /\ NoStrayAuthority /\ SessionMatchesPolicy /\ ClosingIsFinal

\* No epoch is left authorized with declarations other than the saved ones.
NoPreviousDeclarations ==
    (enabled /\ desired # Unreadable /\ \A t \in Thread : pc[t] = "idle") => desired = declared

\* Again and again every command has returned and no worker outlives its session: nobody waits
\* for ever for a gate of the transitions, and the watcher stops what an expiry left running.
LockedWorkEnds ==
    []<>(exited \/ /\ \A t \in Thread : pc[t] \in {"idle", "prompt"}
                   /\ work /\ policy # Off => session = "live")
=============================================================================
