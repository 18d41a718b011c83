---------------------------- MODULE PackageStore ----------------------------
(***************************************************************************)
(* The plugin package store of src-tauri/src/plugins/installer.rs: the     *)
(* inventory state.json, the content directories and the leftovers of      *)
(* interrupted work on disk; the workers the manager owns; and its         *)
(* operations, one at a time under the operation lock.                     *)
(*                                                                         *)
(* An operation is a sequence of phases (recover, stage, stop, start,      *)
(* await, write), each a step or a few, so that a revocation of the        *)
(* session, a worker's failure, an I/O error or a crash of the application *)
(* can come between any two of them.  Metadata operations reach the disk   *)
(* in the order of the code.                                               *)
(***************************************************************************)
EXTENDS Naturals, FiniteSets

CONSTANTS
    Plugin,       \* plugin identities
    Version,      \* package versions, newer ones are greater
    Pinned,       \* versions pinned by the configuration
    NoVersion, NoRecord, NoOp,
    MaxPlugins,   \* MAX_PLUGINS
    MaxEpoch,     \* bound on the revocations of the session
    MaxOps        \* bound on the operations

ASSUME StoreAssumption ==
    /\ Version \subseteq Nat /\ Pinned \subseteq Version
    /\ NoVersion \notin Version
    /\ IsFiniteSet(Plugin)
    /\ MaxPlugins \in Nat \ {0} /\ MaxEpoch \in Nat /\ MaxOps \in Nat

VARIABLES
    inv,          \* state.json: the record of each plugin
    content,      \* complete content directories <<plugin, version>>
    broken,       \* content directories whose deletion was interrupted
    litter,       \* staging trees and pending inventories
    settings,     \* the saved settings of each plugin
    owned,        \* ManagerInner.owned
    wstate, wver, wset,   \* the host's worker: state, version, settings it was given
    enabled, epoch,       \* the host's authority
    closed,       \* ManagerInner.closed: the lease was released
    restoring, restoreEpoch,   \* identities left to a pass of restore_enabled
    pc, op,       \* the phase of the operation that holds the lock
    left          \* operations that may still begin

disk == <<inv, content, broken, litter>>
workers == <<owned, wstate, wver, wset>>
authority == <<enabled, epoch>>
pass == <<restoring, restoreEpoch>>
vars == <<disk, settings, workers, authority, closed, pass, pc, op, left>>

Record == [active : Version, rollback : Version \cup {NoVersion}, enabled : BOOLEAN]
Inventory == [Plugin -> Record \cup {NoRecord}]
Operation ==
    [kind : {"open", "install", "enable", "rollback", "disable", "remove", "settings", "restore",
             "close"},
     plugin : Plugin, epoch : Nat, phase : {"apply", "committed", "undo", "cleanup"},
     orig : Inventory,              \* the inventory the operation has read
     rec : Record \cup {NoRecord},  \* the record it is to commit
     was : BOOLEAN]                 \* was_running

ASSUME NoneAssumption == NoRecord \notin Record /\ NoOp \notin Operation

Init ==
    /\ inv = [p \in Plugin |-> NoRecord]
    /\ content = {} /\ broken = {} /\ litter = {}
    /\ settings = [p \in Plugin |-> 0]
    /\ owned = [p \in Plugin |-> NoVersion]
    /\ wstate = [p \in Plugin |-> "none"]
    /\ wver = [p \in Plugin |-> NoVersion]
    /\ wset = [p \in Plugin |-> 0]
    /\ enabled = TRUE /\ epoch = 0
    /\ closed = FALSE
    /\ restoring = {} /\ restoreEpoch = 0
    /\ pc = "down" /\ op = NoOp
    /\ left = MaxOps

-----------------------------------------------------------------------------
(* Helpers *)

Installed(i) == {p \in Plugin : i[p] # NoRecord}

\* The content a record refers to: its active version and its rollback.
Referenced(i) ==
    {c \in Plugin \X Version : i[c[1]] # NoRecord /\ c[2] \in {i[c[1]].active, i[c[1]].rollback}}

\* verify_installed
Verified(p, v) == <<p, v>> \in content

\* check_epoch
Authorized(e) == ~closed /\ enabled /\ epoch = e

Live(p) == wstate[p] \in {"starting", "running"}

Goto(where) == pc' = where /\ UNCHANGED op

\* The operation returns and releases the lock.
End == pc' = "idle" /\ op' = NoOp

Activating == op.kind \in {"install", "enable", "rollback"}

\* An operation on p begins in the current epoch.
Begin(kind, p, rec, where) ==
    /\ pc = "idle" /\ left > 0 /\ Authorized(epoch)
    /\ left' = left - 1
    /\ pc' = where
    /\ op' = [kind |-> kind, plugin |-> p, epoch |-> epoch, phase |-> "apply", orig |-> inv,
              rec |-> rec, was |-> FALSE]
    /\ UNCHANGED <<disk, settings, workers, authority, closed, pass>>

-----------------------------------------------------------------------------
(* Operations begin *)

\* The record install_package_locked commits.
NewRecord(p, v, enable) ==
    [active |-> v,
     rollback |-> IF inv[p] = NoRecord THEN NoVersion
                  ELSE IF inv[p].active = v THEN inv[p].rollback ELSE inv[p].active,
     enabled |-> enable]

Install(p, v, enable) == Begin("install", p, NewRecord(p, v, enable), "recover")

Enable(p) ==
    /\ inv[p] # NoRecord
    /\ Begin("enable", p, [inv[p] EXCEPT !.enabled = TRUE], "activate")

Rollback(p) ==
    /\ inv[p] # NoRecord /\ inv[p].rollback # NoVersion
    /\ Begin("rollback", p,
             [inv[p] EXCEPT !.active = inv[p].rollback, !.rollback = inv[p].active], "activate")

Disable(p) ==
    /\ inv[p] # NoRecord
    /\ Begin("disable", p, [inv[p] EXCEPT !.enabled = FALSE], "stop")

Remove(p) ==
    /\ inv[p] # NoRecord
    /\ Begin("remove", p, NoRecord, "stop")

\* apply_settings_in_epoch
ApplySettings(p) ==
    /\ inv[p] # NoRecord /\ Verified(p, inv[p].active)
    /\ Begin("settings", p, inv[p], "settings")

-----------------------------------------------------------------------------
(* recover: leftovers first, then the content no record refers to *)

\* The keep sets of the inventory.
Retained == Referenced(inv)

\* Every owned worker runs content the inventory refers to.
MayRecover == \A p \in Plugin : owned[p] # NoVersion => <<p, owned[p]>> \in Referenced(inv)

RecoverClean ==
    /\ pc = "recover" /\ MayRecover /\ litter # {}
    /\ \E l \in litter : litter' = litter \ {l}
    /\ UNCHANGED <<inv, content, broken, settings, workers, authority, closed, pass, pc, op, left>>

\* remove_owned_tree: a directory is first incomplete, then gone.
RecoverDelete ==
    /\ pc = "recover" /\ MayRecover /\ litter = {}
    /\ \/ \E c \in content \ Retained : content' = content \ {c} /\ broken' = broken \cup {c}
       \/ \E c \in broken \ Retained : broken' = broken \ {c} /\ UNCHANGED content
    /\ UNCHANGED <<inv, litter, settings, workers, authority, closed, pass, pc, op, left>>

AfterRecover == IF op.kind = "install" /\ op.phase = "apply" THEN Goto("stage") ELSE End

RecoverDone ==
    /\ pc = "recover" /\ MayRecover /\ litter = {} /\ content \cup broken \subseteq Retained
    /\ Referenced(inv) \subseteq content \cup broken
    /\ AfterRecover
    /\ UNCHANGED <<disk, settings, workers, authority, closed, pass, left>>

\* An I/O error, or the guard: opening and installing fail, a committed
\* activation or removal has been committed all the same.
RecoverFails ==
    /\ pc = "recover"
    /\ IF op.kind = "open" THEN pc' = "down" /\ op' = NoOp ELSE End
    /\ UNCHANGED <<disk, settings, workers, authority, closed, pass, left>>

-----------------------------------------------------------------------------
(* install_package_locked, stage_package *)

\* A new plugin needs room, an update the verified content of the active version
\* and, unless pinned, a newer version or the same.
Admitted ==
    LET old == inv[op.plugin] IN
        IF old = NoRecord THEN Cardinality(Installed(inv)) < MaxPlugins
        ELSE /\ Verified(op.plugin, old.active)
             /\ op.rec.active \in Pinned \/ op.rec.active >= old.active

\* Content that is already there is verified and kept; else a staging tree is written.
Stage ==
    /\ pc = "stage"
    /\ LET c == <<op.plugin, op.rec.active>> IN
          \/ ~Admitted /\ End /\ UNCHANGED litter
          \/ Admitted /\ c \in content /\ Goto("activate") /\ UNCHANGED litter
          \/ Admitted /\ c \in broken /\ End /\ UNCHANGED litter
          \/ Admitted /\ c \notin content \cup broken /\ litter' = litter \cup {"staging"}
                /\ Goto("publish")
    /\ UNCHANGED <<inv, content, broken, settings, workers, authority, closed, pass, left>>

\* The tree is renamed to its destination.
Publish ==
    /\ pc = "publish"
    /\ content' = content \cup {<<op.plugin, op.rec.active>>}
    /\ litter' = litter \ {"staging"}
    /\ Goto("activate")
    /\ UNCHANGED <<inv, broken, settings, workers, authority, closed, pass, left>>

\* Before the rename the staging tree is removed again, if that succeeds; after it
\* the content stays.
StageFails ==
    /\ pc = "publish"
    /\ \/ litter' \in {litter, litter \ {"staging"}} /\ UNCHANGED content
       \/ litter' = litter \ {"staging"} /\ content' = content \cup {<<op.plugin, op.rec.active>>}
    /\ End
    /\ UNCHANGED <<inv, broken, settings, workers, authority, closed, pass, left>>

-----------------------------------------------------------------------------
(* activate_and_commit *)

\* was_running reads the snapshot, which may say restarting of a worker whose epoch has
\* ended, until it is reaped.
WasRunning(p) ==
    {was \in BOOLEAN : (Live(p) => was) /\ (was => Live(p) \/ wstate[p] = "over")}

Activate ==
    /\ pc = "activate" /\ Authorized(op.epoch) /\ Verified(op.plugin, op.rec.active)
    /\ \E was \in WasRunning(op.plugin) : op' = [op EXCEPT !.was = was]
    /\ pc' = "stop"
    /\ UNCHANGED <<disk, settings, workers, authority, closed, pass, left>>

\* Not verified, no configuration or another epoch: nothing was stopped yet.
ActivateFails ==
    /\ pc = "activate"
    /\ End
    /\ UNCHANGED <<disk, settings, workers, authority, closed, pass, left>>

\* Once the worker has stopped, the operation may launch one.
Relaunches == op.kind \in {"settings", "restore"} \/ (Activating /\ op.rec.enabled)

AfterStop ==
    \/ op.phase = "cleanup" /\ End
    \/ op.phase = "undo" /\ Goto("write")
    \/ op.phase = "apply" /\ op.kind = "close" /\ Goto("close")
    \/ op.phase = "apply" /\ op.kind # "close" /\ Goto(IF Relaunches THEN "start" ELSE "write")

\* stop_owned: the host removes the worker; a worker of nobody needs no stop.
StopOwned ==
    /\ pc = "stop"
    /\ wstate[op.plugin] # "stuck"
    /\ owned' = [owned EXCEPT ![op.plugin] = NoVersion]
    /\ wstate' = [wstate EXCEPT ![op.plugin] = "none"]
    /\ wver' = [wver EXCEPT ![op.plugin] = NoVersion]
    /\ wset' = [wset EXCEPT ![op.plugin] = 0]
    /\ AfterStop
    /\ UNCHANGED <<disk, settings, authority, closed, pass, left>>

\* The process cannot be reaped: it stays registered and owned.
StopFails ==
    /\ pc = "stop" /\ wstate[op.plugin] # "none"
    /\ wstate' = [wstate EXCEPT ![op.plugin] = "stuck"]
    /\ End
    /\ UNCHANGED <<disk, settings, owned, wver, wset, authority, closed, pass, left>>

\* What is launched: the new version, or while undoing the previous one.
Target == IF op.phase = "undo" THEN op.orig[op.plugin].active ELSE op.rec.active

\* launch: verified once more, registered in the epoch, with the saved settings.
Start ==
    /\ pc = "start" /\ Authorized(op.epoch) /\ Verified(op.plugin, Target)
    /\ wstate[op.plugin] = "none"
    /\ owned' = [owned EXCEPT ![op.plugin] = Target]
    /\ wstate' = [wstate EXCEPT ![op.plugin] = "starting"]
    /\ wver' = [wver EXCEPT ![op.plugin] = Target]
    /\ wset' = [wset EXCEPT ![op.plugin] = settings[op.plugin]]
    /\ Goto("await")
    /\ UNCHANGED <<disk, settings, authority, closed, pass, left>>

\* A launch has failed: an activation is undone, a restart cleaned up, and a
\* failed launch of the previous version is reported.
AfterFailure ==
    IF op.phase # "apply" THEN End
    ELSE /\ op' = [op EXCEPT !.phase = IF Activating THEN "undo" ELSE "cleanup"]
         /\ pc' = "stop"

StartFails ==
    /\ pc = "start"
    /\ AfterFailure
    /\ UNCHANGED <<disk, settings, workers, authority, closed, pass, left>>

AfterReady == IF Activating /\ op.phase = "apply" THEN Goto("write") ELSE End

AwaitReady ==
    /\ pc = "await" /\ Authorized(op.epoch) /\ wstate[op.plugin] = "running"
    /\ AfterReady
    /\ UNCHANGED <<disk, settings, workers, authority, closed, pass, left>>

\* Mutant: the wait has no deadline.
BugAwaitExpired == ~Authorized(op.epoch) \/ wstate[op.plugin] \in {"over", "stuck"}

\* The epoch changed, the handshake failed or STARTUP_BUDGET has passed.
AwaitExpired == ~Authorized(op.epoch) \/ wstate[op.plugin] # "running"

AwaitFails ==
    /\ pc = "await" /\ AwaitExpired
    /\ AfterFailure
    /\ UNCHANGED <<disk, settings, workers, authority, closed, pass, left>>

-----------------------------------------------------------------------------
(* write_state: pending file, atomic rename, sync of the directory *)

NextInventory ==
    IF op.phase = "undo" THEN op.orig ELSE [op.orig EXCEPT ![op.plugin] = op.rec]

\* Mutant: the commit is not bound to the epoch of the operation.
BugMayWrite == ~closed

\* commit_in_epoch; restoring the inventory needs no authority.
MayWrite == op.phase = "undo" \/ Authorized(op.epoch)

\* remove's cleanup deletes the settings first, if that was asked for.
CleanSettings ==
    op.kind = "remove" /\ MayWrite /\ settings' = [settings EXCEPT ![op.plugin] = 0]

WritePending ==
    /\ pc = "write" /\ MayWrite
    /\ litter' = litter \cup {"pending"}
    /\ UNCHANGED settings \/ CleanSettings
    /\ Goto("rename")
    /\ UNCHANGED <<inv, content, broken, workers, authority, closed, pass, left>>

Rename ==
    /\ pc = "rename"
    /\ inv' = NextInventory
    /\ litter' = litter \ {"pending"}
    /\ Goto("sync")
    /\ UNCHANGED <<content, broken, settings, workers, authority, closed, pass, left>>

\* The undone activation restarts the worker it had stopped.
MayRelaunch == op.was /\ Authorized(op.epoch) /\ op.orig[op.plugin] # NoRecord

AfterWrite ==
    \/ op.phase = "undo" /\ MayRelaunch /\ Goto("start")
    \/ ((op.phase = "undo" /\ ~MayRelaunch) \/ op.kind = "disable") /\ End
    \/ op.phase = "apply" /\ op.kind # "disable" /\ pc' = "recover"
          /\ op' = [op EXCEPT !.phase = "committed"]

Sync ==
    /\ pc = "sync"
    /\ AfterWrite
    /\ UNCHANGED <<disk, settings, workers, authority, closed, pass, left>>

\* Refused by the epoch, or an error before or after the rename: a pending file
\* is removed if that succeeds, a renamed inventory stays.
WriteFails ==
    /\ \/ pc = "write" /\ UNCHANGED litter /\ (UNCHANGED settings \/ CleanSettings)
       \/ pc = "rename" /\ litter' \in {litter, litter \ {"pending"}} /\ UNCHANGED settings
       \/ pc = "sync" /\ UNCHANGED <<litter, settings>>
    /\ IF Activating THEN AfterFailure ELSE End
    /\ UNCHANGED <<inv, content, broken, workers, authority, closed, pass, left>>

-----------------------------------------------------------------------------
(* Settings, restoration, closing *)

AfterSettings == IF op.rec.enabled THEN Goto("stop") ELSE End

CommitSettings ==
    /\ pc = "settings" /\ Authorized(op.epoch)
    /\ settings' = [settings EXCEPT ![op.plugin] = 1 - @]
    /\ AfterSettings
    /\ UNCHANGED <<disk, workers, authority, closed, pass, left>>

SettingsFail ==
    /\ pc = "settings"
    /\ End
    /\ UNCHANGED <<disk, settings, workers, authority, closed, pass, left>>

\* restore_enabled_in_epoch lists the enabled plugins and releases the lock ...
RestoreBegin ==
    /\ pc = "idle" /\ left > 0 /\ restoring = {} /\ Authorized(epoch)
    /\ left' = left - 1
    /\ restoring' = {p \in Installed(inv) : inv[p].enabled}
    /\ restoreEpoch' = epoch
    /\ UNCHANGED <<disk, settings, workers, authority, closed, pc, op>>

\* Mutant: the list is taken for the inventory.
BugStillEnabled(p) == inv[p] # NoRecord

StillEnabled(p) == inv[p] # NoRecord /\ inv[p].enabled

\* ... and takes it again for each of them, unless it is already running.
RestoreNext(p) ==
    /\ pc = "idle" /\ p \in restoring
    /\ restoring' = IF Authorized(restoreEpoch) THEN restoring \ {p} ELSE {}
    /\ UNCHANGED restoreEpoch
    /\ IF /\ Authorized(restoreEpoch) /\ StillEnabled(p) /\ Verified(p, inv[p].active)
          /\ ~(owned[p] = inv[p].active /\ wstate[p] = "running")
       THEN /\ pc' = "stop"
            /\ op' = [kind |-> "restore", plugin |-> p, epoch |-> restoreEpoch, phase |-> "apply",
                      orig |-> inv, rec |-> inv[p], was |-> FALSE]
       ELSE UNCHANGED <<pc, op>>
    /\ UNCHANGED <<disk, settings, workers, authority, closed, left>>

\* close needs no session; it stops the owned workers one by one.
Close ==
    /\ \/ pc = "idle" /\ ~closed
       \/ pc = "close"
    /\ LET mine == {p \in Plugin : owned[p] # NoVersion} IN
          IF mine = {} THEN closed' \in {TRUE, closed} /\ End   \* unlock may fail
          ELSE /\ \E p \in mine :
                     op' = [kind |-> "close", plugin |-> p, epoch |-> epoch, phase |-> "apply",
                            orig |-> inv, rec |-> NoRecord, was |-> FALSE]
               /\ pc' = "stop" /\ UNCHANGED closed
    /\ UNCHANGED <<disk, settings, workers, authority, pass, left>>

-----------------------------------------------------------------------------
(* The application starts and crashes; what the worker host does *)

\* open_inner: the inventory is read, recover follows.
Opening(p) ==
    [kind |-> "open", plugin |-> p, epoch |-> epoch, phase |-> "apply", orig |-> inv, rec |-> NoRecord, was |-> FALSE]
\* open_store: nobody else holds the lease.
Open ==
    /\ pc = "down"
    /\ pc' = "recover"
    /\ \E p \in Plugin : op' = Opening(p)
    /\ closed' = FALSE
    /\ UNCHANGED <<disk, settings, workers, authority, pass, left>>

\* The process ends at any point, with it its workers.
Crash ==
    /\ pc # "down" /\ left > 0
    /\ left' = left - 1
    /\ pc' = "down" /\ op' = NoOp
    /\ owned' = [p \in Plugin |-> NoVersion]
    /\ wstate' = [p \in Plugin |-> "none"]
    /\ wver' = [p \in Plugin |-> NoVersion]
    /\ wset' = [p \in Plugin |-> 0]
    /\ restoring' = {} /\ enabled' = TRUE
    /\ UNCHANGED <<disk, settings, epoch, closed, restoreEpoch>>

\* What the worker host promises, and nothing more, is what the store may rely on: a step
\* of the host is any its contract allows.
Host == INSTANCE PluginWorkers WITH worker <- wstate, stopped <- FALSE

\* Handshake, restart and end of a worker.
WorkerChanges(p) ==
    /\ Host!WorkerChanges(p)
    /\ UNCHANGED <<disk, settings, owned, wver, wset, authority, closed, pass, pc, op, left>>

\* The commit of an inventory holds the authority lock.
Committing == pc \in {"rename", "sync"} /\ op.phase = "apply"

Revoke ==
    /\ epoch < MaxEpoch /\ ~Committing
    /\ Host!RevokeEpoch
    /\ UNCHANGED <<disk, settings, owned, wver, wset, closed, pass, pc, op, left>>

Resume ==
    /\ ~enabled /\ Host!Resume
    /\ UNCHANGED <<disk, settings, owned, wver, wset, closed, pass, pc, op, left>>

-----------------------------------------------------------------------------

\* A step of the operation in progress.
Step ==
    \/ RecoverClean \/ RecoverDelete \/ RecoverDone \/ RecoverFails
    \/ Stage \/ Publish \/ StageFails
    \/ Activate \/ ActivateFails \/ StopOwned \/ StopFails \/ Start \/ StartFails
    \/ AwaitReady \/ AwaitFails
    \/ WritePending \/ Rename \/ Sync \/ WriteFails \/ CommitSettings \/ SettingsFail

Next ==
    \/ \E p \in Plugin :
          \/ \E v \in Version, enable \in BOOLEAN : Install(p, v, enable)
          \/ Enable(p) \/ Rollback(p) \/ Disable(p) \/ Remove(p) \/ ApplySettings(p)
          \/ RestoreNext(p) \/ WorkerChanges(p)
    \/ Step
    \/ RestoreBegin \/ Close \/ Open \/ Crash \/ Revoke \/ Resume

Spec == Init /\ [][Next]_vars

\* An operation's task is scheduled until it returns; its waits have deadlines.
FairSpec == Spec /\ WF_vars(Step) /\ WF_vars(pc = "close" /\ Close)

\* A renamed inventory that the operation may still take back.
Undecided == op # NoOp /\ inv # op.orig /\ (pc = "sync" \/ op.phase = "undo")

\* What the store promises of its inventory.
Promise == INSTANCE PackageInventory WITH undo <- IF Undecided THEN {op.orig} ELSE {}

-----------------------------------------------------------------------------
(* Properties *)

PcAt == {"down", "idle", "recover", "stage", "publish", "activate", "stop", "start", "await",
         "write", "rename", "sync", "settings", "close"}

\* Every variable keeps its type, and an operation is in progress exactly while
\* the lock is held.
TypeOK ==
    /\ inv \in Inventory
    /\ content \subseteq Plugin \X Version /\ broken \subseteq Plugin \X Version
    /\ litter \subseteq {"staging", "pending"}
    /\ settings \in [Plugin -> 0 .. 1]
    /\ owned \in [Plugin -> Version \cup {NoVersion}]
    /\ wstate \in [Plugin -> {"none", "starting", "running", "over", "stuck"}]
    /\ wver \in [Plugin -> Version \cup {NoVersion}] /\ wset \in [Plugin -> 0 .. 1]
    /\ enabled \in BOOLEAN /\ epoch \in Nat /\ closed \in BOOLEAN
    /\ restoring \subseteq Plugin /\ restoreEpoch \in Nat
    /\ pc \in PcAt /\ left \in 0 .. MaxOps
    /\ op \in Operation \cup {NoOp}
    /\ op = NoOp <=> pc \in {"down", "idle"}

\* Whenever the application dies, the inventory it leaves refers to complete
\* content only: the next open recovers, and every recorded version can run or
\* be rolled back to.
InventoryInstallable == Referenced(inv) \subseteq content

\* The files of a worker are never deleted while its process may live, also when
\* it is a candidate that was not committed and could not be reaped.
ContentUnderWorker == \A p \in Plugin : wstate[p] # "none" => <<p, wver[p]>> \in content

\* Between operations a worker that runs, starts or restarts is the active version
\* of an enabled record, with the settings that are saved: a failed update, a
\* disable, a removal, a change of settings or a late restore leaves no other
\* worker behind.
WorkersAreWanted ==
    pc = "idle" => \A p \in Plugin : Live(p) =>
        /\ inv[p] # NoRecord /\ inv[p].enabled /\ inv[p].active = wver[p]
        /\ wset[p] = settings[p]

\* The lease is released only after every worker of the store was reaped.
LeaseOutlivesWorkers == closed => \A p \in Plugin : wstate[p] = "none"

\* The four together: what is on disk, what is recorded and what runs fit each other.
StoreIsSound == TypeOK /\ InventoryInstallable /\ ContentUnderWorker /\ WorkersAreWanted /\ LeaseOutlivesWorkers

\* The inventory changes only in the session the operation began in, or back to
\* what the operation had read.
CommitsAuthorized == [][inv' # inv => Authorized(op.epoch) \/ inv' = op.orig]_vars

\* The inventory is the atomic one of PackageInventory: one legal change of one
\* record at a time, taken back only by the operation that made it, never after it
\* was acknowledged and never half-way, whatever fails or crashes; and no change is
\* made for a session that has ended.
RefinesInventory == Promise!Spec /\ CommitsAuthorized

\* Every operation returns, however the worker behaves.
OperationsReturn == pc \notin {"down", "idle"} ~> pc \in {"down", "idle"}
=============================================================================
