-------------------------- MODULE PluginManagement --------------------------
(***************************************************************************)
(* The plugin application service (src-tauri/src/plugins/application.rs,   *)
(* reconciliation.rs, management.rs, groups.rs and the commands of         *)
(* bridge.rs): declarations of the configuration, the inventory they are   *)
(* reconciled with, the status shown for each, package reviews and the     *)
(* cached list of the settings window.                                     *)
(*                                                                         *)
(* One operation holds the reconciliation gate. A call of the package      *)
(* manager (PackageStore) is one step here: it commits in the operation's  *)
(* epoch or not at all. Epochs and revisions are compared for equality     *)
(* only: each holder carries whether its own is still the current one.     *)
(***************************************************************************)
EXTENDS Naturals, FiniteSets

CONSTANTS
    Plugin,
    Version,
    Group       \* the plugins of the group verified manifests name

VARIABLES
    enabled,    \* the host is authorized (in its current epoch)
    saved,      \* the declarations on disk
    desired,    \* the declarations in memory
    status,     \* the status of each declared plugin
    record,     \* the inventory
    op,         \* the operation that holds the gate
    review,     \* the package under review
    cache,      \* the cached details of the current revision, if any: the inventory they show
    reader,     \* a snapshot waiting for details
    transition, \* the session transition under way
    closing

vars == <<enabled, saved, desired, status, record, op, review, cache, reader, transition, closing>>
-----------------------------------------------------------------------------
None == {}
Declaration == [on : BOOLEAN, pin : Version]
Declarations == [Plugin -> {None} \cup {{d} : d \in Declaration}]
NoDeclarations == [p \in Plugin |-> None]
On(r) == \E x \in r : x.on
NoOp == [kind |-> "none"]
Op(kind, at, todo) ==
    [kind |-> kind, at |-> at, todo |-> todo, on |-> FALSE, plugin |-> None, clone |-> NoDeclarations,
     ver |-> None, current |-> TRUE, failed |-> FALSE]
NoReader == [at |-> "none"]

Init ==
    /\ enabled = FALSE
    /\ saved \in Declarations
    /\ desired = NoDeclarations /\ status = [p \in Plugin |-> "none"]
    /\ record = [p \in Plugin |-> None]
    /\ op = NoOp /\ review = None
    /\ cache = None /\ reader = NoReader
    /\ transition = "due" /\ closing = FALSE

\* check_epoch, for an operation, a review or a reader of its own epoch.
Current(x) == enabled /\ ~closing /\ x.current
Managed(p) == status[p] # "none"
\* A revision that is taken makes what was cached, or is being read, one of an earlier one.
Bump(readers) ==
    /\ cache' = None
    /\ reader' = IF readers.at = "none" THEN readers ELSE [readers EXCEPT !.fresh = FALSE]
SetStatus(p, to) ==
    status' = IF Managed(p) /\ Current(op) THEN [status EXCEPT ![p] = to] ELSE status
Release == op' = NoOp
-----------------------------------------------------------------------------
(* The session: revoke, forget, configure, resume (transition_session). *)
\* Mutant: a new session keeps the revision of the list.
RevokeQuietly ==
    /\ transition = "due"
    /\ enabled' = FALSE
    /\ op' = IF op = NoOp THEN op ELSE [op EXCEPT !.current = FALSE]
    /\ reader' = IF reader = NoReader THEN reader ELSE [reader EXCEPT !.current = FALSE]
    /\ review' = None
    /\ transition' = "configure"
    /\ UNCHANGED <<saved, desired, status, record, cache, closing>>
Revoke ==
    /\ transition = "due"
    /\ enabled' = FALSE
    /\ op' = IF op = NoOp THEN op ELSE [op EXCEPT !.current = FALSE]
    /\ LET stale == IF reader = NoReader THEN reader ELSE [reader EXCEPT !.current = FALSE]
       IN  Bump(stale)
    /\ review' = None
    /\ transition' = "configure"
    /\ UNCHANGED <<saved, desired, status, record, closing>>

\* configure: the declarations are read anew, or there are none and an error.
Configure ==
    /\ transition = "configure"
    /\ \E ok \in BOOLEAN : desired' = IF ok THEN saved ELSE NoDeclarations
    /\ status' = [p \in Plugin |-> IF desired'[p] = None THEN "none" ELSE "pending"]
    /\ transition' = "resume"
    /\ UNCHANGED <<enabled, saved, record, op, review, cache, reader, closing>>

Resume ==
    /\ transition = "resume"
    /\ \E unlocked \in BOOLEAN : enabled' = (unlocked /\ ~closing)
    /\ transition' = "none"
    /\ UNCHANGED <<saved, desired, status, record, op, review, cache, reader, closing>>

\* Locking, unlocking and an expiry of the session begin a transition.
SessionChanges ==
    /\ transition = "none"
    /\ transition' = "due"
    /\ UNCHANGED <<enabled, saved, desired, status, record, op, review, cache, reader, closing>>

\* save_configuration, restore_configuration: in the epoch, then a transition.
SaveConfiguration ==
    /\ transition = "none" /\ enabled /\ ~closing
    /\ saved' \in Declarations
    /\ transition' = "due"
    /\ UNCHANGED <<enabled, desired, status, record, op, review, cache, reader, closing>>

BeginShutdown ==
    /\ ~closing /\ closing' = TRUE
    /\ enabled' = FALSE /\ review' = None
    /\ UNCHANGED <<saved, desired, status, record, op, cache, reader, transition>>
-----------------------------------------------------------------------------
(* The manager: a call commits in the epoch of the operation, or fails and changes nothing. *)
\* Mutant: a call made in an earlier session still commits in this one.
MayCommitLate == enabled /\ ~closing
MayCommit == Current(op)
Keep == UNCHANGED record
SetOn(p, on) ==
    /\ MayCommit /\ record[p] # None
    /\ record' = [record EXCEPT ![p] = {[x EXCEPT !.on = on] : x \in @}]
\* The first version is installed as asked, a later one stays enabled or not.
InstallVersion(p, v, on) ==
    /\ MayCommit
    /\ record' = [record EXCEPT ![p] = {[ver |-> v, on |-> on, back |-> {x.ver : x \in @}]}]

\* record_result and the status that goes with it.
Record(readers) == Bump(readers)
Outcome(failed, on) == IF failed THEN "failed" ELSE IF on THEN "ready" ELSE "disabled"
-----------------------------------------------------------------------------
(* reconcile: under the gate, from a copy of the declarations. *)
BeginReconcile ==
    /\ op = NoOp /\ enabled /\ ~closing
    /\ op' = [Op("reconcile", "disable", {p \in Plugin : On(record[p]) /\ desired[p] # None /\ ~On(desired[p])})
                EXCEPT !.clone = desired]
    /\ UNCHANGED <<enabled, saved, desired, status, record, review, cache, reader, transition, closing>>

\* Disabled intent first, network or not; a failure ends the pass.
ReconcileDisable ==
    /\ op.kind = "reconcile" /\ op.at = "disable"
    /\ IF op.todo = {}
       THEN /\ op' = IF Current(op) THEN [op EXCEPT !.at = "restore", !.todo = Plugin] ELSE NoOp
            /\ UNCHANGED <<record, cache, reader>>
       ELSE \E p \in op.todo :
               \/ SetOn(p, FALSE) /\ op' = [op EXCEPT !.todo = @ \ {p}] /\ Record(reader)
               \/ Keep /\ Release /\ Record(reader)
    /\ UNCHANGED <<enabled, saved, desired, status, review, transition, closing>>

\* restore_enabled_in_epoch starts workers; records stay as they are. An error of the whole call
\* ends the pass.
ReconcileRestore ==
    /\ op.kind = "reconcile" /\ op.at = "restore"
    /\ \/ /\ Record(reader)
          /\ op' = IF Current(op)
                   THEN [op EXCEPT !.at = "next", !.todo = {p \in Plugin : op.clone[p] # None}]
                   ELSE NoOp
       \/ Release /\ UNCHANGED <<cache, reader>>
    /\ UNCHANGED <<enabled, saved, desired, status, record, review, transition, closing>>

\* reconcile_one: what is installed already decides, else a download.
ReconcileNext ==
    /\ op.kind = "reconcile" /\ op.at = "next"
    /\ IF op.todo = {} \/ ~Current(op) THEN Release /\ UNCHANGED status
       ELSE \E p \in op.todo :
              LET d == CHOOSE x \in op.clone[p] : TRUE
                  same == \E x \in record[p] : x.ver = d.pin
                  begun == [op EXCEPT !.todo = @ \ {p}, !.plugin = {p}, !.on = d.on, !.ver = {d.pin}]
              IN  \E failed \in BOOLEAN :    \* no archive, it needs repair, or its worker does not run
                    /\ op' = [begun EXCEPT !.failed = failed,
                                           !.at = IF failed \/ (same /\ (~d.on \/ On(record[p]))) THEN "result"
                                                  ELSE IF same THEN "enable" ELSE "install"]
                    /\ IF failed \/ same THEN UNCHANGED status ELSE SetStatus(p, "downloading")
    /\ UNCHANGED <<enabled, saved, desired, record, review, cache, reader, transition, closing>>

\* Download, verification and install; a running version is replaced transactionally, a
\* first one is installed disabled and enabled after.
ReconcileInstall ==
    /\ op.kind = "reconcile" /\ op.at = "install"
    /\ \E p \in op.plugin, v \in op.ver :
          \/ /\ InstallVersion(p, v, op.on /\ On(record[p]))
             /\ SetStatus(p, "installing")
             /\ op' = [op EXCEPT !.at = IF op.on /\ ~On(record[p]) THEN "enable" ELSE "result"]
          \/ /\ Keep /\ UNCHANGED status
             /\ op' = [op EXCEPT !.at = "result", !.failed = TRUE]
    /\ UNCHANGED <<enabled, saved, desired, review, cache, reader, transition, closing>>

ReconcileEnable ==
    /\ op.kind = "reconcile" /\ op.at = "enable"
    /\ \E p \in op.plugin :
          \/ SetOn(p, TRUE) /\ op' = [op EXCEPT !.at = "result"]
          \/ Keep /\ op' = [op EXCEPT !.at = "result", !.failed = TRUE]
    /\ UNCHANGED <<enabled, saved, desired, status, review, cache, reader, transition, closing>>

ReconcileResult ==
    /\ op.kind = "reconcile" /\ op.at = "result"
    /\ IF ~Current(op) THEN Release /\ UNCHANGED <<status, cache, reader>>
       ELSE \E p \in op.plugin :
              /\ SetStatus(p, Outcome(op.failed, op.on))
              /\ Record(reader)
              /\ op' = [op EXCEPT !.at = "next", !.failed = FALSE, !.plugin = None]
    /\ UNCHANGED <<enabled, saved, desired, record, review, transition, closing>>
-----------------------------------------------------------------------------
(* set_enabled, set_group_enabled and uninstall: the intent is persisted first. *)
BeginIntent(kind, members, on) ==
    /\ op = NoOp /\ enabled /\ ~closing
    /\ members # {} /\ \A p \in members : record[p] # None
    /\ op' = [Op(kind, "persist", members) EXCEPT !.on = on]
    /\ UNCHANGED <<enabled, saved, desired, status, record, review, cache, reader, transition, closing>>

EnableCommand(p, on) == BeginIntent("enable", {p}, on)
GroupCommand(on) == BeginIntent("group", {p \in Group : record[p] # None}, on)
UninstallCommand(p) == BeginIntent("uninstall", {p}, FALSE)

\* group_desired_changed, plugin_desired_changed and their save, in one commit of the epoch.
WithIntent(decls, members, on) ==
    [p \in Plugin |-> IF p \in members THEN {[d EXCEPT !.on = on] : d \in decls[p]} ELSE decls[p]]
Intend(members, on) ==
    /\ saved' = WithIntent(saved, members, on) /\ desired' = WithIntent(desired, members, on)
    /\ status' = [p \in Plugin |-> IF p \in members /\ desired[p] # None THEN "pending" ELSE status[p]]
Persist ==
    /\ op.kind \in {"enable", "group", "uninstall"} /\ op.at = "persist"
    /\ \/ /\ Current(op) /\ Intend(op.todo, op.on)
          /\ op' = [op EXCEPT !.at = "mutate"]
          /\ UNCHANGED <<cache, reader>>
       \/ /\ \E p \in op.todo :
                IF op.kind = "enable" THEN SetStatus(p, "failed") ELSE UNCHANGED status
          /\ IF op.kind = "group" THEN UNCHANGED <<cache, reader>> ELSE Record(reader)
          /\ Release
          /\ UNCHANGED <<saved, desired>>
    /\ UNCHANGED <<enabled, record, review, transition, closing>>

\* prepare_mutation drops a review; then one member after the other.
Mutate ==
    /\ op.kind \in {"enable", "group"} /\ op.at = "mutate"
    /\ IF op.todo = {} THEN Release /\ UNCHANGED <<status, record, review, cache, reader>>
       ELSE \E p \in op.todo :
               IF ~Current(op) /\ op.kind = "group"
               THEN Release /\ UNCHANGED <<status, record, review, cache, reader>>
               ELSE /\ review' = IF Current(op) THEN None ELSE review
                    /\ op' = [op EXCEPT !.todo = @ \ {p}]
                    /\ Record(reader)
                    /\ \/ SetOn(p, op.on) /\ SetStatus(p, Outcome(FALSE, op.on))
                       \/ Keep /\ SetStatus(p, "failed")
    /\ UNCHANGED <<enabled, saved, desired, transition, closing>>

\* uninstall_with_config: disabled for good before the declaration is given up.
UninstallDisable ==
    /\ op.kind = "uninstall" /\ op.at = "mutate"
    /\ \E p \in op.todo :
          \/ /\ SetOn(p, FALSE) /\ review' = None /\ SetStatus(p, "disabled")
             /\ op' = [op EXCEPT !.at = "give up"] /\ UNCHANGED <<cache, reader>>
          \/ Keep /\ Release /\ Record(reader) /\ UNCHANGED <<review, status>>
    /\ UNCHANGED <<enabled, saved, desired, transition, closing>>
GiveUpDeclaration ==
    /\ op.kind = "uninstall" /\ op.at = "give up"
    /\ \E p \in op.todo :
          \/ /\ Current(op)
             /\ saved' = [saved EXCEPT ![p] = None] /\ desired' = [desired EXCEPT ![p] = None]
             /\ status' = [status EXCEPT ![p] = "none"]
             /\ op' = [op EXCEPT !.at = "remove"] /\ UNCHANGED <<cache, reader>>
          \/ Release /\ Record(reader) /\ UNCHANGED <<saved, desired, status>>
    /\ UNCHANGED <<enabled, record, review, transition, closing>>
\* The record, and its settings if asked; the cleanup after the commit may still fail.
RemoveRecord ==
    /\ op.kind = "uninstall" /\ op.at = "remove"
    /\ \E p \in op.todo : Keep \/ (MayCommit /\ record' = [record EXCEPT ![p] = None])
    /\ Release /\ Record(reader)
    /\ UNCHANGED <<enabled, saved, desired, status, review, transition, closing>>

\* remove_configured: only a declaration the user saw, of a plugin that is not installed.
RemoveConfigured(p) ==
    /\ op = NoOp /\ enabled /\ ~closing /\ record[p] = None /\ saved[p] # None
    /\ saved' = [saved EXCEPT ![p] = None] /\ desired' = [desired EXCEPT ![p] = None]
    /\ status' = [status EXCEPT ![p] = "none"]
    /\ Record(reader)
    /\ UNCHANGED <<enabled, record, op, review, transition, closing>>
-----------------------------------------------------------------------------
(* Reviews, for a plugin the configuration does not manage. *)
BeginSelection ==
    /\ enabled /\ ~closing /\ \A r \in review : r.package # None
    /\ review' = {[package |-> None]}
    /\ UNCHANGED <<enabled, saved, desired, status, record, op, cache, reader, transition, closing>>
FinishSelection(p, v) ==
    /\ enabled /\ ~closing /\ review = {[package |-> None]}
    /\ review' = {[package |-> {<<p, v>>}]}
    /\ UNCHANGED <<enabled, saved, desired, status, record, op, cache, reader, transition, closing>>
\* Discarded, expired, or its window closed.
Discard ==
    /\ review # None /\ review' = None
    /\ UNCHANGED <<enabled, saved, desired, status, record, op, cache, reader, transition, closing>>
\* install_review consumes the review and then waits for the gate.
InstallReview(on) ==
    /\ op = NoOp /\ enabled /\ ~closing
    /\ \E r \in review : \E pv \in r.package :
          /\ op' = IF Managed(pv[1]) THEN NoOp
                   ELSE [Op("install", "mutate", {}) EXCEPT !.plugin = {pv[1]}, !.ver = {pv[2]}, !.on = on]
    /\ review' = None
    /\ UNCHANGED <<enabled, saved, desired, status, record, cache, reader, transition, closing>>
Install ==
    /\ op.kind = "install"
    /\ \E p \in op.plugin, v \in op.ver : Keep \/ InstallVersion(p, v, op.on)
    /\ Release /\ Record(reader)
    /\ UNCHANGED <<enabled, saved, desired, status, review, transition, closing>>
\* rollback: the review is dropped when it is asked for, the rest happens under the gate.
Rollback(p) ==
    /\ op = NoOp /\ enabled /\ ~closing /\ ~Managed(p)
    /\ review' = None /\ Record(reader)
    /\ \/ Keep
       \/ \E x \in record[p] : \E b \in x.back :
             record' = [record EXCEPT ![p] = {[x EXCEPT !.ver = b, !.back = {x.ver}]}]
    /\ UNCHANGED <<enabled, saved, desired, status, op, transition, closing>>

\* save_settings and delete_retained_data: not under the gate; no record changes.
SaveSettings ==
    /\ enabled /\ ~closing
    /\ review' = None /\ Record(reader)
    /\ UNCHANGED <<enabled, saved, desired, status, record, op, transition, closing>>
-----------------------------------------------------------------------------
(* snapshot: the revision is read first, the details under the manager's lock. *)
BeginSnapshot ==
    /\ reader = NoReader /\ enabled /\ ~closing
    /\ reader' = IF cache # None THEN NoReader ELSE [at |-> "details", fresh |-> TRUE, current |-> TRUE]
    /\ UNCHANGED <<enabled, saved, desired, status, record, op, review, cache, transition, closing>>
Details ==
    /\ reader.at = "details"
    /\ cache' = IF ~Current(reader) THEN cache ELSE IF reader.fresh THEN {record} ELSE None
    /\ reader' = NoReader
    /\ UNCHANGED <<enabled, saved, desired, status, record, op, review, transition, closing>>

Reconcile ==
    \/ BeginReconcile \/ ReconcileDisable \/ ReconcileRestore \/ ReconcileNext
    \/ ReconcileInstall \/ ReconcileEnable \/ ReconcileResult
Next ==
    \/ Revoke \/ Configure \/ Resume \/ SessionChanges \/ SaveConfiguration \/ BeginShutdown
    \/ Reconcile \/ Persist \/ Mutate \/ UninstallDisable \/ GiveUpDeclaration \/ RemoveRecord
    \/ BeginSelection \/ Discard \/ Install \/ SaveSettings \/ BeginSnapshot \/ Details
    \/ \E on \in BOOLEAN : InstallReview(on) \/ GroupCommand(on)
    \/ \E p \in Plugin :
          \/ RemoveConfigured(p) \/ Rollback(p) \/ UninstallCommand(p)
          \/ \E on \in BOOLEAN : EnableCommand(p, on)
          \/ \E v \in Version : FinishSelection(p, v)

Spec == Init /\ [][Next]_vars
-----------------------------------------------------------------------------
\* A plugin is switched on only while the declarations want it, or do not mention it: no
\* operation works from a copy that a later decision of the user has overtaken.
IntentWins ==
    [][\A p \in Plugin : ~On(record[p]) /\ On(record'[p]) => desired[p] = None \/ On(desired[p])]_vars

\* While no operation is under way, "ready" is a plugin that is switched on, "disabled" one
\* that is not.
StatusIsTrue ==
    op = NoOp => \A p \in Plugin : /\ status[p] = "ready" => On(record[p])
                                   /\ status[p] = "disabled" => ~On(record[p])

\* Details served from the cache of the current revision are those of the inventory.
CacheIsTrue == op = NoOp /\ enabled /\ ~closing => cache \in {None, {record}}

\* What the settings window shows of the plugins is so: status and cached details.
ListIsTrue == StatusIsTrue /\ CacheIsTrue
=============================================================================
