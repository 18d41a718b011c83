--------------------------- MODULE PluginSettings ---------------------------
(***************************************************************************)
(* The settings of one plugin: the encrypted record on disk                *)
(* (settings_store.rs), the package's declarative schema and the editor    *)
(* that merges into the record (settings.rs), the one-time seed from the   *)
(* application's configuration (migration.rs, legacy_migration.rs), and    *)
(* the portable backup that carries public settings to a new installation  *)
(* (module_config.rs).                                                     *)
(*                                                                         *)
(* Everything that reads or writes a record runs under the package         *)
(* operation lock, so one write at most is staged (op); the commit runs in *)
(* the session epoch of its start, and a lock in between drops it. Field   *)
(* contents are names; "empty" is the empty string.                        *)
(***************************************************************************)
EXTENDS Naturals, FiniteSets, TLC

CONSTANTS Version,        \* packages of this plugin, told apart by their digest
          Public,         \* Public[v]: the ordinary fields of v's schema
          Secret,         \* Secret[v]: its writeOnly fields
          Required,       \* Required[v]: those a worker cannot start without
          Video,          \* versions that may open video windows
          LayoutFields,   \* a legacy seed waits for a schema that has them all
          Binding,        \* the fields that say which server a credential is for
          Account,        \* the secret fields that say whose credential it is
          Reads,          \* the list of entities to read, if this plugin has one
          LegacyValues, LegacySecrets,   \* what plan_plugin makes of the old configuration
          Joined,         \* Joined[c]: the entities of the saved list c, then the old configuration's
          Full,           \* values whose lists are malformed, or too long for that
          Earlier,        \* the data an earlier application version may have left: saved, never handed over
          Val, MaxWrites, MaxPending

None == [none |-> TRUE]
\* Package schemas cannot declare this key: it is the host's own preference.
Top == "_host_video_always_on_top"

\* SettingsSchema::compile: every package that is shown, saved, exported or started has such
\* a schema: each field once, ordinary or secret, and no name the host reserves.
Compiled(v) ==
    /\ Public[v] \cap Secret[v] = {} /\ Required[v] \subseteq Public[v] \cup Secret[v]
    /\ Top \notin Public[v] \cup Secret[v]
ASSUME SchemasAreSane ==
    /\ \A v \in Version : Compiled(v)
    /\ "empty" \in Val /\ MaxPending \in Nat \ {0}

\* An earlier version validated what it wrote (validate_data), and had no video windows.
ASSUME EarlierIsSane ==
    \A d \in Earlier : /\ DOMAIN d.secrets \subseteq d.marks /\ DOMAIN d.values \cap d.marks = {}
                       /\ Top \notin DOMAIN d.values \cup d.marks

VARIABLES pkg,       \* the installed version, or 0
          record,    \* the record on disk, or None
          op,        \* the write staged under the operation lock, or None
          editor,    \* the open settings editor: what it was shown, or None
          ns,        \* the plugin's namespace in the application configuration, or None
          legacy,    \* the old configuration still holds settings for this plugin
          daemon,    \* the daemon's snapshot, which the legacy plan may need, has arrived
          backup,    \* the namespace of the last portable backup file, or None
          litter,    \* pending files nobody owns
          listed,    \* the ciphertext the retained-data list showed, or 0
          writes,    \* writes so far: numbers revisions and ciphertexts
          given,     \* history: what the user last gave each field (see LastSaveStands)
          earlier    \* history: what an earlier version's record says of the fields not given since

history == <<given, earlier>>
vars == <<pkg, record, op, editor, ns, legacy, daemon, backup, litter, listed, writes, history>>

Empty == << >>                                   \* a map without keys
Default == [migrated |-> FALSE, rev |-> 0, values |-> Empty, secrets |-> Empty, marks |-> {}, blob |-> 0]
\* SettingsStore::read: a missing record reads as the default.
Current == IF record = None THEN Default ELSE record
Drop(map, keys) == [k \in DOMAIN map \ keys |-> map[k]]
\* The entries of one map, and those of another for the keys it lacks.
Over(map, rest) == [k \in DOMAIN map \cup DOMAIN rest |-> IF k \in DOMAIN map THEN map[k] ELSE rest[k]]
SameData(a, b) == a.values = b.values /\ a.secrets = b.secrets /\ a.marks = b.marks
-----------------------------------------------------------------------------
(* The schema. *)

\* SettingsSchema::check_classification.
Classified(v, d) ==
    /\ Secret[v] \cap DOMAIN d.values = {}
    /\ Public[v] \cap (d.marks \cup DOMAIN d.secrets) = {}

\* validate_fields; a seed need not be complete. Ordinary fields default to "".
Valid(v, d, complete) ==
    /\ Classified(v, d)
    /\ Top \notin d.marks
    /\ complete => Required[v] \cap Secret[v] \subseteq DOMAIN d.secrets

\* settings_store's own validate_data, on every write and every read.
Coherent(d) == DOMAIN d.secrets \subseteq d.marks /\ DOMAIN d.values \cap d.marks = {}

\* SettingsSchema::merge of what the editor sends: every ordinary field it shows,
\* the host preference, and for each secret keep, clear or a new value. Empty
\* values are omitted. Fields outside this schema stay, for rollback.
MergeValues(v, d, input) ==
    LET sent == {g \in Public[v] : input[g] # "empty"} \cup (IF v \in Video THEN {Top} ELSE {})
    IN  Over([f \in sent |-> input[f]], Drop(d.values, Public[v] \cup Secret[v]))
MergeSecrets(v, d, input) ==
    Over([f \in {g \in Secret[v] : input[g] \in Val} |-> input[f]],
         Drop(d.secrets, {g \in Secret[v] : input[g] = "clear"}))
\* Mutant: a cleared secret is no longer marked as one.
MergeUnmarks(v, d, input) ==
    [d EXCEPT !.values = MergeValues(v, d, input), !.secrets = MergeSecrets(v, d, input),
              !.marks = (@ \cup Secret[v]) \ {g \in Secret[v] : input[g] = "clear"}]
Merge(v, d, input) ==
    [d EXCEPT !.values = MergeValues(v, d, input), !.secrets = MergeSecrets(v, d, input),
              !.marks = @ \cup Secret[v]]
Inputs(v) ==
    {public @@ secret @@ (Top :> top) :
        public \in [Public[v] -> Val], secret \in [Secret[v] -> (Val \ {"empty"}) \cup {"keep", "clear"}],
        top \in IF v \in Video THEN {"off", "on"} ELSE {"off"}}
-----------------------------------------------------------------------------
(* The seed. *)

Waiting == [error |-> "waiting"]
Conflict == [error |-> "conflict"]
Unsupported == [error |-> "unsupported"]
Selection == [error |-> "selection"]
Failed(s) == "error" \in DOMAIN s

\* plan_ha: nothing unless the direct API was used; the controls to carry over may have to
\* be asked of the daemon. Which entities they are is left to the constants.
LegacyPlan ==
    IF ~legacy THEN None
    ELSE IF ~daemon THEN Waiting
    ELSE [values |-> LegacyValues, secrets |-> LegacySecrets, legacy |-> TRUE]

\* plan_plugin: a namespace of the configuration is taken as it is; otherwise the
\* old settings are planned as a whole.
PlanPlugin ==
    IF ns # None THEN [values |-> ns.values, secrets |-> ns.secrets, legacy |-> FALSE] ELSE LegacyPlan

\* same_binding: a credential is never joined to another server than its own.
SameBinding(d, seed) ==
    \A f \in Binding \cap DOMAIN d.values \cap DOMAIN seed.values : d.values[f] = seed.values[f]

\* One account's name is never joined to what is missing of another's credentials.
SameAccount(d, seed) ==
    \/ \A f \in Account \cap DOMAIN d.secrets \cap DOMAIN seed.secrets : d.secrets[f] = seed.secrets[f]
    \/ DOMAIN seed.secrets \subseteq DOMAIN d.secrets

\* merge_legacy_ha_reads: the list an older worker was given gets the entities that the
\* application itself has read so far.
MergeReads(values) ==
    [f \in DOMAIN values |-> IF f \in Reads THEN Joined[values[f]] ELSE values[f]]

\* merge_seed: what is there wins, but for the list of entities to read, and a secret the user
\* has decided about is left alone.
\* Mutant: what is planned wins.
MergeSeedOverwrites(d, seed) ==
    IF ~SameBinding(d, seed) \/ ~SameAccount(d, seed) THEN Conflict
    ELSE [d EXCEPT !.migrated = TRUE, !.values = Over(seed.values, @),
                   !.secrets = Over(@, Drop(seed.secrets, d.marks)),
                   !.marks = @ \cup DOMAIN seed.secrets]
MergeSeed(d, seed) ==
    LET values == Over(d.values, seed.values) IN
    IF ~SameBinding(d, seed) \/ ~SameAccount(d, seed) THEN Conflict
    ELSE IF seed.legacy /\ values \in Full THEN Selection
    ELSE [d EXCEPT !.migrated = TRUE,
                   !.values = IF seed.legacy THEN MergeReads(values) ELSE values,
                   !.secrets = Over(@, Drop(seed.secrets, d.marks)),
                   !.marks = @ \cup DOMAIN seed.secrets]

\* settings_seed: an older package that cannot express the legacy layout keeps waiting.
SettingsSeed(v, d) ==
    LET fields == Public[v] \cup Secret[v]
        seed == PlanPlugin IN
    IF \/ d.migrated
       \/ ns = None /\ ~(LayoutFields \subseteq fields)
    THEN d
    ELSE IF seed = None THEN d
    ELSE IF Failed(seed) THEN seed
    ELSE IF ~(DOMAIN seed.values \cup DOMAIN seed.secrets \subseteq fields)
         THEN IF ns = None THEN d ELSE Unsupported
    ELSE MergeSeed(d, seed)

\* provider: changed data gets a fresh revision.
\* Mutant: a seed keeps the revision it was made from.
ProviderKeepsRevision(v, d) == SettingsSeed(v, d)
Provider(v, d) ==
    LET next == SettingsSeed(v, d) IN
    IF Failed(next) \/ next = d THEN next ELSE [next EXCEPT !.rev = writes + 1]
-----------------------------------------------------------------------------
(* The store. *)

\* prepare_write: stage the ciphertext in a pending file of its own.
Preparable(data) == Coherent(data) /\ litter < MaxPending
Prepare(kind, data, shown) ==
    /\ writes < MaxWrites
    /\ Preparable(data)
    /\ op' = [kind |-> kind, data |-> data, shown |-> shown, stale |-> FALSE, of |-> pkg]
    /\ UNCHANGED <<pkg, record, ns, legacy, daemon, backup, litter, listed, writes, history>>

\* What the user last gave each field of a schema: a value, or the wish for none.
Given(v, data) ==
    [f \in Public[v] \cup Secret[v] |->
        LET part == IF f \in Public[v] THEN data.values ELSE data.secrets
        IN  IF f \in DOMAIN part THEN part[f] ELSE "absent"]

\* SettingsSchema::view, under the token digest:revision.
View(v, d) == [v |-> v, rev |-> d.rev, data |-> d]

\* encrypt: a new ciphertext every time, under a fresh nonce.
Encrypted(d) == [d EXCEPT !.blob = writes + 1]

\* commit, in the epoch of the operation: the rename. A directory that cannot be
\* synced afterwards is reported as an error, but the record is the new one.
Commit(ok) ==
    /\ op # None /\ ~op.stale
    /\ record' = Encrypted(op.data)
    /\ writes' = writes + 1
    /\ given' = IF op.kind = "save" THEN Over(Given(op.of, op.data), given) ELSE given
    /\ earlier' = IF op.kind = "save" THEN Drop(earlier, Public[op.of] \cup Secret[op.of]) ELSE earlier
    /\ editor' = IF ok /\ op.kind # "seed"     \* the saved view replaces the editor's
                 THEN View(op.of, op.data) ELSE editor
    /\ op' = None
    /\ UNCHANGED <<pkg, ns, legacy, daemon, backup, litter, listed>>

\* The session was locked meanwhile: the prepared write is dropped, and its file
\* removed unless the file system refuses.
Abandon ==
    /\ op # None /\ op.stale
    /\ op' = None
    /\ litter' \in {litter, litter + 1}
    /\ UNCHANGED <<pkg, record, editor, ns, legacy, daemon, backup, listed, writes, history>>

Lock ==
    /\ op # None /\ ~op.stale
    /\ op' = [op EXCEPT !.stale = TRUE]
    /\ editor' = None          \* the window loses its session
    /\ UNCHANGED <<pkg, record, ns, legacy, daemon, backup, litter, listed, writes, history>>

\* A crash leaves a staged file behind; recover at the next start removes it.
Restart ==
    /\ litter' = 0
    /\ op' = None /\ editor' = None /\ listed' = 0 /\ daemon' = FALSE
    /\ UNCHANGED <<pkg, record, ns, legacy, backup, writes, history>>
-----------------------------------------------------------------------------
(* The operations. *)

\* load_settings, by the editor or a launch, found something to seed: it is
\* validated against the schema and staged.
Seedable(next) ==
    /\ ~Failed(next) /\ next # Current
    /\ Valid(pkg, next, FALSE) /\ Preparable(next)
StageSeed ==
    /\ op = None /\ pkg # 0
    /\ Seedable(Provider(pkg, Current))
    /\ Prepare("seed", Provider(pkg, Current), None)
    /\ UNCHANGED editor

\* get_settings: nothing to seed, or the seed failed: the record is shown as it is.
OpenEditor ==
    /\ op = None /\ pkg # 0
    /\ ~Seedable(Provider(pkg, Current))
    /\ Classified(pkg, Current)
    /\ editor' = View(pkg, Current)
    /\ UNCHANGED <<pkg, record, op, ns, legacy, daemon, backup, litter, listed, writes, history>>

\* save_settings: the token is digest:revision; the first save ends any handover.
SaveMarked(next) == IF next.migrated THEN next ELSE [next EXCEPT !.migrated = TRUE, !.rev = writes + 1]
SaveSettings(input) ==
    /\ op = None /\ pkg # 0 /\ editor # None
    /\ Classified(pkg, Current)
    /\ editor.v = pkg /\ editor.rev = Current.rev
    /\ LET merged == Merge(pkg, Current, input)
           next == IF SameData(merged, Current) THEN merged ELSE [merged EXCEPT !.rev = writes + 1]
           final == SaveMarked(next) IN
       /\ Valid(pkg, final, TRUE)
       /\ Prepare("save", final, editor)
    /\ UNCHANGED editor

\* Install, update and rollback replace the active package, never the record.
Select(v) ==
    /\ op = None /\ pkg # v
    /\ pkg' = v /\ listed' = 0
    /\ UNCHANGED <<record, op, editor, ns, legacy, daemon, backup, litter, writes, history>>

Forget == record' = None /\ given' = Empty /\ earlier' = Empty

\* Uninstall, which deletes the record only when asked to (remove).
Uninstall(delete) ==
    /\ op = None /\ pkg # 0
    /\ pkg' = 0
    /\ IF delete THEN Forget ELSE UNCHANGED <<record, history>>
    /\ UNCHANGED <<op, editor, ns, legacy, daemon, backup, litter, listed, writes>>

\* SettingsStore::inventory and remove_record: a record is named by its ciphertext's hash.
Inventory == IF record = None THEN 0 ELSE record.blob
RemoveRecord(revision) == record # None /\ revision = record.blob /\ Forget

\* retained_data and delete_retained_data: what was listed, and never the record of an
\* installed plugin.
ListRetained ==
    /\ op = None /\ record # None
    /\ listed' = Inventory
    /\ UNCHANGED <<pkg, record, op, editor, ns, legacy, daemon, backup, litter, writes, history>>
DeleteRetained ==
    /\ op = None /\ pkg = 0
    /\ RemoveRecord(listed)
    /\ UNCHANGED <<pkg, op, editor, ns, legacy, daemon, backup, litter, listed, writes>>

\* with_portable_modules: the public values of an installed plugin's record,
\* unless the schema contradicts the record; the namespace supersedes its shadow.
Exportable == pkg # 0 => Classified(pkg, Current)
Exported ==
    IF pkg # 0 THEN [values |-> Drop(Current.values, Current.marks), secrets |-> Empty] ELSE ns

\* redacted: no namespace's credentials leave the installation.
Redacted(n) == IF n = None THEN None ELSE [n EXCEPT !.secrets = Empty]
\* backup_config: the portable file.
BackUp ==
    /\ op = None /\ Exportable
    /\ backup' = Redacted(Exported)
    /\ UNCHANGED <<pkg, record, op, editor, ns, legacy, daemon, litter, listed, writes, history>>

\* restore_with_installed: an import may not change what is installed; what is not
\* installed may not be rebound while local credentials exist (merge_for_save).
Importable(local) ==
    /\ (backup # None /\ pkg # 0) => backup.values = local.values
    /\ (backup # None /\ local # None /\ local.secrets # Empty) => backup.values = local.values
Imported(local) ==
    IF backup = None THEN local
    ELSE IF local = None THEN backup ELSE [backup EXCEPT !.secrets = local.secrets]

\* restore_configuration.
RestoreBackup ==
    /\ op = None /\ Exportable
    /\ Importable(Exported) /\ ns' = Imported(Exported)
    /\ UNCHANGED <<pkg, record, op, editor, legacy, daemon, backup, litter, listed, writes, history>>

\* A clean installation on which the user has the backup file only.
CleanInstallation ==
    /\ op = None /\ backup # None
    /\ pkg' = 0 /\ Forget /\ editor' = None /\ ns' = None /\ legacy' = FALSE /\ daemon' = FALSE
    /\ litter' = 0 /\ listed' = 0
    /\ UNCHANGED <<op, backup, writes>>

DaemonArrives ==
    /\ ~daemon /\ daemon' = TRUE
    /\ UNCHANGED <<pkg, record, op, editor, ns, legacy, backup, litter, listed, writes, history>>
-----------------------------------------------------------------------------
\* What data says of each field it has a value for or knows as a secret.
Said(d) ==
    [f \in DOMAIN d.values \cup d.marks |->
        IF f \in DOMAIN d.values THEN d.values[f]
        ELSE IF f \in DOMAIN d.secrets THEN d.secrets[f] ELSE "absent"]

\* A record of an earlier application version, which knew no handover and marked none.
Existing(d) ==
    record = [migrated |-> FALSE, rev |-> 1, values |-> d.values, secrets |-> d.secrets, marks |-> d.marks,
              blob |-> 1]

\* An installation before, or with, its old settings: with an earlier version's record or without,
\* and perhaps with a namespace that holds credentials.
Init ==
    /\ pkg \in {0} \cup Version
    /\ \/ record = None /\ earlier = Empty
       \/ \E d \in Earlier : Existing(d) /\ earlier = Said(d)
    /\ op = None /\ editor = None
    /\ legacy \in BOOLEAN
    /\ ns \in {None, [values |-> LegacyValues, secrets |-> LegacySecrets]}
    /\ daemon = FALSE /\ backup = None /\ litter = 0 /\ listed = 0 /\ writes = 1
    /\ given = Empty

Next ==
    \/ StageSeed \/ OpenEditor \/ (\E ok \in BOOLEAN : Commit(ok)) \/ Abandon \/ Lock \/ Restart
    \/ \E v \in Version : Select(v)
    \/ /\ op = None /\ pkg # 0 /\ editor # None /\ writes < MaxWrites
       /\ \E input \in Inputs(pkg) : SaveSettings(input)
    \/ \E delete \in BOOLEAN : Uninstall(delete)
    \/ ListRetained \/ DeleteRetained \/ BackUp \/ RestoreBackup \/ CleanInstallation \/ DaemonArrives

Spec == Init /\ [][Next]_vars
-----------------------------------------------------------------------------
\* A save lands only on what its editor had shown: between opening and commit no
\* seed, other save, update or removal changed the record or the package under it.
NoLostUpdate ==
    [][\A o \in {op} : (o # None /\ o.kind = "save" /\ record' # record)
          => o.shown.v = pkg /\ SameData(o.shown.data, Current)]_vars

\* What the record says of a field.
Says(f) ==
    IF f \in DOMAIN Current.values THEN Current.values[f]
    ELSE IF f \in DOMAIN Current.secrets THEN Current.secrets[f] ELSE "absent"

\* What the user last gave a field stands in the record, through seeds, restored backups, updates
\* and rollbacks to schemas without the field, until the record is deleted; a value the user
\* cleared does not come back. The same holds for what an earlier version's record says of a field
\* and the user has not given since, whatever is seeded into it, but for the list of entities to
\* read: the handover of the old configuration may append its own, once (merge_seed,
\* merge_legacy_ha_reads).
LastSaveStands ==
    /\ \A f \in DOMAIN given : Says(f) = given[f]
    /\ \A f \in DOMAIN earlier :
          Says(f) = earlier[f] \/ (f \in Reads /\ Says(f) = Joined[earlier[f]])

\* A field that ever held a secret stays one as long as the record exists: it is never stored,
\* shown, exported or handed to a worker as an ordinary value, whatever a later schema, a
\* rollback, a cleared secret or a restored backup makes of it.
OnceSecretNeverPublic ==
    [][record' # None =>
          \A f \in Current.marks \cup DOMAIN Current.secrets :
              f \in record'.marks /\ f \notin DOMAIN record'.values]_vars

\* docs/plugin-settings.md: a backup restored on a clean installation, and a later
\* reinstall, seed the plugin's settings again. So a package is never told that
\* settings are unsupported which its own editor shows.
BackupSeedsAgain ==
    (/\ pkg # 0 /\ ns # None /\ ns.secrets = Empty
     /\ DOMAIN ns.values \subseteq Public[pkg] \cup (IF pkg \in Video THEN {Top} ELSE {}))
    => SettingsSeed(pkg, Current) # Unsupported
=============================================================================
