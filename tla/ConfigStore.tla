----------------------------- MODULE ConfigStore -----------------------------
(***************************************************************************)
(* The application's encrypted configuration (config_store.rs): where the  *)
(* installation key comes from on each platform, the atomic replacement of *)
(* config.json, and what loads, saves and imports do to the two things     *)
(* nobody can recover: the password of the desktop lock (auth_password.rs) *)
(* and the credentials that belong to one server (config_backup.rs).       *)
(*                                                                         *)
(* Keys are numbers; 0 is no key. Random keys never repeat. Nothing keeps  *)
(* the application from being launched twice, so two launches may look for *)
(* the key at the same time; only macOS orders what they do. config.json   *)
(* has a single owner, the process "app".                                  *)
(***************************************************************************)
EXTENDS Naturals

CONSTANTS Password, Host, MaxKeys, MaxCommits

Proc == {"app", "rival"}
None == "none"       \* no password, no host, no credential
NoOp == [staged |-> FALSE]
Corrupt == "corrupt" \* a verifier that does not parse: it accepts nobody

VARIABLES platform,   \* "macos", "desktop" (Linux, Windows) or "mobile"
          keyfile,    \* config.key in the application's data directory
          keychain,   \* the entry in the platform's credential store
          made,       \* keys made so far
          proc,       \* each launch: where it is in finding the key, and its cached key
          raced,      \* history: two launches on Linux or Windows each made a key
          cfg,        \* config.json: [form, key, plain, verifier, host, cred, done]
          record,     \* the key that plugin settings on disk are sealed with
          op,         \* the document staged by the owner, or NoOp
          commits,    \* replacements of config.json so far
          password,   \* history: the password last set by the user
          boundTo     \* history: the host the stored credential was given for

keyVars == <<keyfile, keychain, made, proc, raced>>
docVars == <<cfg, record, op, commits, password, boundTo>>
vars == <<platform, keyVars, docVars>>

NoConfig == [form |-> "absent", key |-> 0, plain |-> None, verifier |-> None,
             host |-> None, cred |-> None, done |-> FALSE]
OldMobileKey == 99                        \* the historical key shared by all phones
Sealed(c) == c.form \in {"v1", "v2"}      \* v2 authenticates a version that knows verifiers
-----------------------------------------------------------------------------
(* The key. *)

At(p, pc) == proc[p].pc = pc
Go(p, pc) == proc' = [proc EXCEPT ![p].pc = pc]
Cache(p, k) == proc' = [proc EXCEPT ![p] = [pc |-> "ready", cand |-> 0, seen |-> 0, cache |-> k]]
Fail(p) == proc' = [proc EXCEPT ![p] = [pc |-> "off", cand |-> 0, seen |-> 0, cache |-> 0]]

\* A fresh random key, when the launch found none.
Generate(p, pc) ==
    /\ made < MaxKeys
    /\ made' = made + 1
    /\ proc' = [proc EXCEPT ![p].cand = made + 1, ![p].pc = pc]

\* A launch asks for the key; an answer is cached for the process (get_or_create_encryption_key).
Launch(p) ==
    /\ At(p, "off")
    /\ IF platform = "mobile" THEN Cache(p, keychain) /\ keychain # 0 ELSE Go(p, "file")
    /\ UNCHANGED <<platform, keyfile, keychain, made, raced, docVars>>

\* macOS: the file first, then the Keychain, then the file again: another launch
\* may have published it while this one waited for an authorization.
ReadFile(p) ==
    /\ platform = "macos" /\ At(p, "file")
    /\ IF keyfile # 0 THEN Cache(p, keyfile) ELSE Go(p, "ask")
    /\ UNCHANGED <<platform, keyfile, keychain, made, raced, docVars>>
AskKeychain(p, denied) ==
    /\ platform = "macos" /\ At(p, "ask")
    /\ proc' = [proc EXCEPT ![p].seen = keychain, ![p].pc = IF denied THEN "denied" ELSE "again"]
    /\ UNCHANGED <<platform, keyfile, keychain, made, raced, docVars>>
ReadAgain(p) ==
    /\ At(p, "again") \/ At(p, "denied")
    /\ CASE keyfile # 0 -> Cache(p, keyfile)
         [] keyfile = 0 /\ At(p, "denied") -> Fail(p)
         [] keyfile = 0 /\ At(p, "again") /\ proc[p].seen # 0 ->
               proc' = [proc EXCEPT ![p].cand = proc[p].seen, ![p].pc = "publish"]
         [] OTHER -> Go(p, "inspect")
    /\ UNCHANGED <<platform, keyfile, keychain, made, raced, docVars>>
\* has_encrypted_data: never a new key where something is sealed with an old one.
Inspect(p) ==
    /\ At(p, "inspect")
    /\ IF Sealed(cfg) \/ record # 0 THEN Go(p, "winner") /\ UNCHANGED made ELSE Generate(p, "publish")
    /\ UNCHANGED <<platform, keyfile, keychain, raced, docVars>>
\* persist_key: written aside and renamed exclusively, so a concurrent launch that
\* published first wins; whatever is there is read back.
PublishOver(p) ==
    /\ At(p, "publish")
    /\ keyfile' = proc[p].cand
    /\ Go(p, "winner")
    /\ UNCHANGED <<platform, keychain, made, raced, docVars>>
Publish(p) ==
    /\ At(p, "publish")
    /\ keyfile' = IF keyfile = 0 THEN proc[p].cand ELSE keyfile
    /\ Go(p, "winner")
    /\ UNCHANGED <<platform, keychain, made, raced, docVars>>
TakeWinner(p) ==
    /\ At(p, "winner")
    /\ IF keyfile # 0 THEN Cache(p, keyfile) ELSE Fail(p)
    /\ UNCHANGED <<platform, keyfile, keychain, made, raced, docVars>>

\* Linux and Windows (migrate_or_create_key): a key file moves into the credential store, and
\* goes only after the store has read the same key back. Where there is neither, a new key is
\* stored, over whatever another launch has stored since: two launches that find nothing make
\* two keys (raced).
FindKey(p) ==
    /\ platform = "desktop" /\ At(p, "file")
    /\ IF keyfile # 0
       THEN /\ proc' = [proc EXCEPT ![p].cand = keyfile, ![p].seen = keyfile, ![p].pc = "store"]
            /\ UNCHANGED <<made, raced>>
       ELSE IF keychain # 0 THEN Cache(p, keychain) /\ UNCHANGED <<made, raced>>
       ELSE Generate(p, "store") /\ raced' = (raced \/ \E q \in Proc \ {p} : At(q, "store"))
    /\ UNCHANGED <<platform, keyfile, keychain, docVars>>
StoreKey(p, ok) ==
    /\ At(p, "store")
    /\ IF ok THEN keychain' = proc[p].cand /\ Go(p, "verify") ELSE Fail(p) /\ UNCHANGED keychain
    /\ UNCHANGED <<platform, keyfile, made, raced, docVars>>
VerifyKey(p) ==
    /\ At(p, "verify")
    /\ CASE keychain # proc[p].cand -> Fail(p)
         [] keychain = proc[p].cand /\ proc[p].seen = 0 -> Cache(p, proc[p].cand)
         [] OTHER -> Go(p, "unlink")
    /\ UNCHANGED <<platform, keyfile, keychain, made, raced, docVars>>
\* The file cannot be removed, or another launch has removed it: an error, and no key.
Unlink(p, ok) ==
    /\ At(p, "unlink")
    /\ IF ok /\ keyfile # 0 THEN keyfile' = 0 /\ Cache(p, proc[p].cand) ELSE Fail(p) /\ UNCHANGED keyfile
    /\ UNCHANGED <<platform, keychain, made, raced, docVars>>

\* A process ends anywhere; a staged document is then only a temporary file. The
\* credential store may also fail any request on the way to a key.
Crash(p) ==
    /\ ~At(p, "off")
    /\ Fail(p)
    /\ op' = IF p = "app" THEN NoOp ELSE op
    /\ UNCHANGED <<platform, keyfile, keychain, made, raced, cfg, record, commits, password, boundTo>>

FindsKey(p) ==
    \/ Launch(p) \/ ReadFile(p) \/ (\E denied \in BOOLEAN : AskKeychain(p, denied)) \/ ReadAgain(p)
    \/ Inspect(p) \/ Publish(p) \/ TakeWinner(p) \/ FindKey(p)
    \/ \E ok \in BOOLEAN : StoreKey(p, ok) \/ Unlink(p, ok)
    \/ VerifyKey(p) \/ Crash(p)
-----------------------------------------------------------------------------
(* The document. *)

Key == proc["app"].cache
\* decrypt_config with the installation key; only unversioned documents may still
\* be sealed with the historical mobile key.
Readable ==
    \/ cfg.form \in {"absent", "plain"}
    \/ cfg.key = Key
    \/ platform = "mobile" /\ cfg.form = "v1" /\ cfg.key = OldMobileKey
\* auth_password::migrate: plaintext becomes a verifier; a corrupt verifier is an
\* error and never falls back to plaintext kept beside it.
Migrate(c) == [c EXCEPT !.verifier = IF @ = None THEN c.plain ELSE @, !.plain = None]
\* encrypt_config: the version says whether the document knows verifiers.
Seal(c) == [c EXCEPT !.form = IF c.verifier = None THEN "v1" ELSE "v2", !.key = Key]
\* load_path_with rewrites what it had to convert.
Loaded == Migrate(cfg)
Stale ==
    /\ cfg.form # "absent"
    /\ \/ cfg.form = "plain" \/ cfg.key # Key
       \/ Loaded # cfg
       \/ cfg.form = "v1" /\ cfg.verifier # None
Loads == Readable /\ cfg.verifier # Corrupt

Stage(c, pw, host) ==
    /\ op = NoOp /\ Key # 0 /\ commits < MaxCommits
    /\ op' = [staged |-> TRUE, next |-> Seal(c), pw |-> pw, host |-> host]
    /\ UNCHANGED <<platform, keyVars, cfg, record, commits, password, boundTo>>

\* load_config, when it has something to convert; every other operation loads first.
LoadConverts == Loads /\ Stale /\ Stage(Loaded, password, boundTo)

\* get_config backfills an existing installation, and never creates a document:
\* the first run stays a first run until the user saves.
GetConfig ==
    /\ Loads /\ ~Stale /\ cfg.form # "absent" /\ ~cfg.done
    /\ Stage([cfg EXCEPT !.done = TRUE], password, boundTo)

\* prepare_save: the editor never has the verifier, so the current one is kept
\* unless a password was typed.
PrepareSaveDrops(pw) == IF pw # None THEN pw ELSE None
PrepareSave(pw) == IF pw # None THEN pw ELSE cfg.verifier
SaveConfig(pw, host, cred) ==
    /\ Loads /\ ~Stale
    /\ Stage([cfg EXCEPT !.plain = None, !.verifier = PrepareSave(pw), !.host = host, !.cred = cred, !.done = TRUE],
             IF pw # None THEN pw ELSE password, host)

\* config_backup::restore: an import keeps this installation's lock and credentials,
\* but never hands a credential to a newly imported server.
RestoreCred(host) == IF host = cfg.host THEN cfg.cred ELSE None
RestoreConfig(host) ==
    /\ Loads /\ ~Stale
    /\ Stage([cfg EXCEPT !.host = host, !.cred = RestoreCred(host)], password, boundTo)

\* document::save: the staged file is written and synced, then renamed. The rename
\* is the commit, whether or not the directory can be synced after it.
Commit ==
    /\ op # NoOp
    /\ cfg' = op.next /\ password' = op.pw /\ boundTo' = op.host
    /\ commits' = commits + 1 /\ op' = NoOp
    /\ UNCHANGED <<platform, keyVars, record>>
CannotStage ==
    /\ op # NoOp /\ op' = NoOp
    /\ UNCHANGED <<platform, keyVars, cfg, record, commits, password, boundTo>>

\* Plugin settings are sealed with the same key (plugin_settings_key).
SealRecord ==
    /\ Key # 0 /\ platform # "mobile" /\ record = 0 /\ record' = Key
    /\ UNCHANGED <<platform, keyVars, cfg, op, commits, password, boundTo>>
-----------------------------------------------------------------------------
\* What an update of the application may find: nothing; a plaintext document of an
\* early version; a sealed one, whose password may still be plaintext inside.
OldPassword == CHOOSE p \in Password : TRUE
Written(form, k, plain, verifier) ==
    [NoConfig EXCEPT !.form = form, !.key = k, !.plain = plain, !.verifier = verifier]
Found(k) ==
    {NoConfig, Written("plain", 0, OldPassword, None)}
    \cup (IF k = 0 THEN {} ELSE
          {Written("v1", k, p, None) : p \in {None} \cup Password}
          \cup {Written("v2", k, p, v) : p \in {None, OldPassword}, v \in {Corrupt, OldPassword}})
Accepts(c) == IF c.verifier # None THEN c.verifier ELSE c.plain

Init ==
    /\ platform \in {"macos", "desktop", "mobile"}
    /\ \/ platform = "macos" /\ keyfile \in {0, 1} /\ keychain \in {0, 1, 2} /\ (keyfile = 0 => keychain # 2)
       \/ platform = "desktop" /\ keyfile \in {0, 1} /\ keychain \in {0, 1, 2} /\ (keyfile = 0 => keychain # 2)
       \/ platform = "mobile" /\ keyfile = 0 /\ keychain = 1
    /\ made = 2 /\ raced = FALSE
    /\ proc = [p \in Proc |-> [pc |-> "off", cand |-> 0, seen |-> 0, cache |-> 0]]
    /\ cfg \in Found(IF keyfile # 0 THEN keyfile ELSE keychain)
               \cup (IF platform = "mobile" THEN {c \in Found(OldMobileKey) : c.form # "v2"} ELSE {})
    /\ record = 0 /\ op = NoOp /\ commits = 0
    /\ password = Accepts(cfg) /\ boundTo = None

Next ==
    \/ \E p \in Proc : FindsKey(p)
    \/ LoadConverts \/ GetConfig \/ Commit \/ CannotStage \/ SealRecord
    \/ \E pw \in Password \cup {None}, host \in Host, cred \in {None, "cred"} : SaveConfig(pw, host, cred)
    \/ \E host \in Host : RestoreConfig(host)

Spec == Init /\ [][Next]_vars
-----------------------------------------------------------------------------
\* The key that the next launch would find.
DurableKey == IF keyfile # 0 THEN keyfile ELSE keychain
\* What is sealed on disk can be opened by the key the next launch will find, and a process never
\* works with another key: through crashes and failing credential stores, on macOS with two
\* launches at once (persist_key), and on Linux and Windows with two launches that move a key file
\* or find a key. It does not hold on Linux and Windows once two launches have both found no key:
\* each stores its own, and the one that verified its key before the other stored loses it
\* (migrate_or_create_key has no exclusion).
KeyOpensData ==
    raced \/ /\ Sealed(cfg) /\ cfg.key # OldMobileKey => cfg.key = DurableKey
             /\ record # 0 => record = DurableKey
             /\ \A p \in Proc : proc[p].cache # 0 => proc[p].cache = DurableKey

\* The lock accepts exactly the password last set, through conversions, saves by an
\* editor that never sees it, imports and crashes; and nothing written now holds it
\* in plaintext.
PasswordStands ==
    /\ Accepts(cfg) = password
    /\ op # NoOp => op.next.plain = None

\* A stored credential is only ever paired with the server it was given for.
CredentialStaysBound == cfg.cred # None => cfg.host = boundTo

\* What nobody can recover stands: the lock's password and the owner of a credential.
SecretsStand == PasswordStands /\ CredentialStaysBound
=============================================================================
