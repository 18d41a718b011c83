--------------------------- MODULE DesktopProofs ---------------------------
(***************************************************************************)
(* Proofs about what the desktop keeps, for any schemas, plugins,          *)
(* releases, passwords, hosts, requests and bounds: the configuration and  *)
(* its key (ConfigStore), declarations, inventory and status               *)
(* (PluginManagement), the settings of a plugin (PluginSettings), and the  *)
(* files and windows of plugins' media (MediaService). Each part has an    *)
(* inductive invariant of its own over its own variables.                  *)
(***************************************************************************)
EXTENDS MCDesktop, Sequences, TLAPS, FiniteSetTheorems

-----------------------------------------------------------------------------
(* The configuration and its key (ConfigStore) *)

\* Seen through its own variables, the composition is a ConfigStore.
LEMMA ConfigSpec == DesktopSpec => Config!Spec
<1>1. DesktopInit => Config!Init
  BY DEF DesktopInit
<1>2. UNCHANGED configVars <=> UNCHANGED Config!vars
  BY DEF configVars, Config!vars, Config!keyVars, Config!docVars
<1>3. [DesktopNext]_<<focus, vars, manageVars, configVars, mediaVars>> => [Config!Next]_(Config!vars)
  BY <1>2 DEF DesktopNext
<1> QED
  BY <1>1, <1>3, PTL DEF DesktopSpec, Config!Spec

\* What the fields of the lock hold: a password, none, or what cannot be read.
Word == Password \cup {Config!None, Config!Corrupt, Config!OldPassword}
Document == [form : {"absent", "plain", "v1", "v2"}, key : Nat, plain : Word, verifier : Word,
             host : Host \cup {Config!None}, cred : {Config!None, "cred"}, done : BOOLEAN]
Staging == [staged : {TRUE}, next : Document, pw : Word, host : Host \cup {Config!None}]
Search == [pc : {"off", "file", "ask", "again", "denied", "inspect", "publish", "winner", "store",
                 "verify", "unlink", "ready"}, cand : Nat, seen : Nat, cache : Nat]
ConfigTypeOK ==
    /\ platform \in {"macos", "desktop", "mobile"}
    /\ keyfile \in Nat /\ keychain \in Nat /\ made \in Nat /\ commits \in Nat
    /\ proc \in [Config!Proc -> Search] /\ raced \in BOOLEAN
    /\ cfg \in Document /\ sealed \in Nat
    /\ cop \in {Config!NoOp} \cup Staging
    /\ password \in Word /\ boundTo \in Host \cup {Config!None}

\* Where a launch of each platform may be; a process has a key exactly when it is ready, and one
\* that stores a key has one to store. Only Linux and Windows let two launches make a key each.
Places ==
    /\ \A p \in Config!Proc :
          /\ platform = "macos" => proc[p].pc \notin {"store", "verify", "unlink"}
          /\ platform = "desktop" => proc[p].pc \in {"off", "file", "store", "verify", "unlink", "ready"}
          /\ platform = "mobile" => proc[p].pc \in {"off", "ready"}
          /\ proc[p].cache # 0 <=> proc[p].pc = "ready"
          /\ proc[p].pc \in {"store", "verify", "unlink"} => proc[p].cand # 0
    /\ raced => platform = "desktop"
    /\ platform = "mobile" => keyfile = 0 /\ keychain # 0

\* macOS: as long as no key is published nothing works with one, and what is about to be
\* published is the Keychain's key, or a new one where nothing is sealed.
Publishing ==
    platform = "macos" =>
        /\ keyfile = 0 => sealed = 0 /\ \A p \in Config!Proc : proc[p].cache = 0
        /\ \A p \in Config!Proc :
              /\ proc[p].pc = "again" => proc[p].seen = keychain
              /\ proc[p].pc = "inspect" => keychain = 0
              /\ proc[p].pc = "publish" => /\ proc[p].cand # 0
                                           /\ keyfile = 0 /\ proc[p].cand # keychain => ~Config!Sealed(cfg)

\* Linux and Windows: the key that moves into the credential store is the file's, the store's own,
\* or new where there is neither, which one launch at a time finds; the file goes only once the
\* store has its key.
Moving ==
    platform = "desktop" /\ ~raced =>
        /\ \A p \in Config!Proc :
              /\ proc[p].pc \in {"store", "verify", "unlink"} /\ keyfile # 0 => proc[p].cand = keyfile
              /\ proc[p].pc = "store" /\ keyfile = 0 /\ keychain # 0 => proc[p].cand = keychain
              /\ proc[p].pc = "verify" /\ keyfile = 0 => proc[p].cand = keychain
              /\ proc[p].pc = "unlink" => proc[p].cand = keychain
        /\ keyfile = 0 /\ keychain = 0 =>
              \A p \in Config!Proc : \A q \in Config!Proc :
                  proc[p].pc = "store" /\ proc[q].pc = "store" => p = q

\* A document is staged by a process that has the key, and sealed with it.
StagedWithKey ==
    /\ cop # Config!NoOp => proc["app"].cache # 0 /\ cop.next.key = proc["app"].cache
    /\ Config!Sealed(cfg) => cfg.key # 0

ConfigKeyInv == ConfigTypeOK /\ Places /\ Publishing /\ Moving /\ StagedWithKey /\ KeyOpensData

\* What is staged keeps the lock's password and the owner of the credential.
StagedSecrets ==
    /\ cop # Config!NoOp => /\ Config!Accepts(cop.next) = cop.pw /\ cop.next.plain = Config!None
                            /\ cop.next.cred # Config!None => cop.next.host = cop.host
    /\ cfg.form = "absent" => cfg.plain = Config!None

ConfigInv == ConfigKeyInv /\ StagedSecrets /\ SecretsStand

\* A step of a launch that looks for its key, on each platform (platform_key of
\* config_store.rs, load_or_create of macos_key.rs), keeps the invariant.
LEMMA KeySearchKeeps == ASSUME ConfigInv, NEW p \in Config!Proc, Config!FindsKey(p) PROVE ConfigInv'
<1> USE DEF Config!Proc
<1>0. /\ ConfigTypeOK /\ Places /\ Publishing /\ Moving /\ StagedWithKey /\ KeyOpensData
      /\ StagedSecrets /\ SecretsStand
  BY DEF ConfigInv, ConfigKeyInv
<1>1. CASE Config!Launch(p)
  <2>1. ConfigTypeOK'
    BY <1>0, <1>1 DEF Config!Launch, Config!At, Config!Go, Config!Cache, Config!docVars, ConfigTypeOK,
         Search, Config!NoOp
  <2>2. Places'
    BY <1>0, <1>1 DEF Config!Launch, Config!At, Config!Go, Config!Cache, Config!docVars, ConfigTypeOK,
         Search, Places, Moving, KeyOpensData, Config!KeyOpensData, Config!DurableKey
  <2>3. Publishing'
    BY <1>0, <1>1 DEF Config!Launch, Config!At, Config!Go, Config!Cache, Config!docVars, ConfigTypeOK,
         Search, Places, Publishing, Config!Sealed
  <2>4. Moving'
    BY <1>0, <1>1 DEF Config!Launch, Config!At, Config!Go, Config!Cache, Config!docVars, ConfigTypeOK,
         Search, Places, Moving
  <2>5. StagedWithKey'
    BY <1>0, <1>1 DEF Config!Launch, Config!At, Config!Go, Config!Cache, Config!docVars, ConfigTypeOK,
         Search, Places, StagedWithKey, Config!Sealed, Config!NoOp
  <2>6. KeyOpensData'
    BY <1>0, <1>1 DEF Config!Launch, Config!At, Config!Go, Config!Cache, Config!docVars, ConfigTypeOK,
         Search, Places, Publishing, Moving, StagedWithKey, KeyOpensData, Config!KeyOpensData,
         Config!DurableKey, Config!Sealed, Config!OldMobileKey
  <2>7. StagedSecrets' /\ SecretsStand'
    BY <1>0, <1>1 DEF Config!Launch, Config!At, Config!Go, Config!Cache, Config!docVars, StagedSecrets,
         SecretsStand, Config!SecretsStand, Config!PasswordStands, Config!CredentialStaysBound,
         Config!Accepts, Config!NoOp
  <2> QED
    BY <2>1, <2>2, <2>3, <2>4, <2>5, <2>6, <2>7 DEF ConfigInv, ConfigKeyInv
<1>2. CASE Config!ReadFile(p)
  <2>1. ConfigTypeOK'
    BY <1>0, <1>2 DEF Config!ReadFile, Config!At, Config!Go, Config!Cache, Config!docVars, ConfigTypeOK,
         Search, Config!NoOp
  <2>2. Places'
    BY <1>0, <1>2 DEF Config!ReadFile, Config!At, Config!Go, Config!Cache, Config!docVars, ConfigTypeOK,
         Search, Places, Moving, KeyOpensData, Config!KeyOpensData, Config!DurableKey
  <2>3. Publishing'
    BY <1>0, <1>2 DEF Config!ReadFile, Config!At, Config!Go, Config!Cache, Config!docVars, ConfigTypeOK,
         Search, Places, Publishing, Config!Sealed
  <2>4. Moving'
    BY <1>0, <1>2 DEF Config!ReadFile, Config!At, Config!Go, Config!Cache, Config!docVars, ConfigTypeOK,
         Search, Places, Moving
  <2>5. StagedWithKey'
    BY <1>0, <1>2 DEF Config!ReadFile, Config!At, Config!Go, Config!Cache, Config!docVars, ConfigTypeOK,
         Search, Places, StagedWithKey, Config!Sealed, Config!NoOp
  <2>6. KeyOpensData'
    BY <1>0, <1>2 DEF Config!ReadFile, Config!At, Config!Go, Config!Cache, Config!docVars, ConfigTypeOK,
         Search, Places, Publishing, Moving, StagedWithKey, KeyOpensData, Config!KeyOpensData,
         Config!DurableKey, Config!Sealed, Config!OldMobileKey
  <2>7. StagedSecrets' /\ SecretsStand'
    BY <1>0, <1>2 DEF Config!ReadFile, Config!At, Config!Go, Config!Cache, Config!docVars,
         StagedSecrets, SecretsStand, Config!SecretsStand, Config!PasswordStands,
         Config!CredentialStaysBound, Config!Accepts, Config!NoOp
  <2> QED
    BY <2>1, <2>2, <2>3, <2>4, <2>5, <2>6, <2>7 DEF ConfigInv, ConfigKeyInv
<1>3. ASSUME NEW denied \in BOOLEAN, Config!AskKeychain(p, denied) PROVE ConfigInv'
  <2>1. ConfigTypeOK'
    BY <1>0, <1>3 DEF Config!AskKeychain, Config!At, Config!docVars, ConfigTypeOK, Search, Config!NoOp
  <2>2. Places'
    BY <1>0, <1>3 DEF Config!AskKeychain, Config!At, Config!docVars, ConfigTypeOK, Search, Places,
         Moving, KeyOpensData, Config!KeyOpensData, Config!DurableKey
  <2>3. Publishing'
    BY <1>0, <1>3 DEF Config!AskKeychain, Config!At, Config!docVars, ConfigTypeOK, Search, Places,
         Publishing, Config!Sealed
  <2>4. Moving'
    BY <1>0, <1>3 DEF Config!AskKeychain, Config!At, Config!docVars, ConfigTypeOK, Search, Places,
         Moving
  <2>5. StagedWithKey'
    BY <1>0, <1>3 DEF Config!AskKeychain, Config!At, Config!docVars, ConfigTypeOK, Search, Places,
         StagedWithKey, Config!Sealed, Config!NoOp
  <2>6. KeyOpensData'
    BY <1>0, <1>3 DEF Config!AskKeychain, Config!At, Config!docVars, ConfigTypeOK, Search, Places,
         Publishing, Moving, StagedWithKey, KeyOpensData, Config!KeyOpensData, Config!DurableKey,
         Config!Sealed, Config!OldMobileKey
  <2>7. StagedSecrets' /\ SecretsStand'
    BY <1>0, <1>3 DEF Config!AskKeychain, Config!At, Config!docVars, StagedSecrets, SecretsStand,
         Config!SecretsStand, Config!PasswordStands, Config!CredentialStaysBound, Config!Accepts,
         Config!NoOp
  <2> QED
    BY <2>1, <2>2, <2>3, <2>4, <2>5, <2>6, <2>7 DEF ConfigInv, ConfigKeyInv
<1>4. CASE Config!ReadAgain(p)
  <2>1. ConfigTypeOK'
    BY <1>0, <1>4 DEF Config!ReadAgain, Config!At, Config!Go, Config!Cache, Config!Fail, Config!docVars,
         ConfigTypeOK, Search, Config!NoOp
  <2>2. Places'
    BY <1>0, <1>4 DEF Config!ReadAgain, Config!At, Config!Go, Config!Cache, Config!Fail, Config!docVars,
         ConfigTypeOK, Search, Places, Moving, KeyOpensData, Config!KeyOpensData, Config!DurableKey
  <2>3. Publishing'
    BY <1>0, <1>4 DEF Config!ReadAgain, Config!At, Config!Go, Config!Cache, Config!Fail, Config!docVars,
         ConfigTypeOK, Search, Places, Publishing, Config!Sealed
  <2>4. Moving'
    BY <1>0, <1>4 DEF Config!ReadAgain, Config!At, Config!Go, Config!Cache, Config!Fail, Config!docVars,
         ConfigTypeOK, Search, Places, Moving
  <2>5. StagedWithKey'
    BY <1>0, <1>4 DEF Config!ReadAgain, Config!At, Config!Go, Config!Cache, Config!Fail, Config!docVars,
         ConfigTypeOK, Search, Places, StagedWithKey, Config!Sealed, Config!NoOp
  <2>6. KeyOpensData'
    BY <1>0, <1>4 DEF Config!ReadAgain, Config!At, Config!Go, Config!Cache, Config!Fail, Config!docVars,
         ConfigTypeOK, Search, Places, Publishing, Moving, StagedWithKey, KeyOpensData,
         Config!KeyOpensData, Config!DurableKey, Config!Sealed, Config!OldMobileKey
  <2>7. StagedSecrets' /\ SecretsStand'
    BY <1>0, <1>4 DEF Config!ReadAgain, Config!At, Config!Go, Config!Cache, Config!Fail, Config!docVars,
         StagedSecrets, SecretsStand, Config!SecretsStand, Config!PasswordStands,
         Config!CredentialStaysBound, Config!Accepts, Config!NoOp
  <2> QED
    BY <2>1, <2>2, <2>3, <2>4, <2>5, <2>6, <2>7 DEF ConfigInv, ConfigKeyInv
<1>5. CASE Config!Inspect(p)
  <2>1. ConfigTypeOK'
    BY <1>0, <1>5 DEF Config!Inspect, Config!At, Config!Go, Config!Generate, Config!docVars,
         ConfigTypeOK, Search, Config!NoOp
  <2>2. Places'
    BY <1>0, <1>5 DEF Config!Inspect, Config!At, Config!Go, Config!Generate, Config!docVars,
         ConfigTypeOK, Search, Places, Moving, KeyOpensData, Config!KeyOpensData, Config!DurableKey
  <2>3. Publishing'
    BY <1>0, <1>5 DEF Config!Inspect, Config!At, Config!Go, Config!Generate, Config!docVars,
         ConfigTypeOK, Search, Places, Publishing, Config!Sealed
  <2>4. Moving'
    BY <1>0, <1>5 DEF Config!Inspect, Config!At, Config!Go, Config!Generate, Config!docVars,
         ConfigTypeOK, Search, Places, Moving
  <2>5. StagedWithKey'
    BY <1>0, <1>5 DEF Config!Inspect, Config!At, Config!Go, Config!Generate, Config!docVars,
         ConfigTypeOK, Search, Places, StagedWithKey, Config!Sealed, Config!NoOp
  <2>6. KeyOpensData'
    BY <1>0, <1>5 DEF Config!Inspect, Config!At, Config!Go, Config!Generate, Config!docVars,
         ConfigTypeOK, Search, Places, Publishing, Moving, StagedWithKey, KeyOpensData,
         Config!KeyOpensData, Config!DurableKey, Config!Sealed, Config!OldMobileKey
  <2>7. StagedSecrets' /\ SecretsStand'
    BY <1>0, <1>5 DEF Config!Inspect, Config!At, Config!Go, Config!Generate, Config!docVars,
         StagedSecrets, SecretsStand, Config!SecretsStand, Config!PasswordStands,
         Config!CredentialStaysBound, Config!Accepts, Config!NoOp
  <2> QED
    BY <2>1, <2>2, <2>3, <2>4, <2>5, <2>6, <2>7 DEF ConfigInv, ConfigKeyInv
<1>6. CASE Config!Publish(p)
  <2>1. ConfigTypeOK'
    BY <1>0, <1>6 DEF Config!Publish, Config!At, Config!Go, Config!docVars, ConfigTypeOK, Search,
         Config!NoOp
  <2>2. Places'
    BY <1>0, <1>6 DEF Config!Publish, Config!At, Config!Go, Config!docVars, ConfigTypeOK, Search,
         Places, Moving, KeyOpensData, Config!KeyOpensData, Config!DurableKey
  <2>3. Publishing'
    BY <1>0, <1>6 DEF Config!Publish, Config!At, Config!Go, Config!docVars, ConfigTypeOK, Search,
         Places, Publishing, Config!Sealed
  <2>4. Moving'
    BY <1>0, <1>6 DEF Config!Publish, Config!At, Config!Go, Config!docVars, ConfigTypeOK, Search,
         Places, Moving
  <2>5. StagedWithKey'
    BY <1>0, <1>6 DEF Config!Publish, Config!At, Config!Go, Config!docVars, ConfigTypeOK, Search,
         Places, StagedWithKey, Config!Sealed, Config!NoOp
  <2>6. KeyOpensData'
    BY <1>0, <1>6 DEF Config!Publish, Config!At, Config!Go, Config!docVars, ConfigTypeOK, Search,
         Places, Publishing, Moving, StagedWithKey, KeyOpensData, Config!KeyOpensData,
         Config!DurableKey, Config!Sealed, Config!OldMobileKey
  <2>7. StagedSecrets' /\ SecretsStand'
    BY <1>0, <1>6 DEF Config!Publish, Config!At, Config!Go, Config!docVars, StagedSecrets, SecretsStand,
         Config!SecretsStand, Config!PasswordStands, Config!CredentialStaysBound, Config!Accepts,
         Config!NoOp
  <2> QED
    BY <2>1, <2>2, <2>3, <2>4, <2>5, <2>6, <2>7 DEF ConfigInv, ConfigKeyInv
<1>7. CASE Config!TakeWinner(p)
  <2>1. ConfigTypeOK'
    BY <1>0, <1>7 DEF Config!TakeWinner, Config!At, Config!Cache, Config!Fail, Config!docVars,
         ConfigTypeOK, Search, Config!NoOp
  <2>2. Places'
    BY <1>0, <1>7 DEF Config!TakeWinner, Config!At, Config!Cache, Config!Fail, Config!docVars,
         ConfigTypeOK, Search, Places, Moving, KeyOpensData, Config!KeyOpensData, Config!DurableKey
  <2>3. Publishing'
    BY <1>0, <1>7 DEF Config!TakeWinner, Config!At, Config!Cache, Config!Fail, Config!docVars,
         ConfigTypeOK, Search, Places, Publishing, Config!Sealed
  <2>4. Moving'
    BY <1>0, <1>7 DEF Config!TakeWinner, Config!At, Config!Cache, Config!Fail, Config!docVars,
         ConfigTypeOK, Search, Places, Moving
  <2>5. StagedWithKey'
    BY <1>0, <1>7 DEF Config!TakeWinner, Config!At, Config!Cache, Config!Fail, Config!docVars,
         ConfigTypeOK, Search, Places, StagedWithKey, Config!Sealed, Config!NoOp
  <2>6. KeyOpensData'
    BY <1>0, <1>7 DEF Config!TakeWinner, Config!At, Config!Cache, Config!Fail, Config!docVars,
         ConfigTypeOK, Search, Places, Publishing, Moving, StagedWithKey, KeyOpensData,
         Config!KeyOpensData, Config!DurableKey, Config!Sealed, Config!OldMobileKey
  <2>7. StagedSecrets' /\ SecretsStand'
    BY <1>0, <1>7 DEF Config!TakeWinner, Config!At, Config!Cache, Config!Fail, Config!docVars,
         StagedSecrets, SecretsStand, Config!SecretsStand, Config!PasswordStands,
         Config!CredentialStaysBound, Config!Accepts, Config!NoOp
  <2> QED
    BY <2>1, <2>2, <2>3, <2>4, <2>5, <2>6, <2>7 DEF ConfigInv, ConfigKeyInv
<1>8. CASE Config!FindKey(p)
  <2>1. ConfigTypeOK'
    BY <1>0, <1>8 DEF Config!FindKey, Config!At, Config!Cache, Config!Generate, Config!docVars,
         ConfigTypeOK, Search, Config!NoOp
  <2>2. Places'
    BY <1>0, <1>8 DEF Config!FindKey, Config!At, Config!Cache, Config!Generate, Config!docVars,
         ConfigTypeOK, Search, Places, Moving, KeyOpensData, Config!KeyOpensData, Config!DurableKey
  <2>3. Publishing'
    BY <1>0, <1>8 DEF Config!FindKey, Config!At, Config!Cache, Config!Generate, Config!docVars,
         ConfigTypeOK, Search, Places, Publishing, Config!Sealed
  <2>4. Moving'
    BY <1>0, <1>8 DEF Config!FindKey, Config!At, Config!Cache, Config!Generate, Config!docVars,
         ConfigTypeOK, Search, Places, Moving
  <2>5. StagedWithKey'
    BY <1>0, <1>8 DEF Config!FindKey, Config!At, Config!Cache, Config!Generate, Config!docVars,
         ConfigTypeOK, Search, Places, StagedWithKey, Config!Sealed, Config!NoOp
  <2>6. KeyOpensData'
    BY <1>0, <1>8 DEF Config!FindKey, Config!At, Config!Cache, Config!Generate, Config!docVars,
         ConfigTypeOK, Search, Places, Publishing, Moving, StagedWithKey, KeyOpensData,
         Config!KeyOpensData, Config!DurableKey, Config!Sealed, Config!OldMobileKey
  <2>7. StagedSecrets' /\ SecretsStand'
    BY <1>0, <1>8 DEF Config!FindKey, Config!At, Config!Cache, Config!Generate, Config!docVars,
         StagedSecrets, SecretsStand, Config!SecretsStand, Config!PasswordStands,
         Config!CredentialStaysBound, Config!Accepts, Config!NoOp
  <2> QED
    BY <2>1, <2>2, <2>3, <2>4, <2>5, <2>6, <2>7 DEF ConfigInv, ConfigKeyInv
<1>9. ASSUME NEW ok \in BOOLEAN, Config!StoreKey(p, ok) PROVE ConfigInv'
  <2>1. ConfigTypeOK'
    BY <1>0, <1>9 DEF Config!StoreKey, Config!At, Config!Go, Config!Fail, Config!docVars, ConfigTypeOK,
         Search, Config!NoOp
  <2>2. Places'
    BY <1>0, <1>9 DEF Config!StoreKey, Config!At, Config!Go, Config!Fail, Config!docVars, ConfigTypeOK,
         Search, Places, Moving, KeyOpensData, Config!KeyOpensData, Config!DurableKey
  <2>3. Publishing'
    BY <1>0, <1>9 DEF Config!StoreKey, Config!At, Config!Go, Config!Fail, Config!docVars, ConfigTypeOK,
         Search, Places, Publishing, Config!Sealed
  <2>4. Moving'
    BY <1>0, <1>9 DEF Config!StoreKey, Config!At, Config!Go, Config!Fail, Config!docVars, ConfigTypeOK,
         Search, Places, Moving
  <2>5. StagedWithKey'
    BY <1>0, <1>9 DEF Config!StoreKey, Config!At, Config!Go, Config!Fail, Config!docVars, ConfigTypeOK,
         Search, Places, StagedWithKey, Config!Sealed, Config!NoOp
  <2>6. KeyOpensData'
    BY <1>0, <1>9 DEF Config!StoreKey, Config!At, Config!Go, Config!Fail, Config!docVars, ConfigTypeOK,
         Search, Places, Publishing, Moving, StagedWithKey, KeyOpensData, Config!KeyOpensData,
         Config!DurableKey, Config!Sealed, Config!OldMobileKey
  <2>7. StagedSecrets' /\ SecretsStand'
    BY <1>0, <1>9 DEF Config!StoreKey, Config!At, Config!Go, Config!Fail, Config!docVars, StagedSecrets,
         SecretsStand, Config!SecretsStand, Config!PasswordStands, Config!CredentialStaysBound,
         Config!Accepts, Config!NoOp
  <2> QED
    BY <2>1, <2>2, <2>3, <2>4, <2>5, <2>6, <2>7 DEF ConfigInv, ConfigKeyInv
<1>10. CASE Config!VerifyKey(p)
  <2>1. ConfigTypeOK'
    BY <1>0, <1>10 DEF Config!VerifyKey, Config!At, Config!Go, Config!Cache, Config!Fail,
         Config!docVars, ConfigTypeOK, Search, Config!NoOp
  <2>2. Places'
    BY <1>0, <1>10 DEF Config!VerifyKey, Config!At, Config!Go, Config!Cache, Config!Fail,
         Config!docVars, ConfigTypeOK, Search, Places, Moving, KeyOpensData, Config!KeyOpensData,
         Config!DurableKey
  <2>3. Publishing'
    BY <1>0, <1>10 DEF Config!VerifyKey, Config!At, Config!Go, Config!Cache, Config!Fail,
         Config!docVars, ConfigTypeOK, Search, Places, Publishing, Config!Sealed
  <2>4. Moving'
    BY <1>0, <1>10 DEF Config!VerifyKey, Config!At, Config!Go, Config!Cache, Config!Fail,
         Config!docVars, ConfigTypeOK, Search, Places, Moving
  <2>5. StagedWithKey'
    BY <1>0, <1>10 DEF Config!VerifyKey, Config!At, Config!Go, Config!Cache, Config!Fail,
         Config!docVars, ConfigTypeOK, Search, Places, StagedWithKey, Config!Sealed, Config!NoOp
  <2>6. KeyOpensData'
    BY <1>0, <1>10 DEF Config!VerifyKey, Config!At, Config!Go, Config!Cache, Config!Fail,
         Config!docVars, ConfigTypeOK, Search, Places, Publishing, Moving, StagedWithKey, KeyOpensData,
         Config!KeyOpensData, Config!DurableKey, Config!Sealed, Config!OldMobileKey
  <2>7. StagedSecrets' /\ SecretsStand'
    BY <1>0, <1>10 DEF Config!VerifyKey, Config!At, Config!Go, Config!Cache, Config!Fail,
         Config!docVars, StagedSecrets, SecretsStand, Config!SecretsStand, Config!PasswordStands,
         Config!CredentialStaysBound, Config!Accepts, Config!NoOp
  <2> QED
    BY <2>1, <2>2, <2>3, <2>4, <2>5, <2>6, <2>7 DEF ConfigInv, ConfigKeyInv
<1>11. ASSUME NEW ok \in BOOLEAN, Config!Unlink(p, ok) PROVE ConfigInv'
  <2>1. ConfigTypeOK'
    BY <1>0, <1>11 DEF Config!Unlink, Config!At, Config!Cache, Config!Fail, Config!docVars,
         ConfigTypeOK, Search, Config!NoOp
  <2>2. Places'
    BY <1>0, <1>11 DEF Config!Unlink, Config!At, Config!Cache, Config!Fail, Config!docVars,
         ConfigTypeOK, Search, Places, Moving, KeyOpensData, Config!KeyOpensData, Config!DurableKey
  <2>3. Publishing'
    BY <1>0, <1>11 DEF Config!Unlink, Config!At, Config!Cache, Config!Fail, Config!docVars,
         ConfigTypeOK, Search, Places, Publishing, Config!Sealed
  <2>4. Moving'
    BY <1>0, <1>11 DEF Config!Unlink, Config!At, Config!Cache, Config!Fail, Config!docVars,
         ConfigTypeOK, Search, Places, Moving
  <2>5. StagedWithKey'
    BY <1>0, <1>11 DEF Config!Unlink, Config!At, Config!Cache, Config!Fail, Config!docVars,
         ConfigTypeOK, Search, Places, StagedWithKey, Config!Sealed, Config!NoOp
  <2>6. KeyOpensData'
    BY <1>0, <1>11 DEF Config!Unlink, Config!At, Config!Cache, Config!Fail, Config!docVars,
         ConfigTypeOK, Search, Places, Publishing, Moving, StagedWithKey, KeyOpensData,
         Config!KeyOpensData, Config!DurableKey, Config!Sealed, Config!OldMobileKey
  <2>7. StagedSecrets' /\ SecretsStand'
    BY <1>0, <1>11 DEF Config!Unlink, Config!At, Config!Cache, Config!Fail, Config!docVars,
         StagedSecrets, SecretsStand, Config!SecretsStand, Config!PasswordStands,
         Config!CredentialStaysBound, Config!Accepts, Config!NoOp
  <2> QED
    BY <2>1, <2>2, <2>3, <2>4, <2>5, <2>6, <2>7 DEF ConfigInv, ConfigKeyInv
<1>12. CASE Config!Crash(p)
  <2>1. ConfigTypeOK'
    BY <1>0, <1>12 DEF Config!Crash, Config!At, Config!Fail, Config!docVars, ConfigTypeOK, Search,
         Config!NoOp
  <2>2. Places'
    BY <1>0, <1>12 DEF Config!Crash, Config!At, Config!Fail, Config!docVars, ConfigTypeOK, Search,
         Places, Moving, KeyOpensData, Config!KeyOpensData, Config!DurableKey
  <2>3. Publishing'
    BY <1>0, <1>12 DEF Config!Crash, Config!At, Config!Fail, Config!docVars, ConfigTypeOK, Search,
         Places, Publishing, Config!Sealed
  <2>4. Moving'
    BY <1>0, <1>12 DEF Config!Crash, Config!At, Config!Fail, Config!docVars, ConfigTypeOK, Search,
         Places, Moving
  <2>5. StagedWithKey'
    BY <1>0, <1>12 DEF Config!Crash, Config!At, Config!Fail, Config!docVars, ConfigTypeOK, Search,
         Places, StagedWithKey, Config!Sealed, Config!NoOp
  <2>6. KeyOpensData'
    BY <1>0, <1>12 DEF Config!Crash, Config!At, Config!Fail, Config!docVars, ConfigTypeOK, Search,
         Places, Publishing, Moving, StagedWithKey, KeyOpensData, Config!KeyOpensData,
         Config!DurableKey, Config!Sealed, Config!OldMobileKey
  <2>7. StagedSecrets' /\ SecretsStand'
    BY <1>0, <1>12 DEF Config!Crash, Config!At, Config!Fail, Config!docVars, StagedSecrets,
         SecretsStand, Config!SecretsStand, Config!PasswordStands, Config!CredentialStaysBound,
         Config!Accepts, Config!NoOp
  <2> QED
    BY <2>1, <2>2, <2>3, <2>4, <2>5, <2>6, <2>7 DEF ConfigInv, ConfigKeyInv
<1> QED
  BY <1>1, <1>2, <1>3, <1>4, <1>5, <1>6, <1>7, <1>8, <1>9, <1>10, <1>11, <1>12 DEF Config!FindsKey

\* A word of the lock is a password, none or an unreadable one.
LEMMA Words == Password \subseteq Word /\ Config!None \in Word
  BY DEF Word

\* Sealing changes the form and the key of a document and nothing else.
LEMMA SealKeeps ==
  ASSUME ConfigTypeOK, NEW c \in Document
  PROVE  /\ Config!Seal(c) \in Document
         /\ Config!Seal(c).key = proc["app"].cache
         /\ Config!Seal(c).plain = c.plain /\ Config!Seal(c).verifier = c.verifier
         /\ Config!Seal(c).host = c.host /\ Config!Seal(c).cred = c.cred
         /\ Config!Seal(c).form # "absent"
<1>1. proc["app"].cache \in Nat
  BY DEF ConfigTypeOK, Search, Config!Proc
<1> QED
  BY <1>1 DEF Config!Seal, Config!Key, Document

\* Converting moves a plaintext password into the verifier, unless there is one.
LEMMA MigrateKeeps ==
  ASSUME NEW c \in Document
  PROVE  /\ Config!Migrate(c) \in Document
         /\ Config!Migrate(c).plain = Config!None
         /\ Config!Accepts(Config!Migrate(c)) = Config!Accepts(c)
         /\ Config!Migrate(c).host = c.host /\ Config!Migrate(c).cred = c.cred
<1>1. Config!None \in Word
  BY Words
<1> QED
  BY <1>1 DEF Config!Migrate, Config!Accepts, Document

\* What needs no conversion holds no plaintext.
LEMMA FreshHasNoPlain ==
  ASSUME ConfigTypeOK, StagedSecrets, ~Config!Stale
  PROVE  cfg.plain = Config!None
<1>1. cfg \in Document
  BY DEF ConfigTypeOK
<1>2. CASE cfg.form = "absent"
  BY <1>2 DEF StagedSecrets
<1>3. CASE cfg.form # "absent"
  BY <1>1, <1>3, MigrateKeeps DEF Config!Stale, Config!Loaded
<1> QED
  BY <1>2, <1>3

\* A document that keeps the lock and the credential's owner may be staged.
LEMMA StageKeeps ==
  ASSUME ConfigInv, NEW c \in Document, NEW pw \in Word, NEW host \in Host \cup {Config!None},
         Config!Stage(c, pw, host),
         c.plain = Config!None, Config!Accepts(c) = pw, c.cred # Config!None => c.host = host
  PROVE  ConfigInv'
<1> DEFINE n == Config!Seal(c)
<1>1. /\ n \in Document /\ n.key = proc["app"].cache /\ n.plain = Config!None
      /\ Config!Accepts(n) = pw /\ (n.cred # Config!None => n.host = host)
  BY SealKeeps DEF ConfigInv, ConfigKeyInv, Config!Accepts
<1>2. /\ cop' = [staged |-> TRUE, next |-> n, pw |-> pw, host |-> host] /\ proc["app"].cache # 0
      /\ UNCHANGED <<platform, keyfile, keychain, made, proc, raced, cfg, sealed, commits, password, boundTo>>
  BY DEF Config!Stage, Config!keyVars, Config!Key
<1> HIDE DEF n
<1>3. cop' \in Staging /\ cop'.next = n /\ cop'.pw = pw /\ cop'.host = host
  BY <1>1, <1>2 DEF Staging
<1>4. ConfigTypeOK'
  BY <1>2, <1>3 DEF ConfigInv, ConfigKeyInv, ConfigTypeOK
<1>5. Places' /\ Publishing' /\ Moving' /\ KeyOpensData'
  BY <1>2 DEF ConfigInv, ConfigKeyInv, Places, Publishing, Moving, KeyOpensData, Config!KeyOpensData,
              Config!DurableKey, Config!Sealed
<1>6. StagedWithKey'
  BY <1>1, <1>2, <1>3 DEF ConfigInv, ConfigKeyInv, StagedWithKey, Config!Sealed
<1>7. StagedSecrets' /\ SecretsStand'
  BY <1>1, <1>2, <1>3 DEF ConfigInv, StagedSecrets, SecretsStand, Config!SecretsStand, Config!PasswordStands,
                          Config!CredentialStaysBound, Config!Accepts
<1> QED
  BY <1>4, <1>5, <1>6, <1>7 DEF ConfigInv, ConfigKeyInv

\* So does a step that writes or deletes the configuration, or a plugin's record
\* (save_path_with, load_path_with, restore, plugin_settings_key).
LEMMA DocumentKeeps ==
  ASSUME ConfigInv,
         \/ Config!LoadConverts \/ Config!GetConfig \/ Config!Commit \/ Config!CannotStage \/ Config!SealRecord
         \/ \E pw \in Password \cup {Config!None}, host \in Host, cred \in {Config!None, "cred"} :
                Config!SaveConfig(pw, host, cred)
         \/ \E host \in Host : Config!RestoreConfig(host)
  PROVE  ConfigInv'
<1> USE DEF Config!Proc
<1>0. /\ ConfigTypeOK /\ Places /\ Publishing /\ Moving /\ StagedWithKey /\ KeyOpensData
      /\ StagedSecrets /\ SecretsStand
  BY DEF ConfigInv, ConfigKeyInv
<1>1. CASE Config!LoadConverts
  <2>1. Config!Stage(Config!Loaded, password, boundTo) /\ cfg \in Document /\ password \in Word
        /\ boundTo \in Host \cup {Config!None}
    BY <1>0, <1>1 DEF Config!LoadConverts, ConfigTypeOK
  <2>2. /\ Config!Loaded \in Document /\ Config!Loaded.plain = Config!None
        /\ Config!Accepts(Config!Loaded) = password
        /\ Config!Loaded.cred # Config!None => Config!Loaded.host = boundTo
    BY <1>0, <2>1, MigrateKeeps DEF Config!Loaded, SecretsStand, Config!SecretsStand,
       Config!PasswordStands, Config!CredentialStaysBound
  <2> QED
    BY <2>1, <2>2, StageKeeps
<1>2. CASE Config!GetConfig
  <2> DEFINE c == [cfg EXCEPT !.done = TRUE]
  <2>1. Config!Stage(c, password, boundTo) /\ cfg \in Document /\ password \in Word
        /\ boundTo \in Host \cup {Config!None} /\ cfg.plain = Config!None
    BY <1>0, <1>2, FreshHasNoPlain DEF Config!GetConfig, ConfigTypeOK
  <2>2. /\ c \in Document /\ c.plain = Config!None /\ Config!Accepts(c) = password
        /\ c.cred # Config!None => c.host = boundTo
    BY <1>0, <2>1 DEF Document, SecretsStand, Config!SecretsStand,
       Config!PasswordStands, Config!CredentialStaysBound, Config!Accepts
  <2> HIDE DEF c
  <2> QED
    BY <2>1, <2>2, StageKeeps
<1>3. ASSUME NEW pw \in Password \cup {Config!None}, NEW host \in Host, NEW cred \in {Config!None, "cred"},
             Config!SaveConfig(pw, host, cred)
      PROVE  ConfigInv'
  <2> DEFINE c == [cfg EXCEPT !.plain = Config!None, !.verifier = Config!PrepareSave(pw), !.host = host,
                              !.cred = cred, !.done = TRUE]
             w == IF pw # Config!None THEN pw ELSE password
  <2>0. Config!Stage(c, w, host) /\ ~Config!Stale
    BY <1>3, Zenon DEF Config!SaveConfig
  <2>1. Config!Stage(c, w, host) /\ cfg \in Document /\ password \in Word /\ cfg.plain = Config!None
        /\ Config!None \in Word /\ pw \in Word
    <3>1. cfg \in Document /\ password \in Word
      BY <1>0 DEF ConfigTypeOK
    <3>2. cfg.plain = Config!None
      BY <1>0, <2>0, FreshHasNoPlain
    <3>3. Config!None \in Word /\ pw \in Word
      BY <1>3, Words
    <3> QED
      BY <2>0, <3>1, <3>2, <3>3
  <2>2. w = Config!PrepareSave(pw) /\ w \in Word
    BY <1>0, <2>1 DEF Config!PrepareSave, SecretsStand, Config!SecretsStand, Config!PasswordStands,
                      Config!Accepts
  <2>3. c \in Document /\ c.plain = Config!None /\ c.verifier = w /\ c.host = host
    BY <2>1, <2>2 DEF Document
  <2>4. Config!Accepts(c) = w
    BY <2>3 DEF Config!Accepts
  <2> HIDE DEF c, w
  <2> QED
    BY <2>1, <2>2, <2>3, <2>4, StageKeeps
<1>4. ASSUME NEW host \in Host, Config!RestoreConfig(host) PROVE ConfigInv'
  <2> DEFINE c == [cfg EXCEPT !.host = host, !.cred = Config!RestoreCred(host)]
  <2>0. Config!Stage(c, password, boundTo) /\ ~Config!Stale
    BY <1>4, Zenon DEF Config!RestoreConfig
  <2>1. Config!Stage(c, password, boundTo) /\ cfg \in Document /\ password \in Word
        /\ boundTo \in Host \cup {Config!None} /\ cfg.plain = Config!None
    <3>1. cfg \in Document /\ password \in Word /\ boundTo \in Host \cup {Config!None}
      BY <1>0 DEF ConfigTypeOK
    <3>2. cfg.plain = Config!None
      BY <1>0, <2>0, FreshHasNoPlain
    <3> QED
      BY <2>0, <3>1, <3>2
  <2>2. /\ c \in Document /\ c.plain = Config!None /\ c.verifier = cfg.verifier /\ c.host = host
        /\ c.cred = Config!RestoreCred(host)
    BY <2>1 DEF Document, Config!RestoreCred
  <2>3. Config!Accepts(c) = password /\ (c.cred # Config!None => c.host = boundTo)
    BY <1>0, <2>1, <2>2 DEF Config!RestoreCred, SecretsStand, Config!SecretsStand, Config!PasswordStands,
       Config!CredentialStaysBound, Config!Accepts
  <2> HIDE DEF c
  <2> QED
    BY <2>1, <2>2, <2>3, StageKeeps
<1>5. CASE Config!Commit
  <2>1. /\ cop \in Staging /\ cop.next \in Document /\ cop.pw \in Word /\ cop.host \in Host \cup {Config!None}
        /\ cfg' = cop.next /\ password' = cop.pw /\ boundTo' = cop.host /\ cop' = Config!NoOp
        /\ commits' = commits + 1
        /\ UNCHANGED <<platform, keyfile, keychain, made, proc, raced, sealed>>
    BY <1>0, <1>5 DEF Config!Commit, Config!keyVars, ConfigTypeOK, Staging
  <2>2. ConfigTypeOK'
    BY <1>0, <2>1 DEF ConfigTypeOK
  <2>3. cop # Config!NoOp /\ proc["app"].cache # 0 /\ cop.next.key = proc["app"].cache
    BY <1>0, <1>5 DEF Config!Commit, StagedWithKey
  <2>4. Places' /\ Moving'
    BY <1>0, <2>1 DEF Places, Moving
  <2>5. Publishing'
    BY <1>0, <2>1, <2>3 DEF Publishing
  <2>6. KeyOpensData' /\ StagedWithKey'
    BY <1>0, <2>1, <2>3 DEF KeyOpensData, Config!KeyOpensData, Config!DurableKey, StagedWithKey
  <2>7. StagedSecrets' /\ SecretsStand'
    BY <1>0, <2>1, <2>3 DEF StagedSecrets, SecretsStand, Config!SecretsStand, Config!PasswordStands,
       Config!CredentialStaysBound, Config!Accepts
  <2> QED
    BY <2>2, <2>4, <2>5, <2>6, <2>7 DEF ConfigInv, ConfigKeyInv
<1>6. CASE Config!CannotStage
  <2>1. /\ cop' = Config!NoOp
        /\ UNCHANGED <<platform, keyfile, keychain, made, proc, raced, cfg, sealed, commits, password, boundTo>>
    BY <1>6 DEF Config!CannotStage, Config!keyVars
  <2>2. ConfigTypeOK' /\ Places' /\ Publishing' /\ Moving' /\ StagedWithKey' /\ KeyOpensData'
    BY <1>0, <2>1 DEF ConfigTypeOK, Places, Publishing, Moving, StagedWithKey, KeyOpensData,
       Config!KeyOpensData, Config!DurableKey, Config!Sealed
  <2>3. StagedSecrets' /\ SecretsStand'
    BY <1>0, <2>1 DEF StagedSecrets, SecretsStand, Config!SecretsStand, Config!PasswordStands,
       Config!CredentialStaysBound, Config!Accepts
  <2> QED
    BY <2>2, <2>3 DEF ConfigInv, ConfigKeyInv
<1>7. CASE Config!SealRecord
  <2>1. /\ proc["app"].cache # 0 /\ sealed' = proc["app"].cache /\ proc["app"].cache \in Nat
        /\ UNCHANGED <<platform, keyfile, keychain, made, proc, raced, cfg, cop, commits, password, boundTo>>
    BY <1>0, <1>7 DEF Config!SealRecord, Config!keyVars, Config!Key, ConfigTypeOK, Search
  <2>2. ConfigTypeOK' /\ Places' /\ Publishing' /\ Moving' /\ StagedWithKey' /\ KeyOpensData'
    BY <1>0, <2>1 DEF ConfigTypeOK, Places, Publishing, Moving, StagedWithKey, KeyOpensData,
       Config!KeyOpensData, Config!DurableKey, Config!Sealed
  <2>3. StagedSecrets' /\ SecretsStand'
    BY <1>0, <2>1 DEF StagedSecrets, SecretsStand, Config!SecretsStand, Config!PasswordStands,
       Config!CredentialStaysBound, Config!Accepts
  <2> QED
    BY <2>2, <2>3 DEF ConfigInv, ConfigKeyInv
<1> QED
  BY <1>1, <1>2, <1>3, <1>4, <1>5, <1>6, <1>7

\* What the first launch finds on disk satisfies the invariant.
LEMMA ConfigStarts == Config!Init => ConfigInv
<1> SUFFICES ASSUME Config!Init PROVE ConfigInv
  OBVIOUS
<1> DEFINE first == IF keyfile # 0 THEN keyfile ELSE keychain
<1>1. /\ platform \in {"macos", "desktop", "mobile"} /\ keyfile \in Nat /\ keychain \in Nat
      /\ platform = "mobile" => keyfile = 0 /\ keychain # 0
      /\ made = 2 /\ raced = FALSE /\ proc = [p \in Config!Proc |-> [pc |-> "off", cand |-> 0, seen |-> 0, cache |-> 0]]
      /\ sealed = 0 /\ cop = Config!NoOp /\ commits = 0 /\ password = Config!Accepts(cfg)
      /\ boundTo = Config!None
      /\ cfg \in Config!Found(first) \/ cfg \in Config!Found(Config!OldMobileKey)
  BY DEF Config!Init
<1>2. \A n \in Nat : \A c \in Config!Found(n) :
         /\ c \in Document /\ c.cred = Config!None /\ (c.form = "absent" => c.plain = Config!None)
         /\ Config!Sealed(c) => c.key = n /\ n # 0
  <2> TAKE n \in Nat
  <2> TAKE c \in Config!Found(n)
  <2>0. /\ Config!None \in Word /\ Password \subseteq Word
        /\ Config!OldPassword \in Word /\ Config!Corrupt \in Word
        /\ Config!NoConfig \in Document
        /\ Config!NoConfig.cred = Config!None /\ Config!NoConfig.plain = Config!None
    BY DEF Word, Document, Config!NoConfig
  <2>1. \/ c \in {Config!NoConfig, Config!Written("plain", 0, Config!OldPassword, Config!None)}
        \/ n # 0 /\ \E f \in {"v1", "v2"}, p \in Word, v \in Word : c = Config!Written(f, n, p, v)
    BY <2>0 DEF Config!Found
  <2>2. \A f \in {"plain", "v1", "v2"}, m \in Nat, p \in Word, v \in Word :
           LET d == Config!Written(f, m, p, v)
           IN  d \in Document /\ d.cred = Config!None /\ d.form = f /\ d.key = m
    <3> TAKE f \in {"plain", "v1", "v2"}, m \in Nat, p \in Word, v \in Word
    <3> QED
      BY <2>0 DEF Config!Written, Document
  <2>3. Config!NoConfig.form = "absent"
    BY DEF Config!NoConfig
  <2>4. CASE c = Config!NoConfig
    BY <2>0, <2>3, <2>4 DEF Config!Sealed
  <2>5. CASE c = Config!Written("plain", 0, Config!OldPassword, Config!None)
    <3>1. c \in Document /\ c.cred = Config!None /\ c.form = "plain"
      BY <2>0, <2>2, <2>5
    <3> QED
      BY <3>1 DEF Config!Sealed
  <2>6. ASSUME n # 0, NEW f \in {"v1", "v2"}, NEW p \in Word, NEW v \in Word, c = Config!Written(f, n, p, v)
        PROVE  /\ c \in Document /\ c.cred = Config!None /\ (c.form = "absent" => c.plain = Config!None)
               /\ Config!Sealed(c) => c.key = n /\ n # 0
    <3>1. c \in Document /\ c.cred = Config!None /\ c.form = f /\ c.key = n
      BY <2>2, <2>6
    <3> QED
      BY <2>6, <3>1
  <2> QED
    BY <2>1, <2>4, <2>5, <2>6, Zenon
<1>3. first \in Nat /\ Config!OldMobileKey \in Nat
  BY <1>1 DEF Config!OldMobileKey
<1>4. /\ cfg \in Document /\ cfg.cred = Config!None /\ (cfg.form = "absent" => cfg.plain = Config!None)
      /\ Config!Sealed(cfg) => cfg.key # 0 /\ (cfg.key = first \/ cfg.key = Config!OldMobileKey)
  BY <1>1, <1>2, <1>3
<1>5. Config!Accepts(cfg) \in Word
  BY <1>4 DEF Config!Accepts, Document
<1>6. ConfigTypeOK
  BY <1>1, <1>4, <1>5 DEF ConfigTypeOK, Search
<1>7. Places /\ Publishing /\ Moving /\ StagedWithKey /\ KeyOpensData
  BY <1>1, <1>4 DEF Places, Publishing, Moving, StagedWithKey, KeyOpensData, Config!KeyOpensData,
     Config!DurableKey, Config!Proc
<1>8. StagedSecrets /\ SecretsStand
  BY <1>1, <1>4 DEF StagedSecrets, SecretsStand, Config!SecretsStand, Config!PasswordStands,
     Config!CredentialStaysBound
<1> QED
  BY <1>6, <1>7, <1>8 DEF ConfigInv, ConfigKeyInv

\* Every step of the configuration store keeps the invariant.
LEMMA ConfigSteps == ConfigInv /\ [Config!Next]_(Config!vars) => ConfigInv'
<1> SUFFICES ASSUME ConfigInv, [Config!Next]_(Config!vars) PROVE ConfigInv'
  OBVIOUS
<1>1. CASE Config!Next
  BY <1>1, KeySearchKeeps, DocumentKeeps DEF Config!Next
<1>2. CASE UNCHANGED Config!vars
  <2>1. UNCHANGED <<platform, keyfile, keychain, made, proc, raced, cfg, sealed, cop, commits, password, boundTo>>
    BY <1>2 DEF Config!vars, Config!keyVars, Config!docVars
  <2> QED
    BY <2>1 DEF ConfigInv, ConfigKeyInv, ConfigTypeOK, Places, Publishing, Moving, StagedWithKey,
       KeyOpensData, Config!KeyOpensData, Config!DurableKey, Config!Sealed, StagedSecrets, SecretsStand,
       Config!SecretsStand, Config!PasswordStands, Config!CredentialStaysBound, Config!Accepts
<1> QED
  BY <1>1, <1>2

\* Whatever is sealed, and whatever is staged, is sealed with the key that a process holds and
\* that the next launch finds, and keeps lock and owners
\* (config_store.rs, auth_password.rs, config_backup.rs).
THEOREM ConfigInvariance == DesktopSpec => []ConfigInv
  BY ConfigSpec, ConfigStarts, ConfigSteps, PTL DEF Config!Spec

\* What is sealed on disk can be opened with the key the next launch finds, through crashes and
\* two launches at once, unless two launches on Linux or Windows both found no key
\* (migrate_or_create_key, load_or_create, encrypt_config).
THEOREM KeysOpenTheirData == DesktopSpec => []KeyOpensData
<1>1. ConfigInv => KeyOpensData
  BY DEF ConfigInv, ConfigKeyInv
<1> QED
  BY <1>1, ConfigInvariance, PTL

\* No save drops the lock's password, and no credential changes its host unasked (prepare_save,
\* migrate, restore).
THEOREM LockAndOwnersStand == DesktopSpec => []SecretsStand
<1>1. ConfigInv => SecretsStand
  BY DEF ConfigInv
<1> QED
  BY <1>1, ConfigInvariance, PTL

-----------------------------------------------------------------------------
(* Declarations, inventory and status (PluginManagement) *)

\* Seen through its own variables, the composition is a PluginManagement.
LEMMA ManagementSpec == DesktopSpec => Management!Spec
<1>1. DesktopInit => Management!Init
  BY DEF DesktopInit
<1>2. UNCHANGED manageVars <=> UNCHANGED Management!vars
  BY DEF manageVars, Management!vars
<1>3. [DesktopNext]_<<focus, vars, manageVars, configVars, mediaVars>> => [Management!Next]_(Management!vars)
  BY <1>2 DEF DesktopNext
<1> QED
  BY <1>1, <1>3, PTL DEF DesktopSpec, Management!Spec

Entry == [ver : Offered, on : BOOLEAN, back : SUBSET Offered]
Operation == [kind : {"reconcile", "enable", "group", "uninstall", "install"},
              at : {"disable", "restore", "next", "install", "enable", "result",
                    "persist", "mutate", "give up", "remove"},
              todo : SUBSET Plugin, on : BOOLEAN, plugin : SUBSET Plugin, clone : Management!Declarations,
              ver : SUBSET Offered, current : BOOLEAN, failed : BOOLEAN]
Statuses == {"none", "pending", "downloading", "installing", "ready", "disabled", "failed"}
Reading == [at : {"details"}, fresh : BOOLEAN, current : BOOLEAN]
ManageTypeOK ==
    /\ enabled \in BOOLEAN /\ closing \in BOOLEAN /\ transition \in {"none", "due", "configure", "resume"}
    /\ saved \in Management!Declarations /\ desired \in Management!Declarations
    /\ status \in [Plugin -> Statuses]
    /\ inventory \in [Plugin -> SUBSET Entry]
    /\ mop \in {Management!NoOp} \cup Operation
    /\ review \in SUBSET [package : SUBSET (Plugin \X Offered)]
    /\ reader \in {Management!NoReader} \cup Reading

\* The gate is held by an operation of the epoch that runs: it may still commit.
Holds == mop # Management!NoOp /\ enabled /\ ~closing /\ mop.current
Wanted(p) == Management!On(desired[p])
Refused(p) == desired[p] # Management!None /\ ~Wanted(p)
Running(p) == Management!On(inventory[p])

\* A transition takes the authority away before the declarations change, and an operation
\* of the time before never has it again.
TransitionInv ==
    /\ transition \in {"configure", "resume"} => /\ ~enabled
                                                 /\ mop # Management!NoOp => ~mop.current
    /\ closing => ~enabled

\* Declared plugins have a status, "ready" and "disabled" only with the intent and the
\* inventory to match.
StatusInv ==
    \A p \in Plugin :
        /\ status[p] = "none" <=> desired[p] = Management!None
        /\ status[p] = "ready" => Wanted(p) /\ Running(p)
        /\ status[p] = "disabled" => ~Wanted(p) /\ ~Running(p)

\* A pass of the reconciliation works from the declarations as they are, and has switched
\* off what they refuse before it goes on.
ReconcileInv ==
    Holds /\ mop.kind = "reconcile" =>
        /\ mop.clone = desired
        /\ mop.at = "disable" => /\ \A p \in mop.todo : Refused(p)
                                 /\ \A p \in Plugin : Refused(p) /\ Running(p) => p \in mop.todo
        /\ mop.at # "disable" => \A p \in Plugin : Refused(p) => ~Running(p)
        /\ mop.at \in {"next", "install", "enable", "result"} =>
              \A p \in mop.todo : desired[p] # Management!None
        /\ mop.at \in {"install", "enable", "result"} =>
              /\ \A p, q \in mop.plugin : p = q
              /\ \A p \in mop.plugin : desired[p] # Management!None /\ mop.on = Wanted(p)
        /\ mop.at = "enable" => mop.on
        /\ mop.at = "result" /\ mop.on /\ ~mop.failed => \A p \in mop.plugin : Running(p)

\* A command works on plugins whose persisted intent is its own; one that installs or
\* removes a record, on plugins the declarations do not mention.
CommandInv ==
    Holds =>
        /\ mop.kind = "uninstall" => /\ ~mop.on
                                     /\ \A p, q \in mop.todo : p = q
        /\ mop.kind \in {"enable", "group", "uninstall"} /\ mop.at = "mutate" =>
              \A p \in mop.todo : desired[p] = Management!None \/ mop.on = Wanted(p)
        /\ mop.kind = "uninstall" /\ mop.at = "remove" => \A p \in mop.todo : desired[p] = Management!None
        /\ mop.kind = "install" => \A p \in mop.plugin : desired[p] = Management!None

\* The cached details are the inventory's, but for an operation that has changed a record
\* and takes a new revision before it lets go of the gate.
Unannounced ==
    /\ Holds
    /\ \/ mop.kind = "reconcile" /\ mop.at \in {"enable", "result"}
       \/ mop.kind = "uninstall" /\ mop.at \in {"give up", "remove"}
CacheInv == ~closing => cache \in {Management!None, {inventory}} \/ Unannounced

ManageInv == ManageTypeOK /\ TransitionInv /\ StatusInv /\ ReconcileInv /\ CommandInv /\ CacheInv

\* No declarations are declarations, too.
LEMMA NoDeclarationsTyped == Management!NoDeclarations \in Management!Declarations
  BY DEF Management!NoDeclarations, Management!Declarations, Management!None

\* Whoever holds the gate is an operation.
LEMMA Gate ==
  ASSUME ManageTypeOK, mop.kind # "none"
  PROVE  /\ mop \in Operation /\ mop # Management!NoOp
         /\ mop.todo \in SUBSET Plugin /\ mop.plugin \in SUBSET Plugin /\ mop.ver \in SUBSET Offered
         /\ mop.on \in BOOLEAN /\ mop.current \in BOOLEAN /\ mop.failed \in BOOLEAN
<1>1. mop \in Operation /\ mop # Management!NoOp
  BY DEF ManageTypeOK, Management!NoOp
<1> QED
  BY <1>1 DEF Operation

\* A switch of one record leaves the others alone (set_enabled_in_epoch).
LEMMA SetOnEffect ==
  ASSUME ManageTypeOK, NEW p \in Plugin, NEW on \in BOOLEAN, Management!SetOn(p, on)
  PROVE  /\ Management!Current(mop)
         /\ inventory' \in [Plugin -> SUBSET Entry]
         /\ \A q \in Plugin : Running(q)' <=> IF q = p THEN on ELSE Running(q)
<1> DEFINE after == {[x EXCEPT !.on = on] : x \in inventory[p]}
<1>1. /\ Management!Current(mop) /\ inventory[p] # {} /\ inventory' = [inventory EXCEPT ![p] = after]
      /\ inventory \in [Plugin -> SUBSET Entry] /\ inventory[p] \subseteq Entry
  BY DEF Management!SetOn, Management!MayCommit, Management!None, ManageTypeOK
<1>2. after \subseteq Entry
  BY <1>1 DEF Entry
<1>3. \A x \in after : x.on = on
  BY <1>1 DEF Entry
<1>4. after # {}
  BY <1>1
<1> HIDE DEF after
<1>5. Management!On(after) <=> on
  BY <1>3, <1>4 DEF Management!On
<1> QED
  BY <1>1, <1>2, <1>5 DEF Running

\* So does an installed version.
LEMMA InstallEffect ==
  ASSUME ManageTypeOK, NEW p \in Plugin, NEW v \in Offered, NEW on \in BOOLEAN,
         Management!InstallVersion(p, v, on)
  PROVE  /\ Management!Current(mop)
         /\ inventory' \in [Plugin -> SUBSET Entry]
         /\ \A q \in Plugin : Running(q)' <=> IF q = p THEN on ELSE Running(q)
<1> DEFINE after == {[ver |-> v, on |-> on, back |-> {x.ver : x \in inventory[p]}]}
<1>1. /\ Management!Current(mop) /\ inventory' = [inventory EXCEPT ![p] = after]
      /\ inventory \in [Plugin -> SUBSET Entry] /\ inventory[p] \subseteq Entry
  BY DEF Management!InstallVersion, Management!MayCommit, ManageTypeOK
<1>2. {x.ver : x \in inventory[p]} \subseteq Offered
  BY <1>1 DEF Entry
<1>3. after \subseteq Entry
  BY <1>2 DEF Entry
<1>4. Management!On(after) <=> on
  BY DEF Management!On
<1> HIDE DEF after
<1> QED
  BY <1>1, <1>3, <1>4 DEF Running

\* A status changes only for a declared plugin, in the epoch.
LEMMA StatusEffect ==
  ASSUME ManageTypeOK, NEW p \in Plugin, NEW to \in Statuses, Management!SetStatus(p, to)
  PROVE  /\ status' \in [Plugin -> Statuses]
         /\ \A q \in Plugin :
               status'[q] = IF q = p /\ status[p] # "none" /\ Management!Current(mop) THEN to ELSE status[q]
  BY DEF Management!SetStatus, Management!Managed, ManageTypeOK

\* A new revision empties the cache.
LEMMA RecordEffect ==
  ASSUME ManageTypeOK, Management!Record(reader)
  PROVE  cache' = Management!None /\ reader' \in {Management!NoReader} \cup Reading
  BY DEF Management!Record, Management!Bump, Reading, Management!NoReader, ManageTypeOK

\* An intent reaches the members that are declared.
LEMMA IntentEffect ==
  ASSUME NEW decls \in Management!Declarations, NEW members \in SUBSET Plugin, NEW on \in BOOLEAN
  PROVE  LET after == Management!WithIntent(decls, members, on) IN
         /\ after \in Management!Declarations
         /\ \A p \in Plugin :
               /\ after[p] = Management!None <=> decls[p] = Management!None
               /\ Management!On(after[p])
                     <=> IF p \in members THEN decls[p] # Management!None /\ on ELSE Management!On(decls[p])
<1> DEFINE after == Management!WithIntent(decls, members, on)
           new(p) == IF p \in members THEN {[d EXCEPT !.on = on] : d \in decls[p]} ELSE decls[p]
<1>1. after = [p \in Plugin |-> new(p)]
  BY DEF Management!WithIntent
<1>2. ASSUME NEW p \in Plugin
      PROVE  /\ new(p) \in {Management!None} \cup {{d} : d \in Management!Declaration}
             /\ new(p) = Management!None <=> decls[p] = Management!None
             /\ Management!On(new(p))
                   <=> IF p \in members THEN decls[p] # Management!None /\ on ELSE Management!On(decls[p])
  <2>1. CASE decls[p] = {}
    BY <2>1 DEF Management!On, Management!None
  <2>2. CASE decls[p] # {}
    <3>1. PICK d \in Management!Declaration : decls[p] = {d}
      BY <2>2 DEF Management!Declarations, Management!None
    <3>2. [d EXCEPT !.on = on] \in Management!Declaration /\ [d EXCEPT !.on = on].on = on
      BY DEF Management!Declaration
    <3>3. p \in members => new(p) = {[d EXCEPT !.on = on]}
      BY <3>1
    <3> QED
      BY <3>1, <3>2, <3>3 DEF Management!On, Management!None
  <2> QED
    BY <2>1, <2>2
<1> HIDE DEF new
<1> QED
  BY <1>1, <1>2 DEF Management!Declarations

\* reconcile_one looks at a plugin of the pass: what it found, and where it goes on.
Looked(p, d, failed, same, at) ==
    [mop EXCEPT !.todo = @ \ {p}, !.plugin = {p}, !.on = d.on, !.ver = {d.pin},
                !.failed = failed, !.at = at]
Onward(p, d, failed, same) ==
    IF failed \/ (same /\ (~d.on \/ Running(p))) THEN "result" ELSE IF same THEN "enable" ELSE "install"

\* What reconcile_one notes down of a plugin it looked at is an operation.
LEMMA LookedTyped ==
  ASSUME mop \in Operation, NEW p \in mop.todo, NEW d \in Management!Declaration, NEW failed \in BOOLEAN,
         NEW same \in BOOLEAN, NEW at \in {"result", "enable", "install"}
  PROVE  /\ Looked(p, d, failed, same, at) \in Operation
         /\ Looked(p, d, failed, same, at).kind = mop.kind /\ Looked(p, d, failed, same, at).at = at
         /\ Looked(p, d, failed, same, at).plugin = {p} /\ Looked(p, d, failed, same, at).on = d.on
         /\ Looked(p, d, failed, same, at).clone = mop.clone
         /\ Looked(p, d, failed, same, at).current = mop.current
         /\ Looked(p, d, failed, same, at).todo = mop.todo \ {p}
         /\ Looked(p, d, failed, same, at).failed = failed
  BY DEF Looked, Operation, Management!Declaration

\* ReconcileNext looks at one plugin of the pass, under the declarations as they are.
LEMMA NextEffect ==
  ASSUME ManageTypeOK, ReconcileInv, mop \in Operation, Management!ReconcileNext, mop.todo # {},
         Management!Current(mop)
  PROVE  \E p \in mop.todo, d \in Management!Declaration, failed, same \in BOOLEAN :
            /\ desired[p] = {d}
            /\ mop' = Looked(p, d, failed, same, Onward(p, d, failed, same))
            /\ IF failed \/ same THEN UNCHANGED status ELSE Management!SetStatus(p, "downloading")
<1>1. PICK p \in mop.todo :
         LET d == CHOOSE x \in mop.clone[p] : TRUE
             same == \E x \in inventory[p] : x.ver = d.pin
             begun == [mop EXCEPT !.todo = @ \ {p}, !.plugin = {p}, !.on = d.on, !.ver = {d.pin}]
         IN  \E failed \in BOOLEAN :
               /\ mop' = [begun EXCEPT !.failed = failed,
                                       !.at = IF failed \/ (same /\ (~d.on \/ Management!On(inventory[p])))
                                                   THEN "result"
                                              ELSE IF same THEN "enable" ELSE "install"]
               /\ IF failed \/ same THEN UNCHANGED status ELSE Management!SetStatus(p, "downloading")
  BY DEF Management!ReconcileNext
<1> DEFINE d == CHOOSE x \in mop.clone[p] : TRUE
           same == \E x \in inventory[p] : x.ver = d.pin
<1>2. mop.clone = desired /\ desired[p] # Management!None
  <2>1. mop.kind = "reconcile" /\ mop.at = "next"
    BY DEF Management!ReconcileNext
  <2>2. Holds
    BY <2>1, Gate DEF Holds, Management!Current
  <2> QED
    BY <2>1, <2>2 DEF ReconcileInv
<1>3. p \in Plugin
  BY DEF Operation
<1>4. PICK e \in Management!Declaration : desired[p] = {e}
  BY <1>2, <1>3 DEF ManageTypeOK, Management!Declarations
<1>5. d = e
  BY <1>2, <1>4
<1>6. same \in BOOLEAN
  OBVIOUS
<1> HIDE DEF d, same
<1>7. PICK failed \in BOOLEAN :
         /\ mop' = [[mop EXCEPT !.todo = @ \ {p}, !.plugin = {p}, !.on = d.on, !.ver = {d.pin}] EXCEPT
                      !.failed = failed, !.at = Onward(p, d, failed, same)]
         /\ IF failed \/ same THEN UNCHANGED status ELSE Management!SetStatus(p, "downloading")
  BY <1>1, Zenon DEF d, same, Onward, Running
<1>8. mop' = Looked(p, d, failed, same, Onward(p, d, failed, same))
  BY <1>7 DEF Looked, Operation
<1> QED
  BY <1>4, <1>5, <1>6, <1>7, <1>8

\* Every step of the service keeps the types.
LEMMA ManagementTypes == ASSUME ManageTypeOK, ReconcileInv, Management!Next PROVE ManageTypeOK'
<1>1. CASE Management!Revoke
  BY <1>1 DEF Management!Revoke, Management!Bump, ManageTypeOK, Management!None, Operation,
         Management!NoOp, Reading, Management!NoReader
<1>2. CASE Management!Configure
  BY <1>2 DEF Management!Configure, Management!NoDeclarations, ManageTypeOK, Management!None, Statuses,
         Management!Declarations
<1>3. CASE Management!Resume
  BY <1>3 DEF Management!Resume, ManageTypeOK, Management!None
<1>4. CASE Management!SessionChanges
  BY <1>4 DEF Management!SessionChanges, ManageTypeOK, Management!None
<1>5. CASE Management!SaveConfiguration
  BY <1>5 DEF Management!SaveConfiguration, ManageTypeOK, Management!None
<1>6. CASE Management!BeginShutdown
  BY <1>6 DEF Management!BeginShutdown, ManageTypeOK, Management!None
<1>7. CASE Management!BeginReconcile
  BY <1>7, NoDeclarationsTyped DEF Management!BeginReconcile, Management!Op, ManageTypeOK,
         Management!None, Operation, Management!NoOp, Management!Declarations, Management!NoDeclarations
<1>8. CASE Management!ReconcileDisable
  <2>1. mop \in Operation
    <3>1. mop.kind # "none"
      BY <1>8 DEF Management!ReconcileDisable
    <3> QED
      BY <3>1, Gate
  <2>2. mop' \in {Management!NoOp} \cup Operation
    <3>1. \/ mop' \in {Management!NoOp, [mop EXCEPT !.at = "restore", !.todo = Plugin]}
          \/ \E p \in mop.todo : mop' = [mop EXCEPT !.todo = mop.todo \ {p}]
      BY <1>8 DEF Management!ReconcileDisable, Management!Release
    <3>2. [mop EXCEPT !.at = "restore", !.todo = Plugin] \in Operation
      BY <2>1 DEF Operation
    <3>3. ASSUME NEW p \in mop.todo PROVE [mop EXCEPT !.todo = mop.todo \ {p}] \in Operation
      BY <2>1 DEF Operation
    <3> QED
      BY <3>1, <3>2, <3>3
  <2>3. inventory' \in [Plugin -> SUBSET Entry]
    BY <1>8, <2>1, SetOnEffect DEF Management!ReconcileDisable, Management!Keep, Operation, ManageTypeOK
  <2>4. reader' \in {Management!NoReader} \cup Reading
    BY <1>8, RecordEffect DEF Management!ReconcileDisable, ManageTypeOK
  <2> QED
    BY <1>8, <2>1, <2>2, <2>3, <2>4 DEF Management!ReconcileDisable, ManageTypeOK, Management!None
<1>9. CASE Management!ReconcileRestore
  <2>1. mop \in Operation
    <3>1. mop.kind # "none"
      BY <1>9 DEF Management!ReconcileRestore
    <3> QED
      BY <3>1, Gate
  <2>2. mop' \in {Management!NoOp} \cup Operation
    <3>1. \/ mop' = Management!NoOp
          \/ mop' = [mop EXCEPT !.at = "next", !.todo = {p \in Plugin : mop.clone[p] # Management!None}]
      BY <1>9 DEF Management!ReconcileRestore, Management!Release
    <3>2. [mop EXCEPT !.at = "next", !.todo = {p \in Plugin : mop.clone[p] # Management!None}] \in Operation
      BY <2>1 DEF Operation
    <3> QED
      BY <3>1, <3>2
  <2>3. reader' \in {Management!NoReader} \cup Reading
    BY <1>9, RecordEffect DEF Management!ReconcileRestore, ManageTypeOK
  <2> QED
    BY <1>9, <2>2, <2>3 DEF Management!ReconcileRestore, ManageTypeOK, Management!None
<1>10. CASE Management!ReconcileNext
  <2>1. mop \in Operation
    <3>1. mop.kind # "none"
      BY <1>10 DEF Management!ReconcileNext
    <3> QED
      BY <3>1, Gate
  <2>2. CASE mop.todo = {} \/ ~Management!Current(mop)
    BY <1>10, <2>2 DEF Management!ReconcileNext, Management!Release, ManageTypeOK
  <2>3. CASE ~(mop.todo = {} \/ ~Management!Current(mop))
    <3>1. PICK p \in mop.todo, d \in Management!Declaration, failed, same \in BOOLEAN,
                 at \in {"result", "enable", "install"} :
             /\ mop' = Looked(p, d, failed, same, at)
             /\ UNCHANGED status \/ Management!SetStatus(p, "downloading")
      BY <1>10, <2>1, <2>3, NextEffect DEF Onward
    <3>2. Looked(p, d, failed, same, at) \in Operation
      BY <2>1, <3>1, LookedTyped
    <3>3. status' \in [Plugin -> Statuses]
      BY <2>1, <3>1, StatusEffect DEF ManageTypeOK, Operation, Statuses
    <3> QED
      BY <1>10, <3>1, <3>2, <3>3 DEF Management!ReconcileNext, ManageTypeOK
  <2> QED
    BY <2>2, <2>3
<1>11. CASE Management!ReconcileInstall
  <2>1. mop \in Operation
    <3>1. mop.kind # "none"
      BY <1>11 DEF Management!ReconcileInstall
    <3> QED
      BY <3>1, Gate
  <2>2. mop' \in {Management!NoOp} \cup Operation
    <3>1. mop' \in {Management!NoOp, [mop EXCEPT !.at = "enable"], [mop EXCEPT !.at = "result"],
                       [mop EXCEPT !.at = "result", !.failed = TRUE]}
      BY <1>11 DEF Management!ReconcileInstall, Management!Release
    <3>2. [mop EXCEPT !.at = "enable"] \in Operation
      BY <2>1 DEF Operation
    <3>3. [mop EXCEPT !.at = "result"] \in Operation
      BY <2>1 DEF Operation
    <3>4. [mop EXCEPT !.at = "result", !.failed = TRUE] \in Operation
      BY <2>1 DEF Operation
    <3> QED
      BY <3>1, <3>2, <3>3, <3>4
  <2>3. inventory' \in [Plugin -> SUBSET Entry]
    BY <1>11, <2>1, InstallEffect DEF Management!ReconcileInstall, Management!Keep, Operation,
         ManageTypeOK
  <2>4. status' \in [Plugin -> Statuses]
    BY <1>11, <2>1, StatusEffect DEF Management!ReconcileInstall, Operation, Statuses, ManageTypeOK
  <2> QED
    BY <1>11, <2>1, <2>2, <2>3, <2>4 DEF Management!ReconcileInstall, ManageTypeOK, Management!None
<1>12. CASE Management!ReconcileEnable
  <2>1. mop \in Operation
    <3>1. mop.kind # "none"
      BY <1>12 DEF Management!ReconcileEnable
    <3> QED
      BY <3>1, Gate
  <2>2. mop' \in {Management!NoOp} \cup Operation
    BY <1>12, <2>1 DEF Management!ReconcileEnable, Operation
  <2>3. inventory' \in [Plugin -> SUBSET Entry]
    BY <1>12, <2>1, SetOnEffect DEF Management!ReconcileEnable, Management!Keep, Operation, ManageTypeOK
  <2> QED
    BY <1>12, <2>1, <2>2, <2>3 DEF Management!ReconcileEnable, ManageTypeOK, Management!None
<1>13. CASE Management!ReconcileResult
  <2>1. mop \in Operation
    <3>1. mop.kind # "none"
      BY <1>13 DEF Management!ReconcileResult
    <3> QED
      BY <3>1, Gate
  <2>2. mop' \in {Management!NoOp} \cup Operation
    <3>1. mop' \in {Management!NoOp, [mop EXCEPT !.at = "next", !.failed = FALSE, !.plugin = Management!None]}
      BY <1>13 DEF Management!ReconcileResult, Management!Release
    <3>2. [mop EXCEPT !.at = "next", !.failed = FALSE, !.plugin = Management!None] \in Operation
      BY <2>1 DEF Operation, Management!None
    <3> QED
      BY <3>1, <3>2
  <2>3. reader' \in {Management!NoReader} \cup Reading
    BY <1>13, RecordEffect DEF Management!ReconcileResult, ManageTypeOK
  <2>4. status' \in [Plugin -> Statuses]
    BY <1>13, <2>1, StatusEffect DEF Management!ReconcileResult, Management!Outcome, Operation,
         Statuses, ManageTypeOK
  <2> QED
    BY <1>13, <2>1, <2>2, <2>3, <2>4 DEF Management!ReconcileResult, ManageTypeOK, Management!None
<1>14. CASE Management!Persist
  <2>1. mop \in Operation /\ mop.todo \in SUBSET Plugin /\ mop.on \in BOOLEAN
    <3>1. mop.kind # "none"
      BY <1>14 DEF Management!Persist
    <3> QED
      BY <3>1, Gate
  <2>2. CASE /\ Management!Current(mop) /\ Management!Intend(mop.todo, mop.on)
             /\ mop' = [mop EXCEPT !.at = "mutate"]
             /\ UNCHANGED <<cache, reader, enabled, inventory, review, transition, closing>>
    <3>1. mop' \in Operation
      BY <2>1, <2>2 DEF Operation
    <3>2. saved' \in Management!Declarations /\ desired' \in Management!Declarations
      BY <2>1, <2>2, IntentEffect DEF Management!Intend, ManageTypeOK
    <3>3. status' \in [Plugin -> Statuses]
      BY <2>2 DEF Management!Intend, ManageTypeOK, Statuses
    <3> QED
      BY <2>2, <3>1, <3>2, <3>3 DEF ManageTypeOK
  <2>3. CASE /\ \E p \in mop.todo :
                   IF mop.kind = "enable" THEN Management!SetStatus(p, "failed") ELSE UNCHANGED status
             /\ IF mop.kind = "group" THEN UNCHANGED <<cache, reader>> ELSE Management!Record(reader)
             /\ mop' = Management!NoOp
             /\ UNCHANGED <<saved, desired, enabled, inventory, review, transition, closing>>
    <3>1. status' \in [Plugin -> Statuses]
      BY <2>1, <2>3, StatusEffect DEF ManageTypeOK, Statuses
    <3>2. reader' \in {Management!NoReader} \cup Reading
      BY <2>3, RecordEffect DEF ManageTypeOK
    <3> QED
      BY <2>3, <3>1, <3>2 DEF ManageTypeOK
  <2> QED
    BY <1>14, <2>2, <2>3 DEF Management!Persist, Management!Release
<1>15. CASE Management!Mutate
  <2>1. mop \in Operation
    <3>1. mop.kind # "none"
      BY <1>15 DEF Management!Mutate
    <3> QED
      BY <3>1, Gate
  <2>2. mop' \in {Management!NoOp} \cup Operation
    <3>1. \/ mop' \in {Management!NoOp}
          \/ \E p \in mop.todo : mop' = [mop EXCEPT !.todo = mop.todo \ {p}]
      BY <1>15 DEF Management!Mutate, Management!Release
    <3>2. ASSUME NEW p \in mop.todo PROVE [mop EXCEPT !.todo = mop.todo \ {p}] \in Operation
      BY <2>1 DEF Operation
    <3> QED
      BY <3>1, <3>2
  <2>3. inventory' \in [Plugin -> SUBSET Entry]
    BY <1>15, <2>1, SetOnEffect DEF Management!Mutate, Management!Keep, Operation, ManageTypeOK
  <2>4. reader' \in {Management!NoReader} \cup Reading
    BY <1>15, RecordEffect DEF Management!Mutate, ManageTypeOK
  <2>5. status' \in [Plugin -> Statuses]
    BY <1>15, <2>1, StatusEffect DEF Management!Mutate, Management!Outcome, Operation, Statuses,
         ManageTypeOK
  <2> QED
    BY <1>15, <2>1, <2>2, <2>3, <2>4, <2>5 DEF Management!Mutate, ManageTypeOK, Management!None
<1>16. CASE Management!UninstallDisable
  <2>1. mop \in Operation
    <3>1. mop.kind # "none"
      BY <1>16 DEF Management!UninstallDisable
    <3> QED
      BY <3>1, Gate
  <2>2. mop' \in {Management!NoOp} \cup Operation
    BY <1>16, <2>1 DEF Management!UninstallDisable, Management!Release, Operation
  <2>3. inventory' \in [Plugin -> SUBSET Entry]
    BY <1>16, <2>1, SetOnEffect DEF Management!UninstallDisable, Management!Keep, Operation,
         ManageTypeOK
  <2>4. reader' \in {Management!NoReader} \cup Reading
    BY <1>16, RecordEffect DEF Management!UninstallDisable, ManageTypeOK
  <2>5. status' \in [Plugin -> Statuses]
    BY <1>16, <2>1, StatusEffect DEF Management!UninstallDisable, Operation, Statuses, ManageTypeOK
  <2> QED
    BY <1>16, <2>1, <2>2, <2>3, <2>4, <2>5 DEF Management!UninstallDisable, ManageTypeOK,
         Management!None
<1>17. CASE Management!GiveUpDeclaration
  <2>1. mop \in Operation /\ mop.todo \in SUBSET Plugin
    <3>1. mop.kind # "none"
      BY <1>17 DEF Management!GiveUpDeclaration
    <3> QED
      BY <3>1, Gate
  <2>2. ASSUME NEW p \in mop.todo,
               saved' = [saved EXCEPT ![p] = Management!None],
                desired' = [desired EXCEPT ![p] = Management!None],
               status' = [status EXCEPT ![p] = "none"], mop' = [mop EXCEPT !.at = "remove"],
               UNCHANGED <<cache, reader, enabled, inventory, review, transition, closing>>
        PROVE  ManageTypeOK'
    <3>1. mop' \in Operation
      BY <2>1, <2>2 DEF Operation
    <3>2. saved' \in Management!Declarations /\ desired' \in Management!Declarations
      BY <2>1, <2>2 DEF ManageTypeOK, Management!Declarations
    <3>3. status' \in [Plugin -> Statuses]
      BY <2>1, <2>2 DEF ManageTypeOK, Statuses
    <3> QED
      BY <2>2, <3>1, <3>2, <3>3 DEF ManageTypeOK
  <2>3. CASE /\ mop' = Management!NoOp /\ Management!Record(reader)
             /\ UNCHANGED <<saved, desired, status, enabled, inventory, review, transition, closing>>
    BY <2>3, RecordEffect DEF ManageTypeOK
  <2> QED
    BY <1>17, <2>2, <2>3 DEF Management!GiveUpDeclaration, Management!Release
<1>18. CASE Management!RemoveRecord
  BY <1>18 DEF Management!RemoveRecord, Management!Keep, Management!MayCommit, Management!Current,
         Management!Release, Management!Record, Management!Bump, ManageTypeOK, Management!None,
         Operation, Management!NoOp, Reading, Management!NoReader
<1>19. CASE Management!BeginSelection
  BY <1>19 DEF Management!BeginSelection, ManageTypeOK, Management!None
<1>20. CASE Management!Discard
  BY <1>20 DEF Management!Discard, ManageTypeOK, Management!None
<1>21. CASE Management!Install
  <2>1. mop \in Operation
    <3>1. mop.kind # "none"
      BY <1>21 DEF Management!Install
    <3> QED
      BY <3>1, Gate
  <2>2. PICK p \in mop.plugin, v \in mop.ver : Management!Keep \/ Management!InstallVersion(p, v, mop.on)
    BY <1>21 DEF Management!Install
  <2>3. p \in Plugin /\ v \in Offered /\ mop.on \in BOOLEAN
    BY <2>1 DEF Operation
  <2>4. inventory' \in [Plugin -> SUBSET Entry]
    BY <2>2, <2>3, InstallEffect DEF Management!Keep, ManageTypeOK
  <2>5. reader' \in {Management!NoReader} \cup Reading
    BY <1>21, RecordEffect DEF Management!Install
  <2> QED
    BY <1>21, <2>4, <2>5 DEF Management!Install, Management!Release, ManageTypeOK
<1>22. CASE Management!SaveSettings
  BY <1>22 DEF Management!SaveSettings, Management!Record, Management!Bump, ManageTypeOK,
         Management!None, Reading, Management!NoReader
<1>23. CASE Management!BeginSnapshot
  BY <1>23 DEF Management!BeginSnapshot, ManageTypeOK, Management!None, Reading, Management!NoReader
<1>24. CASE Management!Details
  BY <1>24 DEF Management!Details, ManageTypeOK, Management!None, Reading, Management!NoReader
<1>25. ASSUME NEW on \in BOOLEAN, Management!InstallReview(on) PROVE ManageTypeOK'
  <2>1. PICK r \in review : \E pv \in r.package :
           mop' = IF Management!Managed(pv[1]) THEN Management!NoOp
                  ELSE [Management!Op("install", "mutate", {}) EXCEPT !.plugin = {pv[1]},
                                                                    !.ver = {pv[2]}, !.on = on]
    BY <1>25 DEF Management!InstallReview
  <2>2. PICK pv \in Plugin \X Offered :
           mop' = IF Management!Managed(pv[1]) THEN Management!NoOp
                  ELSE [Management!Op("install", "mutate", {}) EXCEPT !.plugin = {pv[1]},
                                                                    !.ver = {pv[2]}, !.on = on]
    BY <2>1 DEF ManageTypeOK
  <2>3. [Management!Op("install", "mutate", {}) EXCEPT !.plugin = {pv[1]}, !.ver = {pv[2]},
                                                       !.on = on] \in Operation
    BY NoDeclarationsTyped DEF Management!Op, Operation, Management!None
  <2> QED
    BY <1>25, <2>2, <2>3 DEF Management!InstallReview, ManageTypeOK, Management!None
<1>26. ASSUME NEW on \in BOOLEAN, Management!GroupCommand(on) PROVE ManageTypeOK'
  BY <1>26, NoDeclarationsTyped, GroupAssumption DEF Management!GroupCommand, Management!BeginIntent,
         Management!Op, ManageTypeOK, Management!None, Operation, Management!NoOp
<1>27. ASSUME NEW p \in Plugin, Management!RemoveConfigured(p) PROVE ManageTypeOK'
  BY <1>27 DEF Management!RemoveConfigured, Management!Record, Management!Bump, ManageTypeOK,
         Management!None, Reading, Management!NoReader, Statuses, Management!Declarations
<1>28. ASSUME NEW p \in Plugin, Management!Rollback(p) PROVE ManageTypeOK'
  <2>1. CASE Management!Keep
    BY <1>28, <2>1, RecordEffect DEF Management!Rollback, Management!Keep, ManageTypeOK, Management!None
  <2>2. ASSUME NEW x \in inventory[p], NEW b \in x.back,
               inventory' = [inventory EXCEPT ![p] = {[x EXCEPT !.ver = b, !.back = {x.ver}]}]
        PROVE  ManageTypeOK'
    <3>1. x \in Entry /\ b \in Offered
      BY DEF ManageTypeOK, Entry
    <3>2. [x EXCEPT !.ver = b, !.back = {x.ver}] \in Entry
      BY <3>1 DEF Entry
    <3>3. inventory' \in [Plugin -> SUBSET Entry]
      BY <2>2, <3>2 DEF ManageTypeOK
    <3> QED
      BY <1>28, <3>3, RecordEffect DEF Management!Rollback, ManageTypeOK, Management!None
  <2> QED
    BY <1>28, <2>1, <2>2 DEF Management!Rollback
<1>29. ASSUME NEW p \in Plugin, Management!UninstallCommand(p) PROVE ManageTypeOK'
  BY <1>29, NoDeclarationsTyped DEF Management!UninstallCommand, Management!BeginIntent, Management!Op,
         ManageTypeOK, Management!None, Operation, Management!NoOp
<1>30. ASSUME NEW p \in Plugin, NEW on \in BOOLEAN, Management!EnableCommand(p, on) PROVE ManageTypeOK'
  BY <1>30, NoDeclarationsTyped DEF Management!EnableCommand, Management!BeginIntent, Management!Op,
         ManageTypeOK, Management!None, Operation, Management!NoOp
<1>31. ASSUME NEW p \in Plugin, NEW v \in Offered, Management!FinishSelection(p, v) PROVE ManageTypeOK'
  BY <1>31 DEF Management!FinishSelection, ManageTypeOK, Management!None
<1> QED
  BY <1>1, <1>2, <1>3, <1>4, <1>5, <1>6, <1>7, <1>8, <1>9, <1>10, <1>11, <1>12,
     <1>13, <1>14, <1>15, <1>16, <1>17, <1>18, <1>19, <1>20, <1>21, <1>22, <1>23,
     <1>24, <1>25, <1>26, <1>27, <1>28, <1>29, <1>30, <1>31
     DEF Management!Next, Management!Reconcile

-----------------------------------------------------------------------------
\* What the invariant says of the gate is about an operation that holds it.
LEMMA Idle == ASSUME ~Holds' PROVE ReconcileInv' /\ CommandInv'
  BY DEF ReconcileInv, CommandInv

\* The status of the plugins is about declarations and inventory alone.
LEMMA SameStatus == ASSUME StatusInv, UNCHANGED <<desired, status, inventory>> PROVE StatusInv'
  BY DEF StatusInv, Wanted, Running

\* A step that touches neither declarations nor records, nor the gate.
LEMMA Quiet ==
  ASSUME StatusInv, ReconcileInv, CommandInv, UNCHANGED <<enabled, closing, desired, status, inventory, mop>>
  PROVE  StatusInv' /\ ReconcileInv' /\ CommandInv'
<1>1. StatusInv'
  BY SameStatus
<1>2. Holds' = Holds
  BY DEF Holds
<1>3. \A p \in Plugin : /\ Refused(p)' <=> Refused(p)
                        /\ Wanted(p)' <=> Wanted(p)
                        /\ Running(p)' <=> Running(p)
  BY DEF Refused, Wanted, Running
<1>4. ReconcileInv'
  BY <1>2 DEF ReconcileInv, Refused, Wanted, Running
<1>5. CommandInv'
  BY <1>2 DEF CommandInv, Wanted
<1> QED
  BY <1>1, <1>4, <1>5

\* The gate is taken in the epoch that runs, and kept through a step of the operation.
LEMMA Keeps ==
  ASSUME mop \in Operation, mop' \in Operation, mop # Management!NoOp, mop'.current = mop.current,
         UNCHANGED <<enabled, closing>>
  PROVE  (Holds' => Holds) /\ (Holds => Management!Current(mop))
  BY DEF Holds, Management!Current

\* The steps of a session transition (transition_session), of a save of the configuration and
\* of the shutdown.
LEMMA SessionSteps ==
  ASSUME ManageInv,
         \/ Management!Revoke \/ Management!Configure \/ Management!Resume \/ Management!SessionChanges
         \/ Management!SaveConfiguration \/ Management!BeginShutdown
  PROVE  StatusInv' /\ ReconcileInv' /\ CommandInv' /\ TransitionInv' /\ CacheInv'
<1>0. ManageTypeOK /\ TransitionInv /\ StatusInv /\ ReconcileInv /\ CommandInv /\ CacheInv
  BY DEF ManageInv
<1>1. CASE Management!Revoke
  <2>1. ~enabled' /\ UNCHANGED <<desired, status, inventory, closing>> /\ cache' = Management!None
        /\ mop' = IF mop = Management!NoOp THEN mop ELSE [mop EXCEPT !.current = FALSE]
    BY <1>1 DEF Management!Revoke, Management!Bump
  <2>2. ~Holds'
    BY <2>1 DEF Holds
  <2>3. mop' # Management!NoOp => ~mop'.current
    BY <1>0, <2>1 DEF ManageTypeOK, Operation
  <2> QED
    BY <1>0, <2>1, <2>2, <2>3, Idle, SameStatus DEF TransitionInv, CacheInv
<1>2. CASE Management!Configure
  <2>1. /\ transition = "configure" /\ transition' = "resume"
        /\ status' = [p \in Plugin |-> IF desired'[p] = Management!None THEN "none" ELSE "pending"]
        /\ UNCHANGED <<enabled, inventory, mop, cache, closing>>
    BY <1>2 DEF Management!Configure
  <2>2. ~Holds'
    BY <1>0, <2>1 DEF TransitionInv, Holds
  <2>3. StatusInv'
    BY <2>1 DEF StatusInv
  <2>4. TransitionInv' /\ CacheInv'
    BY <1>0, <2>1 DEF TransitionInv, CacheInv, Unannounced, Holds
  <2> QED
    BY <2>2, <2>3, <2>4, Idle
<1>3. CASE Management!Resume
  <2>1. /\ transition = "resume" /\ transition' = "none"
        /\ enabled' => ~closing
        /\ UNCHANGED <<desired, status, inventory, mop, cache, closing>>
    BY <1>3 DEF Management!Resume
  <2>2. ~Holds
    BY <1>0, <2>1 DEF TransitionInv, Holds
  <2>3. ~Holds'
    BY <1>0, <2>1, Zenon DEF TransitionInv, Holds
  <2>4. TransitionInv'
    BY <2>1, Zenon DEF TransitionInv
  <2>5. CacheInv'
    BY <1>0, <2>1, <2>2 DEF CacheInv, Unannounced
  <2> QED
    BY <1>0, <2>1, <2>3, <2>4, <2>5, Idle, SameStatus
<1>4. CASE Management!SessionChanges \/ Management!SaveConfiguration
  <2>1. transition' = "due" /\ UNCHANGED <<enabled, desired, status, inventory, mop, cache, closing>>
    BY <1>4 DEF Management!SessionChanges, Management!SaveConfiguration
  <2>2. TransitionInv' /\ CacheInv'
    BY <1>0, <2>1 DEF TransitionInv, CacheInv, Unannounced, Holds
  <2> QED
    BY <1>0, <2>1, <2>2, Quiet
<1>5. CASE Management!BeginShutdown
  <2>1. closing' /\ ~enabled' /\ UNCHANGED <<desired, status, inventory, mop, cache, transition>>
    BY <1>5 DEF Management!BeginShutdown
  <2>2. ~Holds'
    BY <2>1 DEF Holds
  <2>3. TransitionInv' /\ CacheInv'
    BY <1>0, <2>1 DEF TransitionInv, CacheInv
  <2> QED
    BY <1>0, <2>1, <2>2, <2>3, Idle, SameStatus
<1> QED
  BY <1>1, <1>2, <1>3, <1>4, <1>5

\* The steps of a review and of a snapshot that waits for details.
LEMMA ReviewSteps ==
  ASSUME ManageInv,
         \/ Management!BeginSelection \/ Management!Discard \/ Management!SaveSettings
         \/ Management!BeginSnapshot \/ Management!Details
         \/ \E p \in Plugin, v \in Offered : Management!FinishSelection(p, v)
  PROVE  StatusInv' /\ ReconcileInv' /\ CommandInv' /\ TransitionInv' /\ CacheInv'
<1>0. ManageTypeOK /\ TransitionInv /\ StatusInv /\ ReconcileInv /\ CommandInv /\ CacheInv
  BY DEF ManageInv
<1>1. /\ UNCHANGED <<enabled, desired, status, inventory, mop, transition, closing>>
      /\ cache' \in {cache, {inventory}, Management!None}
  BY DEF Management!BeginSelection, Management!Discard, Management!SaveSettings, Management!BeginSnapshot,
         Management!Details, Management!FinishSelection, Management!Record, Management!Bump
<1>2. TransitionInv' /\ CacheInv'
  BY <1>0, <1>1 DEF TransitionInv, CacheInv, Unannounced, Holds
<1> QED
  BY <1>0, <1>1, <1>2, Quiet

\* An operation that takes the gate in the epoch has done nothing yet.
LEMMA TakesGate ==
  ASSUME ManageInv, enabled, ~closing, mop' \in Operation, mop = Management!NoOp,
         UNCHANGED <<enabled, closing, desired, status, inventory, transition, cache>>
  PROVE  StatusInv' /\ TransitionInv' /\ CacheInv'
<1>0. ManageTypeOK /\ TransitionInv /\ StatusInv /\ CacheInv
  BY DEF ManageInv
<1>1. ~Holds
  BY DEF Holds
<1> QED
  BY <1>0, <1>1, SameStatus DEF TransitionInv, CacheInv, Unannounced

\* An operation takes the gate: a pass of the reconciliation, a command, a reviewed install.
LEMMA BeginSteps ==
  ASSUME ManageInv, ManageTypeOK',
         \/ Management!BeginReconcile
         \/ \E on \in BOOLEAN : Management!InstallReview(on) \/ Management!GroupCommand(on)
         \/ \E p \in Plugin : Management!UninstallCommand(p)
         \/ \E p \in Plugin : \E on \in BOOLEAN : Management!EnableCommand(p, on)
  PROVE  StatusInv' /\ ReconcileInv' /\ CommandInv' /\ TransitionInv' /\ CacheInv'
<1>0. ManageTypeOK /\ TransitionInv /\ StatusInv /\ ReconcileInv /\ CommandInv /\ CacheInv
  BY DEF ManageInv
<1>1. CASE Management!BeginReconcile
  <2>1. /\ mop = Management!NoOp /\ enabled /\ ~closing
        /\ UNCHANGED <<enabled, closing, desired, status, inventory, transition, cache>>
        /\ mop'.kind = "reconcile" /\ mop'.at = "disable" /\ mop'.clone = desired
        /\ mop'.todo = {p \in Plugin : Running(p) /\ Refused(p)}
    BY <1>1 DEF Management!BeginReconcile, Management!Op, Running, Refused, Wanted
  <2>2. mop' \in Operation
    BY <2>1 DEF ManageTypeOK, Management!NoOp
  <2>3. ReconcileInv'
    BY <2>1 DEF ReconcileInv, Running, Refused, Wanted
  <2>4. CommandInv'
    BY <2>1 DEF CommandInv
  <2> QED
    BY <2>1, <2>2, <2>3, <2>4, TakesGate
<1>2. ASSUME NEW on \in BOOLEAN, Management!InstallReview(on)
      PROVE  StatusInv' /\ ReconcileInv' /\ CommandInv' /\ TransitionInv' /\ CacheInv'
  <2>1. /\ mop = Management!NoOp /\ enabled /\ ~closing
        /\ UNCHANGED <<enabled, closing, desired, status, inventory, transition, cache>>
    BY <1>2 DEF Management!InstallReview
  <2>2. PICK r \in review : \E pv \in r.package :
           mop' = IF Management!Managed(pv[1]) THEN Management!NoOp
                  ELSE [Management!Op("install", "mutate", {}) EXCEPT !.plugin = {pv[1]},
                                                                    !.ver = {pv[2]}, !.on = on]
    BY <1>2 DEF Management!InstallReview
  <2>3. PICK pv \in Plugin \X Offered :
           mop' = IF Management!Managed(pv[1]) THEN Management!NoOp
                  ELSE [Management!Op("install", "mutate", {}) EXCEPT !.plugin = {pv[1]},
                                                                    !.ver = {pv[2]}, !.on = on]
    BY <1>0, <2>2 DEF ManageTypeOK
  <2>4. CASE mop' = Management!NoOp
    <3>1. ~Holds /\ ~Holds'
      BY <2>1, <2>4 DEF Holds
    <3> QED
      BY <1>0, <2>1, <2>4, <3>1, Idle, SameStatus DEF TransitionInv, CacheInv, Unannounced
  <2>5. CASE mop' # Management!NoOp
    <3>1. /\ mop'.kind = "install" /\ mop'.plugin = {pv[1]} /\ status[pv[1]] = "none" /\ pv[1] \in Plugin
      BY <2>3, <2>5 DEF Management!Op, Management!Managed
    <3>2. mop' \in Operation
      BY <2>5 DEF ManageTypeOK
    <3>3. desired[pv[1]] = Management!None
      BY <1>0, <3>1 DEF StatusInv
    <3>4. ReconcileInv' /\ CommandInv'
      BY <2>1, <3>1, <3>3 DEF ReconcileInv, CommandInv
    <3> QED
      BY <2>1, <3>2, <3>4, TakesGate
  <2> QED
    BY <2>4, <2>5
<1>3. ASSUME NEW kind \in {"enable", "group", "uninstall"}, NEW members, NEW on \in BOOLEAN,
             Management!BeginIntent(kind, members, on),
             kind = "uninstall" => ~on /\ \A p, q \in members : p = q
      PROVE  StatusInv' /\ ReconcileInv' /\ CommandInv' /\ TransitionInv' /\ CacheInv'
  <2>1. /\ mop = Management!NoOp /\ enabled /\ ~closing
        /\ UNCHANGED <<enabled, closing, desired, status, inventory, transition, cache>>
        /\ mop'.kind = kind /\ mop'.at = "persist" /\ mop'.on = on /\ mop'.todo = members
    BY <1>3 DEF Management!BeginIntent, Management!Op
  <2>2. mop' \in Operation
    BY <2>1 DEF ManageTypeOK, Management!NoOp
  <2>3. ReconcileInv' /\ CommandInv'
    BY <1>3, <2>1 DEF ReconcileInv, CommandInv
  <2> QED
    BY <2>1, <2>2, <2>3, TakesGate
<1> QED
  BY <1>1, <1>2, <1>3 DEF Management!GroupCommand, Management!UninstallCommand, Management!EnableCommand

\* What an operation changes in a step, when it keeps the gate.
LEMMA Held ==
  ASSUME ManageInv, mop.kind # "none", UNCHANGED <<enabled, closing>>
  PROVE  /\ mop \in Operation /\ mop # Management!NoOp
         /\ Holds <=> Management!Current(mop)
         /\ mop' = Management!NoOp => ~Holds'
         /\ mop' # Management!NoOp /\ mop'.current = mop.current => (Holds' <=> Holds)
         /\ ManageTypeOK /\ TransitionInv /\ StatusInv /\ ReconcileInv /\ CommandInv /\ CacheInv
<1>1. ManageTypeOK /\ TransitionInv /\ StatusInv /\ ReconcileInv /\ CommandInv /\ CacheInv
  BY DEF ManageInv
<1>2. mop \in Operation /\ mop # Management!NoOp
  BY <1>1, Gate
<1> QED
  BY <1>1, <1>2 DEF Holds, Management!Current

\* A transition asks nothing of the gate but that what held it in an earlier epoch stays
\* without authority.
LEMMA SameTransition ==
  ASSUME TransitionInv, UNCHANGED <<enabled, closing, transition>>,
         mop' # Management!NoOp => mop # Management!NoOp /\ mop'.current = mop.current
  PROVE  TransitionInv'
  BY DEF TransitionInv

\* reconcile switches off what the declarations refuse, one plugin after the other.
LEMMA StepOfDisable ==
  ASSUME ManageInv, Management!ReconcileDisable
  PROVE  StatusInv' /\ ReconcileInv' /\ CommandInv' /\ TransitionInv' /\ CacheInv'
<1>1. /\ mop.kind = "reconcile" /\ mop.at = "disable"
      /\ UNCHANGED <<enabled, closing, desired, status, transition>>
  BY DEF Management!ReconcileDisable
<1>0. /\ mop \in Operation /\ mop # Management!NoOp
      /\ Holds <=> Management!Current(mop)
      /\ mop' = Management!NoOp => ~Holds'
      /\ mop' # Management!NoOp /\ mop'.current = mop.current => (Holds' <=> Holds)
      /\ ManageTypeOK /\ TransitionInv /\ StatusInv /\ ReconcileInv /\ CommandInv /\ CacheInv
      /\ mop.todo \in SUBSET Plugin
  BY <1>1, Held, Gate
<1>2. CASE mop.todo = {} /\ mop' = Management!NoOp /\ UNCHANGED <<inventory, cache>> /\ ~Management!Current(mop)
  BY <1>0, <1>1, <1>2, Idle, SameStatus, SameTransition DEF CacheInv, Unannounced
<1>3. CASE mop.todo = {} /\ mop' = [mop EXCEPT !.at = "restore", !.todo = Plugin]
           /\ UNCHANGED <<inventory, cache>>
  <2>1. /\ mop'.kind = "reconcile" /\ mop'.at = "restore" /\ mop'.current = mop.current
        /\ mop'.clone = mop.clone /\ mop' # Management!NoOp
    BY <1>0, <1>1, <1>3 DEF Operation, Management!NoOp
  <2>2. ReconcileInv' /\ CommandInv'
    BY <1>0, <1>1, <1>3, <2>1 DEF ReconcileInv, CommandInv, Refused, Wanted, Running
  <2>3. CacheInv'
    BY <1>0, <1>1, <1>3, <2>1 DEF CacheInv, Unannounced
  <2> QED
    BY <1>0, <1>1, <1>3, <2>1, <2>2, <2>3, SameStatus, SameTransition
<1>4. ASSUME NEW p \in mop.todo, Management!SetOn(p, FALSE), mop' = [mop EXCEPT !.todo = @ \ {p}],
             Management!Record(reader)
      PROVE  StatusInv' /\ ReconcileInv' /\ CommandInv' /\ TransitionInv' /\ CacheInv'
  <2>1. /\ mop'.kind = "reconcile" /\ mop'.at = "disable" /\ mop'.current = mop.current
        /\ mop'.clone = mop.clone /\ mop' # Management!NoOp /\ mop'.todo = mop.todo \ {p}
    BY <1>0, <1>1, <1>4 DEF Operation, Management!NoOp
  <2>2. /\ p \in Plugin /\ Management!Current(mop) /\ \A q \in Plugin : Running(q)' <=> q # p /\ Running(q)
        /\ cache' = Management!None
    BY <1>0, <1>4, SetOnEffect, RecordEffect
  <2>3. Refused(p)
    BY <1>0, <1>1, <2>2 DEF ReconcileInv
  <2>4. StatusInv'
    BY <1>0, <1>1, <2>2, <2>3 DEF StatusInv, Refused, Wanted
  <2>5. ReconcileInv' /\ CommandInv'
    BY <1>0, <1>1, <2>1, <2>2 DEF ReconcileInv, CommandInv, Refused, Wanted
  <2> QED
    BY <1>0, <1>1, <2>1, <2>2, <2>4, <2>5, SameTransition DEF CacheInv
<1>5. CASE UNCHANGED inventory /\ mop' = Management!NoOp /\ Management!Record(reader)
  BY <1>0, <1>1, <1>5, Idle, SameStatus, SameTransition, RecordEffect DEF CacheInv
<1> QED
  BY <1>1, <1>2, <1>3, <1>4, <1>5 DEF Management!ReconcileDisable, Management!Keep, Management!Release

\* reconcile restores the workers.
LEMMA StepOfRestore ==
  ASSUME ManageInv, Management!ReconcileRestore
  PROVE  StatusInv' /\ ReconcileInv' /\ CommandInv' /\ TransitionInv' /\ CacheInv'
<1>1. /\ mop.kind = "reconcile" /\ mop.at = "restore"
      /\ UNCHANGED <<enabled, closing, desired, status, inventory, transition>>
      /\ \/ mop' = Management!NoOp /\ UNCHANGED <<cache, reader>>
         \/ /\ Management!Record(reader)
            /\ mop' = IF Management!Current(mop)
                      THEN [mop EXCEPT !.at = "next", !.todo = {p \in Plugin : mop.clone[p] # Management!None}]
                      ELSE Management!NoOp
  BY DEF Management!ReconcileRestore, Management!Release
<1>0. /\ mop \in Operation /\ mop # Management!NoOp
      /\ Holds <=> Management!Current(mop)
      /\ mop' = Management!NoOp => ~Holds'
      /\ mop' # Management!NoOp /\ mop'.current = mop.current => (Holds' <=> Holds)
      /\ ManageTypeOK /\ TransitionInv /\ StatusInv /\ ReconcileInv /\ CommandInv /\ CacheInv
      /\ cache' = Management!None \/ (cache' = cache /\ mop' = Management!NoOp)
  BY <1>1, Held, RecordEffect
<1>2. CASE mop' = Management!NoOp
  BY <1>0, <1>1, <1>2, Idle, SameStatus, SameTransition DEF CacheInv, Unannounced
<1>3. CASE mop' # Management!NoOp
  <2>1. /\ mop'.kind = "reconcile" /\ mop'.at = "next" /\ mop'.current = mop.current /\ mop'.clone = mop.clone
        /\ mop'.todo = {p \in Plugin : mop.clone[p] # Management!None}
    BY <1>0, <1>1, <1>3 DEF Operation
  <2>2. ReconcileInv' /\ CommandInv'
    BY <1>0, <1>1, <1>3, <2>1 DEF ReconcileInv, CommandInv, Refused, Wanted, Running
  <2> QED
    BY <1>0, <1>1, <1>3, <2>1, <2>2, SameStatus, SameTransition DEF CacheInv
<1> QED
  BY <1>2, <1>3

\* reconcile_one looks at the next plugin.
LEMMA StepOfNext ==
  ASSUME ManageInv, Management!ReconcileNext
  PROVE  StatusInv' /\ ReconcileInv' /\ CommandInv' /\ TransitionInv' /\ CacheInv'
<1>1. /\ mop.kind = "reconcile" /\ mop.at = "next"
      /\ UNCHANGED <<enabled, closing, desired, inventory, cache, transition>>
  BY DEF Management!ReconcileNext
<1>0. /\ mop \in Operation /\ mop # Management!NoOp
      /\ Holds <=> Management!Current(mop)
      /\ mop' = Management!NoOp => ~Holds'
      /\ mop' # Management!NoOp /\ mop'.current = mop.current => (Holds' <=> Holds)
      /\ ManageTypeOK /\ TransitionInv /\ StatusInv /\ ReconcileInv /\ CommandInv /\ CacheInv
      /\ mop.todo \in SUBSET Plugin
  BY <1>1, Held, Gate
<1>2. CASE mop.todo = {} \/ ~Management!Current(mop)
  <2>1. mop' = Management!NoOp /\ UNCHANGED status
    BY <1>2 DEF Management!ReconcileNext, Management!Release
  <2> QED
    BY <1>0, <1>1, <2>1, Idle, SameStatus, SameTransition DEF CacheInv, Unannounced
<1>3. CASE mop.todo # {} /\ Management!Current(mop)
  <2>1. PICK p \in mop.todo, d \in Management!Declaration, failed, same \in BOOLEAN :
           /\ desired[p] = {d}
           /\ mop' = Looked(p, d, failed, same, Onward(p, d, failed, same))
           /\ IF failed \/ same THEN UNCHANGED status ELSE Management!SetStatus(p, "downloading")
    BY <1>0, <1>3, NextEffect
  <2> DEFINE at == Onward(p, d, failed, same)
  <2>2. at \in {"result", "enable", "install"}
    BY DEF Onward
  <2>3. /\ mop'.kind = "reconcile" /\ mop'.at = at /\ mop'.plugin = {p} /\ mop'.on = d.on
        /\ mop'.clone = mop.clone /\ mop'.current = mop.current /\ mop' # Management!NoOp
        /\ mop'.failed = failed /\ mop'.todo = mop.todo \ {p}
    BY <1>0, <1>1, <2>1, <2>2, LookedTyped, Gate DEF Management!NoOp
  <2>4. p \in Plugin /\ desired[p] # Management!None /\ d.on = Wanted(p) /\ d.on \in BOOLEAN
    BY <1>0, <2>1 DEF Wanted, Management!On, Management!None, Management!Declaration
  <2>5. at = "enable" => d.on
    BY DEF Onward
  <2>6. at = "result" /\ d.on /\ ~failed => Running(p)
    BY DEF Onward
  <2> HIDE DEF at
  <2>7. \A q \in Plugin : \/ status'[q] = status[q]
                          \/ status'[q] = "downloading" /\ status[q] # "none"
    BY <1>0, <2>1, <2>4, StatusEffect DEF Statuses
  <2>8. StatusInv'
    BY <1>0, <1>1, <2>7 DEF StatusInv, Wanted, Running
  <2>9. ReconcileInv'
    BY <1>0, <1>1, <2>2, <2>3, <2>4, <2>5, <2>6 DEF ReconcileInv, Refused, Wanted, Running
  <2>10. CommandInv' /\ CacheInv'
    BY <1>0, <1>1, <2>3 DEF CommandInv, CacheInv, Unannounced
  <2> QED
    BY <1>0, <1>1, <2>3, <2>8, <2>9, <2>10, SameTransition
<1> QED
  BY <1>2, <1>3

\* reconcile_one installs a version, switched on only if it replaces a running one.
LEMMA StepOfInstall ==
  ASSUME ManageInv, Management!ReconcileInstall
  PROVE  StatusInv' /\ ReconcileInv' /\ CommandInv' /\ TransitionInv' /\ CacheInv'
<1>1. /\ mop.kind = "reconcile" /\ mop.at = "install"
      /\ UNCHANGED <<enabled, closing, desired, cache, transition>>
  BY DEF Management!ReconcileInstall
<1>0. /\ mop \in Operation /\ mop # Management!NoOp
      /\ Holds <=> Management!Current(mop)
      /\ mop' # Management!NoOp /\ mop'.current = mop.current => (Holds' <=> Holds)
      /\ ManageTypeOK /\ TransitionInv /\ StatusInv /\ ReconcileInv /\ CommandInv /\ CacheInv
      /\ mop.plugin \in SUBSET Plugin /\ mop.ver \in SUBSET Offered /\ mop.on \in BOOLEAN
  BY <1>1, Held, Gate
<1>2. ASSUME NEW p \in mop.plugin, NEW v \in mop.ver,
             Management!InstallVersion(p, v, mop.on /\ Running(p)), Management!SetStatus(p, "installing"),
             mop' = [mop EXCEPT !.at = IF mop.on /\ ~Running(p) THEN "enable" ELSE "result"]
      PROVE  StatusInv' /\ ReconcileInv' /\ CommandInv' /\ TransitionInv' /\ CacheInv'
  <2>1. /\ mop'.kind = "reconcile" /\ mop'.at = IF mop.on /\ ~Running(p) THEN "enable" ELSE "result"
        /\ mop'.current = mop.current /\ mop'.clone = mop.clone /\ mop'.on = mop.on
        /\ mop'.plugin = mop.plugin /\ mop'.todo = mop.todo /\ mop'.failed = mop.failed
        /\ mop' # Management!NoOp
    BY <1>0, <1>1, <1>2 DEF Operation, Management!NoOp
  <2>2. p \in Plugin /\ v \in Offered /\ (mop.on /\ Running(p)) \in BOOLEAN
    BY <1>0 DEF Running, Management!On
  <2>3. /\ Management!Current(mop)
        /\ \A q \in Plugin : Running(q)' <=> IF q = p THEN mop.on /\ Running(p) ELSE Running(q)
    BY <1>0, <1>2, <2>2, InstallEffect
  <2>4. Holds /\ Holds' /\ desired[p] # Management!None /\ mop.on = Wanted(p) /\ \A q \in mop.plugin : q = p
    BY <1>0, <1>1, <2>1, <2>3 DEF ReconcileInv
  <2>5. status[p] # "none"
    BY <1>0, <2>2, <2>4 DEF StatusInv
  <2>6. \A q \in Plugin : status'[q] = IF q = p THEN "installing" ELSE status[q]
    BY <1>0, <1>2, <2>2, <2>3, <2>5, StatusEffect DEF Statuses
  <2>7. StatusInv'
    BY <1>0, <1>1, <2>3, <2>4, <2>6 DEF StatusInv, Wanted
  <2>8. ReconcileInv'
    BY <1>0, <1>1, <2>1, <2>2, <2>3, <2>4 DEF ReconcileInv, Refused, Wanted
  <2>9. CommandInv' /\ CacheInv'
    BY <1>1, <2>1, <2>4 DEF CommandInv, CacheInv, Unannounced
  <2> QED
    BY <1>0, <1>1, <2>1, <2>7, <2>8, <2>9, SameTransition
<1>3. ASSUME UNCHANGED <<inventory, status>>, mop' = [mop EXCEPT !.at = "result", !.failed = TRUE]
      PROVE  StatusInv' /\ ReconcileInv' /\ CommandInv' /\ TransitionInv' /\ CacheInv'
  <2>1. /\ mop'.kind = "reconcile" /\ mop'.at = "result" /\ mop'.failed
        /\ mop'.current = mop.current /\ mop'.clone = mop.clone /\ mop'.on = mop.on
        /\ mop'.plugin = mop.plugin /\ mop'.todo = mop.todo /\ mop' # Management!NoOp
    BY <1>0, <1>1, <1>3 DEF Operation, Management!NoOp
  <2>2. ReconcileInv'
    BY <1>0, <1>1, <1>3, <2>1 DEF ReconcileInv, Refused, Wanted, Running
  <2>3. CommandInv' /\ CacheInv'
    BY <1>0, <1>1, <1>3, <2>1 DEF CommandInv, CacheInv, Unannounced
  <2> QED
    BY <1>0, <1>1, <1>3, <2>1, <2>2, <2>3, SameStatus, SameTransition
<1> QED
  BY <1>2, <1>3 DEF Management!ReconcileInstall, Management!Keep, Running

\* reconcile_one enables what it installed.
LEMMA StepOfEnable ==
  ASSUME ManageInv, Management!ReconcileEnable
  PROVE  StatusInv' /\ ReconcileInv' /\ CommandInv' /\ TransitionInv' /\ CacheInv'
<1>1. /\ mop.kind = "reconcile" /\ mop.at = "enable"
      /\ UNCHANGED <<enabled, closing, desired, status, cache, transition>>
  BY DEF Management!ReconcileEnable
<1>0. /\ mop \in Operation /\ mop # Management!NoOp
      /\ Holds <=> Management!Current(mop)
      /\ mop' # Management!NoOp /\ mop'.current = mop.current => (Holds' <=> Holds)
      /\ ManageTypeOK /\ TransitionInv /\ StatusInv /\ ReconcileInv /\ CommandInv /\ CacheInv
      /\ mop.plugin \in SUBSET Plugin
  BY <1>1, Held, Gate
<1>2. ASSUME NEW p \in mop.plugin, Management!SetOn(p, TRUE), mop' = [mop EXCEPT !.at = "result"]
      PROVE  StatusInv' /\ ReconcileInv' /\ CommandInv' /\ TransitionInv' /\ CacheInv'
  <2>1. /\ mop'.kind = "reconcile" /\ mop'.at = "result"
        /\ mop'.current = mop.current /\ mop'.clone = mop.clone /\ mop'.on = mop.on
        /\ mop'.plugin = mop.plugin /\ mop'.todo = mop.todo /\ mop' # Management!NoOp
    BY <1>0, <1>1, <1>2 DEF Operation, Management!NoOp
  <2>2. /\ p \in Plugin /\ Management!Current(mop) /\ \A q \in Plugin : Running(q)' <=> q = p \/ Running(q)
    BY <1>0, <1>2, SetOnEffect
  <2>3. Holds /\ Holds' /\ desired[p] # Management!None /\ Wanted(p) /\ \A q \in mop.plugin : q = p
    BY <1>0, <1>1, <2>1, <2>2 DEF ReconcileInv
  <2>4. StatusInv'
    BY <1>0, <1>1, <2>2, <2>3 DEF StatusInv, Wanted
  <2>5. ReconcileInv'
    BY <1>0, <1>1, <2>1, <2>2, <2>3 DEF ReconcileInv, Refused, Wanted
  <2>6. CommandInv' /\ CacheInv'
    BY <1>1, <2>1, <2>3 DEF CommandInv, CacheInv, Unannounced
  <2> QED
    BY <1>0, <1>1, <2>1, <2>4, <2>5, <2>6, SameTransition
<1>3. ASSUME UNCHANGED inventory, mop' = [mop EXCEPT !.at = "result", !.failed = TRUE]
      PROVE  StatusInv' /\ ReconcileInv' /\ CommandInv' /\ TransitionInv' /\ CacheInv'
  <2>1. /\ mop'.kind = "reconcile" /\ mop'.at = "result" /\ mop'.failed
        /\ mop'.current = mop.current /\ mop'.clone = mop.clone /\ mop'.on = mop.on
        /\ mop'.plugin = mop.plugin /\ mop'.todo = mop.todo /\ mop' # Management!NoOp
    BY <1>0, <1>1, <1>3 DEF Operation, Management!NoOp
  <2>2. ReconcileInv'
    BY <1>0, <1>1, <1>3, <2>1 DEF ReconcileInv, Refused, Wanted, Running
  <2>3. CommandInv' /\ CacheInv'
    BY <1>0, <1>1, <1>3, <2>1 DEF CommandInv, CacheInv, Unannounced
  <2> QED
    BY <1>0, <1>1, <1>3, <2>1, <2>2, <2>3, SameStatus, SameTransition
<1> QED
  BY <1>2, <1>3 DEF Management!ReconcileEnable, Management!Keep

\* reconcile_one records its result.
LEMMA StepOfResult ==
  ASSUME ManageInv, Management!ReconcileResult
  PROVE  StatusInv' /\ ReconcileInv' /\ CommandInv' /\ TransitionInv' /\ CacheInv'
<1>1. /\ mop.kind = "reconcile" /\ mop.at = "result"
      /\ UNCHANGED <<enabled, closing, desired, inventory, transition>>
  BY DEF Management!ReconcileResult
<1>0. /\ mop \in Operation /\ mop # Management!NoOp
      /\ Holds <=> Management!Current(mop)
      /\ mop' = Management!NoOp => ~Holds'
      /\ mop' # Management!NoOp /\ mop'.current = mop.current => (Holds' <=> Holds)
      /\ ManageTypeOK /\ TransitionInv /\ StatusInv /\ ReconcileInv /\ CommandInv /\ CacheInv
      /\ mop.plugin \in SUBSET Plugin /\ mop.on \in BOOLEAN /\ mop.failed \in BOOLEAN
  BY <1>1, Held, Gate
<1>2. CASE ~Management!Current(mop)
  <2>1. mop' = Management!NoOp /\ UNCHANGED <<status, cache>>
    BY <1>2 DEF Management!ReconcileResult, Management!Release
  <2> QED
    BY <1>0, <1>1, <1>2, <2>1, Idle, SameStatus, SameTransition DEF CacheInv, Unannounced
<1>3. CASE Management!Current(mop)
  <2>1. PICK p \in mop.plugin :
           /\ Management!SetStatus(p, Management!Outcome(mop.failed, mop.on))
           /\ Management!Record(reader)
           /\ mop' = [mop EXCEPT !.at = "next", !.failed = FALSE, !.plugin = Management!None]
    BY <1>3 DEF Management!ReconcileResult
  <2>2. /\ mop'.kind = "reconcile" /\ mop'.at = "next"
        /\ mop'.current = mop.current /\ mop'.clone = mop.clone /\ mop'.todo = mop.todo
        /\ mop' # Management!NoOp
    BY <1>0, <1>1, <2>1 DEF Operation, Management!NoOp
  <2>3. p \in Plugin /\ Holds /\ Holds'
    BY <1>0, <1>3, <2>2
  <2>4. /\ desired[p] # Management!None /\ mop.on = Wanted(p)
        /\ mop.on /\ ~mop.failed => Running(p)
        /\ ~mop.on => ~Running(p)
    BY <1>0, <1>1, <2>3 DEF ReconcileInv, Refused
  <2>5. status[p] # "none"
    BY <1>0, <2>3, <2>4 DEF StatusInv
  <2>6. \A q \in Plugin : status'[q] = IF q = p THEN Management!Outcome(mop.failed, mop.on) ELSE status[q]
    BY <1>0, <1>3, <2>1, <2>3, <2>5, StatusEffect DEF Statuses, Management!Outcome
  <2>7. StatusInv'
    BY <1>0, <1>1, <2>4, <2>6 DEF StatusInv, Management!Outcome, Wanted, Running
  <2>8. ReconcileInv'
    BY <1>0, <1>1, <2>2, <2>3 DEF ReconcileInv, Refused, Wanted, Running
  <2>9. CommandInv' /\ CacheInv'
    BY <1>0, <1>1, <2>1, <2>2, RecordEffect DEF CommandInv, CacheInv
  <2> QED
    BY <1>0, <1>1, <2>2, <2>7, <2>8, <2>9, SameTransition
<1> QED
  BY <1>2, <1>3

\* A command persists the intent of its members before anything else (set_enabled).
LEMMA StepOfPersist ==
  ASSUME ManageInv, Management!Persist
  PROVE  StatusInv' /\ ReconcileInv' /\ CommandInv' /\ TransitionInv' /\ CacheInv'
<1>1. /\ mop.kind \in {"enable", "group", "uninstall"} /\ mop.at = "persist"
      /\ UNCHANGED <<enabled, closing, inventory, transition>>
  BY DEF Management!Persist
<1>0. /\ mop \in Operation /\ mop # Management!NoOp
      /\ Holds <=> Management!Current(mop)
      /\ mop' = Management!NoOp => ~Holds'
      /\ mop' # Management!NoOp /\ mop'.current = mop.current => (Holds' <=> Holds)
      /\ ManageTypeOK /\ TransitionInv /\ StatusInv /\ ReconcileInv /\ CommandInv /\ CacheInv
      /\ mop.todo \in SUBSET Plugin /\ mop.on \in BOOLEAN
  BY <1>1, Held, Gate
<1>2. CASE /\ Management!Current(mop) /\ Management!Intend(mop.todo, mop.on)
           /\ mop' = [mop EXCEPT !.at = "mutate"] /\ UNCHANGED cache
  <2>1. /\ mop'.kind = mop.kind /\ mop'.at = "mutate" /\ mop'.current = mop.current /\ mop'.on = mop.on
        /\ mop'.todo = mop.todo /\ mop' # Management!NoOp
    BY <1>0, <1>1, <1>2 DEF Operation, Management!NoOp
  <2>2. \A p \in Plugin :
           /\ desired'[p] = Management!None <=> desired[p] = Management!None
           /\ Wanted(p)' <=> IF p \in mop.todo THEN desired[p] # Management!None /\ mop.on ELSE Wanted(p)
    BY <1>0, <1>2, IntentEffect DEF Management!Intend, ManageTypeOK, Wanted
  <2>3. \A p \in Plugin :
           status'[p] = IF p \in mop.todo /\ desired[p] # Management!None THEN "pending" ELSE status[p]
    BY <1>2 DEF Management!Intend
  <2>4. \A p \in Plugin : Running(p)' <=> Running(p)
    BY <1>1 DEF Running
  <2>5. StatusInv'
    BY <1>0, <2>2, <2>3, <2>4 DEF StatusInv, Wanted, Management!On, Management!None
  <2>6. ReconcileInv'
    BY <1>1, <2>1 DEF ReconcileInv
  <2>7. CommandInv'
    <3>1. Holds
      BY <1>0, <1>2
    <3>2. mop.kind = "uninstall" => ~mop.on /\ \A p, q \in mop.todo : p = q
      BY <1>0, <3>1 DEF CommandInv
    <3>3. \A p \in mop.todo : desired'[p] = Management!None \/ Wanted(p)' = mop.on
      BY <1>0, <2>2, Zenon DEF Wanted, Management!On
    <3> QED
      BY <1>1, <2>1, <3>2, <3>3 DEF CommandInv
  <2>8. CacheInv'
    BY <1>0, <1>1, <1>2 DEF CacheInv, Unannounced
  <2> QED
    BY <1>0, <1>1, <2>1, <2>5, <2>6, <2>7, <2>8, SameTransition
<1>3. CASE /\ \E p \in mop.todo :
                 IF mop.kind = "enable" THEN Management!SetStatus(p, "failed") ELSE UNCHANGED status
           /\ IF mop.kind = "group" THEN UNCHANGED <<cache, reader>> ELSE Management!Record(reader)
           /\ mop' = Management!NoOp /\ UNCHANGED desired
  <2>1. \A q \in Plugin : \/ status'[q] = status[q]
                          \/ status'[q] = "failed" /\ status[q] # "none"
    BY <1>0, <1>3, StatusEffect DEF Statuses
  <2>2. StatusInv'
    BY <1>0, <1>1, <1>3, <2>1 DEF StatusInv, Wanted, Running
  <2>3. cache' \in {cache, Management!None}
    BY <1>0, <1>3, RecordEffect
  <2>4. CacheInv'
    BY <1>0, <1>1, <2>3 DEF CacheInv, Unannounced
  <2> QED
    BY <1>0, <1>1, <1>3, <2>2, <2>4, Idle, SameTransition
<1> QED
  BY <1>2, <1>3 DEF Management!Persist, Management!Release

\* A command switches its members, one after the other.
LEMMA StepOfMutate ==
  ASSUME ManageInv, Management!Mutate
  PROVE  StatusInv' /\ ReconcileInv' /\ CommandInv' /\ TransitionInv' /\ CacheInv'
<1>1. /\ mop.kind \in {"enable", "group"} /\ mop.at = "mutate"
      /\ UNCHANGED <<enabled, closing, desired, transition>>
  BY DEF Management!Mutate
<1>0. /\ mop \in Operation /\ mop # Management!NoOp
      /\ Holds <=> Management!Current(mop)
      /\ mop' = Management!NoOp => ~Holds'
      /\ mop' # Management!NoOp /\ mop'.current = mop.current => (Holds' <=> Holds)
      /\ ManageTypeOK /\ TransitionInv /\ StatusInv /\ ReconcileInv /\ CommandInv /\ CacheInv
      /\ mop.todo \in SUBSET Plugin /\ mop.on \in BOOLEAN
  BY <1>1, Held, Gate
<1>2. CASE mop' = Management!NoOp /\ UNCHANGED <<status, inventory, cache>>
  BY <1>0, <1>1, <1>2, Idle, SameStatus, SameTransition DEF CacheInv, Unannounced
<1>3. ASSUME NEW p \in mop.todo, mop' = [mop EXCEPT !.todo = @ \ {p}], Management!Record(reader),
             \/ Management!SetOn(p, mop.on) /\ Management!SetStatus(p, Management!Outcome(FALSE, mop.on))
             \/ UNCHANGED inventory /\ Management!SetStatus(p, "failed")
      PROVE  StatusInv' /\ ReconcileInv' /\ CommandInv' /\ TransitionInv' /\ CacheInv'
  <2>1. /\ mop'.kind = mop.kind /\ mop'.at = "mutate" /\ mop'.current = mop.current /\ mop'.on = mop.on
        /\ mop'.todo = mop.todo \ {p} /\ mop' # Management!NoOp
    BY <1>0, <1>1, <1>3 DEF Operation, Management!NoOp
  <2>2. p \in Plugin /\ cache' = Management!None
    BY <1>0, <1>3, RecordEffect
  <2>3. CommandInv' /\ ReconcileInv' /\ CacheInv' /\ TransitionInv'
    BY <1>0, <1>1, <2>1, <2>2, SameTransition DEF CommandInv, ReconcileInv, CacheInv, Wanted
  <2>4. CASE Management!SetOn(p, mop.on) /\ Management!SetStatus(p, Management!Outcome(FALSE, mop.on))
    <3>1. Management!Current(mop) /\ \A q \in Plugin : Running(q)' <=> IF q = p THEN mop.on ELSE Running(q)
      BY <1>0, <2>2, <2>4, SetOnEffect
    <3>2. \A q \in Plugin : status'[q] = IF q = p /\ status[p] # "none"
                                         THEN IF mop.on THEN "ready" ELSE "disabled" ELSE status[q]
      BY <1>0, <2>2, <2>4, <3>1, StatusEffect DEF Statuses, Management!Outcome
    <3>3. desired[p] = Management!None \/ mop.on = Wanted(p)
      BY <1>0, <1>1, <3>1 DEF CommandInv
    <3>4. StatusInv'
      BY <1>0, <1>1, <2>2, <3>1, <3>2, <3>3 DEF StatusInv, Wanted
    <3> QED
      BY <2>3, <3>4
  <2>5. CASE UNCHANGED inventory /\ Management!SetStatus(p, "failed")
    <3>1. \A q \in Plugin : \/ status'[q] = status[q]
                            \/ status'[q] = "failed" /\ status[q] # "none"
      BY <1>0, <2>2, <2>5, StatusEffect DEF Statuses
    <3>2. StatusInv'
      BY <1>0, <1>1, <2>5, <3>1 DEF StatusInv, Wanted, Running
    <3> QED
      BY <2>3, <3>2
  <2> QED
    BY <1>3, <2>4, <2>5
<1> QED
  BY <1>2, <1>3 DEF Management!Mutate, Management!Release, Management!Keep

\* uninstall_with_config switches the plugin off first,
LEMMA StepOfUninstallDisable ==
  ASSUME ManageInv, Management!UninstallDisable
  PROVE  StatusInv' /\ ReconcileInv' /\ CommandInv' /\ TransitionInv' /\ CacheInv'
<1>1. /\ mop.kind = "uninstall" /\ mop.at = "mutate"
      /\ UNCHANGED <<enabled, closing, desired, transition>>
  BY DEF Management!UninstallDisable
<1>0. /\ mop \in Operation /\ mop # Management!NoOp
      /\ Holds <=> Management!Current(mop)
      /\ mop' = Management!NoOp => ~Holds'
      /\ mop' # Management!NoOp /\ mop'.current = mop.current => (Holds' <=> Holds)
      /\ ManageTypeOK /\ TransitionInv /\ StatusInv /\ ReconcileInv /\ CommandInv /\ CacheInv
      /\ mop.todo \in SUBSET Plugin /\ mop.on \in BOOLEAN
  BY <1>1, Held, Gate
<1>2. ASSUME NEW p \in mop.todo, Management!SetOn(p, FALSE), Management!SetStatus(p, "disabled"),
             mop' = [mop EXCEPT !.at = "give up"], UNCHANGED cache
      PROVE  StatusInv' /\ ReconcileInv' /\ CommandInv' /\ TransitionInv' /\ CacheInv'
  <2>1. /\ mop'.kind = mop.kind /\ mop'.at = "give up" /\ mop'.current = mop.current /\ mop'.on = mop.on
        /\ mop'.todo = mop.todo /\ mop' # Management!NoOp
    BY <1>0, <1>1, <1>2 DEF Operation, Management!NoOp
  <2>2. /\ p \in Plugin /\ Management!Current(mop) /\ \A q \in Plugin : Running(q)' <=> q # p /\ Running(q)
    BY <1>0, <1>2, SetOnEffect
  <2>3. \A q \in Plugin : status'[q] = IF q = p /\ status[p] # "none" THEN "disabled" ELSE status[q]
    BY <1>0, <1>2, <2>2, StatusEffect DEF Statuses
  <2>4. Holds /\ Holds' /\ (desired[p] = Management!None \/ ~Wanted(p))
    BY <1>0, <1>1, <2>1, <2>2 DEF CommandInv
  <2>5. StatusInv'
    BY <1>0, <1>1, <2>2, <2>3, <2>4 DEF StatusInv, Wanted
  <2>6. CommandInv' /\ ReconcileInv' /\ CacheInv'
    BY <1>0, <1>1, <2>1, <2>4 DEF CommandInv, ReconcileInv, CacheInv, Unannounced
  <2> QED
    BY <1>0, <1>1, <2>1, <2>5, <2>6, SameTransition
<1>3. CASE UNCHANGED <<inventory, status>> /\ mop' = Management!NoOp /\ Management!Record(reader)
  BY <1>0, <1>1, <1>3, Idle, SameStatus, SameTransition, RecordEffect DEF CacheInv
<1> QED
  BY <1>2, <1>3 DEF Management!UninstallDisable, Management!Keep, Management!Release

\* A declaration is given up with its status.
LEMMA GivenUp ==
  ASSUME StatusInv, ManageTypeOK, NEW p \in Plugin, desired' = [desired EXCEPT ![p] = Management!None],
         status' = [status EXCEPT ![p] = "none"], UNCHANGED inventory
  PROVE  StatusInv' /\ \A q \in Plugin : desired'[q] = IF q = p THEN Management!None ELSE desired[q]
<1>1. \A q \in Plugin : /\ desired'[q] = IF q = p THEN Management!None ELSE desired[q]
                        /\ status'[q] = IF q = p THEN "none" ELSE status[q]
  BY DEF ManageTypeOK, Management!Declarations
<1> QED
  BY <1>1 DEF StatusInv, Wanted, Running

\* then gives its declaration up,
LEMMA StepOfGiveUp ==
  ASSUME ManageInv, Management!GiveUpDeclaration
  PROVE  StatusInv' /\ ReconcileInv' /\ CommandInv' /\ TransitionInv' /\ CacheInv'
<1>1. /\ mop.kind = "uninstall" /\ mop.at = "give up"
      /\ UNCHANGED <<enabled, closing, inventory, transition>>
  BY DEF Management!GiveUpDeclaration
<1>0. /\ mop \in Operation /\ mop # Management!NoOp
      /\ Holds <=> Management!Current(mop)
      /\ mop' = Management!NoOp => ~Holds'
      /\ mop' # Management!NoOp /\ mop'.current = mop.current => (Holds' <=> Holds)
      /\ ManageTypeOK /\ TransitionInv /\ StatusInv /\ ReconcileInv /\ CommandInv /\ CacheInv
      /\ mop.todo \in SUBSET Plugin
  BY <1>1, Held, Gate
<1>2. ASSUME NEW p \in mop.todo, Management!Current(mop),
             desired' = [desired EXCEPT ![p] = Management!None], status' = [status EXCEPT ![p] = "none"],
             mop' = [mop EXCEPT !.at = "remove"], UNCHANGED cache
      PROVE  StatusInv' /\ ReconcileInv' /\ CommandInv' /\ TransitionInv' /\ CacheInv'
  <2>1. /\ mop'.kind = mop.kind /\ mop'.at = "remove" /\ mop'.current = mop.current /\ mop'.on = mop.on
        /\ mop'.todo = mop.todo /\ mop' # Management!NoOp
    BY <1>0, <1>1, <1>2 DEF Operation, Management!NoOp
  <2>2. StatusInv' /\ \A q \in Plugin : desired'[q] = IF q = p THEN Management!None ELSE desired[q]
    BY <1>0, <1>1, <1>2, GivenUp
  <2>3. CommandInv' /\ ReconcileInv' /\ CacheInv'
    BY <1>0, <1>1, <1>2, <2>1, <2>2 DEF CommandInv, ReconcileInv, CacheInv, Unannounced
  <2> QED
    BY <1>0, <1>1, <2>1, <2>2, <2>3, SameTransition
<1>3. CASE mop' = Management!NoOp /\ Management!Record(reader) /\ UNCHANGED <<desired, status>>
  BY <1>0, <1>1, <1>3, Idle, SameStatus, SameTransition, RecordEffect DEF CacheInv
<1> QED
  BY <1>2, <1>3 DEF Management!GiveUpDeclaration, Management!Release

\* and removes the record last.
LEMMA StepOfRemove ==
  ASSUME ManageInv, Management!RemoveRecord
  PROVE  StatusInv' /\ ReconcileInv' /\ CommandInv' /\ TransitionInv' /\ CacheInv'
<1>1. /\ mop.kind = "uninstall" /\ mop.at = "remove" /\ mop' = Management!NoOp /\ Management!Record(reader)
      /\ UNCHANGED <<enabled, closing, desired, status, transition>>
  BY DEF Management!RemoveRecord, Management!Release
<1>0. /\ mop \in Operation /\ mop # Management!NoOp
      /\ Holds <=> Management!Current(mop)
      /\ ~Holds'
      /\ ManageTypeOK /\ TransitionInv /\ StatusInv /\ ReconcileInv /\ CommandInv /\ CacheInv
      /\ mop.todo \in SUBSET Plugin /\ cache' = Management!None
  BY <1>1, Held, Gate, RecordEffect
<1>2. PICK p \in mop.todo :
         \/ UNCHANGED inventory
         \/ Management!Current(mop) /\ inventory' = [inventory EXCEPT ![p] = Management!None]
  BY DEF Management!RemoveRecord, Management!Keep, Management!MayCommit
<1>3. StatusInv'
  <2>1. CASE UNCHANGED inventory
    BY <1>0, <1>1, <2>1, SameStatus
  <2>2. CASE Management!Current(mop) /\ inventory' = [inventory EXCEPT ![p] = Management!None]
    <3>1. desired[p] = Management!None /\ p \in Plugin
      BY <1>0, <1>1, <2>2 DEF CommandInv
    <3>2. \A q \in Plugin : q # p => (Running(q)' <=> Running(q))
      BY <1>0, <2>2 DEF Running, ManageTypeOK
    <3> QED
      BY <1>0, <1>1, <3>1, <3>2 DEF StatusInv, Wanted
  <2> QED
    BY <1>2, <2>1, <2>2
<1> QED
  BY <1>0, <1>1, <1>3, Idle, SameTransition DEF CacheInv

\* A reviewed package is installed for a plugin the declarations do not mention.
LEMMA StepOfInstallReviewed ==
  ASSUME ManageInv, Management!Install
  PROVE  StatusInv' /\ ReconcileInv' /\ CommandInv' /\ TransitionInv' /\ CacheInv'
<1>1. /\ mop.kind = "install" /\ mop' = Management!NoOp /\ Management!Record(reader)
      /\ UNCHANGED <<enabled, closing, desired, status, transition>>
  BY DEF Management!Install, Management!Release
<1>0. /\ mop \in Operation /\ mop # Management!NoOp
      /\ Holds <=> Management!Current(mop)
      /\ ~Holds'
      /\ ManageTypeOK /\ TransitionInv /\ StatusInv /\ ReconcileInv /\ CommandInv /\ CacheInv
      /\ mop.plugin \in SUBSET Plugin /\ mop.ver \in SUBSET Offered /\ mop.on \in BOOLEAN
      /\ cache' = Management!None
  BY <1>1, Held, Gate, RecordEffect
<1>2. PICK p \in mop.plugin, v \in mop.ver :
         UNCHANGED inventory \/ Management!InstallVersion(p, v, mop.on)
  BY DEF Management!Install, Management!Keep
<1>3. StatusInv'
  <2>1. CASE UNCHANGED inventory
    BY <1>0, <1>1, <2>1, SameStatus
  <2>2. CASE Management!InstallVersion(p, v, mop.on)
    <3>1. p \in Plugin /\ v \in Offered
      BY <1>0
    <3>2. Management!Current(mop) /\ \A q \in Plugin : q # p => (Running(q)' <=> Running(q))
      BY <1>0, <2>2, <3>1, InstallEffect
    <3>3. desired[p] = Management!None
      BY <1>0, <1>1, <3>2 DEF CommandInv
    <3> QED
      BY <1>0, <1>1, <3>1, <3>2, <3>3 DEF StatusInv, Wanted
  <2> QED
    BY <1>2, <2>1, <2>2
<1> QED
  BY <1>0, <1>1, <1>3, Idle, SameTransition DEF CacheInv

\* A rollback changes the version of one record, never what is switched on (rollback).
LEMMA RollbackEffect ==
  ASSUME ManageTypeOK, NEW p \in Plugin, Management!Rollback(p)
  PROVE  /\ inventory' \in [Plugin -> SUBSET Entry]
         /\ \A q \in Plugin : /\ q # p => (Running(q)' <=> Running(q))
                              /\ Running(q)' => Running(q)
<1>1. CASE UNCHANGED inventory
  BY <1>1 DEF Running, ManageTypeOK
<1>2. ASSUME NEW x \in inventory[p], NEW b \in x.back,
             inventory' = [inventory EXCEPT ![p] = {[x EXCEPT !.ver = b, !.back = {x.ver}]}]
      PROVE  /\ inventory' \in [Plugin -> SUBSET Entry]
             /\ \A q \in Plugin : /\ q # p => (Running(q)' <=> Running(q))
                                  /\ Running(q)' => Running(q)
  <2> DEFINE y == [x EXCEPT !.ver = b, !.back = {x.ver}]
  <2>1. x \in Entry /\ inventory \in [Plugin -> SUBSET Entry]
    BY DEF ManageTypeOK
  <2>2. y \in Entry /\ y.on = x.on
    BY <2>1 DEF Entry
  <2> HIDE DEF y
  <2>3. inventory' = [inventory EXCEPT ![p] = {y}]
    BY <1>2 DEF y
  <2> QED
    BY <2>1, <2>2, <2>3 DEF Running, Management!On
<1> QED
  BY <1>1, <1>2 DEF Management!Rollback, Management!Keep

\* A rollback.
LEMMA StepOfRollback ==
  ASSUME ManageInv, NEW p \in Plugin, Management!Rollback(p)
  PROVE  StatusInv' /\ ReconcileInv' /\ CommandInv' /\ TransitionInv' /\ CacheInv'
<1>1. /\ mop = Management!NoOp /\ mop' = Management!NoOp /\ status[p] = "none" /\ Management!Record(reader)
      /\ UNCHANGED <<enabled, closing, desired, status, transition>>
  BY DEF Management!Rollback, Management!Managed
<1>0. /\ ManageTypeOK /\ TransitionInv /\ StatusInv /\ ~Holds' /\ cache' = Management!None
  BY <1>1, RecordEffect DEF ManageInv, Holds
<1>2. \A q \in Plugin : q # p => (Running(q)' <=> Running(q))
  BY <1>0, RollbackEffect
<1>3. StatusInv'
  BY <1>0, <1>1, <1>2 DEF StatusInv, Wanted
<1> QED
  BY <1>0, <1>1, <1>3, Idle, SameTransition DEF CacheInv

\* A declaration without a record is removed (remove_configured).
LEMMA StepOfRemoveConfigured ==
  ASSUME ManageInv, NEW p \in Plugin, Management!RemoveConfigured(p)
  PROVE  StatusInv' /\ ReconcileInv' /\ CommandInv' /\ TransitionInv' /\ CacheInv'
<1>1. /\ mop = Management!NoOp /\ mop' = Management!NoOp /\ Management!Record(reader)
      /\ desired' = [desired EXCEPT ![p] = Management!None] /\ status' = [status EXCEPT ![p] = "none"]
      /\ UNCHANGED <<enabled, closing, inventory, transition>>
  BY DEF Management!RemoveConfigured
<1>0. /\ ManageTypeOK /\ TransitionInv /\ StatusInv /\ ~Holds' /\ cache' = Management!None
  BY <1>1, RecordEffect DEF ManageInv, Holds
<1> QED
  BY <1>0, <1>1, GivenUp, Idle, SameTransition DEF CacheInv

\* Every step of the service keeps the invariant.
LEMMA ManagementSteps == ManageInv /\ [Management!Next]_(Management!vars) => ManageInv'
<1> SUFFICES ASSUME ManageInv, [Management!Next]_(Management!vars) PROVE ManageInv'
  OBVIOUS
<1>1. CASE Management!Next
  <2>1. ManageTypeOK'
    BY <1>1, ManagementTypes DEF ManageInv
  <2>2. StatusInv' /\ ReconcileInv' /\ CommandInv' /\ TransitionInv' /\ CacheInv'
    BY <1>1, <2>1, SessionSteps, ReviewSteps, BeginSteps, StepOfDisable, StepOfRestore, StepOfNext,
       StepOfInstall, StepOfEnable, StepOfResult, StepOfPersist, StepOfMutate, StepOfUninstallDisable,
       StepOfGiveUp, StepOfRemove, StepOfInstallReviewed, StepOfRollback, StepOfRemoveConfigured
       DEF Management!Next, Management!Reconcile
  <2> QED
    BY <2>1, <2>2 DEF ManageInv
<1>2. CASE UNCHANGED Management!vars
  <2>1. UNCHANGED <<enabled, saved, desired, status, inventory, mop, review, cache, reader,
                  transition, closing>>
    BY <1>2 DEF Management!vars
  <2>2. ManageTypeOK'
    BY <2>1 DEF ManageInv, ManageTypeOK
  <2>3. StatusInv' /\ ReconcileInv' /\ CommandInv'
    BY <2>1, Quiet DEF ManageInv
  <2>4. TransitionInv' /\ CacheInv'
    BY <2>1 DEF ManageInv, TransitionInv, CacheInv, Unannounced, Holds
  <2> QED
    BY <2>2, <2>3, <2>4 DEF ManageInv
<1> QED
  BY <1>1, <1>2

\* Before the first session nothing is declared, installed or cached.
LEMMA ManagementStarts == Management!Init => ManageInv
<1> SUFFICES ASSUME Management!Init PROVE ManageInv
  OBVIOUS
<1>1. /\ enabled = FALSE /\ closing = FALSE /\ transition = "due" /\ saved \in Management!Declarations
      /\ desired = Management!NoDeclarations /\ status = [p \in Plugin |-> "none"]
      /\ inventory = [p \in Plugin |-> {}]
      /\ mop = Management!NoOp /\ review = {} /\ cache = {} /\ reader = Management!NoReader
  BY DEF Management!Init, Management!None
<1>2. ManageTypeOK
  BY <1>1, NoDeclarationsTyped DEF ManageTypeOK, Statuses
<1>3. StatusInv
  BY <1>1 DEF StatusInv, Management!NoDeclarations
<1>4. ~Holds
  BY <1>1 DEF Holds
<1> QED
  BY <1>1, <1>2, <1>3, <1>4 DEF ManageInv, TransitionInv, ReconcileInv, CommandInv, CacheInv, Management!None

\* The declarations, the inventory, the status of each plugin and the cached list agree, up
\* to what the operation that holds the gate has yet to do (application.rs, reconciliation.rs).
THEOREM ManageInvariance == DesktopSpec => []ManageInv
  BY ManagementSpec, ManagementStarts, ManagementSteps, PTL DEF Management!Spec

\* Status and cached details in the settings window are those of the inventory whenever no
\* operation holds the gate (snapshot_in_epoch, record_result).
THEOREM TheListIsTrue == DesktopSpec => []ListIsTrue
<1>1. ManageInv => ListIsTrue
  <2> SUFFICES ASSUME ManageInv PROVE ListIsTrue
    OBVIOUS
  <2>1. Management!StatusIsTrue
    BY DEF ManageInv, StatusInv, Management!StatusIsTrue, Running
  <2>2. Management!CacheIsTrue
    BY DEF ManageInv, CacheInv, Unannounced, Holds, Management!CacheIsTrue
  <2> QED
    BY <2>1, <2>2 DEF ListIsTrue, Management!ListIsTrue
<1> QED
  BY <1>1, ManageInvariance, PTL

\* A step switches a plugin on only as the declarations have it, or for one they do not mention.
LEMMA SwitchesAsWanted ==
  ASSUME ManageInv, Management!Next, NEW p \in Plugin, ~Running(p), Running(p)'
  PROVE  desired[p] = Management!None \/ Wanted(p)
<1>0. ~UNCHANGED inventory
  BY DEF Running
<1>1. ManageTypeOK /\ ReconcileInv /\ CommandInv
  BY DEF ManageInv
<1>2. CASE Management!ReconcileDisable
  <2>1. PICK q \in mop.todo : Management!SetOn(q, FALSE)
    BY <1>0, <1>1, <1>2 DEF Management!ReconcileDisable, Management!Keep
  <2>2. mop.kind = "reconcile"
    BY <1>2 DEF Management!ReconcileDisable
  <2> QED
    BY <1>1, <2>1, <2>2, Gate, SetOnEffect
<1>3. CASE Management!ReconcileInstall
  <2>1. PICK q \in mop.plugin, v \in mop.ver : Management!InstallVersion(q, v, mop.on /\ Running(q))
    BY <1>0, <1>1, <1>3 DEF Management!ReconcileInstall, Management!Keep, Running
  <2>2. mop.kind = "reconcile"
    BY <1>3 DEF Management!ReconcileInstall
  <2>3. q \in Plugin /\ v \in Offered /\ (mop.on /\ Running(q)) \in BOOLEAN
    BY <1>1, <2>2, Gate DEF Running, Management!On
  <2> QED
    BY <1>1, <2>1, <2>3, InstallEffect
<1>4. CASE Management!ReconcileEnable
  <2>1. PICK q \in mop.plugin : Management!SetOn(q, TRUE)
    BY <1>0, <1>1, <1>4 DEF Management!ReconcileEnable, Management!Keep
  <2>2. mop.kind = "reconcile" /\ mop.at = "enable"
    BY <1>4 DEF Management!ReconcileEnable
  <2>3. mop \in Operation /\ mop # Management!NoOp /\ q \in Plugin
    BY <1>1, <2>2, Gate
  <2>4. Management!Current(mop) /\ p = q
    BY <1>1, <2>1, <2>3, SetOnEffect
  <2>5. Holds
    BY <2>3, <2>4 DEF Holds, Management!Current
  <2> QED
    BY <1>1, <2>2, <2>4, <2>5 DEF ReconcileInv
<1>5. CASE Management!Mutate
  <2>1. PICK q \in mop.todo : Management!SetOn(q, mop.on)
    BY <1>0, <1>1, <1>5 DEF Management!Mutate, Management!Keep
  <2>2. mop.kind \in {"enable", "group"} /\ mop.at = "mutate"
    BY <1>5 DEF Management!Mutate
  <2>3. mop \in Operation /\ mop # Management!NoOp /\ q \in Plugin /\ mop.on \in BOOLEAN
    BY <1>1, <2>2, Gate
  <2>4. Management!Current(mop) /\ p = q /\ mop.on
    BY <1>1, <2>1, <2>3, SetOnEffect
  <2>5. Holds
    BY <2>3, <2>4 DEF Holds, Management!Current
  <2> QED
    BY <1>1, <2>2, <2>4, <2>5 DEF CommandInv
<1>6. CASE Management!UninstallDisable
  <2>1. PICK q \in mop.todo : Management!SetOn(q, FALSE)
    BY <1>0, <1>1, <1>6 DEF Management!UninstallDisable, Management!Keep
  <2>2. mop.kind = "uninstall"
    BY <1>6 DEF Management!UninstallDisable
  <2> QED
    BY <1>1, <2>1, <2>2, Gate, SetOnEffect
<1>7. CASE Management!RemoveRecord
  <2>1. PICK q \in mop.todo : inventory' = [inventory EXCEPT ![q] = {}]
    BY <1>0, <1>1, <1>7 DEF Management!RemoveRecord, Management!Keep, Management!None
  <2> QED
    BY <1>1, <2>1 DEF ManageTypeOK, Running, Management!On
<1>8. CASE Management!Install
  <2>1. PICK q \in mop.plugin, v \in mop.ver : Management!InstallVersion(q, v, mop.on)
    BY <1>0, <1>1, <1>8 DEF Management!Install, Management!Keep
  <2>2. mop.kind = "install"
    BY <1>8 DEF Management!Install
  <2>3. mop \in Operation /\ mop # Management!NoOp /\ q \in Plugin /\ v \in Offered /\ mop.on \in BOOLEAN
    BY <1>1, <2>2, Gate
  <2>4. Management!Current(mop) /\ p = q
    BY <1>1, <2>1, <2>3, InstallEffect
  <2>5. Holds
    BY <2>3, <2>4 DEF Holds, Management!Current
  <2> QED
    BY <1>1, <2>2, <2>4, <2>5 DEF CommandInv
<1>9. ASSUME NEW q \in Plugin, Management!Rollback(q) PROVE FALSE
  BY <1>1, <1>9, RollbackEffect
<1>10. \/ UNCHANGED inventory
       \/ Management!ReconcileDisable \/ Management!ReconcileInstall \/ Management!ReconcileEnable
       \/ Management!Mutate \/ Management!UninstallDisable \/ Management!RemoveRecord \/ Management!Install
       \/ \E q \in Plugin : Management!Rollback(q)
  BY DEF Management!Next, Management!Reconcile, Management!Revoke, Management!Configure, Management!Resume,
     Management!SessionChanges, Management!SaveConfiguration, Management!BeginShutdown,
     Management!BeginReconcile, Management!ReconcileRestore, Management!ReconcileNext,
     Management!ReconcileResult, Management!Persist, Management!GiveUpDeclaration,
     Management!BeginSelection, Management!Discard, Management!SaveSettings, Management!BeginSnapshot,
     Management!Details, Management!InstallReview, Management!GroupCommand, Management!RemoveConfigured,
     Management!UninstallCommand, Management!EnableCommand, Management!FinishSelection,
     Management!BeginIntent
<1> QED
  BY <1>0, <1>1, <1>2, <1>3, <1>4, <1>5, <1>6, <1>7, <1>8, <1>9, <1>10

\* The latest intent wins: a plugin is switched on only while the declarations want it or do
\* not mention it, at every step of every operation (reconcile_one, set_enabled, install_review).
THEOREM TheLatestIntentWins == DesktopSpec => IntentWins
<1>1. ManageInv /\ [Management!Next]_(Management!vars)
         => [\A p \in Plugin : ~Management!On(inventory[p]) /\ Management!On(inventory'[p])
                 => desired[p] = Management!None \/ Management!On(desired[p])]_(Management!vars)
  BY SwitchesAsWanted DEF Running, Wanted
<1> QED
  BY <1>1, ManagementSpec, ManageInvariance, PTL DEF Management!Spec, IntentWins, Management!IntentWins

-----------------------------------------------------------------------------
(* The settings of a plugin (PluginSettings) *)

\* Seen through its own variables, the composition is a PluginSettings.
LEMMA SettingsSpec == DesktopSpec => Spec
<1>1. DesktopInit => Init
  BY DEF DesktopInit
<1>2. [DesktopNext]_<<focus, vars, manageVars, configVars, mediaVars>> => [Next]_vars
  BY DEF DesktopNext
<1> QED
  BY <1>1, <1>2, PTL DEF DesktopSpec, Spec

IsData(d) ==
    d \in [migrated : BOOLEAN, rev : Nat, values : {d.values}, secrets : {d.secrets}, marks : {d.marks},
           blob : {d.blob}]
IsWrite(o) ==
    /\ o \in [kind : {"seed", "save"}, data : {o.data}, shown : {o.shown}, stale : BOOLEAN, of : {o.of}]
    /\ IsData(o.data)
IsView(e) == e \in [v : {e.v}, rev : Nat, data : {e.data}]
SettingsTypeOK ==
    /\ writes \in Nat /\ pkg \in {0} \cup Version
    /\ record # None => IsData(record)
    /\ op # None => IsWrite(op) /\ op.of = pkg /\ pkg \in Version
    /\ editor # None => IsView(editor)

\* What a record says of a field, under whatever schema it was written.
Look(d, f) ==
    IF f \in DOMAIN d.values THEN d.values[f] ELSE IF f \in DOMAIN d.secrets THEN d.secrets[f] ELSE "absent"

\* What an earlier version's record said of a field stands, or has been joined with what the old
\* configuration says.
Stands(d, f) ==
    Look(d, f) = earlier[f] \/ (f \in Reads /\ Look(d, f) = Joined[earlier[f]])

\* The record of fields the user gave has been saved, so no seed is made for it any more; until
\* then a record of an earlier version is as it was found.
RecordInv ==
    /\ Coherent(Current)
    /\ DOMAIN given # {} => Current.migrated
    /\ Top \notin DOMAIN given \cup DOMAIN earlier
    /\ ~Current.migrated => \A f \in DOMAIN earlier : /\ Look(Current, f) = earlier[f]
                                                    /\ f \in DOMAIN Current.values \cup Current.marks
    /\ \A f \in DOMAIN given : Look(Current, f) = given[f]
    /\ \A f \in DOMAIN earlier : Stands(Current, f)

\* A staged write is made from the record that is still there: a seed of one that never was
\* saved, which leaves what is there, a save of what its editor shows, with the fields outside its
\* schema as they were.
StagedInv ==
    op # None =>
        /\ Coherent(op.data) /\ Current.marks \subseteq op.data.marks /\ op.data.migrated
        /\ op.kind = "seed" => ~Current.migrated /\ \A f \in DOMAIN earlier : Stands(op.data, f)
        /\ op.kind = "save" =>
              /\ Classified(pkg, op.data)
              /\ op.shown.v = pkg /\ SameData(op.shown.data, Current)
              /\ \A f \in (DOMAIN given \cup DOMAIN earlier) \ (Public[pkg] \cup Secret[pkg]) :
                    Look(op.data, f) = Look(Current, f)

\* A revision stands for one state of the data: the next write has a new one, or the same data.
RevisionInv ==
    /\ Current.rev <= writes
    /\ Current.rev = 0 => SameData(Current, Default)
    /\ op # None => \/ op.data.rev = writes + 1
                    \/ op.data.rev = Current.rev /\ SameData(op.data, Current)
    /\ editor # None => /\ editor.rev <= writes
                        /\ editor.rev = 0 => SameData(editor.data, Default)
                        /\ editor.rev = Current.rev => SameData(editor.data, Current)

SettingsInv == SettingsTypeOK /\ RecordInv /\ StagedInv /\ RevisionInv

\* The default of a missing record is coherent, and nobody has saved it.
LEMMA DefaultIsData == IsData(Default) /\ Coherent(Default) /\ Default.rev = 0 /\ ~Default.migrated
  BY DEF IsData, Default, Coherent, Empty

\* A record is neither the lack of one nor an error.
LEMMA DataIsARecord == ASSUME NEW d, IsData(d) PROVE d # None /\ ~Failed(d)
<1>1. DOMAIN d = {"migrated", "rev", "values", "secrets", "marks", "blob"}
  BY DEF IsData
<1> QED
  BY <1>1 DEF None, Failed

\* What is read is a record, on disk or by default (SettingsStore::read).
LEMMA CurrentIsData == ASSUME SettingsTypeOK PROVE IsData(Current)
  BY DefaultIsData DEF SettingsTypeOK, Current

\* A merge adds the schema's secrets to the marks, and leaves the fields of other schemas as
\* they are (SettingsSchema::merge).
LEMMA MergeEffect ==
  ASSUME NEW d, IsData(d), NEW v, NEW input
  PROVE  /\ IsData(Merge(v, d, input))
         /\ Merge(v, d, input).migrated = d.migrated /\ Merge(v, d, input).rev = d.rev
         /\ Merge(v, d, input).marks = d.marks \cup Secret[v]
         /\ \A f : f \notin Public[v] \cup Secret[v] \cup {Top} => Look(Merge(v, d, input), f) = Look(d, f)
<1> DEFINE m == Merge(v, d, input)
<1>1. /\ m = [d EXCEPT !.values = MergeValues(v, d, input), !.secrets = MergeSecrets(v, d, input),
                     !.marks = d.marks \cup Secret[v]]
  BY DEF Merge
<1> HIDE DEF m
<1>2. /\ IsData(m) /\ m.migrated = d.migrated /\ m.rev = d.rev /\ m.marks = d.marks \cup Secret[v]
      /\ m.values = MergeValues(v, d, input) /\ m.secrets = MergeSecrets(v, d, input)
  BY <1>1 DEF IsData
<1>3. ASSUME NEW f, f \notin Public[v] \cup Secret[v] \cup {Top}
      PROVE  Look(m, f) = Look(d, f)
  <2>1. /\ f \in DOMAIN m.values <=> f \in DOMAIN d.values
        /\ f \in DOMAIN m.values => m.values[f] = d.values[f]
    BY <1>2, <1>3 DEF MergeValues, Over, Drop
  <2>2. /\ f \in DOMAIN m.secrets <=> f \in DOMAIN d.secrets
        /\ f \in DOMAIN m.secrets => m.secrets[f] = d.secrets[f]
    BY <1>2, <1>3 DEF MergeSecrets, Over, Drop
  <2> QED
    BY <2>1, <2>2 DEF Look
<1> QED
  BY <1>2, <1>3 DEF m

\* A seed is made for a record that was never saved; it gets a revision of its own, adds to the
\* marks, and leaves what is there, but for the list of entities to read (settings_seed,
\* merge_seed, merge_legacy_ha_reads, provider).
LEMMA SeedEffect ==
  ASSUME NEW d, IsData(d), Coherent(d), NEW v, writes \in Nat,
         ~Failed(Provider(v, d)), Provider(v, d) # d, Coherent(Provider(v, d))
  PROVE  /\ IsData(Provider(v, d)) /\ ~d.migrated /\ Provider(v, d).migrated
         /\ Provider(v, d).rev = writes + 1
         /\ d.marks \subseteq Provider(v, d).marks
         /\ \A f \in DOMAIN d.values \cup d.marks :
               \/ Look(Provider(v, d), f) = Look(d, f)
               \/ f \in Reads /\ Look(Provider(v, d), f) = Joined[Look(d, f)]
<1> DEFINE s == SettingsSeed(v, d)
           seed == PlanPlugin
           both == Over(d.values, seed.values)
           merged == IF seed.legacy THEN MergeReads(both) ELSE both
           p == Provider(v, d)
<1>1. s # d /\ ~Failed(s) /\ p = [s EXCEPT !.rev = writes + 1]
  BY DEF Provider
<1>2. ~d.migrated
  BY <1>1 DEF SettingsSeed
<1>3. s = MergeSeed(d, seed) /\ seed # None /\ ~Failed(seed)
  BY <1>1 DEF SettingsSeed, Failed, Unsupported
<1>4. s = [d EXCEPT !.migrated = TRUE, !.values = merged,
                    !.secrets = Over(d.secrets, Drop(seed.secrets, d.marks)),
                    !.marks = d.marks \cup DOMAIN seed.secrets]
  BY <1>1, <1>3 DEF MergeSeed, Failed, Conflict, Selection
<1> HIDE DEF s, seed, merged
<1>6. /\ IsData(s) /\ s.marks = d.marks \cup DOMAIN seed.secrets /\ s.migrated = TRUE
      /\ s.values = merged /\ s.secrets = Over(d.secrets, Drop(seed.secrets, d.marks))
  BY <1>4 DEF IsData
<1> HIDE DEF p
<1>7. /\ IsData(p) /\ p.rev = writes + 1 /\ p.migrated = TRUE
      /\ p.marks = s.marks /\ p.values = s.values /\ p.secrets = s.secrets
  BY <1>1, <1>6 DEF IsData
<1>8. ASSUME NEW f \in DOMAIN d.values
      PROVE  Look(p, f) = Look(d, f) \/ (f \in Reads /\ Look(p, f) = Joined[Look(d, f)])
  <2>1. f \in DOMAIN both /\ both[f] = d.values[f]
    BY <1>8 DEF Over
  <2>2. Look(d, f) = d.values[f]
    BY <1>8 DEF Look
  <2> HIDE DEF both
  <2>3. f \in DOMAIN merged /\ (merged[f] = d.values[f] \/ (f \in Reads /\ merged[f] = Joined[d.values[f]]))
    BY <2>1 DEF merged, MergeReads
  <2>4. Look(p, f) = merged[f]
    BY <1>6, <1>7, <2>3 DEF Look
  <2> QED
    BY <2>2, <2>3, <2>4
<1>9. ASSUME NEW f \in d.marks, f \notin DOMAIN d.values PROVE Look(p, f) = Look(d, f)
  <2>1. f \notin DOMAIN p.values
    BY <1>6, <1>7, <1>9 DEF Coherent, p
  <2>2. /\ f \in DOMAIN p.secrets <=> f \in DOMAIN d.secrets
        /\ f \in DOMAIN d.secrets => p.secrets[f] = d.secrets[f]
    BY <1>6, <1>7, <1>9 DEF Over, Drop
  <2> QED
    BY <1>9, <2>1, <2>2 DEF Look
<1> QED
  BY <1>2, <1>6, <1>7, <1>8, <1>9 DEF p

\* A step that neither writes nor stages: the editor is opened or closed, a staged write dropped.
LEMMA ReadingKeeps ==
  ASSUME SettingsInv, UNCHANGED <<pkg, record, writes, given, earlier>>, op' \in {op, None},
         editor' \in {editor, None, View(pkg, Current)}
  PROVE  SettingsInv'
<1>0. SettingsTypeOK /\ RecordInv /\ StagedInv /\ RevisionInv
  BY DEF SettingsInv
<1>1. Current' = Current /\ IsData(Current)
  BY <1>0, CurrentIsData DEF Current
<1>2. editor' # None => \/ editor # None /\ editor' = editor
                        \/ IsView(editor') /\ editor'.rev = Current.rev /\ editor'.data = Current
  BY <1>1 DEF View, IsView, IsData
<1>3. SettingsTypeOK'
  BY <1>0, <1>2 DEF SettingsTypeOK
<1>4. RecordInv' /\ StagedInv'
  BY <1>0, <1>1 DEF RecordInv, Stands, StagedInv
<1>5. RevisionInv'
  <2>1. IsView(editor') /\ editor'.rev = Current.rev /\ editor'.data = Current
          => /\ editor'.rev <= writes
             /\ editor'.rev = 0 => SameData(editor'.data, Default)
             /\ SameData(editor'.data, Current)
    BY <1>0 DEF RevisionInv, SameData
  <2> QED
    BY <1>0, <1>1, <1>2, <2>1 DEF RevisionInv
<1> QED
  BY <1>3, <1>4, <1>5 DEF SettingsInv

\* A package is selected or removed, with its record or without; no write is staged then.
LEMMA Packages ==
  ASSUME SettingsInv, op = None, op' = None, UNCHANGED writes, pkg' \in {0} \cup Version,
         editor' \in {editor, None}, UNCHANGED <<record, given, earlier>> \/ Forget
  PROVE  SettingsInv'
<1>0. SettingsTypeOK /\ RecordInv /\ RevisionInv
  BY DEF SettingsInv
<1>1. SettingsTypeOK'
  BY <1>0 DEF SettingsTypeOK, Forget
<1>2. CASE UNCHANGED <<record, given, earlier>>
  <2>1. Current' = Current
    BY <1>2 DEF Current
  <2> QED
    BY <1>0, <1>1, <1>2, <2>1 DEF SettingsInv, RecordInv, Stands, StagedInv, RevisionInv
<1>3. CASE Forget
  <2>1. Current' = Default /\ given' = Empty /\ earlier' = Empty /\ DOMAIN Empty = {}
    BY <1>3 DEF Current, Forget, Empty
  <2>2. RecordInv'
    BY <2>1, DefaultIsData DEF RecordInv
  <2>3. RevisionInv'
    BY <1>0, <2>1, DefaultIsData DEF RevisionInv, SettingsTypeOK, SameData
  <2> QED
    BY <1>1, <2>2, <2>3 DEF SettingsInv, StagedInv
<1> QED
  BY <1>2, <1>3

\* The session is locked under a staged write.
LEMMA LockKeeps == ASSUME SettingsInv, Lock PROVE SettingsInv'
<1>0. SettingsTypeOK /\ RecordInv /\ StagedInv /\ RevisionInv
  BY DEF SettingsInv
<1>1. op # None /\ IsWrite(op) /\ op' = [op EXCEPT !.stale = TRUE] /\ editor' = None
      /\ UNCHANGED <<pkg, record, writes, given, earlier>>
  BY <1>0 DEF Lock, history, SettingsTypeOK
<1>2. IsWrite(op') /\ op'.kind = op.kind /\ op'.data = op.data /\ op'.shown = op.shown /\ op'.of = op.of
  BY <1>1 DEF IsWrite
<1>3. Current' = Current
  BY <1>1 DEF Current
<1>4. SettingsTypeOK'
  BY <1>0, <1>1, <1>2 DEF SettingsTypeOK
<1>5. RecordInv'
  BY <1>0, <1>1, <1>3 DEF RecordInv, Stands
<1>6. StagedInv'
  BY <1>0, <1>1, <1>2, <1>3 DEF StagedInv, Stands
<1>7. RevisionInv'
  BY <1>0, <1>1, <1>2, <1>3 DEF RevisionInv
<1> QED
  BY <1>4, <1>5, <1>6, <1>7 DEF SettingsInv

\* A write is staged by what it takes (prepare_write).
LEMMA Staged ==
  ASSUME SettingsInv, op = None, pkg # 0, NEW kind \in {"seed", "save"}, NEW data, NEW shown, IsData(data),
         Prepare(kind, data, shown), UNCHANGED editor,
         Current.marks \subseteq data.marks, data.migrated,
         data.rev = writes + 1 \/ (data.rev = Current.rev /\ SameData(data, Current)),
         kind = "seed" => ~Current.migrated /\ \A f \in DOMAIN earlier : Stands(data, f),
         kind = "save" => /\ Classified(pkg, data)
                          /\ shown.v = pkg /\ SameData(shown.data, Current)
                          /\ \A f : f \notin Public[pkg] \cup Secret[pkg] \cup {Top}
                                       => Look(data, f) = Look(Current, f)
  PROVE  SettingsInv'
<1>0. SettingsTypeOK /\ RecordInv /\ RevisionInv
  BY DEF SettingsInv
<1>1. /\ op' = [kind |-> kind, data |-> data, shown |-> shown, stale |-> FALSE, of |-> pkg]
      /\ UNCHANGED <<pkg, record, writes, given, earlier>> /\ Coherent(data)
  BY DEF Prepare, history, Preparable
<1>2. IsWrite(op') /\ op'.kind = kind /\ op'.data = data /\ op'.shown = shown /\ op'.of = pkg
  BY <1>1 DEF IsWrite
<1>3. Current' = Current
  BY <1>1 DEF Current
<1>4. SettingsTypeOK'
  BY <1>0, <1>1, <1>2 DEF SettingsTypeOK
<1>5. RecordInv'
  BY <1>0, <1>1, <1>3 DEF RecordInv, Stands
<1>6. StagedInv'
  <2>1. kind = "save" => \A f \in (DOMAIN given \cup DOMAIN earlier) \ (Public[pkg] \cup Secret[pkg]) :
                           Look(data, f) = Look(Current, f)
    BY <1>0 DEF RecordInv
  <2>2. kind = "seed" => \A f \in DOMAIN earlier' : Stands(data, f)'
    BY <1>1 DEF Stands, Look
  <2> QED
    BY <1>1, <1>2, <1>3, <2>1, <2>2 DEF StagedInv
<1>7. RevisionInv'
  BY <1>0, <1>1, <1>2, <1>3 DEF RevisionInv
<1> QED
  BY <1>4, <1>5, <1>6, <1>7 DEF SettingsInv

\* A seed is staged (load_settings).
LEMMA SeedKeeps == ASSUME SettingsInv, StageSeed PROVE SettingsInv'
<1> DEFINE next == Provider(pkg, Current)
<1>0. SettingsTypeOK /\ RecordInv /\ IsData(Current) /\ writes \in Nat
  BY CurrentIsData DEF SettingsInv, SettingsTypeOK
<1>1. op = None /\ pkg # 0 /\ Prepare("seed", next, None) /\ UNCHANGED editor /\ ~Failed(next) /\ next # Current
      /\ Coherent(next) /\ Coherent(Current)
  BY <1>0 DEF StageSeed, Seedable, Preparable, RecordInv
<1>2. /\ IsData(next) /\ ~Current.migrated /\ next.migrated /\ next.rev = writes + 1
      /\ Current.marks \subseteq next.marks
      /\ \A f \in DOMAIN Current.values \cup Current.marks :
            \/ Look(next, f) = Look(Current, f)
            \/ f \in Reads /\ Look(next, f) = Joined[Look(Current, f)]
  BY <1>0, <1>1, SeedEffect
<1> HIDE DEF next
<1>3. ASSUME NEW f \in DOMAIN earlier PROVE Stands(next, f)
  <2>1. Look(Current, f) = earlier[f] /\ f \in DOMAIN Current.values \cup Current.marks
    BY <1>0, <1>2 DEF RecordInv
  <2> QED
    BY <1>2, <2>1 DEF Stands
<1> QED
  BY <1>1, <1>2, <1>3, Staged

\* The first save marks the record as the user's (save_settings).
LEMMA MarkedEffect ==
  ASSUME NEW d, IsData(d), writes \in Nat
  PROVE  /\ IsData(SaveMarked(d)) /\ SaveMarked(d).migrated /\ SameData(SaveMarked(d), d)
         /\ SaveMarked(d).rev = writes + 1 \/ (SaveMarked(d).rev = d.rev /\ d.migrated)
<1>1. CASE d.migrated
  BY <1>1 DEF SaveMarked, SameData
<1>2. CASE ~d.migrated
  <2> DEFINE e == [d EXCEPT !.migrated = TRUE, !.rev = writes + 1]
  <2>0. writes + 1 \in Nat
    OBVIOUS
  <2>1. e.migrated = TRUE /\ e.rev = writes + 1
    BY DEF IsData
  <2>2. /\ e.values = d.values /\ e.secrets = d.secrets /\ e.marks = d.marks
        /\ e \in [migrated : BOOLEAN, rev : Nat, values : {d.values}, secrets : {d.secrets}, marks : {d.marks},
                  blob : {d.blob}]
    BY <2>0 DEF IsData
  <2>4. IsData(e)
    BY <2>2 DEF IsData
  <2>3. SaveMarked(d) = IF d.migrated THEN d ELSE e
    BY DEF SaveMarked
  <2> HIDE DEF e
  <2> QED
    BY <1>2, <2>1, <2>2, <2>3, <2>4 DEF SameData
<1> QED
  BY <1>1, <1>2

\* A save is staged (save_settings).
LEMMA SaveKeeps == ASSUME SettingsInv, NEW input, SaveSettings(input) PROVE SettingsInv'
<1> DEFINE merged == Merge(pkg, Current, input)
           next == IF SameData(merged, Current) THEN merged ELSE [merged EXCEPT !.rev = writes + 1]
           final == SaveMarked(next)
<1>0. SettingsTypeOK /\ IsData(Current) /\ writes \in Nat /\ RevisionInv
  BY CurrentIsData DEF SettingsInv, SettingsTypeOK
<1>1. /\ op = None /\ pkg # 0 /\ editor # None /\ editor.v = pkg /\ editor.rev = Current.rev
      /\ Valid(pkg, final, TRUE) /\ Prepare("save", final, editor) /\ UNCHANGED editor
  BY DEF SaveSettings
<1>2. /\ IsData(merged) /\ merged.migrated = Current.migrated /\ merged.rev = Current.rev
      /\ merged.marks = Current.marks \cup Secret[pkg]
      /\ \A f : f \notin Public[pkg] \cup Secret[pkg] \cup {Top} => Look(merged, f) = Look(Current, f)
  BY <1>0, MergeEffect
<1> HIDE DEF merged
<1>3. /\ IsData(next) /\ next.migrated = Current.migrated /\ SameData(next, merged)
      /\ next.rev = writes + 1 \/ (next.rev = Current.rev /\ SameData(next, Current))
  BY <1>0, <1>2 DEF IsData, SameData
<1> HIDE DEF next
<1>4. /\ IsData(final) /\ final.migrated /\ SameData(final, merged)
      /\ final.rev = writes + 1 \/ (final.rev = Current.rev /\ SameData(final, Current))
  BY <1>0, <1>3, MarkedEffect DEF SameData
<1> HIDE DEF final
<1>5. Classified(pkg, final) /\ SameData(editor.data, Current)
  BY <1>0, <1>1 DEF Valid, RevisionInv
<1>6. Current.marks \subseteq final.marks
      /\ \A f : f \notin Public[pkg] \cup Secret[pkg] \cup {Top} => Look(final, f) = Look(Current, f)
  BY <1>2, <1>4 DEF SameData, Look
<1> QED
  BY <1>1, <1>4, <1>5, <1>6, Staged

\* What a save of a schema's fields gives, a record that keeps secrets and values apart says.
LEMMA GivenEffect ==
  ASSUME NEW v, NEW d, Classified(v, d), Coherent(d), NEW f \in Public[v] \cup Secret[v]
  PROVE  f \in DOMAIN Given(v, d) /\ Given(v, d)[f] = Look(d, f)
<1>1. CASE f \in Public[v]
  <2>1. f \notin DOMAIN d.secrets
    BY <1>1 DEF Classified
  <2> QED
    BY <1>1, <2>1 DEF Given, Look
<1>2. CASE f \notin Public[v]
  <2>1. f \notin DOMAIN d.values
    BY <1>2 DEF Classified
  <2> QED
    BY <1>2, <2>1 DEF Given, Look
<1> QED
  BY <1>1, <1>2

\* The rename of a staged write (PreparedSettingsWrite::commit).
LEMMA CommitKeeps == ASSUME SettingsInv, NEW ok \in BOOLEAN, Commit(ok) PROVE SettingsInv'
<1>0. SettingsTypeOK /\ RecordInv /\ StagedInv /\ RevisionInv /\ IsData(Current)
  BY CurrentIsData DEF SettingsInv
<1>1. /\ op # None /\ IsWrite(op) /\ op.of = pkg /\ pkg \in Version /\ IsData(op.data)
      /\ record' = [op.data EXCEPT !.blob = writes + 1] /\ writes' = writes + 1 /\ writes \in Nat
      /\ given' = IF op.kind = "save" THEN Over(Given(pkg, op.data), given) ELSE given
      /\ earlier' = IF op.kind = "save" THEN Drop(earlier, Public[pkg] \cup Secret[pkg]) ELSE earlier
      /\ editor' \in {editor, View(pkg, op.data)} /\ op' = None /\ UNCHANGED pkg
  BY <1>0 DEF Commit, SettingsTypeOK, IsWrite, Encrypted
<1>2. /\ IsData(record') /\ record'.migrated = op.data.migrated /\ record'.rev = op.data.rev
      /\ SameData(record', op.data)
  BY <1>1 DEF IsData, SameData
<1>3. Current' = record' /\ record' # None
  BY <1>2, DataIsARecord DEF Current
<1>4. op.data.rev \in Nat /\ Current.rev \in Nat
  BY <1>0, <1>1 DEF IsData
<1>5. editor' # None => \/ editor # None /\ editor' = editor
                        \/ IsView(editor') /\ editor'.rev = op.data.rev /\ editor'.data = op.data
  BY <1>1 DEF View, IsView, IsData
<1>6. SettingsTypeOK'
  BY <1>0, <1>1, <1>2, <1>5 DEF SettingsTypeOK
<1>7. RecordInv'
  <2>0. \A f : Look(Current', f) = Look(op.data, f)
    BY <1>2, <1>3 DEF Look, SameData
  <2>1. Coherent(Current') /\ Current'.migrated
    BY <1>0, <1>1, <1>2, <1>3 DEF StagedInv, Coherent, SameData
  <2>2. CASE op.kind = "seed"
    <3>1. DOMAIN given' = {} /\ earlier' = earlier /\ \A f \in DOMAIN earlier : Stands(op.data, f)
      BY <1>0, <1>1, <2>2 DEF StagedInv, RecordInv
    <3>2. \A f \in DOMAIN earlier' : Stands(Current, f)'
      BY <2>0, <3>1 DEF Stands
    <3> QED
      BY <1>0, <2>1, <3>1, <3>2 DEF RecordInv
  <2>3. CASE op.kind = "save"
    <3>1. /\ given' = Over(Given(pkg, op.data), given) /\ Classified(pkg, op.data)
          /\ earlier' = Drop(earlier, Public[pkg] \cup Secret[pkg])
          /\ Coherent(op.data)
          /\ \A f \in (DOMAIN given \cup DOMAIN earlier) \ (Public[pkg] \cup Secret[pkg]) :
                Look(op.data, f) = Look(Current, f)
      BY <1>0, <1>1, <2>3 DEF StagedInv
    <3>2. DOMAIN Given(pkg, op.data) = Public[pkg] \cup Secret[pkg]
      BY DEF Given
    <3>3. DOMAIN given' = Public[pkg] \cup Secret[pkg] \cup DOMAIN given
      BY <3>1, <3>2 DEF Over
    <3>4. /\ DOMAIN earlier' = DOMAIN earlier \ (Public[pkg] \cup Secret[pkg])
          /\ \A f \in DOMAIN earlier' : earlier'[f] = earlier[f]
      BY <3>1 DEF Drop
    <3>5. Top \notin DOMAIN given' \cup DOMAIN earlier'
      BY <1>0, <1>1, <3>3, <3>4, SchemasAreSane DEF RecordInv, Compiled
    <3>6. ASSUME NEW f \in DOMAIN given' PROVE Look(Current', f) = given'[f]
      <4>1. CASE f \in Public[pkg] \cup Secret[pkg]
        BY <2>0, <3>1, <3>2, <4>1, GivenEffect DEF Over
      <4>2. CASE f \notin Public[pkg] \cup Secret[pkg]
        <5>1. f \in DOMAIN given /\ given'[f] = given[f]
          BY <3>1, <3>2, <3>3, <4>2 DEF Over
        <5>2. given[f] = Look(Current, f)
          BY <1>0, <5>1 DEF RecordInv
        <5> QED
          BY <2>0, <3>1, <4>2, <5>1, <5>2
      <4> QED
        BY <4>1, <4>2
    <3>7. ASSUME NEW f \in DOMAIN earlier' PROVE Stands(Current, f)'
      <4>1. Stands(Current, f) /\ Look(Current', f) = Look(Current, f) /\ earlier'[f] = earlier[f]
        BY <1>0, <2>0, <3>1, <3>4 DEF RecordInv
      <4> QED
        BY <4>1 DEF Stands
    <3> QED
      BY <2>1, <3>5, <3>6, <3>7 DEF RecordInv
  <2> QED
    BY <1>1, <2>2, <2>3 DEF IsWrite
<1>8. StagedInv'
  BY <1>1 DEF StagedInv
<1>9. RevisionInv'
  <2>1. op.data.rev = writes + 1 \/ (op.data.rev = Current.rev /\ SameData(op.data, Current))
    BY <1>0, <1>1 DEF RevisionInv
  <2>2. Current'.rev = op.data.rev /\ SameData(Current', op.data)
    BY <1>2, <1>3
  <2>3. Current.rev <= writes /\ (Current.rev = 0 => SameData(Current, Default))
    BY <1>0 DEF RevisionInv
  <2>4. Current'.rev <= writes' /\ (Current'.rev = 0 => SameData(Current', Default))
    BY <1>1, <1>4, <2>1, <2>2, <2>3 DEF SameData
  <2>5. CASE editor # None /\ editor' = editor
    <3>1. /\ editor.rev \in Nat /\ editor.rev <= writes
          /\ editor.rev = 0 => SameData(editor.data, Default)
          /\ editor.rev = Current.rev => SameData(editor.data, Current)
      BY <1>0, <2>5 DEF RevisionInv, SettingsTypeOK, IsView
    <3>2. editor.rev = Current'.rev => SameData(editor.data, Current')
      BY <1>1, <2>1, <2>2, <3>1 DEF SameData
    <3> QED
      BY <1>1, <2>4, <2>5, <3>1, <3>2 DEF RevisionInv
  <2>6. CASE IsView(editor') /\ editor'.rev = op.data.rev /\ editor'.data = op.data
    BY <1>1, <2>2, <2>4, <2>6 DEF RevisionInv, SameData
  <2>7. CASE editor' = None
    BY <1>1, <2>4, <2>7 DEF RevisionInv
  <2> QED
    BY <1>5, <2>5, <2>6, <2>7
<1> QED
  BY <1>6, <1>7, <1>8, <1>9 DEF SettingsInv

\* Every step of the settings keeps the invariant.
LEMMA SettingsSteps == SettingsInv /\ [Next]_vars => SettingsInv'
<1> SUFFICES ASSUME SettingsInv, [Next]_vars PROVE SettingsInv'
  OBVIOUS
<1>1. CASE \/ OpenEditor \/ Abandon \/ ListRetained \/ BackUp \/ RestoreBackup \/ DaemonArrives \/ Restart
           \/ UNCHANGED vars
  <2>1. /\ UNCHANGED <<pkg, record, writes, given, earlier>> /\ op' \in {op, None}
        /\ editor' \in {editor, None, View(pkg, Current)}
    BY <1>1 DEF OpenEditor, Abandon, ListRetained, BackUp, RestoreBackup, DaemonArrives, Restart, vars, history
  <2> QED
    BY <2>1, ReadingKeeps
<1>2. CASE \/ \E v \in Version : Select(v)
           \/ \E delete \in BOOLEAN : Uninstall(delete)
           \/ DeleteRetained \/ CleanInstallation
  <2>1. pkg \in {0} \cup Version
    BY DEF SettingsInv, SettingsTypeOK
  <2>2. /\ op = None /\ op' = None /\ UNCHANGED writes /\ pkg' \in {0} \cup Version
        /\ editor' \in {editor, None} /\ (UNCHANGED <<record, given, earlier>> \/ Forget)
    BY <1>2, <2>1 DEF Select, Uninstall, DeleteRetained, RemoveRecord, CleanInstallation, history
  <2> QED
    BY <2>2, Packages
<1>3. CASE Lock
  BY <1>3, LockKeeps
<1>4. CASE StageSeed
  BY <1>4, SeedKeeps
<1>5. ASSUME NEW input \in Inputs(pkg), SaveSettings(input) PROVE SettingsInv'
  BY <1>5, SaveKeeps
<1>6. ASSUME NEW ok \in BOOLEAN, Commit(ok) PROVE SettingsInv'
  BY <1>6, CommitKeeps
<1> QED
  BY <1>1, <1>2, <1>3, <1>4, <1>5, <1>6 DEF Next

\* Before the first write there is no record, or one that an earlier version left.
LEMMA SettingsStart == Init => SettingsInv
<1> SUFFICES ASSUME Init PROVE SettingsInv
  OBVIOUS
<1>1. /\ pkg \in {0} \cup Version /\ op = None /\ editor = None /\ writes = 1
      /\ given = Empty /\ DOMAIN Empty = {}
  BY DEF Init, Empty
<1>2. CASE record = None /\ earlier = Empty
  <2>1. Current = Default
    BY <1>2 DEF Current
  <2>2. SettingsTypeOK /\ RecordInv /\ StagedInv
    BY <1>1, <1>2, <2>1, DefaultIsData DEF SettingsTypeOK, RecordInv, StagedInv
  <2>3. RevisionInv
    BY <1>1, <2>1, DefaultIsData DEF RevisionInv, SameData
  <2> QED
    BY <2>2, <2>3 DEF SettingsInv
<1>3. ASSUME NEW d \in Earlier, Existing(d), earlier = Said(d) PROVE SettingsInv
  <2>1. /\ IsData(record) /\ record.migrated = FALSE /\ record.rev = 1
        /\ record.values = d.values /\ record.secrets = d.secrets /\ record.marks = d.marks
    BY <1>3 DEF Existing, IsData
  <2>2. record # None /\ Current = record
    BY <2>1, DataIsARecord DEF Current
  <2>3. DOMAIN d.secrets \subseteq d.marks /\ DOMAIN d.values \cap d.marks = {}
        /\ Top \notin DOMAIN d.values \cup d.marks
    BY EarlierIsSane
  <2>4. DOMAIN earlier = DOMAIN d.values \cup d.marks
    BY <1>3 DEF Said
  <2>5. \A f \in DOMAIN earlier : Look(Current, f) = earlier[f]
    BY <1>3, <2>1, <2>2, <2>4 DEF Look, Said
  <2>6. SettingsTypeOK /\ StagedInv
    BY <1>1, <2>1 DEF SettingsTypeOK, StagedInv
  <2>7. RecordInv
    BY <1>1, <2>1, <2>2, <2>3, <2>4, <2>5 DEF RecordInv, Coherent, Stands
  <2>8. RevisionInv
    BY <1>1, <2>1, <2>2 DEF RevisionInv
  <2> QED
    BY <2>6, <2>7, <2>8 DEF SettingsInv
<1> QED
  BY <1>2, <1>3 DEF Init

\* The record, the write staged from it and the editor agree, whatever schemas the plugin's
\* versions have (settings_store.rs, settings.rs, migration.rs).
THEOREM SettingsInvariance == DesktopSpec => []SettingsInv
  BY SettingsSpec, SettingsStart, SettingsSteps, PTL DEF Spec

\* What the user last gave a field stands in the record until the record is deleted, and so does
\* what an earlier version's record says of it, but for the entities to read, which the handover
\* joins (SettingsSchema::merge, merge_seed, merge_legacy_ha_reads).
THEOREM TheLastSaveStands == DesktopSpec => []LastSaveStands
<1>1. SettingsInv => LastSaveStands
  BY DEF SettingsInv, RecordInv, Stands, LastSaveStands, Says, Look
<1> QED
  BY <1>1, SettingsInvariance, PTL

\* A save is committed only over the record and the package its editor showed
\* (save_settings, PreparedSettingsWrite::commit).
THEOREM NoSaveOverwritesAnother == DesktopSpec => NoLostUpdate
<1>1. SettingsInv /\ [Next]_vars
         => [\A o \in {op} : (o # None /\ o.kind = "save" /\ record' # record)
                 => o.shown.v = pkg /\ SameData(o.shown.data, Current)]_vars
  BY DEF SettingsInv, StagedInv
<1> QED
  BY <1>1, SettingsSpec, SettingsInvariance, PTL DEF Spec, NoLostUpdate

\* A field that ever held a secret stays one as long as the record exists (validate_data,
\* merge, merge_seed).
THEOREM OnceSecretStaysSecret == DesktopSpec => OnceSecretNeverPublic
<1>1. SettingsInv /\ [Next]_vars
         => [record' # None =>
               \A f \in Current.marks \cup DOMAIN Current.secrets :
                  f \in record'.marks /\ f \notin DOMAIN record'.values]_vars
  <2> SUFFICES ASSUME SettingsInv, Next, record' # None, NEW f \in Current.marks \cup DOMAIN Current.secrets
               PROVE  f \in record'.marks /\ f \notin DOMAIN record'.values
    OBVIOUS
  <2>1. SettingsTypeOK /\ RecordInv /\ StagedInv
    BY DEF SettingsInv
  <2>2. f \in Current.marks
    BY <2>1 DEF RecordInv, Coherent
  <2>3. ASSUME NEW ok \in BOOLEAN, Commit(ok) PROVE f \in record'.marks /\ f \notin DOMAIN record'.values
    <3>1. /\ record' = [op.data EXCEPT !.blob = writes + 1] /\ IsData(op.data)
          /\ Coherent(op.data) /\ Current.marks \subseteq op.data.marks
      BY <2>1, <2>3 DEF Commit, Encrypted, SettingsTypeOK, IsWrite, StagedInv
    <3>2. record'.marks = op.data.marks /\ record'.values = op.data.values
      BY <3>1 DEF IsData
    <3> QED
      BY <2>2, <3>1, <3>2 DEF Coherent
  <2>4. CASE UNCHANGED record
    BY <2>1, <2>2, <2>4 DEF RecordInv, Coherent, Current
  <2>5. UNCHANGED record \/ \E ok \in BOOLEAN : Commit(ok)
    BY DEF Next, StageSeed, Prepare, OpenEditor, Abandon, Lock, Restart, Select, SaveSettings,
       Uninstall, Forget,
       ListRetained, DeleteRetained, RemoveRecord, BackUp, RestoreBackup, CleanInstallation, DaemonArrives
  <2> QED
    BY <2>3, <2>4, <2>5
<1> QED
  BY <1>1, SettingsSpec, SettingsInvariance, PTL DEF Spec, OnceSecretNeverPublic

-----------------------------------------------------------------------------
(* The media of plugins (MediaService) *)

\* The phases of an entry, the steps of its task, and the entry.
Phases == {"absent", "queued", "downloading", "ready", "closing"}
Steps == {"none", "reserve", "blocked", "create", "transfer", "discard", "commit", "failed", "drop", "deliver",
          "present", "close", "acknowledge", "remove", "drain", "delete", "done"}
Request == [phase : Phases, preview : BOOLEAN, kind : Player!Kind \cup {"video"}, camera : SUBSET Camera,
            bytes : Nat, retired : BOOLEAN, stuck : BOOLEAN, tries : Nat, file : BOOLEAN]
MediaTypeOK ==
    /\ item \in [Item -> Request]
    /\ \A i \in Item : item[i].phase # "absent" => item[i].kind \in Player!Kind
    /\ task \in [Item -> Steps]
    /\ file \in [Item -> {"none", "own", "orphan"}]
    /\ events \in Seq({"ready", "close"} \X Item)
    /\ adapter \in [at : {"idle", "ready", "close", "recheck", "failed"}, for : SUBSET Item]
    /\ window \in [Item -> {"none", "hidden", "visible", "dying"}]
    /\ reads \in [Item -> Nat]
    /\ shutdown \in [at : {"idle", "retry", "join", "failed", "ok"}, retry : SUBSET Item,
                     failed : BOOLEAN, requested : BOOLEAN]
    /\ broken \in BOOLEAN

\* The phases an entry may be in while its task is at a step.
PhaseOf(t) ==
    CASE t \in {"none", "done"} -> {"absent"}
      [] t \in {"reserve", "blocked"} -> {"queued"}
      [] t \in {"create", "transfer", "discard", "commit", "failed", "drop"} -> {"downloading"}
      [] t = "deliver" -> {"ready"}
      [] t \in {"present", "close", "acknowledge", "drain"} -> {"ready", "closing"}
      [] OTHER -> {"queued", "downloading", "ready", "closing"}

Showing == {"present", "close", "acknowledge"}
\* The entry, as its task left it.
EntryInv(i) ==
    /\ item[i].phase \in PhaseOf(task[i])
    /\ item[i].phase = "downloading" => item[i].bytes >= 1
    /\ task[i] \in {"drain", "delete"} => item[i].retired
    /\ task[i] # "none" => root

\* The file is the entry's, the task's that makes or removes it, or could not be removed.
FileInv(i) ==
    /\ item[i].file => /\ file[i] = "own" /\ item[i].phase \in {"ready", "closing"}
                       /\ task[i] \in Showing \cup {"deliver", "remove"}
    /\ task[i] \in {"transfer", "discard", "commit"} => file[i] = "own"
    /\ file[i] = "own" => /\ root
                          /\ broken \/ item[i].file \/ task[i] \in {"transfer", "discard", "commit", "drop", "drain"}

ReadInv(i) ==
    reads[i] > 0 => /\ file[i] = "own"
                    /\ task[i] = "drain" \/ (item[i].file /\ task[i] \in Showing \cup {"remove"})

\* A window exists while its task waits for it to go.
WindowInv(i) == window[i] # "none" => task[i] \in Showing /\ ~item[i].retired
\* The adapter has been or will be asked to open a window: the task waits for it, or the
\* entry is retired and refuses.
Asked(i) == (adapter.at = "ready" /\ i \in adapter.for) \/ \E n \in 1 .. Len(events) : events[n] = <<"ready", i>>
AskedInv(i) ==
    Asked(i) => \/ task[i] \in Showing \cup {"done"}
                \/ task[i] \in {"remove", "drain", "delete"} /\ item[i].retired

RequestInv(i) == EntryInv(i) /\ FileInv(i) /\ ReadInv(i) /\ WindowInv(i) /\ AskedInv(i)

\* The limits on entries that hold a slot, and on what they reserve.
LimitInv ==
    /\ IsFiniteSet(Player!Windows) /\ Cardinality(Player!Windows) <= MaxWindows
    /\ IsFiniteSet(Player!Reserved) /\ Cardinality(Player!Reserved) <= MaxMediaBytes

\* A drain that has begun stays begun, and one that succeeded has joined all tasks and readers.
DrainInv ==
    /\ shutdown.at # "idle" => shutdown.requested
    /\ shutdown.at = "ok" => ~broken /\ \A i \in Item : task[i] \in {"none", "done"} /\ reads[i] = 0

MediaInv ==
    /\ MediaTypeOK
    /\ \A i \in Item : RequestInv(i)
    /\ LimitInv /\ DrainInv

\* Seen through its own variables, the composition is a MediaService.
LEMMA MediaSpec == DesktopSpec => Player!Spec
<1>1. DesktopInit => Player!Init
  BY DEF DesktopInit
<1>2. UNCHANGED mediaVars <=> UNCHANGED Player!vars
  BY DEF mediaVars, Player!vars
<1>3. [DesktopNext]_<<focus, vars, manageVars, configVars, mediaVars>> => [Player!Next]_(Player!vars)
  BY <1>2 DEF DesktopNext
<1> QED
  BY <1>1, <1>3, PTL DEF DesktopSpec, Player!Spec

\* The steps of a task keep the types, file by file.
LEMMA DropTypes ==
    ASSUME MediaTypeOK, NEW i \in Item, Player!Drop(i)
    PROVE  /\ file' \in [Item -> {"none", "own", "orphan"}] /\ broken' \in BOOLEAN
           /\ \A j \in Item \ {i} : file'[j] = file[j]
           /\ file'[i] = "own" => file[i] = "own" /\ broken'
           /\ file[i] # "own" => file'[i] = file[i]
           /\ broken => broken'
<1>1. CASE file[i] = "own"
  <2>1. Player!Unlink(i)
    BY <1>1 DEF Player!Drop
  <2> QED
    BY <1>1, <2>1 DEF Player!Unlink, MediaTypeOK
<1>2. CASE file[i] # "own"
  BY <1>2 DEF Player!Drop, MediaTypeOK
<1> QED
  BY <1>1, <1>2

LEMMA TaskTypes ==
    ASSUME MediaTypeOK, NEW i \in Item, NEW at \in Steps
    PROVE  /\ Player!Goto(i, at) => task' \in [Item -> Steps] /\ task'[i] = at /\ \A j \in Item \ {i} : task'[j] = task[j]
           /\ Player!GotoAndNotify(i, at) =>
                /\ task' \in [Item -> Steps] /\ task'[i] = at
                /\ \A j \in Item \ {i} : task'[j] = IF task[j] = "blocked" THEN "reserve" ELSE task[j]
           /\ task' = Player!Notified(task) =>
                /\ task' \in [Item -> Steps]
                /\ \A j \in Item : task'[j] = IF task[j] = "blocked" THEN "reserve" ELSE task[j]
<1>1. "reserve" \in Steps
  BY DEF Steps
<1>2. task \in [Item -> Steps]
  BY DEF MediaTypeOK
<1> QED
  BY <1>1, <1>2 DEF Player!Goto, Player!GotoAndNotify, Player!Notified

LEMMA ItemTypes ==
    ASSUME MediaTypeOK, NEW i \in Item, NEW r \in Request, r.phase # "absent" => r.kind \in Player!Kind,
           item' = [item EXCEPT ![i] = r]
    PROVE  /\ item' \in [Item -> Request] /\ item'[i] = r /\ \A j \in Item \ {i} : item'[j] = item[j]
           /\ \A j \in Item : item'[j].phase # "absent" => item'[j].kind \in Player!Kind
<1> HIDE DEF Request
<1> QED
  BY DEF MediaTypeOK

LEMMA BytesAreNumbers == ASSUME MediaTypeOK, NEW j \in Item PROVE item[j].bytes \in Nat
  BY DEF MediaTypeOK, Request

\* Slots and bytes stay within the limits if they only shrink.
LEMMA LimitsShrink ==
    ASSUME LimitInv, item \in [Item -> Request], item' \in [Item -> Request],
           \A j \in Item : item'[j].bytes <= item[j].bytes,
           \A j \in Item : item'[j].phase \in {"downloading", "ready", "closing"} =>
                               item[j].phase \in {"downloading", "ready", "closing"}
    PROVE  LimitInv'
<1>1. Player!Windows' \subseteq Player!Windows
  BY DEF Player!Windows, Player!In
<1>2. Player!Reserved' \subseteq Player!Reserved
  <2> SUFFICES ASSUME NEW j \in Item, NEW n \in 1 .. item'[j].bytes PROVE <<j, n>> \in Player!Reserved
    BY DEF Player!Reserved
  <2>1. item[j].bytes \in Nat /\ item'[j].bytes \in Nat
    BY DEF Request
  <2>2. n \in 1 .. item[j].bytes
    BY <2>1
  <2> QED
    BY <2>2 DEF Player!Reserved
<1>3. MaxWindows \in Nat /\ MaxMediaBytes \in Nat
  BY MediaAssumption DEF Player!LimitsAssumption
<1>4. \A S, T : IsFiniteSet(T) /\ S \subseteq T => IsFiniteSet(S) /\ Cardinality(S) <= Cardinality(T) /\ Cardinality(S) \in Nat /\ Cardinality(T) \in Nat
  BY FS_Subset, FS_CardinalityType
<1> DEFINE W == Player!Windows  R == Player!Reserved
<1>5. IsFiniteSet(W') /\ Cardinality(W') <= MaxWindows
  BY <1>1, <1>3, <1>4 DEF LimitInv
<1>6. IsFiniteSet(R') /\ Cardinality(R') <= MaxMediaBytes
  BY <1>2, <1>3, <1>4 DEF LimitInv
<1> QED
  BY <1>5, <1>6 DEF LimitInv

LEMMA PlayerCounts == \A S : Player!Cardinality(S) = Cardinality(S)
  BY DEF Player!Cardinality, Cardinality, Player!IsFiniteSet, IsFiniteSet

\* Another request than the one a step is about.
Untouched(j) ==
    /\ item'[j] = item[j] /\ file'[j] = file[j] /\ reads'[j] = reads[j] /\ window'[j] = window[j]
    /\ task'[j] = task[j] \/ (task[j] = "blocked" /\ task'[j] = "reserve")
    /\ Asked(j)' => Asked(j)

LEMMA OthersStand ==
    ASSUME NEW j \in Item, RequestInv(j), Untouched(j), root' = root, broken => broken'
    PROVE  RequestInv(j)'
<1>1. EntryInv(j)'
  BY DEF RequestInv, EntryInv, Untouched, PhaseOf
<1>2. FileInv(j)'
  BY DEF RequestInv, FileInv, Untouched, Showing
<1>3. ReadInv(j)'
  BY DEF RequestInv, ReadInv, Untouched, Showing
<1>4. WindowInv(j)' /\ AskedInv(j)'
  BY DEF RequestInv, WindowInv, AskedInv, Untouched, Showing
<1> QED
  BY <1>1, <1>2, <1>3, <1>4 DEF RequestInv

\* A step of a task keeps the invariant if it keeps that of its own request.
LEMMA TaskKeeps ==
    ASSUME MediaInv, NEW i \in Item, task[i] \notin {"none", "done"}, MediaTypeOK', LimitInv',
           root' = root, broken => broken', shutdown' = shutdown,
           \A j \in Item \ {i} : Untouched(j),
           RequestInv(i)'
    PROVE  MediaInv'
<1>1. \A j \in Item \ {i} : RequestInv(j)'
  BY OthersStand DEF MediaInv
<1>2. DrainInv'
  BY DEF MediaInv, DrainInv
<1> QED
  BY <1>1, <1>2 DEF MediaInv

\* What the steps of a task that only move on leave as it is.
LEMMA AskedStands == ASSUME events' = events, adapter' = adapter PROVE \A j : Asked(j)' <=> Asked(j)
  BY DEF Asked

LEMMA ReserveStep == ASSUME MediaInv, NEW i \in Item, Player!Reserve(i) PROVE MediaInv'
<1> DEFINE r == [item[i] EXCEPT !.phase = IF item[i].preview THEN "ready" ELSE "downloading",
                                !.bytes = Player!Reservation(i)]
<1>1. /\ task[i] = "reserve" /\ item[i] \in Request /\ item[i].phase = "queued" /\ item[i].kind \in Player!Kind
      /\ MediaTypeOK /\ LimitInv /\ RequestInv(i)
  BY DEF MediaInv, MediaTypeOK, RequestInv, EntryInv, PhaseOf, Player!Reserve
<1>2. /\ UNCHANGED <<root, file, events, adapter, window, reads, active, broken, shutdown, faults>>
      /\ \A j : Asked(j)' <=> Asked(j)
  BY AskedStands DEF Player!Reserve
<1>3. CASE Player!Goto(i, "blocked") /\ UNCHANGED item
  <2>1. task' \in [Item -> Steps] /\ task'[i] = "blocked" /\ \A j \in Item \ {i} : task'[j] = task[j]
    BY <1>1, <1>3, TaskTypes DEF Steps
  <2>2. MediaTypeOK' /\ LimitInv'
    BY <1>1, <1>2, <1>3, <2>1 DEF MediaTypeOK, LimitInv, Player!Windows, Player!In, Player!Reserved
  <2>3. \A j \in Item \ {i} : Untouched(j)
    BY <1>2, <1>3, <2>1 DEF Untouched
  <2>4. RequestInv(i)'
    BY <1>1, <1>2, <1>3, <2>1 DEF RequestInv, EntryInv, FileInv, ReadInv, WindowInv, AskedInv, PhaseOf, Showing
  <2> QED
    BY <1>1, <1>2, <2>2, <2>3, <2>4, TaskKeeps
<1>4. CASE Player!Fits(i) /\ item' = [item EXCEPT ![i] = r]
           /\ Player!Goto(i, IF item[i].preview THEN "deliver" ELSE "create")
  <2>1. Player!Reservation(i) \in Nat /\ (~item[i].preview => Player!Reservation(i) >= 1)
    BY <1>1, MediaAssumption DEF Player!Reservation, Player!LimitsAssumption, Player!Kind
  <2>2. /\ r \in Request /\ r.bytes = Player!Reservation(i) /\ r.kind = item[i].kind /\ r.file = item[i].file
        /\ r.phase = (IF item[i].preview THEN "ready" ELSE "downloading") /\ r.retired = item[i].retired
    BY <1>1, <2>1 DEF Request, Phases
  <2> HIDE DEF r
  <2>3. /\ item' \in [Item -> Request] /\ item'[i] = r /\ \A j \in Item \ {i} : item'[j] = item[j]
        /\ \A j \in Item : item'[j].phase # "absent" => item'[j].kind \in Player!Kind
    BY <1>1, <1>4, <2>2, ItemTypes
  <2> DEFINE at == IF item[i].preview THEN "deliver" ELSE "create"
  <2>4. at \in Steps
    BY DEF Steps
  <2>5. task' \in [Item -> Steps] /\ task'[i] = at /\ \A j \in Item \ {i} : task'[j] = task[j]
    BY <1>1, <1>4, <2>4, TaskTypes
  <2>6. MediaTypeOK'
    BY <1>1, <1>2, <2>3, <2>5 DEF MediaTypeOK
  <2>7. \A j \in Item \ {i} : Untouched(j)
    BY <1>2, <2>3, <2>5 DEF Untouched
  <2>8. RequestInv(i)'
    BY <1>1, <1>2, <2>1, <2>2, <2>3, <2>5 DEF RequestInv, EntryInv, FileInv, ReadInv, WindowInv, AskedInv, PhaseOf, Showing
  <2>9. LimitInv'
    <3>1. MaxWindows \in Nat /\ MaxMediaBytes \in Nat
      BY MediaAssumption DEF Player!LimitsAssumption
    <3>2. /\ IsFiniteSet(Player!Windows) /\ Cardinality(Player!Windows) < MaxWindows
          /\ IsFiniteSet(Player!Reserved) /\ Cardinality(Player!Reserved) \in Nat
          /\ Cardinality(Player!Reserved) + Player!Reservation(i) <= MaxMediaBytes
      <4>1. IsFiniteSet(Player!Windows) /\ IsFiniteSet(Player!Reserved) /\ Cardinality(Player!Reserved) <= MaxMediaBytes
        BY <1>1 DEF LimitInv
      <4>2. Cardinality(Player!Reserved) \in Nat
        BY <4>1, FS_CardinalityType
      <4>3. CASE item[i].preview
        BY <1>4, <3>1, <4>1, <4>2, <4>3, PlayerCounts DEF Player!Fits, Player!Reservation
      <4>4. CASE ~item[i].preview
        BY <1>4, <4>1, <4>2, <4>4, PlayerCounts DEF Player!Fits
      <4> QED
        BY <4>3, <4>4
    <3>3. Player!Windows' \subseteq Player!Windows \cup {i}
      BY <2>3 DEF Player!Windows, Player!In
    <3> DEFINE new == {i} \X (1 .. Player!Reservation(i))
               W == Player!Windows
               R == Player!Reserved
    <3>4. R' \subseteq R \cup new
      BY <2>2, <2>3 DEF Player!Reserved
    <3>5. IsFiniteSet(new) /\ Cardinality(new) = Player!Reservation(i)
      <4>1. IsFiniteSet({i}) /\ Cardinality({i}) = 1
        BY FS_Singleton
      <4>2. IsFiniteSet(1 .. Player!Reservation(i)) /\ Cardinality(1 .. Player!Reservation(i)) = Player!Reservation(i)
        BY <2>1, FS_Interval
      <4>3. /\ IsFiniteSet(new)
            /\ Cardinality(new) = Cardinality({i}) * Cardinality(1 .. Player!Reservation(i))
        BY <4>1, <4>2, FS_Product
      <4> HIDE DEF new
      <4>4. 1 * Player!Reservation(i) = Player!Reservation(i)
        BY <2>1
      <4> QED
        BY <4>1, <4>2, <4>3, <4>4
    <3> HIDE DEF new, W, R
    <3>6. IsFiniteSet(W \cup {i}) /\ Cardinality(W \cup {i}) <= MaxWindows
      <4>1. IsFiniteSet(W) /\ Cardinality(W) < MaxWindows
        BY <3>2 DEF W
      <4>2. Cardinality(W) \in Nat
        BY <4>1, FS_CardinalityType
      <4>3. /\ IsFiniteSet(W \cup {i})
            /\ Cardinality(W \cup {i}) = IF i \in W THEN Cardinality(W) ELSE Cardinality(W) + 1
        BY <4>1, FS_AddElement
      <4> QED
        BY <3>1, <4>1, <4>2, <4>3
    <3>7. IsFiniteSet(R \cup new) /\ Cardinality(R \cup new) <= MaxMediaBytes
      <4>1. IsFiniteSet(R) /\ Cardinality(R) \in Nat /\ Cardinality(R) + Player!Reservation(i) <= MaxMediaBytes
        BY <3>2 DEF R
      <4>2. /\ IsFiniteSet(R \cup new)
            /\ Cardinality(R \cup new) = Cardinality(R) + Cardinality(new) - Cardinality(R \cap new)
        BY <3>5, <4>1, FS_Union
      <4>3. Cardinality(R \cap new) \in Nat
        BY <4>1, FS_Subset, FS_CardinalityType
      <4> QED
        BY <2>1, <3>1, <3>5, <4>1, <4>2, <4>3
    <3>8. IsFiniteSet(W') /\ Cardinality(W') <= MaxWindows
      <4>1. W' \in SUBSET (W \cup {i})
        BY <3>3 DEF W
      <4>2. IsFiniteSet(W') /\ Cardinality(W') <= Cardinality(W \cup {i})
        BY <3>6, <4>1, FS_Subset
      <4>3. Cardinality(W') \in Nat /\ Cardinality(W \cup {i}) \in Nat
        BY <3>6, <4>2, FS_CardinalityType
      <4> QED
        BY <3>1, <3>6, <4>2, <4>3
    <3>9. IsFiniteSet(R') /\ Cardinality(R') <= MaxMediaBytes
      <4>1. IsFiniteSet(R') /\ Cardinality(R') <= Cardinality(R \cup new)
        BY <3>4, <3>7, FS_Subset
      <4>2. Cardinality(R') \in Nat /\ Cardinality(R \cup new) \in Nat
        BY <3>7, <4>1, FS_CardinalityType
      <4> QED
        BY <3>1, <3>7, <4>1, <4>2
    <3> QED
      BY <3>8, <3>9 DEF LimitInv, W, R
  <2> QED
    BY <1>1, <1>2, <2>6, <2>7, <2>8, <2>9, TaskKeeps
<1> QED
  BY <1>1, <1>3, <1>4 DEF Player!Reserve, MediaTypeOK

\* The steps that only move the task on.
LEMMA MovesOn ==
    ASSUME MediaInv, NEW i \in Item, NEW at \in Steps,
           Player!Goto(i, at), UNCHANGED <<root, item, file, adapter, window, reads, broken, shutdown>>,
           \A j \in Item \ {i} : Asked(j)' => Asked(j),
           events' \in Seq({"ready", "close"} \X Item),
           task[i] \notin {"none", "done"},
           item[i].phase \in PhaseOf(at), at \in {"drain", "delete"} => item[i].retired,
           FileInv(i)', ReadInv(i)', WindowInv(i)', AskedInv(i)'
    PROVE  MediaInv'
<1>1. MediaTypeOK /\ LimitInv /\ RequestInv(i)
  BY DEF MediaInv
<1>2. task' \in [Item -> Steps] /\ task'[i] = at /\ \A j \in Item \ {i} : task'[j] = task[j]
  BY <1>1, TaskTypes
<1>3. MediaTypeOK' /\ LimitInv'
  BY <1>1, <1>2 DEF MediaTypeOK, LimitInv, Player!Windows, Player!In, Player!Reserved
<1>4. \A j \in Item \ {i} : Untouched(j)
  BY <1>2 DEF Untouched
<1>5. EntryInv(i)'
  BY <1>1, <1>2 DEF RequestInv, EntryInv
<1> QED
  BY <1>3, <1>4, <1>5, TaskKeeps DEF RequestInv

\* An event that is queued asks for one window at most.
LEMMA EventQueued ==
    ASSUME MediaTypeOK, adapter' = adapter, NEW kind \in {"ready", "close"}, NEW i \in Item,
           events' = Append(events, <<kind, i>>)
    PROVE  /\ events' \in Seq({"ready", "close"} \X Item)
           /\ \A j : Asked(j)' => Asked(j) \/ (kind = "ready" /\ j = i)
<1>1. events \in Seq({"ready", "close"} \X Item) /\ <<kind, i>> \in {"ready", "close"} \X Item
  BY DEF MediaTypeOK
<1>2. events' \in Seq({"ready", "close"} \X Item) /\ Len(events') = Len(events) + 1 /\ Len(events) \in Nat
  BY <1>1
<1>3. \A n \in 1 .. Len(events) : events'[n] = events[n]
  BY <1>1
<1>4. events'[Len(events) + 1] = <<kind, i>>
  BY <1>1
<1>5. ASSUME NEW j, Asked(j)' PROVE Asked(j) \/ (kind = "ready" /\ j = i)
  <2>1. CASE adapter.at = "ready" /\ j \in adapter.for
    BY <2>1 DEF Asked
  <2>2. ASSUME NEW n \in 1 .. Len(events'), events'[n] = <<"ready", j>>
        PROVE  Asked(j) \/ (kind = "ready" /\ j = i)
    <3>1. CASE n \in 1 .. Len(events)
      BY <1>3, <2>2, <3>1 DEF Asked
    <3>2. CASE n = Len(events) + 1
      BY <1>4, <2>2, <3>2
    <3> QED
      BY <1>2, <3>1, <3>2
  <2> QED
    BY <1>5, <2>1, <2>2 DEF Asked
<1> QED
  BY <1>2, <1>5

LEMMA GiveUpStep == ASSUME MediaInv, NEW i \in Item, Player!GiveUp(i) PROVE MediaInv'
<1>1. /\ task[i] \in {"reserve", "blocked"} /\ Player!Goto(i, "remove") /\ MediaTypeOK /\ RequestInv(i)
      /\ UNCHANGED <<root, item, file, events, adapter, window, reads, active, broken, shutdown, faults>>
      /\ \A j : Asked(j)' <=> Asked(j)
  BY AskedStands DEF MediaInv, Player!GiveUp
<1>2. task' \in [Item -> Steps] /\ task'[i] = "remove" /\ "remove" \in Steps
  BY <1>1, TaskTypes DEF Steps
<1>3. FileInv(i)' /\ ReadInv(i)' /\ WindowInv(i)' /\ AskedInv(i)'
  BY <1>1, <1>2 DEF RequestInv, FileInv, ReadInv, WindowInv, AskedInv, Showing
<1>4. item[i].phase \in PhaseOf("remove") /\ events' \in Seq({"ready", "close"} \X Item)
  BY <1>1 DEF RequestInv, EntryInv, PhaseOf, MediaTypeOK
<1> QED
  BY <1>1, <1>2, <1>3, <1>4, MovesOn

LEMMA CreateStep == ASSUME MediaInv, NEW i \in Item, Player!Create(i) PROVE MediaInv'
<1>1. /\ task[i] = "create" /\ MediaTypeOK /\ RequestInv(i) /\ LimitInv
      /\ UNCHANGED <<root, item, events, adapter, window, reads, active, shutdown>>
      /\ \A j : Asked(j)' <=> Asked(j)
  BY AskedStands DEF MediaInv, Player!Create
<1>2. PICK at \in {"transfer", "failed"} :
         /\ Player!Goto(i, at)
         /\ \/ at = "transfer" /\ file' = [file EXCEPT ![i] = "own"] /\ broken' = broken
            \/ at = "failed" /\ file' = file /\ broken' = broken
            \/ at = "failed" /\ file' = [file EXCEPT ![i] = "orphan"] /\ broken' = TRUE
  BY DEF Player!Create
<1>3. task' \in [Item -> Steps] /\ task'[i] = at /\ \A j \in Item \ {i} : task'[j] = task[j]
  BY <1>1, <1>2, TaskTypes DEF Steps
<1>4. /\ file' \in [Item -> {"none", "own", "orphan"}] /\ \A j \in Item \ {i} : file'[j] = file[j]
      /\ broken' \in BOOLEAN /\ (broken => broken')
      /\ at = "transfer" => file'[i] = "own"
      /\ at = "failed" => file'[i] = "orphan" \/ (file'[i] = file[i] /\ (broken => broken'))
  <2>1. file \in [Item -> {"none", "own", "orphan"}] /\ broken \in BOOLEAN
    BY <1>1 DEF MediaTypeOK
  <2>2. broken' \in BOOLEAN /\ (broken => broken')
    BY <1>2, <2>1
  <2>3. /\ file' \in [Item -> {"none", "own", "orphan"}] /\ \A j \in Item \ {i} : file'[j] = file[j]
        /\ at = "transfer" => file'[i] = "own"
        /\ at = "failed" => file'[i] = "orphan" \/ file'[i] = file[i]
    BY <1>2, <2>1
  <2> QED
    BY <2>2, <2>3
<1>5. MediaTypeOK' /\ LimitInv'
  BY <1>1, <1>3, <1>4 DEF MediaTypeOK, LimitInv, Player!Windows, Player!In, Player!Reserved
<1>6. \A j \in Item \ {i} : Untouched(j)
  BY <1>1, <1>3, <1>4 DEF Untouched
<1>7. RequestInv(i)'
  <2>1. EntryInv(i)' /\ WindowInv(i)' /\ AskedInv(i)'
    BY <1>1, <1>2, <1>3 DEF RequestInv, EntryInv, WindowInv, AskedInv, PhaseOf, Showing
  <2>2. FileInv(i)' /\ ReadInv(i)'
    BY <1>1, <1>2, <1>3, <1>4 DEF RequestInv, EntryInv, FileInv, ReadInv, Showing
  <2> QED
    BY <2>1, <2>2 DEF RequestInv
<1> QED
  BY <1>1, <1>4, <1>5, <1>6, <1>7, TaskKeeps

LEMMA TransferStep == ASSUME MediaInv, NEW i \in Item, Player!Transfer(i) PROVE MediaInv'
<1>1. /\ task[i] = "transfer" /\ MediaTypeOK /\ RequestInv(i) /\ LimitInv
      /\ UNCHANGED <<root, file, events, adapter, window, reads, active, broken, shutdown, faults>>
      /\ \A j : Asked(j)' <=> Asked(j)
  BY AskedStands DEF MediaInv, Player!Transfer
<1>2. ASSUME NEW at \in {"commit", "discard"}, Player!Goto(i, at), item' = item PROVE MediaInv'
  <2>1. task' \in [Item -> Steps] /\ task'[i] = at /\ at \in Steps
    BY <1>1, <1>2, TaskTypes DEF Steps
  <2>2. FileInv(i)' /\ ReadInv(i)' /\ WindowInv(i)' /\ AskedInv(i)'
    BY <1>1, <1>2, <2>1 DEF RequestInv, FileInv, ReadInv, WindowInv, AskedInv, Showing
  <2>3. item[i].phase \in PhaseOf(at) /\ events' \in Seq({"ready", "close"} \X Item)
    BY <1>1 DEF RequestInv, EntryInv, PhaseOf, MediaTypeOK
  <2> QED
    BY <1>1, <1>2, <2>1, <2>2, <2>3, MovesOn
<1>3. CASE item' = [item EXCEPT ![i].tries = @ + 1] /\ task' = task
  <2> DEFINE r == [item[i] EXCEPT !.tries = @ + 1]
  <2>1. item[i] \in Request /\ (item[i].phase # "absent" => item[i].kind \in Player!Kind)
    BY <1>1 DEF MediaTypeOK
  <2>2. /\ r \in Request /\ r.phase = item[i].phase /\ r.kind = item[i].kind /\ r.bytes = item[i].bytes
        /\ r.retired = item[i].retired /\ r.file = item[i].file /\ item[i].bytes \in Nat
    BY <2>1 DEF Request
  <2>3. item' = [item EXCEPT ![i] = r]
    BY <1>3
  <2> HIDE DEF r
  <2>4. /\ item' \in [Item -> Request] /\ item'[i] = r /\ \A j \in Item \ {i} : item'[j] = item[j]
        /\ \A j \in Item : item'[j].phase # "absent" => item'[j].kind \in Player!Kind
    BY <1>1, <2>1, <2>2, <2>3, ItemTypes
  <2>5. MediaTypeOK'
    BY <1>1, <1>3, <2>4 DEF MediaTypeOK
  <2>6. LimitInv'
    <3>1. \A j \in Item : item'[j].bytes <= item[j].bytes
      BY <1>1, <2>2, <2>4, BytesAreNumbers
    <3> QED
      BY <1>1, <2>2, <2>4, <3>1, LimitsShrink DEF MediaTypeOK
  <2>7. \A j \in Item \ {i} : Untouched(j)
    BY <1>1, <1>3, <2>4 DEF Untouched
  <2>8. RequestInv(i)'
    BY <1>1, <1>3, <2>2, <2>4 DEF RequestInv, EntryInv, FileInv, ReadInv, WindowInv, AskedInv, PhaseOf, Showing
  <2> QED
    BY <1>1, <2>5, <2>6, <2>7, <2>8, TaskKeeps
<1> QED
  BY <1>2, <1>3 DEF Player!Transfer

\* A file is dropped by the task that holds it, while nobody reads it.
LEMMA Dropped ==
    ASSUME MediaInv, NEW i \in Item, NEW at \in {"failed", "remove", "delete"},
           task[i] \in {"discard", "drop", "drain"}, reads[i] = 0 \/ task[i] # "drain",
           Player!Drop(i), Player!Goto(i, at),
           task[i] = "discard" <=> at = "failed", task[i] = "drop" <=> at = "remove",
           UNCHANGED <<root, item, events, adapter, window, reads, active, shutdown>>
    PROVE  MediaInv'
<1>1. /\ MediaTypeOK /\ RequestInv(i) /\ LimitInv /\ reads[i] \in Nat
      /\ \A j : Asked(j)' <=> Asked(j)
  BY AskedStands DEF MediaInv, MediaTypeOK
<1>2. task' \in [Item -> Steps] /\ task'[i] = at /\ \A j \in Item \ {i} : task'[j] = task[j]
  BY <1>1, TaskTypes DEF Steps
<1>3. /\ file' \in [Item -> {"none", "own", "orphan"}] /\ broken' \in BOOLEAN
      /\ \A j \in Item \ {i} : file'[j] = file[j]
      /\ file'[i] = "own" => file[i] = "own" /\ broken'
      /\ broken => broken'
  BY <1>1, DropTypes
<1>4. MediaTypeOK' /\ LimitInv'
  BY <1>1, <1>2, <1>3 DEF MediaTypeOK, LimitInv, Player!Windows, Player!In, Player!Reserved
<1>5. \A j \in Item \ {i} : Untouched(j)
  BY <1>1, <1>2, <1>3 DEF Untouched
<1>6. RequestInv(i)'
  <2>1. EntryInv(i)' /\ WindowInv(i)' /\ AskedInv(i)'
    BY <1>1, <1>2 DEF RequestInv, EntryInv, WindowInv, AskedInv, PhaseOf, Showing
  <2>2. ~item[i].file /\ ~(reads[i] > 0)
    BY <1>1 DEF RequestInv, FileInv, ReadInv, Showing
  <2>3. FileInv(i)' /\ ReadInv(i)'
    BY <1>1, <1>2, <1>3, <2>2 DEF RequestInv, FileInv, ReadInv
  <2> QED
    BY <2>1, <2>3 DEF RequestInv
<1> QED
  BY <1>3, <1>4, <1>5, <1>6, TaskKeeps

LEMMA DiscardSteps ==
    ASSUME MediaInv, NEW i \in Item, Player!Discard(i) \/ Player!DropUncommitted(i) \/ Player!Drain(i)
    PROVE  MediaInv'
<1>1. CASE Player!Discard(i)
  BY <1>1, Dropped DEF Player!Discard
<1>2. CASE Player!DropUncommitted(i)
  BY <1>2, Dropped DEF Player!DropUncommitted
<1>3. CASE Player!Drain(i)
  BY <1>3, Dropped DEF Player!Drain
<1> QED
  BY <1>1, <1>2, <1>3

\* A step of a task that changes its entry and keeps its file.
LEMMA EntryChanges ==
    ASSUME MediaInv, NEW i \in Item, NEW r \in Request, r.phase # "absent" => r.kind \in Player!Kind,
           item' = [item EXCEPT ![i] = r], task[i] \notin {"none", "done"},
           r.bytes <= item[i].bytes,
           r.phase \in {"downloading", "ready", "closing"} => item[i].phase \in {"downloading", "ready", "closing"},
           task' \in [Item -> Steps],
           \A j \in Item \ {i} : task'[j] = task[j] \/ (task[j] = "blocked" /\ task'[j] = "reserve"),
           UNCHANGED <<root, file, events, adapter, window, reads, broken, shutdown>>,
           EntryInv(i)', FileInv(i)', ReadInv(i)', WindowInv(i)', AskedInv(i)'
    PROVE  MediaInv'
<1>1. MediaTypeOK /\ LimitInv /\ \A j : Asked(j)' <=> Asked(j)
  BY AskedStands DEF MediaInv
<1>2. /\ item' \in [Item -> Request] /\ item'[i] = r /\ \A j \in Item \ {i} : item'[j] = item[j]
      /\ \A j \in Item : item'[j].phase # "absent" => item'[j].kind \in Player!Kind
  BY <1>1, ItemTypes
<1>3. MediaTypeOK'
  BY <1>1, <1>2 DEF MediaTypeOK
<1>4. \A j \in Item : item'[j].bytes <= item[j].bytes
  BY <1>1, <1>2, BytesAreNumbers
<1>5. LimitInv'
  BY <1>1, <1>2, <1>4, LimitsShrink DEF MediaTypeOK
<1>6. \A j \in Item \ {i} : Untouched(j)
  BY <1>1, <1>2 DEF Untouched
<1> QED
  BY <1>3, <1>5, <1>6, TaskKeeps DEF RequestInv

LEMMA CommitStep == ASSUME MediaInv, NEW i \in Item, Player!Commit(i) PROVE MediaInv'
<1>1. /\ task[i] \in {"commit", "failed"} /\ MediaTypeOK /\ RequestInv(i) /\ LimitInv
      /\ UNCHANGED <<root, file, events, adapter, window, reads, active, broken, shutdown, faults>>
      /\ \A j : Asked(j)' <=> Asked(j)
  BY AskedStands DEF MediaInv, Player!Commit
<1>2. item[i] \in Request /\ item[i].phase = "downloading" /\ item[i].kind \in Player!Kind /\ item[i].bytes >= 1 /\ item[i].bytes \in Nat
  BY <1>1, BytesAreNumbers DEF MediaTypeOK, RequestInv, EntryInv, PhaseOf
<1>3. ~item[i].file /\ ~(reads[i] > 0)
  BY <1>1 DEF RequestInv, FileInv, ReadInv, Showing
<1>4. CASE Player!GotoAndNotify(i, "drop") /\ item' = item
  <2>1. /\ task' \in [Item -> Steps] /\ task'[i] = "drop"
        /\ \A j \in Item \ {i} : task'[j] = IF task[j] = "blocked" THEN "reserve" ELSE task[j]
    BY <1>1, <1>4, TaskTypes DEF Steps
  <2>2. MediaTypeOK' /\ LimitInv'
    BY <1>1, <1>4, <2>1 DEF MediaTypeOK, LimitInv, Player!Windows, Player!In, Player!Reserved
  <2>3. \A j \in Item \ {i} : Untouched(j)
    BY <1>1, <1>4, <2>1 DEF Untouched
  <2>4. RequestInv(i)'
    BY <1>1, <1>3, <1>4, <2>1 DEF RequestInv, EntryInv, FileInv, ReadInv, WindowInv, AskedInv, PhaseOf, Showing
  <2> QED
    BY <1>1, <2>2, <2>3, <2>4, TaskKeeps
<1>5. ASSUME item' = [item EXCEPT ![i].phase = "ready", ![i].file = (task[i] = "commit"),
                                  ![i].bytes = IF task[i] = "commit" THEN 1 ELSE 0],
             Player!GotoAndNotify(i, "deliver")
      PROVE  MediaInv'
  <2> DEFINE r == [item[i] EXCEPT !.phase = "ready", !.file = (task[i] = "commit"),
                                  !.bytes = IF task[i] = "commit" THEN 1 ELSE 0]
  <2>1. /\ r \in Request /\ r.phase = "ready" /\ r.kind = item[i].kind /\ (r.file <=> task[i] = "commit")
        /\ r.bytes = (IF task[i] = "commit" THEN 1 ELSE 0) /\ r.retired = item[i].retired
    BY <1>2 DEF Request, Phases
  <2>2. item' = [item EXCEPT ![i] = r] /\ item \in [Item -> Request]
    BY <1>1, <1>5 DEF MediaTypeOK
  <2> HIDE DEF r
  <2>3. item'[i] = r /\ r.bytes <= item[i].bytes
    BY <1>2, <2>1, <2>2
  <2>4. /\ task' \in [Item -> Steps] /\ task'[i] = "deliver"
        /\ \A j \in Item \ {i} : task'[j] = IF task[j] = "blocked" THEN "reserve" ELSE task[j]
    BY <1>1, <1>5, TaskTypes DEF Steps
  <2>5. EntryInv(i)' /\ WindowInv(i)' /\ AskedInv(i)'
    BY <1>1, <2>1, <2>3, <2>4 DEF RequestInv, EntryInv, WindowInv, AskedInv, PhaseOf, Showing
  <2>6. FileInv(i)' /\ ReadInv(i)'
    BY <1>1, <1>3, <2>1, <2>3, <2>4 DEF RequestInv, FileInv, ReadInv, Showing
  <2> QED
    BY <1>1, <1>2, <2>1, <2>2, <2>3, <2>4, <2>5, <2>6, EntryChanges
<1> QED
  BY <1>4, <1>5 DEF Player!Commit

LEMMA DeliverStep == ASSUME MediaInv, NEW i \in Item, Player!Deliver(i) PROVE MediaInv'
<1>1. /\ task[i] = "deliver" /\ MediaTypeOK /\ RequestInv(i)
      /\ UNCHANGED <<root, item, file, adapter, window, reads, active, broken, shutdown, faults>>
  BY DEF MediaInv, Player!Deliver
<1>2. item[i].phase = "ready" /\ ~(reads[i] > 0) /\ window[i] = "none" /\ ~Asked(i)
  BY <1>1 DEF RequestInv, EntryInv, ReadInv, WindowInv, AskedInv, PhaseOf, Showing
<1>3. CASE Player!Goto(i, "remove") /\ events' = events
  <2>1. task' \in [Item -> Steps] /\ task'[i] = "remove" /\ "remove" \in Steps
    BY <1>1, <1>3, TaskTypes DEF Steps
  <2>2. \A j : Asked(j)' <=> Asked(j)
    BY <1>1, <1>3, AskedStands
  <2>3. FileInv(i)' /\ ReadInv(i)' /\ WindowInv(i)' /\ AskedInv(i)'
    BY <1>1, <1>2, <2>1, <2>2 DEF RequestInv, FileInv, ReadInv, WindowInv, AskedInv, Showing
  <2>4. item[i].phase \in PhaseOf("remove") /\ events' \in Seq({"ready", "close"} \X Item)
    BY <1>1, <1>2, <1>3 DEF PhaseOf, MediaTypeOK
  <2> QED
    BY <1>1, <1>3, <2>1, <2>2, <2>3, <2>4, MovesOn
<1>4. CASE events' = Append(events, <<"ready", i>>) /\ Player!Goto(i, "present")
  <2>1. task' \in [Item -> Steps] /\ task'[i] = "present" /\ "present" \in Steps
    BY <1>1, <1>4, TaskTypes DEF Steps
  <2>2. events' \in Seq({"ready", "close"} \X Item) /\ \A j \in Item \ {i} : Asked(j)' => Asked(j)
    BY <1>1, <1>4, EventQueued
  <2>3. FileInv(i)' /\ ReadInv(i)' /\ WindowInv(i)' /\ AskedInv(i)'
    BY <1>1, <1>2, <2>1 DEF RequestInv, FileInv, ReadInv, WindowInv, AskedInv, Showing
  <2>4. item[i].phase \in PhaseOf("present")
    BY <1>2 DEF PhaseOf
  <2> QED
    BY <1>1, <1>4, <2>1, <2>2, <2>3, <2>4, MovesOn
<1> QED
  BY <1>3, <1>4 DEF Player!Deliver

LEMMA SendCloseStep == ASSUME MediaInv, NEW i \in Item, Player!SendClose(i) PROVE MediaInv'
<1>1. /\ task[i] = "close" /\ MediaTypeOK /\ RequestInv(i)
      /\ events' = Append(events, <<"close", i>>) /\ Player!Goto(i, "acknowledge")
      /\ UNCHANGED <<root, item, file, adapter, window, reads, active, broken, shutdown, faults>>
  BY DEF MediaInv, Player!SendClose
<1>2. task' \in [Item -> Steps] /\ task'[i] = "acknowledge" /\ "acknowledge" \in Steps
  BY <1>1, TaskTypes DEF Steps
<1>3. events' \in Seq({"ready", "close"} \X Item) /\ \A j : Asked(j)' => Asked(j)
  BY <1>1, EventQueued
<1>4. FileInv(i)' /\ ReadInv(i)' /\ WindowInv(i)' /\ AskedInv(i)'
  BY <1>1, <1>2, <1>3 DEF RequestInv, FileInv, ReadInv, WindowInv, AskedInv, Showing
<1>5. item[i].phase \in PhaseOf("acknowledge")
  BY <1>1 DEF RequestInv, EntryInv, PhaseOf
<1> QED
  BY <1>1, <1>2, <1>3, <1>4, <1>5, MovesOn

LEMMA AcknowledgedStep == ASSUME MediaInv, NEW i \in Item, Player!Acknowledged(i) PROVE MediaInv'
<1>1. /\ task[i] = "acknowledge" /\ item[i].retired /\ Player!Goto(i, "remove") /\ MediaTypeOK /\ RequestInv(i)
      /\ UNCHANGED <<root, item, file, events, adapter, window, reads, active, broken, shutdown, faults>>
      /\ \A j : Asked(j)' <=> Asked(j)
  BY AskedStands DEF MediaInv, Player!Acknowledged
<1>2. task' \in [Item -> Steps] /\ task'[i] = "remove" /\ "remove" \in Steps
  BY <1>1, TaskTypes DEF Steps
<1>3. FileInv(i)' /\ ReadInv(i)' /\ WindowInv(i)' /\ AskedInv(i)'
  BY <1>1, <1>2 DEF RequestInv, FileInv, ReadInv, WindowInv, AskedInv, Showing
<1>4. item[i].phase \in PhaseOf("remove") /\ events' \in Seq({"ready", "close"} \X Item)
  BY <1>1 DEF RequestInv, EntryInv, PhaseOf, MediaTypeOK
<1> QED
  BY <1>1, <1>2, <1>3, <1>4, MovesOn

LEMMA EndPresentingStep == ASSUME MediaInv, NEW i \in Item, Player!EndPresenting(i) PROVE MediaInv'
<1> DEFINE at == IF item[i].retired THEN "remove" ELSE "close"
           r == [item[i] EXCEPT !.phase = IF item[i].preview THEN "closing" ELSE @]
<1>1. /\ task[i] = "present" /\ MediaTypeOK /\ RequestInv(i)
      /\ item' = [item EXCEPT ![i] = r] /\ Player!Goto(i, at)
      /\ UNCHANGED <<root, file, events, adapter, window, reads, active, broken, shutdown, faults>>
      /\ \A j : Asked(j)' <=> Asked(j)
  BY AskedStands DEF MediaInv, MediaTypeOK, Player!EndPresenting
<1>2. /\ item[i] \in Request /\ item[i].phase \in {"ready", "closing"} /\ item[i].kind \in Player!Kind
      /\ item[i].bytes \in Nat /\ item \in [Item -> Request]
  BY <1>1, BytesAreNumbers DEF MediaTypeOK, RequestInv, EntryInv, PhaseOf
<1>3. /\ r \in Request /\ r.phase \in {"ready", "closing"} /\ r.kind = item[i].kind /\ r.bytes = item[i].bytes
      /\ r.retired = item[i].retired /\ r.file = item[i].file
  BY <1>2 DEF Request, Phases
<1> HIDE DEF r
<1>4. item'[i] = r /\ r.bytes <= item[i].bytes
  BY <1>1, <1>2, <1>3
<1>5. /\ task' \in [Item -> Steps] /\ task'[i] = at
      /\ \A j \in Item \ {i} : task'[j] = task[j]
  BY <1>1, TaskTypes DEF Steps
<1>6. EntryInv(i)' /\ FileInv(i)' /\ ReadInv(i)' /\ WindowInv(i)' /\ AskedInv(i)'
  BY <1>1, <1>2, <1>3, <1>4, <1>5 DEF RequestInv, EntryInv, FileInv, ReadInv, WindowInv, AskedInv, PhaseOf, Showing
<1>7. \A j \in Item \ {i} : task'[j] = task[j] \/ (task[j] = "blocked" /\ task'[j] = "reserve")
  BY <1>5
<1> QED
  BY <1>1, <1>2, <1>3, <1>4, <1>5, <1>6, <1>7, EntryChanges

LEMMA RemoveStep == ASSUME MediaInv, NEW i \in Item, Player!Remove(i) PROVE MediaInv'
<1> DEFINE at == IF item[i].file THEN "drain" ELSE "delete"
           r == [item[i] EXCEPT !.retired = TRUE, !.file = FALSE]
<1>1. /\ task[i] = "remove" /\ MediaTypeOK /\ RequestInv(i)
      /\ item' = [item EXCEPT ![i] = r] /\ Player!Goto(i, at)
      /\ UNCHANGED <<root, file, events, adapter, window, reads, active, broken, shutdown, faults>>
      /\ \A j : Asked(j)' <=> Asked(j)
  BY AskedStands DEF MediaInv, MediaTypeOK, Player!Remove
<1>2. /\ item[i] \in Request /\ item[i].phase # "absent" /\ item[i].kind \in Player!Kind
      /\ item[i].bytes \in Nat /\ item \in [Item -> Request]
  BY <1>1, BytesAreNumbers DEF MediaTypeOK, RequestInv, EntryInv, PhaseOf
<1>3. /\ r \in Request /\ r.phase = item[i].phase /\ r.kind = item[i].kind /\ r.bytes = item[i].bytes
      /\ r.retired /\ ~r.file
  BY <1>2 DEF Request
<1> HIDE DEF r
<1>4. item'[i] = r /\ r.bytes <= item[i].bytes
  BY <1>1, <1>2, <1>3
<1>5. task' \in [Item -> Steps] /\ task'[i] = at /\ \A j \in Item \ {i} : task'[j] = task[j]
  BY <1>1, TaskTypes DEF Steps
<1>6. EntryInv(i)' /\ FileInv(i)' /\ ReadInv(i)' /\ WindowInv(i)' /\ AskedInv(i)'
  BY <1>1, <1>2, <1>3, <1>4, <1>5 DEF RequestInv, EntryInv, FileInv, ReadInv, WindowInv, AskedInv, PhaseOf, Showing
<1>7. \A j \in Item \ {i} : task'[j] = task[j] \/ (task[j] = "blocked" /\ task'[j] = "reserve")
  BY <1>5
<1> QED
  BY <1>1, <1>2, <1>3, <1>4, <1>5, <1>6, <1>7, EntryChanges

LEMMA NothingIsARequest ==
    /\ Player!NoItem \in Request /\ Player!NoItem.phase = "absent" /\ Player!NoItem.bytes = 0
    /\ ~Player!NoItem.file /\ ~Player!NoItem.retired
  BY DEF Request, Phases, Player!NoItem, Player!None

LEMMA DeleteStep == ASSUME MediaInv, NEW i \in Item, Player!Delete(i) PROVE MediaInv'
<1>1. /\ task[i] = "delete" /\ MediaTypeOK /\ RequestInv(i)
      /\ item' = [item EXCEPT ![i] = Player!NoItem] /\ Player!GotoAndNotify(i, "done")
      /\ UNCHANGED <<root, file, events, adapter, window, reads, active, broken, shutdown, faults>>
      /\ \A j : Asked(j)' <=> Asked(j)
  BY AskedStands DEF MediaInv, Player!Delete
<1>2. item[i].bytes \in Nat /\ item'[i] = Player!NoItem
  BY <1>1, BytesAreNumbers DEF MediaTypeOK
<1>3. ~item[i].file /\ ~(reads[i] > 0) /\ window[i] = "none" /\ item[i].retired
  BY <1>1 DEF RequestInv, FileInv, ReadInv, WindowInv, EntryInv, Showing
<1>4. /\ task' \in [Item -> Steps] /\ task'[i] = "done"
      /\ \A j \in Item \ {i} : task'[j] = IF task[j] = "blocked" THEN "reserve" ELSE task[j]
  BY <1>1, TaskTypes DEF Steps
<1>5. EntryInv(i)' /\ FileInv(i)' /\ ReadInv(i)' /\ WindowInv(i)' /\ AskedInv(i)'
  <2>1. EntryInv(i)'
    BY <1>1, <1>2, <1>4, NothingIsARequest DEF RequestInv, EntryInv, PhaseOf
  <2>2. FileInv(i)' /\ ReadInv(i)'
    BY <1>1, <1>2, <1>3, <1>4, NothingIsARequest DEF RequestInv, FileInv, ReadInv
  <2>3. WindowInv(i)' /\ AskedInv(i)'
    BY <1>1, <1>3, <1>4 DEF WindowInv, AskedInv
  <2> QED
    BY <2>1, <2>2, <2>3
<1>6. \A j \in Item \ {i} : task'[j] = task[j] \/ (task[j] = "blocked" /\ task'[j] = "reserve")
  BY <1>4
<1>7. /\ Player!NoItem.bytes <= item[i].bytes
      /\ Player!NoItem.phase \notin {"downloading", "ready", "closing"}
  BY <1>2, NothingIsARequest
<1> QED
  BY <1>1, <1>4, <1>5, <1>6, <1>7, NothingIsARequest, EntryChanges

\* What is not a step of a task: each request is left alone or keeps its invariant.
LEMMA NativeKeeps ==
    ASSUME MediaInv, MediaTypeOK', LimitInv', DrainInv', root' = root, broken => broken',
           \A j \in Item : Untouched(j) \/ RequestInv(j)'
    PROVE  MediaInv'
<1>1. \A j \in Item : RequestInv(j)'
  BY OthersStand DEF MediaInv
<1> QED
  BY <1>1 DEF MediaInv

LEMMA SubmitStep ==
    ASSUME MediaInv, NEW i \in Item, NEW preview \in BOOLEAN, NEW kind \in Player!Kind,
           NEW camera \in {Player!None} \cup {{c} : c \in Camera}, Player!Submit(i, preview, kind, camera)
    PROVE  MediaInv'
<1> DEFINE r == [Player!NoItem EXCEPT !.phase = "queued", !.preview = preview, !.kind = kind, !.camera = camera]
<1>1. /\ item[i].phase = "absent" /\ task[i] = "none" /\ file[i] # "own" /\ ~shutdown.requested /\ root
      /\ item' = [item EXCEPT ![i] = r] /\ Player!Goto(i, "reserve")
      /\ UNCHANGED <<root, file, events, adapter, window, reads, active, broken, shutdown, faults>>
      /\ \A j : Asked(j)' <=> Asked(j)
      /\ MediaTypeOK /\ RequestInv(i) /\ LimitInv /\ DrainInv
  BY AskedStands DEF MediaInv, Player!Submit, Player!Closing
<1>2. /\ r \in Request /\ r.phase = "queued" /\ r.kind = kind /\ r.bytes = 0 /\ ~r.file
  BY DEF Request, Phases, Player!NoItem, Player!None
<1> HIDE DEF r
<1>3. /\ item' \in [Item -> Request] /\ item'[i] = r /\ \A j \in Item \ {i} : item'[j] = item[j]
      /\ \A j \in Item : item'[j].phase # "absent" => item'[j].kind \in Player!Kind
  BY <1>1, <1>2, ItemTypes
<1>4. task' \in [Item -> Steps] /\ task'[i] = "reserve" /\ \A j \in Item \ {i} : task'[j] = task[j]
  BY <1>1, TaskTypes DEF Steps
<1>5. MediaTypeOK'
  BY <1>1, <1>3, <1>4 DEF MediaTypeOK
<1>6. LimitInv'
  <2>1. \A j \in Item : item'[j].bytes <= item[j].bytes
    BY <1>1, <1>2, <1>3, BytesAreNumbers
  <2> QED
    BY <1>1, <1>2, <1>3, <2>1, LimitsShrink DEF MediaTypeOK
<1>7. \A j \in Item \ {i} : Untouched(j)
  BY <1>1, <1>3, <1>4 DEF Untouched
<1>8. RequestInv(i)'
  BY <1>1, <1>2, <1>3, <1>4 DEF RequestInv, EntryInv, FileInv, ReadInv, WindowInv, AskedInv, PhaseOf, Showing
<1>9. DrainInv'
  BY <1>1 DEF DrainInv
<1> QED
  BY <1>1, <1>5, <1>6, <1>7, <1>8, <1>9, NativeKeeps

LEMMA TakeStep == ASSUME MediaInv, Player!Take PROVE MediaInv'
<1>1. /\ events # <<>> /\ adapter' = [at |-> Head(events)[1], for |-> {Head(events)[2]}] /\ events' = Tail(events)
      /\ UNCHANGED <<root, item, task, file, window, reads, active, broken, shutdown, faults>>
      /\ MediaTypeOK /\ LimitInv /\ DrainInv
  BY DEF MediaInv, Player!Take
<1>2. events \in Seq({"ready", "close"} \X Item)
  BY <1>1 DEF MediaTypeOK
<1>3. /\ Head(events) = events[1] /\ 1 \in 1 .. Len(events) /\ Len(events') = Len(events) - 1 /\ Len(events) \in Nat
      /\ events' \in Seq({"ready", "close"} \X Item)
      /\ \A n \in 1 .. Len(events') : events'[n] = events[n + 1]
  BY <1>1, <1>2
<1>4. events[1] \in {"ready", "close"} \X Item
  BY <1>2, <1>3
<1>5. MediaTypeOK'
  BY <1>1, <1>3, <1>4 DEF MediaTypeOK
<1>6. ASSUME NEW j \in Item, Asked(j)' PROVE Asked(j)
  <2>1. CASE adapter'.at = "ready" /\ j \in adapter'.for
    <3>1. events[1] = <<"ready", j>>
      BY <1>1, <1>3, <1>4, <2>1
    <3> QED
      BY <1>3, <3>1 DEF Asked
  <2>2. ASSUME NEW n \in 1 .. Len(events'), events'[n] = <<"ready", j>> PROVE Asked(j)
    <3>1. n + 1 \in 1 .. Len(events) /\ events[n + 1] = <<"ready", j>>
      BY <1>3, <2>2
    <3> QED
      BY <3>1 DEF Asked
  <2> QED
    BY <1>6, <2>1, <2>2 DEF Asked
<1>7. LimitInv' /\ DrainInv' /\ \A j \in Item : Untouched(j)
  BY <1>1, <1>6 DEF LimitInv, DrainInv, Untouched, Player!Windows, Player!In, Player!Reserved
<1> QED
  BY <1>1, <1>5, <1>7, NativeKeeps

\* The adapter that is through with an event asks for nothing more.
LEMMA AdapterAsks == ASSUME events' = events, adapter'.at # "ready" \/ adapter' = adapter PROVE \A j : Asked(j)' => Asked(j)
  BY DEF Asked

LEMMA OpenWindowStep == ASSUME MediaInv, Player!OpenWindow PROVE MediaInv'
<1>1. PICK i \in adapter.for :
         \/ Player!WindowActive(i) /\ window' = [window EXCEPT ![i] = "hidden"] /\ adapter' = [adapter EXCEPT !.at = "recheck"]
         \/ window' = window /\ adapter' = [adapter EXCEPT !.at = "failed"]
  BY DEF Player!OpenWindow
<1>2. /\ adapter.at = "ready" /\ MediaTypeOK /\ LimitInv /\ DrainInv
      /\ UNCHANGED <<root, item, task, file, events, reads, active, broken, shutdown>>
  BY DEF MediaInv, Player!OpenWindow
<1>3. i \in Item /\ Asked(i)
  BY <1>1, <1>2 DEF MediaTypeOK, Asked
<1>4. /\ adapter' \in [at : {"idle", "ready", "close", "recheck", "failed"}, for : SUBSET Item] /\ adapter'.at # "ready"
      /\ window' \in [Item -> {"none", "hidden", "visible", "dying"}]
  BY <1>1, <1>2, <1>3 DEF MediaTypeOK
<1>5. MediaTypeOK' /\ LimitInv' /\ DrainInv'
  BY <1>2, <1>4 DEF MediaTypeOK, LimitInv, DrainInv, Player!Windows, Player!In, Player!Reserved
<1>6. \A j : Asked(j)' => Asked(j)
  BY <1>2, <1>4, AdapterAsks
<1>7. \A j \in Item : window'[j] = window[j] => Untouched(j)
  BY <1>2, <1>6 DEF Untouched
<1>8. ASSUME NEW j \in Item, window'[j] # window[j] PROVE RequestInv(j)'
  <2>1. j = i /\ Player!WindowActive(i)
    BY <1>1, <1>2, <1>8 DEF MediaTypeOK
  <2>2. task[i] \in Showing /\ ~item[i].retired /\ RequestInv(i)
    BY <1>3, <2>1 DEF MediaInv, RequestInv, EntryInv, AskedInv, Player!WindowActive, PhaseOf
  <2> QED
    BY <1>2, <1>6, <2>1, <2>2 DEF RequestInv, EntryInv, FileInv, ReadInv, WindowInv, AskedInv
<1> QED
  BY <1>2, <1>5, <1>7, <1>8, NativeKeeps

LEMMA RecheckStep == ASSUME MediaInv, Player!Recheck PROVE MediaInv'
<1>1. /\ adapter.at = "recheck" /\ MediaTypeOK /\ LimitInv /\ DrainInv
      /\ adapter' \in {Player!Quiet, [adapter EXCEPT !.at = "failed"]}
      /\ UNCHANGED <<root, item, task, file, events, window, reads, active, broken, shutdown, faults>>
  BY DEF MediaInv, Player!Recheck
<1>2. /\ adapter' \in [at : {"idle", "ready", "close", "recheck", "failed"}, for : SUBSET Item] /\ adapter'.at # "ready"
  BY <1>1 DEF MediaTypeOK, Player!Quiet, Player!None
<1>3. \A j : Asked(j)' => Asked(j)
  BY <1>1, <1>2, AdapterAsks
<1>4. MediaTypeOK' /\ LimitInv' /\ DrainInv' /\ \A j \in Item : Untouched(j)
  BY <1>1, <1>2, <1>3 DEF MediaTypeOK, LimitInv, DrainInv, Untouched, Player!Windows, Player!In, Player!Reserved
<1> QED
  BY <1>1, <1>4, NativeKeeps

\* A request whose window is known to be gone.
LEMMA Retires ==
    ASSUME MediaInv, NEW i \in Item, Player!Retire(i), task' = Player!Notified(task),
           window' \in [Item -> {"none", "hidden", "visible", "dying"}], window'[i] = "none",
           \A j \in Item \ {i} : window'[j] = window[j],
           adapter' = adapter \/ adapter' = Player!Quiet,
           UNCHANGED <<root, file, events, reads, active, broken, shutdown>>
    PROVE  MediaInv'
<1> DEFINE r == [item[i] EXCEPT !.retired = (item[i].phase # "absent")]
<1>1. MediaTypeOK /\ LimitInv /\ DrainInv /\ RequestInv(i)
  BY DEF MediaInv
<1>2. item[i] \in Request /\ item[i].bytes \in Nat /\ (item[i].phase # "absent" => item[i].kind \in Player!Kind)
  BY <1>1, BytesAreNumbers DEF MediaTypeOK
<1>3. /\ r \in Request /\ r.phase = item[i].phase /\ r.kind = item[i].kind /\ r.bytes = item[i].bytes
      /\ (item[i].phase # "absent" => r.retired) /\ r.file = item[i].file
  BY <1>2 DEF Request
<1>4. item' = [item EXCEPT ![i] = r]
  BY DEF Player!Retire
<1> HIDE DEF r
<1>5. /\ item' \in [Item -> Request] /\ item'[i] = r /\ \A j \in Item \ {i} : item'[j] = item[j]
      /\ \A j \in Item : item'[j].phase # "absent" => item'[j].kind \in Player!Kind
  BY <1>1, <1>2, <1>3, <1>4, ItemTypes
<1>6. task' \in [Item -> Steps] /\ \A j \in Item : task'[j] = IF task[j] = "blocked" THEN "reserve" ELSE task[j]
  BY <1>1, TaskTypes DEF Steps
<1>7. /\ adapter' \in [at : {"idle", "ready", "close", "recheck", "failed"}, for : SUBSET Item]
      /\ adapter'.at # "ready" \/ adapter' = adapter
  BY <1>1 DEF MediaTypeOK, Player!Quiet, Player!None
<1>8. MediaTypeOK'
  BY <1>1, <1>5, <1>6, <1>7 DEF MediaTypeOK
<1>9. LimitInv'
  <2>1. \A j \in Item : item'[j].bytes <= item[j].bytes
    BY <1>1, <1>2, <1>3, <1>5, BytesAreNumbers
  <2> QED
    BY <1>1, <1>3, <1>5, <2>1, LimitsShrink DEF MediaTypeOK
<1>10. DrainInv'
  BY <1>1, <1>6 DEF DrainInv
<1>11. \A j : Asked(j)' => Asked(j)
  BY <1>7, AdapterAsks
<1>12. \A j \in Item \ {i} : Untouched(j)
  BY <1>5, <1>6, <1>11 DEF Untouched
<1>13. RequestInv(i)'
  <2>1. EntryInv(i)'
    BY <1>1, <1>3, <1>5, <1>6 DEF RequestInv, EntryInv, PhaseOf
  <2>2. FileInv(i)' /\ ReadInv(i)'
    BY <1>1, <1>3, <1>5, <1>6 DEF RequestInv, FileInv, ReadInv, Showing
  <2>3. WindowInv(i)' /\ AskedInv(i)'
    BY <1>1, <1>3, <1>5, <1>6, <1>11 DEF RequestInv, EntryInv, WindowInv, AskedInv, Showing, PhaseOf
  <2> QED
    BY <2>1, <2>2, <2>3 DEF RequestInv
<1> QED
  BY <1>8, <1>9, <1>10, <1>12, <1>13, NativeKeeps

\* A request that is not yet gone: its window, and whether the system refused to close it, change.
LEMMA WindowChanges ==
    ASSUME MediaInv, NEW i \in Item, NEW r \in Request, item' = [item EXCEPT ![i] = r],
           r.kind = item[i].kind, r.bytes = item[i].bytes, r.retired = item[i].retired, r.file = item[i].file,
           r.phase = item[i].phase \/ (item[i].phase = "ready" /\ r.phase = "closing" /\ task[i] \in Showing),
           NEW w \in {"hidden", "visible", "dying"}, window' = [window EXCEPT ![i] = w],
           window[i] # "none",
           adapter' = adapter \/ adapter' = Player!Quiet,
           shutdown' = shutdown \/ shutdown' = [shutdown EXCEPT !.failed = (shutdown.at \in {"retry", "join"})],
           UNCHANGED <<root, task, file, events, reads, active, broken>>
    PROVE  MediaInv'
<1>1. MediaTypeOK /\ LimitInv /\ DrainInv /\ RequestInv(i) /\ item[i].bytes \in Nat
  BY BytesAreNumbers DEF MediaInv
<1>2. r.phase # "absent" => r.kind \in Player!Kind
  BY <1>1 DEF MediaTypeOK
<1>3. /\ item' \in [Item -> Request] /\ item'[i] = r /\ \A j \in Item \ {i} : item'[j] = item[j]
      /\ \A j \in Item : item'[j].phase # "absent" => item'[j].kind \in Player!Kind
  BY <1>1, <1>2, ItemTypes
<1>4. /\ adapter' \in [at : {"idle", "ready", "close", "recheck", "failed"}, for : SUBSET Item]
      /\ adapter'.at # "ready" \/ adapter' = adapter
  BY <1>1 DEF MediaTypeOK, Player!Quiet, Player!None
<1>5. /\ window' \in [Item -> {"none", "hidden", "visible", "dying"}]
      /\ \A j \in Item \ {i} : window'[j] = window[j]
  BY <1>1 DEF MediaTypeOK
<1>6. /\ shutdown' \in [at : {"idle", "retry", "join", "failed", "ok"}, retry : SUBSET Item,
                        failed : BOOLEAN, requested : BOOLEAN]
      /\ shutdown'.at = shutdown.at /\ shutdown'.requested = shutdown.requested
  <2> DEFINE S == [at : {"idle", "retry", "join", "failed", "ok"}, retry : SUBSET Item,
                   failed : BOOLEAN, requested : BOOLEAN]
  <2>1. shutdown \in S
    BY <1>1 DEF MediaTypeOK
  <2>2. \A b \in BOOLEAN : LET s == [shutdown EXCEPT !.failed = b] IN
            s \in S /\ s.at = shutdown.at /\ s.requested = shutdown.requested
    BY <2>1
  <2>3. (shutdown.at \in {"retry", "join"}) \in BOOLEAN
    OBVIOUS
  <2> QED
    BY <2>1, <2>2, <2>3
<1>7. MediaTypeOK'
  BY <1>1, <1>3, <1>4, <1>5, <1>6 DEF MediaTypeOK
<1>8. LimitInv'
  <2>1. \A j \in Item : item'[j].bytes <= item[j].bytes
    BY <1>1, <1>3, BytesAreNumbers
  <2> QED
    BY <1>1, <1>3, <2>1, LimitsShrink DEF MediaTypeOK
<1>9. DrainInv'
  BY <1>1, <1>6 DEF DrainInv
<1>10. \A j : Asked(j)' => Asked(j)
  BY <1>4, AdapterAsks
<1>11. \A j \in Item \ {i} : Untouched(j)
  BY <1>3, <1>5, <1>10 DEF Untouched
<1>12. RequestInv(i)'
  <2>1. task[i] \in Showing /\ ~item[i].retired
    BY <1>1 DEF RequestInv, WindowInv
  <2>2. EntryInv(i)' /\ WindowInv(i)' /\ AskedInv(i)'
    BY <1>1, <1>3, <2>1 DEF RequestInv, EntryInv, WindowInv, AskedInv, PhaseOf, Showing
  <2>3. FileInv(i)' /\ ReadInv(i)'
    BY <1>1, <1>3 DEF RequestInv, FileInv, ReadInv
  <2> QED
    BY <2>2, <2>3 DEF RequestInv
<1> QED
  BY <1>7, <1>8, <1>9, <1>11, <1>12, NativeKeeps

LEMMA CloseWindowStep == ASSUME MediaInv, Player!CloseWindow PROVE MediaInv'
<1>1. PICK i \in adapter.for :
         IF window[i] # "none" THEN Player!Destroy(i) /\ UNCHANGED task
         ELSE /\ Player!Retire(i) /\ task' = Player!Notified(task)
              /\ UNCHANGED <<window, shutdown, faults>>
  BY DEF Player!CloseWindow
<1>2. adapter' = Player!Quiet /\ UNCHANGED <<root, file, events, reads, active, broken>>
  BY DEF Player!CloseWindow
<1>3. i \in Item /\ MediaTypeOK
  BY <1>1 DEF MediaInv, MediaTypeOK
<1>4. CASE window[i] = "none"
  BY <1>1, <1>2, <1>3, <1>4, Retires DEF MediaTypeOK
<1>5. CASE window[i] # "none"
  <2>1. item[i] \in Request /\ item = [item EXCEPT ![i] = item[i]] /\ window = [window EXCEPT ![i] = window[i]]
        /\ window[i] \in {"hidden", "visible", "dying"}
    BY <1>3, <1>5 DEF MediaTypeOK
  <2>2. CASE window' = [window EXCEPT ![i] = "dying"] /\ UNCHANGED <<item, shutdown>>
    BY <1>1, <1>2, <1>3, <1>5, <2>1, <2>2, WindowChanges
  <2>3. CASE Player!CleanupFailed(i) /\ UNCHANGED window
    <3>1. CASE UNCHANGED <<item, shutdown>>
      BY <1>1, <1>2, <1>3, <1>5, <2>1, <2>3, <3>1, WindowChanges
    <3>2. CASE /\ item' = [item EXCEPT ![i].stuck = TRUE]
               /\ shutdown' = [shutdown EXCEPT !.failed = (shutdown.at \in {"retry", "join"})]
      <4> DEFINE r == [item[i] EXCEPT !.stuck = TRUE]
      <4>1. /\ r \in Request /\ r.phase = item[i].phase /\ r.kind = item[i].kind /\ r.bytes = item[i].bytes
            /\ r.retired = item[i].retired /\ r.file = item[i].file
        BY <2>1 DEF Request
      <4>2. item' = [item EXCEPT ![i] = r]
        BY <3>2
      <4> HIDE DEF r
      <4> QED
        BY <1>1, <1>2, <1>3, <1>5, <2>1, <2>3, <3>2, <4>1, <4>2, WindowChanges
    <3> QED
      BY <2>3, <3>1, <3>2 DEF Player!CleanupFailed
  <2> QED
    BY <1>1, <1>5, <2>2, <2>3 DEF Player!Destroy
<1> QED
  BY <1>4, <1>5

LEMMA DestroyedStep == ASSUME MediaInv, NEW i \in Item, Player!Destroyed(i) PROVE MediaInv'
<1>1. /\ window' = [window EXCEPT ![i] = "none"] /\ Player!Retire(i) /\ task' = Player!Notified(task)
      /\ UNCHANGED <<root, file, events, adapter, reads, active, broken, shutdown, faults>>
  BY DEF Player!Destroyed
<1>2. /\ window' \in [Item -> {"none", "hidden", "visible", "dying"}] /\ window'[i] = "none"
      /\ \A j \in Item \ {i} : window'[j] = window[j]
  BY <1>1 DEF MediaInv, MediaTypeOK
<1> QED
  BY <1>1, <1>2, Retires

LEMMA ShowingSteps ==
    ASSUME MediaInv, NEW i \in Item, Player!Reveal(i) \/ Player!CloseByUser(i) PROVE MediaInv'
<1>1. item[i] \in Request /\ item = [item EXCEPT ![i] = item[i]]
  BY DEF MediaInv, MediaTypeOK
<1>2. /\ window[i] # "none"
      /\ window' = [window EXCEPT ![i] = "visible"] \/ window' = [window EXCEPT ![i] = "dying"]
      /\ UNCHANGED <<root, item, task, file, events, adapter, reads, active, broken, shutdown, faults>>
  BY DEF Player!Reveal, Player!CloseByUser
<1> QED
  BY <1>1, <1>2, WindowChanges

LEMMA ExpireStep == ASSUME MediaInv, NEW i \in Item, Player!ExpireHidden(i) PROVE MediaInv'
<1>1. /\ window[i] = "hidden" /\ item[i].phase = "ready"
      /\ UNCHANGED <<root, task, file, events, adapter, reads, active, broken, shutdown>>
  BY DEF Player!ExpireHidden, Player!WindowActive
<1>2. task[i] \in Showing /\ item[i] \in Request
  BY <1>1 DEF MediaInv, RequestInv, WindowInv, MediaTypeOK
<1>3. CASE item' = [item EXCEPT ![i].phase = "closing"] /\ window' = [window EXCEPT ![i] = "dying"]
  <2> DEFINE r == [item[i] EXCEPT !.phase = "closing"]
  <2>1. /\ r \in Request /\ r.phase = "closing" /\ r.kind = item[i].kind /\ r.bytes = item[i].bytes
        /\ r.retired = item[i].retired /\ r.file = item[i].file
    BY <1>2 DEF Request, Phases
  <2>2. item' = [item EXCEPT ![i] = r]
    BY <1>3
  <2> HIDE DEF r
  <2> QED
    BY <1>1, <1>2, <1>3, <2>1, <2>2, WindowChanges
<1>4. CASE item' = [item EXCEPT ![i].phase = "closing", ![i].stuck = TRUE] /\ window' = window
  <2> DEFINE r == [item[i] EXCEPT !.phase = "closing", !.stuck = TRUE]
  <2>1. /\ r \in Request /\ r.phase = "closing" /\ r.kind = item[i].kind /\ r.bytes = item[i].bytes
        /\ r.retired = item[i].retired /\ r.file = item[i].file
    BY <1>2 DEF Request, Phases
  <2>2. item' = [item EXCEPT ![i] = r] /\ window' = [window EXCEPT ![i] = "hidden"]
    BY <1>1, <1>4 DEF MediaInv, MediaTypeOK
  <2> HIDE DEF r
  <2> QED
    BY <1>1, <1>2, <2>1, <2>2, WindowChanges
<1> QED
  BY <1>3, <1>4 DEF Player!ExpireHidden

LEMMA ReadSteps == ASSUME MediaInv, NEW i \in Item, Player!BeginRead(i) \/ Player!EndRead(i) PROVE MediaInv'
<1>1. /\ MediaTypeOK /\ LimitInv /\ DrainInv /\ RequestInv(i) /\ reads[i] \in Nat
      /\ UNCHANGED <<root, item, task, file, events, adapter, window, active, broken, shutdown, faults>>
      /\ \A j : Asked(j)' <=> Asked(j)
  BY AskedStands DEF MediaInv, MediaTypeOK, Player!BeginRead, Player!EndRead
<1>2. PICK n \in Nat : /\ reads' = [reads EXCEPT ![i] = n]
                       /\ \/ n = reads[i] - 1 /\ reads[i] > 0
                          \/ window[i] # "none" /\ item[i].file
  <2>1. CASE Player!BeginRead(i)
    <3>1. reads' = [reads EXCEPT ![i] = reads[i] + 1] /\ window[i] # "none" /\ item[i].file
      BY <2>1 DEF Player!BeginRead
    <3>2. reads[i] + 1 \in Nat
      BY <1>1
    <3> QED
      BY <3>1, <3>2
  <2>2. CASE Player!EndRead(i)
    <3>1. reads' = [reads EXCEPT ![i] = reads[i] - 1] /\ reads[i] > 0
      BY <2>2 DEF Player!EndRead
    <3>2. reads[i] - 1 \in Nat
      BY <1>1, <3>1
    <3> QED
      BY <3>1, <3>2
  <2> QED
    BY <2>1, <2>2
<1>3. reads' \in [Item -> Nat] /\ reads'[i] = n /\ \A j \in Item \ {i} : reads'[j] = reads[j]
  BY <1>1, <1>2 DEF MediaTypeOK
<1>4. MediaTypeOK' /\ LimitInv'
  BY <1>1, <1>3 DEF MediaTypeOK, LimitInv, Player!Windows, Player!In, Player!Reserved
<1>5. \A j \in Item \ {i} : Untouched(j)
  BY <1>1, <1>3 DEF Untouched
<1>6. RequestInv(i)'
  BY <1>1, <1>2, <1>3 DEF RequestInv, EntryInv, FileInv, ReadInv, WindowInv, AskedInv
<1>7. DrainInv'
  <2>1. SUFFICES ASSUME shutdown.at = "ok" PROVE reads'[i] = 0
    BY <1>1, <1>3 DEF DrainInv
  <2>2. task[i] \in {"none", "done"} /\ reads[i] = 0
    BY <1>1, <2>1 DEF DrainInv
  <2> QED
    BY <1>1, <1>2, <2>2 DEF RequestInv, WindowInv, Showing
<1> QED
  BY <1>1, <1>4, <1>5, <1>6, <1>7, NativeKeeps

LEMMA BeginShutdownStep == ASSUME MediaInv, Player!BeginShutdown PROVE MediaInv'
<1> DEFINE retry == {i \in Player!Present : item[i].stuck /\ ~item[i].retired}
<1>1. /\ shutdown' = [at |-> "retry", retry |-> retry, failed |-> FALSE, requested |-> TRUE]
      /\ item' = [i \in Item |-> IF i \in retry THEN [item[i] EXCEPT !.stuck = FALSE] ELSE item[i]]
      /\ UNCHANGED <<root, task, file, events, adapter, window, reads, active, broken, faults>>
      /\ \A j : Asked(j)' <=> Asked(j)
      /\ MediaTypeOK /\ LimitInv
  BY AskedStands DEF MediaInv, Player!BeginShutdown
<1>2. retry \subseteq Item
  BY DEF Player!Present
<1> HIDE DEF retry
<1>3. ASSUME NEW j \in Item
      PROVE  /\ item'[j] \in Request /\ item'[j].phase = item[j].phase /\ item'[j].kind = item[j].kind
             /\ item'[j].bytes = item[j].bytes /\ item'[j].retired = item[j].retired /\ item'[j].file = item[j].file
  <2>1. item[j] \in Request
    BY <1>1 DEF MediaTypeOK
  <2> DEFINE r == [item[j] EXCEPT !.stuck = FALSE]
  <2>2. /\ r \in Request /\ r.phase = item[j].phase /\ r.kind = item[j].kind
        /\ r.bytes = item[j].bytes /\ r.retired = item[j].retired /\ r.file = item[j].file
    BY <2>1 DEF Request
  <2>3. item'[j] = IF j \in retry THEN r ELSE item[j]
    BY <1>1
  <2> HIDE DEF r
  <2> QED
    BY <2>1, <2>2, <2>3
<1>4. item' \in [Item -> Request]
  BY <1>1, <1>3
<1>5. MediaTypeOK'
  <2>1. shutdown' \in [at : {"idle", "retry", "join", "failed", "ok"}, retry : SUBSET Item,
                       failed : BOOLEAN, requested : BOOLEAN]
    BY <1>1, <1>2
  <2> QED
    BY <1>1, <1>3, <1>4, <2>1 DEF MediaTypeOK
<1>6. LimitInv'
  <2>1. \A j \in Item : item'[j].bytes <= item[j].bytes
    BY <1>1, <1>3, BytesAreNumbers
  <2> QED
    BY <1>1, <1>3, <1>4, <2>1, LimitsShrink DEF MediaTypeOK
<1>7. DrainInv'
  BY <1>1 DEF DrainInv
<1>8. ASSUME NEW j \in Item PROVE RequestInv(j)'
  <2>1. RequestInv(j)
    BY DEF MediaInv
  <2> QED
    BY <1>1, <1>3, <2>1 DEF RequestInv, EntryInv, FileInv, ReadInv, WindowInv, AskedInv
<1> QED
  BY <1>1, <1>5, <1>6, <1>7, <1>8, NativeKeeps

LEMMA RetryCloseStep == ASSUME MediaInv, Player!RetryClose PROVE MediaInv'
<1>1. /\ shutdown.at = "retry" /\ MediaTypeOK /\ LimitInv /\ DrainInv
      /\ UNCHANGED <<root, item, task, file, adapter, window, reads, active, broken, faults>>
  BY DEF MediaInv, Player!RetryClose
<1>2. /\ shutdown' \in [at : {"idle", "retry", "join", "failed", "ok"}, retry : SUBSET Item,
                        failed : BOOLEAN, requested : BOOLEAN]
      /\ shutdown'.at # "ok" /\ shutdown'.requested
  <2>1. shutdown.requested
    BY <1>1 DEF DrainInv
  <2>2. CASE shutdown' = [shutdown EXCEPT !.at = "join"]
    BY <1>1, <2>1, <2>2 DEF MediaTypeOK
  <2>3. ASSUME NEW i, shutdown' = [shutdown EXCEPT !.retry = @ \ {i}]
        PROVE  /\ shutdown' \in [at : {"idle", "retry", "join", "failed", "ok"}, retry : SUBSET Item,
                                 failed : BOOLEAN, requested : BOOLEAN]
               /\ shutdown'.at # "ok" /\ shutdown'.requested
    BY <1>1, <2>1, <2>3 DEF MediaTypeOK
  <2> QED
    BY <2>2, <2>3 DEF Player!RetryClose
<1>3. events' \in Seq({"ready", "close"} \X Item) /\ \A j : Asked(j)' => Asked(j)
  <2>1. CASE events' = events
    BY <1>1, <2>1, AskedStands DEF MediaTypeOK
  <2>2. CASE shutdown.retry # {} /\ events' = Append(events, <<"close", CHOOSE j \in shutdown.retry : TRUE>>)
    <3> DEFINE i == CHOOSE j \in shutdown.retry : TRUE
    <3>1. i \in Item
      BY <1>1, <2>2 DEF MediaTypeOK
    <3>2. events' = Append(events, <<"close", i>>)
      BY <2>2
    <3> HIDE DEF i
    <3> QED
      BY <1>1, <3>1, <3>2, EventQueued
  <2> QED
    BY <2>1, <2>2 DEF Player!RetryClose
<1>4. MediaTypeOK' /\ LimitInv' /\ DrainInv'
  BY <1>1, <1>2, <1>3 DEF MediaTypeOK, LimitInv, DrainInv, Player!Windows, Player!In, Player!Reserved
<1>5. \A j \in Item : Untouched(j)
  BY <1>1, <1>3 DEF Untouched
<1> QED
  BY <1>1, <1>4, <1>5, NativeKeeps

LEMMA JoinStep == ASSUME MediaInv, Player!Join PROVE MediaInv'
<1>1. /\ shutdown.at = "join" /\ MediaTypeOK /\ LimitInv /\ DrainInv
      /\ UNCHANGED <<root, item, task, file, events, adapter, window, reads, active, broken, faults>>
      /\ \A j : Asked(j)' <=> Asked(j)
  BY AskedStands DEF MediaInv, Player!Join
<1>2. PICK at \in {"failed", "ok"} :
         /\ shutdown' = [shutdown EXCEPT !.at = at]
         /\ at = "ok" => ~broken /\ \A i \in Item : task[i] \in {"none", "done"} /\ reads[i] = 0
  BY DEF Player!Join
<1>3. /\ shutdown' \in [at : {"idle", "retry", "join", "failed", "ok"}, retry : SUBSET Item,
                        failed : BOOLEAN, requested : BOOLEAN]
      /\ shutdown'.at = at /\ shutdown'.requested
  BY <1>1, <1>2 DEF MediaTypeOK, DrainInv
<1>4. MediaTypeOK' /\ LimitInv'
  BY <1>1, <1>3 DEF MediaTypeOK, LimitInv, Player!Windows, Player!In, Player!Reserved
<1>5. DrainInv'
  BY <1>1, <1>2, <1>3 DEF DrainInv
<1>6. \A j \in Item : Untouched(j)
  BY <1>1 DEF Untouched
<1> QED
  BY <1>1, <1>4, <1>5, <1>6, NativeKeeps

LEMMA InitializeStep == ASSUME MediaInv, Player!Initialize PROVE MediaInv'
<1>1. /\ ~root /\ MediaTypeOK /\ LimitInv /\ DrainInv
      /\ UNCHANGED <<item, task, events, adapter, window, reads, active, broken, shutdown>>
      /\ \A j : Asked(j)' <=> Asked(j)
  BY AskedStands DEF MediaInv, Player!Initialize
<1>2. \/ root' = TRUE /\ file' = [i \in Item |-> "none"]
      \/ UNCHANGED <<root, file>>
  BY DEF Player!Initialize, Player!Recovered
<1>3. file' \in [Item -> {"none", "own", "orphan"}] /\ \A i \in Item : file'[i] = file[i] \/ (root' /\ file'[i] = "none")
  BY <1>1, <1>2 DEF MediaTypeOK
<1>4. MediaTypeOK' /\ LimitInv' /\ DrainInv'
  BY <1>1, <1>3 DEF MediaTypeOK, LimitInv, DrainInv, Player!Windows, Player!In, Player!Reserved
<1>5. ASSUME NEW j \in Item PROVE RequestInv(j)'
  <2>1. RequestInv(j) /\ task[j] = "none" /\ file[j] # "own"
    BY <1>1 DEF MediaInv, RequestInv, EntryInv, FileInv
  <2>2. ~item[j].file /\ ~(reads[j] > 0)
    BY <2>1 DEF RequestInv, FileInv, ReadInv
  <2>3. file'[j] # "own"
    BY <1>3, <2>1
  <2> QED
    BY <1>1, <2>1, <2>2, <2>3 DEF RequestInv, EntryInv, FileInv, ReadInv, WindowInv, AskedInv
<1> QED
  BY <1>4, <1>5 DEF MediaInv

\* With no request there is nothing to own.
NoRequests ==
    /\ item = [i \in Item |-> Player!NoItem] /\ task = [i \in Item |-> "none"]
    /\ file \in [Item -> {"none", "orphan"}] /\ events = <<>> /\ adapter = Player!Quiet
    /\ window = [i \in Item |-> "none"] /\ reads = [i \in Item |-> 0]
    /\ shutdown = Player!NoShutdown /\ broken = FALSE

LEMMA NothingHolds == NoRequests => MediaInv
<1> SUFFICES ASSUME NoRequests PROVE MediaInv
  OBVIOUS
<1>1. MediaTypeOK
  <2>1. item \in [Item -> Request] /\ \A i \in Item : item[i].phase = "absent"
    BY NothingIsARequest DEF NoRequests
  <2>2. /\ events \in Seq({"ready", "close"} \X Item)
        /\ task \in [Item -> Steps] /\ file \in [Item -> {"none", "own", "orphan"}]
    BY DEF Steps, NoRequests
  <2>3. /\ adapter \in [at : {"idle", "ready", "close", "recheck", "failed"}, for : SUBSET Item]
        /\ shutdown \in [at : {"idle", "retry", "join", "failed", "ok"}, retry : SUBSET Item,
                         failed : BOOLEAN, requested : BOOLEAN]
    BY DEF NoRequests, Player!Quiet, Player!NoShutdown, Player!None
  <2> QED
    BY <2>1, <2>2, <2>3 DEF MediaTypeOK, NoRequests
<1>2. ASSUME NEW i \in Item PROVE RequestInv(i)
  <2>1. item[i].phase = "absent" /\ ~item[i].file /\ task[i] = "none" /\ file[i] # "own" /\ reads[i] = 0 /\ window[i] = "none"
    BY NothingIsARequest DEF NoRequests
  <2>2. ~Asked(i)
    BY DEF NoRequests, Asked, Player!Quiet
  <2> QED
    BY <2>1, <2>2 DEF RequestInv, EntryInv, FileInv, ReadInv, WindowInv, AskedInv, PhaseOf
<1>3. LimitInv
  <2>1. Player!Windows = {} /\ Player!Reserved = {}
    BY NothingIsARequest DEF NoRequests, Player!Windows, Player!In, Player!Reserved
  <2> QED
    BY <2>1, FS_EmptySet, MediaAssumption DEF NoRequests, LimitInv, Player!LimitsAssumption
<1>4. DrainInv
  BY DEF NoRequests, DrainInv, Player!NoShutdown
<1> QED
  BY <1>1, <1>2, <1>3, <1>4 DEF MediaInv

\* A crash leaves files only.
LEMMA CrashStep == MediaInv /\ Player!Crash => MediaInv'
<1>1. MediaInv /\ Player!Crash => NoRequests'
  <2> SUFFICES ASSUME MediaInv, Player!Crash PROVE NoRequests'
    OBVIOUS
  <2>1. file' \in [Item -> {"none", "orphan"}]
    BY DEF MediaInv, MediaTypeOK, Player!Crash
  <2> QED
    BY <2>1 DEF NoRequests, Player!Crash
<1> QED
  BY <1>1, NothingHolds, PTL

LEMMA RestStep == ASSUME MediaInv, UNCHANGED Player!vars \/ Player!Revoke PROVE MediaInv'
<1>1. /\ UNCHANGED <<root, item, task, file, events, adapter, window, reads, broken, shutdown>>
      /\ \A j : Asked(j)' <=> Asked(j)
  BY AskedStands DEF Player!vars, Player!Revoke
<1>2. MediaTypeOK' /\ LimitInv' /\ DrainInv'
  BY <1>1 DEF MediaInv, MediaTypeOK, LimitInv, DrainInv, Player!Windows, Player!In, Player!Reserved
<1>3. \A j \in Item : Untouched(j)
  BY <1>1 DEF Untouched
<1> QED
  BY <1>1, <1>2, <1>3, NativeKeeps

\* One step for each group of actions.
LEMMA MediaSteps == MediaInv /\ [Player!Next]_(Player!vars) => MediaInv'
<1> SUFFICES ASSUME MediaInv, [Player!Next]_(Player!vars) PROVE MediaInv'
  OBVIOUS
<1>1. CASE UNCHANGED Player!vars \/ Player!Revoke
  BY <1>1, RestStep
<1>2. CASE Player!Initialize \/ Player!BeginShutdown \/ Player!ShutdownStep
  BY <1>2, InitializeStep, BeginShutdownStep, RetryCloseStep, JoinStep DEF Player!ShutdownStep
<1>3. CASE Player!AdapterStep
  BY <1>3, TakeStep, OpenWindowStep, RecheckStep, CloseWindowStep DEF Player!AdapterStep
<1>4. CASE Player!Crash
  BY <1>4, CrashStep
<1>5. ASSUME NEW i \in Item, Player!TaskStep(i) PROVE MediaInv'
  BY <1>5, ReserveStep, GiveUpStep, CreateStep, TransferStep, DiscardSteps, CommitStep, DeliverStep,
     EndPresentingStep, SendCloseStep, AcknowledgedStep, RemoveStep, DeleteStep DEF Player!TaskStep
<1>6. ASSUME NEW i \in Item, \/ Player!Destroyed(i) \/ Player!Reveal(i) \/ Player!CloseByUser(i)
                             \/ Player!ExpireHidden(i) \/ Player!BeginRead(i) \/ Player!EndRead(i)
      PROVE  MediaInv'
  BY <1>6, DestroyedStep, ShowingSteps, ExpireStep, ReadSteps
<1>7. ASSUME NEW i \in Item, NEW preview \in BOOLEAN, NEW kind \in Player!Kind,
             NEW camera \in {Player!None} \cup {{c} : c \in Camera}, Player!Submit(i, preview, kind, camera)
      PROVE  MediaInv'
  BY <1>7, SubmitStep
<1> QED
  BY <1>1, <1>2, <1>3, <1>4, <1>5, <1>6, <1>7 DEF Player!Next

\* Where each request is in its life decides who owns its file, its reads and its window, and
\* what the adapter may still open for it (media.rs, media_windows.rs).
THEOREM MediaInvariance == DesktopSpec => []MediaInv
<1>1. Player!Init => MediaInv
  <2>1. Player!Init => NoRequests
    BY DEF Player!Init, NoRequests
  <2> QED
    BY <2>1, NothingHolds
<1> QED
  BY <1>1, MediaSpec, MediaSteps, PTL DEF Player!Spec

\* What is there has an entry that holds its slot.
LEMMA PresentIsRegistered == ASSUME MediaInv PROVE Player!OwnedUntilGone
<1>1. ASSUME NEW i \in Item
      PROVE  /\ window[i] # "none" => i \in Player!Windows
             /\ reads[i] > 0 => file[i] = "own" /\ i \in Player!Windows
             /\ file[i] = "own" /\ ~broken => i \in Player!Windows
  <2>1. RequestInv(i) /\ task[i] \in Steps
    BY DEF MediaInv, MediaTypeOK
  <2>2. task[i] \in Showing \cup {"transfer", "discard", "commit", "drop", "drain"} => i \in Player!Windows
    BY <2>1 DEF RequestInv, EntryInv, PhaseOf, Showing, Player!Windows, Player!In
  <2>3. item[i].file => i \in Player!Windows
    BY <2>1 DEF RequestInv, FileInv, Player!Windows, Player!In
  <2> QED
    BY <2>1, <2>2, <2>3 DEF RequestInv, FileInv, ReadInv, WindowInv
<1>2. Player!Cardinality({i \in Item : window[i] # "none"}) <= MaxWindows
  <2> DEFINE S == {i \in Item : window[i] # "none"}  W == Player!Windows
  <2>1. S \subseteq W
    BY <1>1
  <2>2. IsFiniteSet(W) /\ Cardinality(W) <= MaxWindows /\ MaxWindows \in Nat
    BY MediaAssumption DEF MediaInv, LimitInv, Player!LimitsAssumption
  <2> HIDE DEF S, W
  <2>3. IsFiniteSet(S) /\ Cardinality(S) <= Cardinality(W)
    BY <2>1, <2>2, FS_Subset
  <2>4. Cardinality(S) \in Nat /\ Cardinality(W) \in Nat
    BY <2>2, <2>3, FS_CardinalityType
  <2>5. Player!Cardinality(S) <= MaxWindows
    BY <2>2, <2>3, <2>4, PlayerCounts
  <2> QED
    BY <2>5 DEF S
<1>3. Player!Cardinality(Player!Reserved) <= MaxMediaBytes
  BY PlayerCounts DEF MediaInv, LimitInv
<1> QED
  BY <1>1, <1>2, <1>3 DEF Player!OwnedUntilGone

\* When every task is done, so is every entry, and with it what it owned.
LEMMA DrainedIsEmpty == ASSUME MediaInv PROVE Player!ShutdownLeavesNothing
<1> SUFFICES ASSUME shutdown.at = "ok", NEW i \in Item
             PROVE  /\ item[i].phase = "absent" /\ window[i] = "none"
                    /\ reads[i] = 0 /\ file[i] # "own"
  BY DEF Player!ShutdownLeavesNothing
<1>1. task[i] \in {"none", "done"} /\ reads[i] = 0 /\ ~broken /\ RequestInv(i)
  BY DEF MediaInv, DrainInv
<1>2. item[i].phase = "absent"
  BY <1>1 DEF RequestInv, EntryInv, PhaseOf
<1> QED
  BY <1>1, <1>2 DEF RequestInv, FileInv, WindowInv, Showing

\* A window, a read or a file of a plugin's media is there only under a registered request
\* that holds its slot, the limits on windows and bytes hold for what is there, and a
\* drain that succeeds leaves nothing (media.rs, media_windows.rs).
THEOREM NothingIsLeftBehind == DesktopSpec => []NothingLeftBehind
<1>1. MediaInv => NothingLeftBehind
  BY PresentIsRegistered, DrainedIsEmpty DEF NothingLeftBehind, Player!NothingLeftBehind
<1> QED
  BY <1>1, MediaInvariance, PTL
=============================================================================
