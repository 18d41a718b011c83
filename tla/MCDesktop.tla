------------------------------ MODULE MCDesktop ------------------------------
(***************************************************************************)
(* What the desktop keeps for plugins and between launches:                *)
(* settings records (PluginSettings), declarations and their status        *)
(* (PluginManagement), the configuration and its key (ConfigStore), and    *)
(* the files and windows of their media (MediaService). They share no      *)
(* state the properties read: each behaviour runs one of them, the others  *)
(* rest.                                                                   *)
(***************************************************************************)
EXTENDS MCPluginSettings

CONSTANTS Plugin, Offered, Group,
          Password, Host, MaxKeys, MaxCommits,
          Item, Camera, MaxQueued, MaxWindows, MaxTransfers, MaxReads, EventCapacity,
          MaxMediaBytes, ByteLimit, MaxAttempts, MaxFaults

VARIABLES focus,
          enabled, saved, desired, status, inventory, mop, review, cache, reader, transition, closing,
          platform, keyfile, keychain, made, proc, raced, cfg, sealed, cop, commits, password, boundTo,
          root, item, task, file, events, adapter, window, reads, active, broken, shutdown, faults

manageVars == <<enabled, saved, desired, status, inventory, mop, review, cache, reader, transition, closing>>
configVars == <<platform, keyfile, keychain, made, proc, raced, cfg, sealed, cop, commits, password, boundTo>>
mediaVars == <<root, item, task, file, events, adapter, window, reads, active, broken, shutdown, faults>>

Management == INSTANCE PluginManagement WITH Version <- Offered, record <- inventory, op <- mop
Config == INSTANCE ConfigStore WITH record <- sealed, op <- cop
Player == INSTANCE MediaService

\* The group's plugins are among those that can be declared.
ASSUME GroupAssumption == Group \subseteq Plugin

\* The limits of the media (media.rs, MAX_WINDOWS and MAX_MEDIA_BYTES): a download takes something of the disk.
ASSUME MediaAssumption == Player!LimitsAssumption

Bytes == [k \in {"video"} |-> 2]

DesktopInit ==
    /\ focus \in {"settings", "management", "config", "media"}
    /\ Init /\ Management!Init /\ Config!Init /\ Player!Init
    /\ focus # "settings" => pkg = 0 /\ record = None /\ ns = None /\ ~legacy
    /\ focus # "management" => saved = Management!NoDeclarations
    /\ focus # "config" => platform = "mobile" /\ cfg = Config!NoConfig
    /\ focus # "media" => file = [i \in Item |-> "none"]

DesktopNext ==
    /\ UNCHANGED focus
    /\ \/ /\ focus = "settings" /\ Next
          /\ UNCHANGED <<manageVars, configVars, mediaVars>>
       \/ /\ focus = "management" /\ Management!Next
          /\ UNCHANGED <<vars, configVars, mediaVars>>
       \/ /\ focus = "config" /\ Config!Next
          /\ UNCHANGED <<vars, manageVars, mediaVars>>
       \/ /\ focus = "media" /\ Player!Next
          /\ UNCHANGED <<vars, manageVars, configVars>>

DesktopSpec ==
    DesktopInit /\ [][DesktopNext]_<<focus, vars, manageVars, configVars, mediaVars>>
-----------------------------------------------------------------------------
\* A plugin is switched on only by the latest intent.
IntentWins == Management!IntentWins
\* Status and details in the settings window are those of the inventory.
ListIsTrue == Management!ListIsTrue
\* What is sealed on disk can be opened with the key the next launch finds.
KeyOpensData == Config!KeyOpensData
\* The lock's password and the owner of a credential stand.
SecretsStand == Config!SecretsStand
\* A window, a read or a file of a plugin's media has an owner; a drain leaves none of them.
NothingLeftBehind == Player!NothingLeftBehind
=============================================================================
