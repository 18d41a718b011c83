------------------------- MODULE PackageStoreProofs -------------------------
(***************************************************************************)
(* Proofs about PackageStore for any plugins, versions and number of       *)
(* operations, crashes and revocations: what is on disk, what is recorded  *)
(* and what runs fit each other, and the inventory is the atomic one of    *)
(* PackageInventory.                                                       *)
(***************************************************************************)
EXTENDS PackageStore, TLAPS

\* The inventory that the operation in progress is to commit.
NewInventory == [op.orig EXCEPT ![op.plugin] = op.rec]

Changing == op.kind \in {"install", "enable", "rollback", "disable", "remove"}

\* Where an operation may be.
PhaseInv ==
    op # NoOp =>
        /\ pc \in {"stage", "publish"} => op.kind = "install" /\ op.phase = "apply"
        /\ pc = "activate" => Activating /\ op.phase = "apply"
        /\ pc = "settings" => op.kind = "settings" /\ op.phase = "apply"
        /\ pc = "close" => op.kind = "close" /\ op.phase = "apply"
        /\ pc = "recover" => \/ op.kind \in {"open", "install"} /\ op.phase = "apply"
                             \/ (Activating \/ op.kind = "remove") /\ op.phase = "committed"
        /\ pc = "stop" => op.kind # "open" /\ op.phase # "committed"
        /\ pc \in {"start", "await"} => \/ Relaunches /\ op.phase = "apply"
                                        \/ Activating /\ op.phase = "undo" /\ op.was
        /\ pc \in {"write", "rename", "sync"} => Changing /\ op.phase \in {"apply", "undo"}
        /\ op.phase = "undo" => Activating
        /\ op.phase = "cleanup" => op.kind \in {"settings", "restore"}

\* What an operation has read, and what it is to commit.
ReadInv ==
    op # NoOp =>
        /\ op.phase \in {"apply", "cleanup"} /\ pc # "sync" => inv = op.orig
        /\ op.phase = "apply" /\ pc = "sync" => inv = NewInventory
        /\ op.phase = "undo" => inv \in {op.orig, NewInventory}
        /\ op.phase = "undo" /\ pc \in {"start", "await", "sync"} => inv = op.orig
        /\ op.was => op.orig[op.plugin] # NoRecord /\ op.orig[op.plugin].enabled

\* A change is legal from the moment it is admitted.
RecordInv ==
    op # NoOp =>
        /\ op.kind = "install" => op.rec # NoRecord
              /\ IF op.orig[op.plugin] = NoRecord THEN op.rec.rollback = NoVersion
                 ELSE op.rec \in Promise!NextRecord(op.orig[op.plugin])
        /\ op.kind \in {"enable", "rollback", "disable", "remove"} =>
              /\ op.orig[op.plugin] # NoRecord
              /\ op.rec \in Promise!NextRecord(op.orig[op.plugin])
        /\ op.kind \in {"enable", "rollback", "disable"} => op.rec # NoRecord
        /\ op.kind = "disable" => ~op.rec.enabled /\ op.rec.active = op.orig[op.plugin].active
        /\ op.kind = "remove" => op.rec = NoRecord
        /\ op.kind \in {"settings", "restore"} =>
              op.rec = op.orig[op.plugin] /\ op.rec # NoRecord /\ (pc # "settings" => op.rec.enabled)
        /\ op.kind = "install" /\ op.orig[op.plugin] = NoRecord /\ pc \notin {"recover", "stage"} =>
              Cardinality(Installed(op.orig)) < MaxPlugins

\* Nothing that is recorded, or may be recorded again, is deleted.
ContentInv ==
    /\ InventoryInstallable
    /\ op # NoOp /\ op.phase # "committed" => Referenced(op.orig) \subseteq content
    /\ op # NoOp /\ Activating /\ pc \in {"stop", "start", "await", "write", "rename", "sync"} =>
          <<op.plugin, op.rec.active>> \in content

\* A worker that runs or has ended is the one of this inventory, with the saved settings.
Present(p) == wstate[p] \in {"starting", "running", "over"}
Fits(p, i) ==
    Present(p) => i[p] # NoRecord /\ i[p].enabled /\ i[p].active = wver[p] /\ wset[p] = settings[p]

\* The manager and the host agree on who has a worker.
OwnInv == \A p \in Plugin : owned[p] = wver[p] /\ (wstate[p] = "none" <=> wver[p] = NoVersion)

\* Without the lease, and before the store has opened, nobody has one.
LeaseInv ==
    /\ LeaseOutlivesWorkers
    /\ pc = "down" \/ (op # NoOp /\ op.kind = "open") => \A p \in Plugin : wstate[p] = "none"

\* Between its stop and its commit an operation has no worker but the one to be recorded.
WantedInv ==
    /\ pc = "idle" => \A p \in Plugin : Fits(p, inv)
    /\ op # NoOp =>
          /\ \A p \in Plugin \ {op.plugin} : Fits(p, inv)
          /\ pc \in {"recover", "stage", "publish", "activate", "settings"} => Fits(op.plugin, inv)
          /\ pc \in {"await", "write", "rename", "sync"} => Fits(op.plugin, NextInventory)
          /\ pc \in {"start", "close"} => wstate[op.plugin] = "none"
          /\ pc \in {"write", "rename", "sync"} /\ op.phase = "undo" => wstate[op.plugin] = "none"

WorkerInv == OwnInv /\ ContentUnderWorker /\ LeaseInv /\ WantedInv

\* The commit holds the authority lock.
CommitInv == pc \in {"rename", "sync"} /\ op.phase = "apply" => Authorized(op.epoch)

IInv == TypeOK /\ PhaseInv /\ ReadInv /\ RecordInv /\ ContentInv /\ WorkerInv /\ CommitInv
-----------------------------------------------------------------------------
(* TypeOK in three parts *)

FlagTypes == enabled \in BOOLEAN /\ closed \in BOOLEAN

DataTypes ==
    /\ inv \in Inventory
    /\ content \subseteq Plugin \X Version /\ broken \subseteq Plugin \X Version
    /\ litter \subseteq {"staging", "pending"}
    /\ settings \in [Plugin -> 0 .. 1]
    /\ owned \in [Plugin -> Version \cup {NoVersion}]
    /\ wstate \in [Plugin -> {"none", "starting", "running", "over", "stuck"}]
    /\ wver \in [Plugin -> Version \cup {NoVersion}] /\ wset \in [Plugin -> 0 .. 1]
    /\ epoch \in Nat
    /\ restoring \subseteq Plugin /\ restoreEpoch \in Nat
    /\ left \in 0 .. MaxOps

OpTypes ==
    /\ pc \in PcAt
    /\ op \in Operation \cup {NoOp}
    /\ op = NoOp <=> pc \in {"down", "idle"}

\* The parts are the type invariant.
LEMMA TypeParts == TypeOK <=> FlagTypes /\ DataTypes /\ OpTypes
BY DEF TypeOK, FlagTypes, DataTypes, OpTypes

(* The operation in progress *)

Kind == {"open", "install", "enable", "rollback", "disable", "remove", "settings", "restore", "close"}
OpFields ==
    /\ op.kind \in Kind /\ op.plugin \in Plugin /\ op.epoch \in Nat
    /\ op.phase \in {"apply", "committed", "undo", "cleanup"}
    /\ op.orig \in Inventory /\ op.rec \in Record \cup {NoRecord} /\ op.was \in BOOLEAN

\* An operation in progress has its fields.
LEMMA Fields ==
    ASSUME OpTypes, op # NoOp
    PROVE  op \in Operation /\ OpFields
BY DEF OpTypes, Operation, OpFields, Kind

\* An operation that begins is one.
LEMMA Begins ==
    ASSUME DataTypes, NEW k \in Kind, NEW p \in Plugin, NEW e \in Nat, NEW r \in Record \cup {NoRecord}
    PROVE  [kind |-> k, plugin |-> p, epoch |-> e, phase |-> "apply", orig |-> inv, rec |-> r,
            was |-> FALSE] \in Operation
BY DEF DataTypes, Operation, Kind

SameOp(o) ==
    o.kind = op.kind /\ o.plugin = op.plugin /\ o.epoch = op.epoch /\ o.orig = op.orig /\ o.rec = op.rec

\* It changes only its phase, or remembers whether the worker ran.
LEMMA Changes ==
    ASSUME OpTypes, op # NoOp
    PROVE  /\ \A ph \in {"committed", "undo", "cleanup"} :
                 LET o == [op EXCEPT !.phase = ph] IN
                     o \in Operation /\ SameOp(o) /\ o.phase = ph /\ o.was = op.was
           /\ \A b \in BOOLEAN :
                 LET o == [op EXCEPT !.was = b] IN
                     o \in Operation /\ SameOp(o) /\ o.phase = op.phase /\ o.was = b
BY DEF OpTypes, Operation, SameOp

\* Both inventories that it may write are inventories.
LEMMA Inventories ==
    ASSUME OpTypes, op # NoOp
    PROVE  NewInventory \in Inventory /\ NextInventory \in Inventory
<1>1. op.orig \in Inventory /\ op.plugin \in Plugin /\ op.rec \in Record \cup {NoRecord}
  BY Fields DEF OpFields
<1> QED
  BY ONLY <1>1 DEF NewInventory, NextInventory, Inventory

\* The flags stay Boolean.
LEMMA FlagStep ==
    ASSUME FlagTypes, [Next]_vars
    PROVE  FlagTypes'
<1> USE DEF FlagTypes, disk, workers, authority, pass
<1>1. ASSUME NEW p \in Plugin, NEW v \in Version, NEW b \in BOOLEAN, Install(p, v, b)
      PROVE  FlagTypes'
  BY Zenon, <1>1 DEF Install, Begin
<1>2. ASSUME NEW p \in Plugin, Enable(p) PROVE FlagTypes'
  BY Zenon, <1>2 DEF Enable, Begin
<1>3. ASSUME NEW p \in Plugin, Rollback(p) PROVE FlagTypes'
  BY Zenon, <1>3 DEF Rollback, Begin
<1>4. ASSUME NEW p \in Plugin, Disable(p) PROVE FlagTypes'
  BY Zenon, <1>4 DEF Disable, Begin
<1>5. ASSUME NEW p \in Plugin, Remove(p) PROVE FlagTypes'
  BY Zenon, <1>5 DEF Remove, Begin
<1>6. ASSUME NEW p \in Plugin, ApplySettings(p) PROVE FlagTypes'
  BY Zenon, <1>6 DEF ApplySettings, Begin
<1>7. ASSUME NEW p \in Plugin, RestoreNext(p) PROVE FlagTypes'
  BY Zenon, <1>7 DEF RestoreNext
<1>8. ASSUME NEW p \in Plugin, WorkerChanges(p) PROVE FlagTypes'
  BY Zenon, <1>8 DEF WorkerChanges, Host!WorkerChanges, Host!Becomes, Host!Live
<1>9. CASE RecoverClean
  BY Zenon, <1>9 DEF RecoverClean
<1>10. CASE RecoverDelete
  BY Zenon, <1>10 DEF RecoverDelete
<1>11. CASE RecoverDone
  BY Zenon, <1>11 DEF RecoverDone, End
<1>12. CASE RecoverFails
  BY Zenon, <1>12 DEF RecoverFails, End
<1>13. CASE Stage
  BY Zenon, <1>13 DEF Stage, End
<1>14. CASE Publish
  BY Zenon, <1>14 DEF Publish
<1>15. CASE StageFails
  BY Zenon, <1>15 DEF StageFails, End
<1>16. CASE Activate
  BY Zenon, <1>16 DEF Activate
<1>17. CASE ActivateFails
  BY Zenon, <1>17 DEF ActivateFails, End
<1>18. CASE StopOwned
  BY Zenon, <1>18 DEF StopOwned, End
<1>19. CASE StopFails
  BY Zenon, <1>19 DEF StopFails, End
<1>20. CASE Start
  BY Zenon, <1>20 DEF Start
<1>21. CASE StartFails
  BY Zenon, <1>21 DEF StartFails, End
<1>22. CASE AwaitReady
  BY Zenon, <1>22 DEF AwaitReady, End
<1>23. CASE AwaitFails
  BY Zenon, <1>23 DEF AwaitFails, End
<1>24. CASE WritePending
  BY Zenon, <1>24 DEF WritePending
<1>25. CASE Rename
  BY Zenon, <1>25 DEF Rename
<1>26. CASE Sync
  BY Zenon, <1>26 DEF Sync, End
<1>27. CASE WriteFails
  BY Zenon, <1>27 DEF WriteFails, End
<1>28. CASE CommitSettings
  BY Zenon, <1>28 DEF CommitSettings, End
<1>29. CASE SettingsFail
  BY Zenon, <1>29 DEF SettingsFail, End
<1>30. CASE RestoreBegin
  BY Zenon, <1>30 DEF RestoreBegin
<1>31. CASE Close
  BY Zenon, <1>31 DEF Close, End
<1>32. CASE Open
  BY Zenon, <1>32 DEF Open
<1>33. CASE Crash
  BY Zenon, <1>33 DEF Crash
<1>34. CASE Revoke
  BY Zenon, <1>34 DEF Revoke, Host!RevokeEpoch, Host!Live
<1>35. CASE Resume
  BY Zenon, <1>35 DEF Resume, Host!Resume
<1>36. CASE UNCHANGED vars
  BY <1>36 DEF vars
<1> QED
  BY ONLY <1>1, <1>2, <1>3, <1>4, <1>5, <1>6, <1>7, <1>8, <1>9, <1>10, <1>11, <1>12, <1>13, <1>14,
          <1>15, <1>16, <1>17, <1>18, <1>19, <1>20, <1>21, <1>22, <1>23, <1>24, <1>25, <1>26, <1>27,
          <1>28, <1>29, <1>30, <1>31, <1>32, <1>33, <1>34, <1>35, <1>36, [Next]_vars
     DEF Next, Step

Recording == op.kind \in {"install", "enable", "rollback", "disable", "settings", "restore"}

\* What an operation records or launches has a version.
LEMMA Versions ==
    ASSUME OpTypes, PhaseInv, ReadInv, RecordInv, op # NoOp
    PROVE  /\ Recording => op.rec \in Record /\ op.rec.active \in Version
           /\ pc \in {"start", "await"} => Target \in Version
<1>1. OpFields
  BY Fields
<1>2. Recording => op.rec # NoRecord
  BY DEF RecordInv, Recording
<1>3. Recording => op.rec \in Record /\ op.rec.active \in Version
  BY <1>1, <1>2 DEF OpFields, Record
<1>4. CASE pc \in {"start", "await"} /\ op.phase = "apply"
  <2>1. Recording
    BY <1>4 DEF PhaseInv, Relaunches, Activating, Recording
  <2> QED
    BY <1>3, <1>4, <2>1 DEF Target
<1>5. CASE pc \in {"start", "await"} /\ op.phase = "undo"
  <2>1. op.orig[op.plugin] \in Record
    BY <1>1, <1>5 DEF PhaseInv, ReadInv, OpFields, Inventory
  <2>2. op.orig[op.plugin].active \in Version
    BY <2>1 DEF Record
  <2> QED
    BY <1>3, <1>5, <2>2 DEF Target
<1>6. pc \in {"start", "await"} => op.phase \in {"apply", "undo"}
  BY DEF PhaseInv
<1> QED
  BY <1>3, <1>4, <1>5, <1>6

\* Every step keeps the types of disk, workers and counters.
LEMMA DataStep ==
    ASSUME DataTypes, OpTypes, PhaseInv, ReadInv, RecordInv, [Next]_vars
    PROVE  DataTypes'
<1>0. pc \notin {"down", "idle"} => op # NoOp /\ OpFields
  BY Fields DEF OpTypes
<1> USE <1>0, StoreAssumption DEF DataTypes, disk, workers, authority, pass
<1>1. ASSUME NEW p \in Plugin, NEW v \in Version, NEW b \in BOOLEAN, Install(p, v, b)
      PROVE  DataTypes'
  BY <1>1 DEF Install, Begin
<1>2. ASSUME NEW p \in Plugin, Enable(p) PROVE DataTypes'
  BY <1>2 DEF Enable, Begin
<1>3. ASSUME NEW p \in Plugin, Rollback(p) PROVE DataTypes'
  BY <1>3 DEF Rollback, Begin
<1>4. ASSUME NEW p \in Plugin, Disable(p) PROVE DataTypes'
  BY <1>4 DEF Disable, Begin
<1>5. ASSUME NEW p \in Plugin, Remove(p) PROVE DataTypes'
  BY <1>5 DEF Remove, Begin
<1>6. ASSUME NEW p \in Plugin, ApplySettings(p) PROVE DataTypes'
  BY <1>6 DEF ApplySettings, Begin
<1>7. ASSUME NEW p \in Plugin, RestoreNext(p) PROVE DataTypes'
  BY <1>7 DEF RestoreNext
<1>8. ASSUME NEW p \in Plugin, WorkerChanges(p) PROVE DataTypes'
  BY <1>8 DEF WorkerChanges, Host!WorkerChanges, Host!Becomes, Host!Live, Live
<1>9. CASE RecoverClean
  BY <1>9 DEF RecoverClean
<1>10. CASE RecoverDelete
  BY <1>10 DEF RecoverDelete
<1>11. CASE RecoverDone
  BY <1>11 DEF RecoverDone
<1>12. CASE RecoverFails
  BY <1>12 DEF RecoverFails
<1>13. CASE Stage
  BY <1>13 DEF Stage
<1>14. CASE Publish
  <2>1. <<op.plugin, op.rec.active>> \in Plugin \X Version
    BY <1>14, Versions DEF Publish, PhaseInv, Recording, OpFields
  <2> QED
    BY <1>14, <2>1 DEF Publish
<1>15. CASE StageFails
  <2>1. <<op.plugin, op.rec.active>> \in Plugin \X Version
    BY <1>15, Versions DEF StageFails, PhaseInv, Recording, OpFields
  <2> QED
    BY <1>15, <2>1 DEF StageFails
<1>16. CASE Activate
  BY <1>16 DEF Activate, Live
<1>17. CASE ActivateFails
  BY <1>17 DEF ActivateFails
<1>18. CASE StopOwned
  <2>1. op.plugin \in Plugin
    BY <1>18 DEF StopOwned, OpFields
  <2> QED
    BY <1>18, <2>1 DEF StopOwned
<1>19. CASE StopFails
  BY <1>19 DEF StopFails
<1>20. CASE Start
  <2>1. op.plugin \in Plugin /\ Target \in Version
    BY <1>20, Versions DEF Start, OpFields
  <2>2. settings[op.plugin] \in 0 .. 1
    BY <2>1
  <2> QED
    BY <1>20, <2>1, <2>2 DEF Start
<1>21. CASE StartFails
  BY <1>21 DEF StartFails
<1>22. CASE AwaitReady
  BY <1>22 DEF AwaitReady
<1>23. CASE AwaitFails
  BY <1>23 DEF AwaitFails
<1>24. CASE WritePending
  BY <1>24 DEF WritePending, CleanSettings
<1>25. CASE Rename
  <2>1. inv' \in Inventory
    BY <1>25, Inventories DEF Rename
  <2> QED
    BY <1>25, <2>1 DEF Rename
<1>26. CASE Sync
  BY <1>26 DEF Sync
<1>27. CASE WriteFails
  <2>1. op.plugin \in Plugin
    BY <1>27 DEF WriteFails, CleanSettings, OpFields
  <2>2. settings' \in [Plugin -> 0 .. 1]
    BY <1>27, <2>1 DEF WriteFails, CleanSettings
  <2> QED
    BY <1>27, <2>2 DEF WriteFails, CleanSettings
<1>28. CASE CommitSettings
  <2>1. op.plugin \in Plugin
    BY <1>28 DEF CommitSettings, OpFields
  <2>2. settings' \in [Plugin -> 0 .. 1]
    BY <1>28, <2>1 DEF CommitSettings
  <2> QED
    BY <1>28, <2>2 DEF CommitSettings
<1>29. CASE SettingsFail
  BY <1>29 DEF SettingsFail
<1>30. CASE RestoreBegin
  BY <1>30 DEF RestoreBegin, Installed
<1>31. CASE Close
  BY <1>31 DEF Close
<1>32. CASE Open
  BY <1>32 DEF Open
<1>33. CASE Crash
  BY <1>33 DEF Crash
<1>34. CASE Revoke
  BY <1>34 DEF Revoke, Host!RevokeEpoch, Host!Live, Live
<1>35. CASE Resume
  BY <1>35 DEF Resume, Host!Resume
<1>36. CASE UNCHANGED vars
  BY <1>36 DEF vars
<1> QED
  BY ONLY <1>1, <1>2, <1>3, <1>4, <1>5, <1>6, <1>7, <1>8, <1>9, <1>10, <1>11, <1>12, <1>13, <1>14,
          <1>15, <1>16, <1>17, <1>18, <1>19, <1>20, <1>21, <1>22, <1>23, <1>24, <1>25, <1>26, <1>27,
          <1>28, <1>29, <1>30, <1>31, <1>32, <1>33, <1>34, <1>35, <1>36, [Next]_vars
     DEF Next, Step

\* The records that operations commit are records.
LEMMA Records ==
    ASSUME DataTypes, NEW p \in Plugin
    PROVE  /\ \A v \in Version, b \in BOOLEAN : NewRecord(p, v, b) \in Record
           /\ inv[p] \in Record \cup {NoRecord}
           /\ inv[p] # NoRecord =>
                 /\ \A b \in BOOLEAN : [inv[p] EXCEPT !.enabled = b] \in Record
                 /\ inv[p].rollback # NoVersion =>
                       [inv[p] EXCEPT !.active = inv[p].rollback, !.rollback = inv[p].active] \in Record
<1>1. inv[p] \in Record \cup {NoRecord}
  BY DEF DataTypes, Inventory
<1> QED
  BY <1>1 DEF NewRecord, Record

\* Every step keeps the operation one, in progress exactly while the lock is held.
LEMMA OpStep ==
    ASSUME DataTypes, OpTypes, [Next]_vars
    PROVE  OpTypes'
<1>0. op # NoOp => op \in Operation /\ OpFields
  BY Fields
<1> USE <1>0, NoneAssumption DEF OpTypes, PcAt, disk, workers, authority, pass
<1>1. ASSUME NEW p \in Plugin, NEW v \in Version, NEW b \in BOOLEAN, Install(p, v, b)
      PROVE  OpTypes'
  <2>1. /\ pc = "idle" /\ op' = [kind |-> "install", plugin |-> p, epoch |-> epoch, phase |-> "apply",
                                  orig |-> inv, rec |-> NewRecord(p, v, b), was |-> FALSE]
        /\ pc' \in PcAt \ {"down", "idle"}
    BY <1>1 DEF Install, Begin, NewRecord
  <2>2. NewRecord(p, v, b) \in Record \cup {NoRecord}
    BY <1>1, Records DEF Install, Begin, NewRecord
  <2>3. op' \in Operation
    BY <2>1, <2>2, Begins DEF DataTypes, Kind
  <2> QED
    BY <2>1, <2>3
<1>2. ASSUME NEW p \in Plugin, Enable(p) PROVE OpTypes'
  <2>1. /\ pc = "idle" /\ op' = [kind |-> "enable", plugin |-> p, epoch |-> epoch, phase |-> "apply",
                                  orig |-> inv, rec |-> [inv[p] EXCEPT !.enabled = TRUE], was |-> FALSE]
        /\ pc' \in PcAt \ {"down", "idle"}
    BY <1>2 DEF Enable, Begin
  <2>2. [inv[p] EXCEPT !.enabled = TRUE] \in Record \cup {NoRecord}
    BY <1>2, Records DEF Enable, Begin
  <2>3. op' \in Operation
    BY <2>1, <2>2, Begins DEF DataTypes, Kind
  <2> QED
    BY <2>1, <2>3
<1>3. ASSUME NEW p \in Plugin, Rollback(p) PROVE OpTypes'
  <2>1. /\ pc = "idle" /\ op' = [kind |-> "rollback", plugin |-> p, epoch |-> epoch, phase |-> "apply",
                                  orig |-> inv, rec |-> [inv[p] EXCEPT !.active = inv[p].rollback, !.rollback = inv[p].active], was |-> FALSE]
        /\ pc' \in PcAt \ {"down", "idle"}
    BY <1>3 DEF Rollback, Begin
  <2>2. [inv[p] EXCEPT !.active = inv[p].rollback, !.rollback = inv[p].active] \in Record \cup {NoRecord}
    BY <1>3, Records DEF Rollback, Begin
  <2>3. op' \in Operation
    BY <2>1, <2>2, Begins DEF DataTypes, Kind
  <2> QED
    BY <2>1, <2>3
<1>4. ASSUME NEW p \in Plugin, Disable(p) PROVE OpTypes'
  <2>1. /\ pc = "idle" /\ op' = [kind |-> "disable", plugin |-> p, epoch |-> epoch, phase |-> "apply",
                                  orig |-> inv, rec |-> [inv[p] EXCEPT !.enabled = FALSE], was |-> FALSE]
        /\ pc' \in PcAt \ {"down", "idle"}
    BY <1>4 DEF Disable, Begin
  <2>2. [inv[p] EXCEPT !.enabled = FALSE] \in Record \cup {NoRecord}
    BY <1>4, Records DEF Disable, Begin
  <2>3. op' \in Operation
    BY <2>1, <2>2, Begins DEF DataTypes, Kind
  <2> QED
    BY <2>1, <2>3
<1>5. ASSUME NEW p \in Plugin, Remove(p) PROVE OpTypes'
  <2>1. /\ pc = "idle" /\ op' = [kind |-> "remove", plugin |-> p, epoch |-> epoch, phase |-> "apply",
                                  orig |-> inv, rec |-> NoRecord, was |-> FALSE]
        /\ pc' \in PcAt \ {"down", "idle"}
    BY <1>5 DEF Remove, Begin
  <2>2. NoRecord \in Record \cup {NoRecord}
    BY <1>5, Records DEF Remove, Begin
  <2>3. op' \in Operation
    BY <2>1, <2>2, Begins DEF DataTypes, Kind
  <2> QED
    BY <2>1, <2>3
<1>6. ASSUME NEW p \in Plugin, ApplySettings(p) PROVE OpTypes'
  <2>1. /\ pc = "idle" /\ op' = [kind |-> "settings", plugin |-> p, epoch |-> epoch, phase |-> "apply",
                                  orig |-> inv, rec |-> inv[p], was |-> FALSE]
        /\ pc' \in PcAt \ {"down", "idle"}
    BY <1>6 DEF ApplySettings, Begin
  <2>2. inv[p] \in Record \cup {NoRecord}
    BY <1>6, Records DEF ApplySettings, Begin
  <2>3. op' \in Operation
    BY <2>1, <2>2, Begins DEF DataTypes, Kind
  <2> QED
    BY <2>1, <2>3
<1>7. ASSUME NEW p \in Plugin, RestoreNext(p) PROVE OpTypes'
  <2>1. CASE UNCHANGED <<pc, op>>
    BY <2>1
  <2>2. CASE ~UNCHANGED <<pc, op>>
    <3>1. /\ pc' = "stop"
          /\ op' = [kind |-> "restore", plugin |-> p, epoch |-> restoreEpoch, phase |-> "apply",
                    orig |-> inv, rec |-> inv[p], was |-> FALSE]
      BY <1>7, <2>2 DEF RestoreNext
    <3>2. inv[p] \in Record \cup {NoRecord} /\ restoreEpoch \in Nat
      BY <1>7, Records DEF DataTypes
    <3>3. op' \in Operation
      BY <3>1, <3>2, Begins DEF Kind
    <3> QED
      BY <3>1, <3>3
  <2> QED
    BY <2>1, <2>2
<1>8. ASSUME NEW p \in Plugin, WorkerChanges(p) PROVE OpTypes'
  BY <1>8 DEF WorkerChanges, Host!WorkerChanges, Host!Becomes, Host!Live, Live
<1>9. CASE RecoverClean
  BY <1>9 DEF RecoverClean
<1>10. CASE RecoverDelete
  BY <1>10 DEF RecoverDelete
<1>11. CASE RecoverDone
  BY <1>11 DEF RecoverDone, AfterRecover, Goto, End
<1>12. CASE RecoverFails
  BY <1>12 DEF RecoverFails, End
<1>13. CASE Stage
  BY <1>13 DEF Stage, Goto, End
<1>14. CASE Publish
  BY <1>14 DEF Publish, Goto
<1>15. CASE StageFails
  BY <1>15 DEF StageFails, End
<1>16. CASE Activate
  <2>1. PICK was \in WasRunning(op.plugin) :
            op # NoOp /\ op' = [op EXCEPT !.was = was] /\ pc' = "stop"
    BY <1>16 DEF Activate
  <2>2. was \in BOOLEAN
    BY DEF WasRunning
  <2> QED
    BY <2>1, <2>2, Changes
<1>17. CASE ActivateFails
  BY <1>17 DEF ActivateFails, End
<1>18. CASE StopOwned
  BY <1>18 DEF StopOwned, AfterStop, Goto, End, Relaunches, Activating
<1>19. CASE StopFails
  BY <1>19 DEF StopFails, End
<1>20. CASE Start
  BY <1>20 DEF Start, Goto
<1>21. CASE StartFails
  <2>1. \/ End \/ (op # NoOp /\ pc' = "stop" /\ \E ph \in {"undo", "cleanup"} : op' = [op EXCEPT !.phase = ph])
    BY <1>21 DEF StartFails, AfterFailure, End, Activating
  <2> QED
    BY <2>1, Changes DEF End
<1>22. CASE AwaitReady
  BY <1>22 DEF AwaitReady, AfterReady, Goto, End, Activating
<1>23. CASE AwaitFails
  <2>1. \/ End \/ (op # NoOp /\ pc' = "stop" /\ \E ph \in {"undo", "cleanup"} : op' = [op EXCEPT !.phase = ph])
    BY <1>23 DEF AwaitFails, AfterFailure, End, Activating
  <2> QED
    BY <2>1, Changes DEF End
<1>24. CASE WritePending
  BY <1>24 DEF WritePending, Goto
<1>25. CASE Rename
  BY <1>25 DEF Rename, NextInventory, Goto
<1>26. CASE Sync
  <2>1. \/ Goto("start") \/ End
        \/ op # NoOp /\ pc' = "recover" /\ op' = [op EXCEPT !.phase = "committed"]
    BY <1>26 DEF Sync, AfterWrite, MayRelaunch, Goto, End
  <2>2. op # NoOp
    BY <1>26 DEF Sync
  <2> QED
    BY <2>1, <2>2, Changes DEF Goto, End
<1>27. CASE WriteFails
  <2>1. \/ End \/ (op # NoOp /\ pc' = "stop" /\ \E ph \in {"undo", "cleanup"} : op' = [op EXCEPT !.phase = ph])
    BY <1>27 DEF WriteFails, AfterFailure, End, Activating
  <2> QED
    BY <2>1, Changes DEF End
<1>28. CASE CommitSettings
  BY <1>28 DEF CommitSettings, AfterSettings, Goto, End
<1>29. CASE SettingsFail
  BY <1>29 DEF SettingsFail, End
<1>30. CASE RestoreBegin
  BY <1>30 DEF RestoreBegin
<1>31. CASE Close
  <2>1. CASE End
    BY <2>1 DEF End
  <2>2. CASE ~End
    <3>1. PICK p \in Plugin :
             op' = [kind |-> "close", plugin |-> p, epoch |-> epoch, phase |-> "apply",
                    orig |-> inv, rec |-> NoRecord, was |-> FALSE]
      BY <1>31, <2>2 DEF Close
    <3>2. pc' = "stop"
      BY <1>31, <2>2 DEF Close
    <3>3. op' \in Operation
      BY <3>1, Begins DEF DataTypes, Kind
    <3> QED
      BY <3>2, <3>3
  <2> QED
    BY <2>1, <2>2
<1>32. CASE Open
  <2>1. PICK p \in Plugin : op' = Opening(p)
    BY <1>32 DEF Open
  <2>2. op' \in Operation
    BY <2>1, Begins DEF DataTypes, Kind, Opening
  <2> QED
    BY <1>32, <2>2 DEF Open
<1>33. CASE Crash
  BY <1>33 DEF Crash
<1>34. CASE Revoke
  BY <1>34 DEF Revoke, Host!RevokeEpoch, Host!Live, Live
<1>35. CASE Resume
  BY <1>35 DEF Resume, Host!Resume
<1>36. CASE UNCHANGED vars
  BY <1>36 DEF vars
<1> QED
  BY ONLY <1>1, <1>2, <1>3, <1>4, <1>5, <1>6, <1>7, <1>8, <1>9, <1>10, <1>11, <1>12, <1>13, <1>14,
          <1>15, <1>16, <1>17, <1>18, <1>19, <1>20, <1>21, <1>22, <1>23, <1>24, <1>25, <1>26, <1>27,
          <1>28, <1>29, <1>30, <1>31, <1>32, <1>33, <1>34, <1>35, <1>36, [Next]_vars
     DEF Next, Step

\* A failure ends the operation or sends it to its stop.
LEMMA Failure ==
    ASSUME OpTypes, op # NoOp, AfterFailure
    PROVE  \/ op.phase # "apply" /\ End
           \/ /\ op.phase = "apply" /\ pc' = "stop" /\ op' \in Operation /\ SameOp(op')
              /\ op'.was = op.was /\ op'.phase = IF Activating THEN "undo" ELSE "cleanup"
<1>1. CASE op.phase # "apply"
  BY <1>1 DEF AfterFailure
<1>2. CASE op.phase = "apply"
  <2> DEFINE ph == IF Activating THEN "undo" ELSE "cleanup"
  <2>1. op' = [op EXCEPT !.phase = ph] /\ pc' = "stop"
    BY <1>2 DEF AfterFailure
  <2>2. ph \in {"committed", "undo", "cleanup"}
    OBVIOUS
  <2> HIDE DEF ph
  <2>3. op' \in Operation /\ SameOp(op') /\ op'.was = op.was /\ op'.phase = ph
    BY <2>1, <2>2, Changes
  <2> QED
    BY <1>2, <2>1, <2>3 DEF ph
<1> QED
  BY <1>1, <1>2

\* After the sync the operation is over, launches the previous version or cleans up.
LEMMA Committed ==
    ASSUME OpTypes, op # NoOp, AfterWrite
    PROVE  \/ op.phase = "undo" /\ MayRelaunch /\ Goto("start")
           \/ ((op.phase = "undo" /\ ~MayRelaunch) \/ op.kind = "disable") /\ End
           \/ /\ op.phase = "apply" /\ op.kind # "disable" /\ pc' = "recover" /\ op' \in Operation
              /\ SameOp(op') /\ op'.was = op.was /\ op'.phase = "committed"
BY Changes DEF AfterWrite

\* An operation moves only along its own path.
LEMMA PhaseStep ==
    ASSUME OpTypes, PhaseInv, RecordInv, [Next]_vars
    PROVE  PhaseInv'
<1>0. pc \notin {"down", "idle"} => op # NoOp /\ op \in Operation /\ OpFields
  BY Fields DEF OpTypes
<1> USE <1>0, NoneAssumption DEF PhaseInv, OpFields, Kind, Activating, Relaunches, Changing, disk, workers, authority, pass
<1>1. ASSUME NEW p \in Plugin, NEW v \in Version, NEW b \in BOOLEAN, Install(p, v, b)
      PROVE  PhaseInv'
  BY <1>1 DEF Install, Begin
<1>2. ASSUME NEW p \in Plugin, Enable(p) PROVE PhaseInv'
  BY <1>2 DEF Enable, Begin
<1>3. ASSUME NEW p \in Plugin, Rollback(p) PROVE PhaseInv'
  BY <1>3 DEF Rollback, Begin
<1>4. ASSUME NEW p \in Plugin, Disable(p) PROVE PhaseInv'
  BY <1>4 DEF Disable, Begin
<1>5. ASSUME NEW p \in Plugin, Remove(p) PROVE PhaseInv'
  BY <1>5 DEF Remove, Begin
<1>6. ASSUME NEW p \in Plugin, ApplySettings(p) PROVE PhaseInv'
  BY <1>6 DEF ApplySettings, Begin
<1>7. ASSUME NEW p \in Plugin, RestoreNext(p) PROVE PhaseInv'
  BY <1>7 DEF RestoreNext
<1>8. ASSUME NEW p \in Plugin, WorkerChanges(p) PROVE PhaseInv'
  BY <1>8 DEF WorkerChanges, Host!WorkerChanges, Host!Becomes, Host!Live
<1>9. CASE RecoverClean
  BY <1>9 DEF RecoverClean
<1>10. CASE RecoverDelete
  BY <1>10 DEF RecoverDelete
<1>11. CASE RecoverDone
  BY <1>11 DEF RecoverDone, AfterRecover, Goto, End
<1>12. CASE RecoverFails
  BY <1>12 DEF RecoverFails, End
<1>13. CASE Stage
  BY <1>13 DEF Stage, Goto, End
<1>14. CASE Publish
  BY <1>14 DEF Publish, Goto
<1>15. CASE StageFails
  BY <1>15 DEF StageFails, End
<1>16. CASE Activate
  BY <1>16 DEF Activate
<1>17. CASE ActivateFails
  BY <1>17 DEF ActivateFails, End
<1>18. CASE StopOwned
  BY <1>18 DEF StopOwned, AfterStop, Goto, End, Relaunches, Activating
<1>19. CASE StopFails
  BY <1>19 DEF StopFails, End
<1>20. CASE Start
  BY <1>20 DEF Start, Goto
<1>21. CASE StartFails
  <2>1. op # NoOp /\ AfterFailure
    BY <1>21 DEF StartFails
  <2> QED
    BY <1>21, <2>1, Failure DEF StartFails, End, SameOp
<1>22. CASE AwaitReady
  BY <1>22 DEF AwaitReady, AfterReady, Goto, End, Activating
<1>23. CASE AwaitFails
  <2>1. op # NoOp /\ AfterFailure
    BY <1>23 DEF AwaitFails
  <2> QED
    BY <1>23, <2>1, Failure DEF AwaitFails, End, SameOp
<1>24. CASE WritePending
  BY <1>24 DEF WritePending, MayWrite, Goto
<1>25. CASE Rename
  BY <1>25 DEF Rename, Goto
<1>26. CASE Sync
  <2>1. op # NoOp /\ AfterWrite /\ pc = "sync"
    BY <1>26 DEF Sync
  <2> QED
    BY <2>1, Committed DEF End, Goto, MayRelaunch, SameOp
<1>27. CASE WriteFails
  <2>1. op # NoOp /\ pc \in {"write", "rename", "sync"} /\ (End \/ (Activating /\ AfterFailure))
    BY <1>27 DEF WriteFails
  <2> QED
    BY <2>1, Failure DEF End, SameOp
<1>28. CASE CommitSettings
  BY <1>28 DEF CommitSettings, AfterSettings, Goto, End
<1>29. CASE SettingsFail
  BY <1>29 DEF SettingsFail, End
<1>30. CASE RestoreBegin
  BY <1>30 DEF RestoreBegin
<1>31. CASE Close
  <2>1. CASE End
    BY <2>1 DEF End
  <2>2. CASE ~End
    <3>1. PICK p \in Plugin :
             op' = [kind |-> "close", plugin |-> p, epoch |-> epoch, phase |-> "apply",
                    orig |-> inv, rec |-> NoRecord, was |-> FALSE]
      BY <1>31, <2>2 DEF Close
    <3>2. pc' = "stop"
      BY <1>31, <2>2 DEF Close
    <3> QED
      BY <3>1, <3>2
  <2> QED
    BY <2>1, <2>2
<1>32. CASE Open
  BY <1>32 DEF Open, Opening
<1>33. CASE Crash
  BY <1>33 DEF Crash
<1>34. CASE Revoke
  BY <1>34 DEF Revoke, Host!RevokeEpoch, Host!Live
<1>35. CASE Resume
  BY <1>35 DEF Resume, Host!Resume
<1>36. CASE UNCHANGED vars
  BY <1>36 DEF vars
<1> QED
  BY ONLY <1>1, <1>2, <1>3, <1>4, <1>5, <1>6, <1>7, <1>8, <1>9, <1>10, <1>11, <1>12, <1>13, <1>14,
          <1>15, <1>16, <1>17, <1>18, <1>19, <1>20, <1>21, <1>22, <1>23, <1>24, <1>25, <1>26, <1>27,
          <1>28, <1>29, <1>30, <1>31, <1>32, <1>33, <1>34, <1>35, <1>36, [Next]_vars
     DEF Next, Step

\* The same operation is to commit the same inventory.
LEMMA SameInventory ==
    ASSUME SameOp(op')
    PROVE  NewInventory' = NewInventory
BY DEF SameOp, NewInventory

\* The inventory is what the operation has read until its own commit.
LEMMA ReadStep ==
    ASSUME DataTypes, OpTypes, PhaseInv, ReadInv, WorkerInv, [Next]_vars
    PROVE  ReadInv'
<1>0. pc \notin {"down", "idle"} => op # NoOp /\ op \in Operation /\ OpFields
  BY Fields DEF OpTypes
<1> USE <1>0, NoneAssumption DEF PhaseInv, ReadInv, OpFields, NewInventory, disk, workers, authority, pass
<1>1. ASSUME NEW p \in Plugin, NEW v \in Version, NEW b \in BOOLEAN, Install(p, v, b)
      PROVE  ReadInv'
  BY <1>1 DEF Install, Begin
<1>2. ASSUME NEW p \in Plugin, Enable(p) PROVE ReadInv'
  BY <1>2 DEF Enable, Begin
<1>3. ASSUME NEW p \in Plugin, Rollback(p) PROVE ReadInv'
  BY <1>3 DEF Rollback, Begin
<1>4. ASSUME NEW p \in Plugin, Disable(p) PROVE ReadInv'
  BY <1>4 DEF Disable, Begin
<1>5. ASSUME NEW p \in Plugin, Remove(p) PROVE ReadInv'
  BY <1>5 DEF Remove, Begin
<1>6. ASSUME NEW p \in Plugin, ApplySettings(p) PROVE ReadInv'
  BY <1>6 DEF ApplySettings, Begin
<1>7. ASSUME NEW p \in Plugin, RestoreNext(p) PROVE ReadInv'
  BY <1>7 DEF RestoreNext
<1>8. ASSUME NEW p \in Plugin, WorkerChanges(p) PROVE ReadInv'
  BY <1>8 DEF WorkerChanges, Host!WorkerChanges, Host!Becomes, Host!Live
<1>9. CASE RecoverClean
  BY <1>9 DEF RecoverClean
<1>10. CASE RecoverDelete
  BY <1>10 DEF RecoverDelete
<1>11. CASE RecoverDone
  BY <1>11 DEF RecoverDone, AfterRecover, Goto, End
<1>12. CASE RecoverFails
  BY <1>12 DEF RecoverFails, End
<1>13. CASE Stage
  BY <1>13 DEF Stage, Goto, End
<1>14. CASE Publish
  BY <1>14 DEF Publish, Goto
<1>15. CASE StageFails
  BY <1>15 DEF StageFails, End
<1>16. CASE Activate
  <2>1. PICK was \in WasRunning(op.plugin) :
            op # NoOp /\ op' = [op EXCEPT !.was = was] /\ pc' = "stop" /\ inv' = inv
    BY <1>16 DEF Activate
  <2>2. op' \in Operation /\ SameOp(op') /\ op'.phase = op.phase /\ op'.was = was
    <3>1. was \in BOOLEAN
      BY DEF WasRunning
    <3> QED
      BY <2>1, <3>1, Changes
  <2>3. was => Present(op.plugin)
    BY DEF WasRunning, Live, Present
  <2>4. was => inv[op.plugin] # NoRecord /\ inv[op.plugin].enabled
    BY <1>16, <2>3 DEF Activate, WorkerInv, WantedInv, Fits
  <2> QED
    BY <1>16, <2>1, <2>2, <2>4 DEF Activate, SameOp
<1>17. CASE ActivateFails
  BY <1>17 DEF ActivateFails, End
<1>18. CASE StopOwned
  BY <1>18 DEF StopOwned, AfterStop, Goto, End, Relaunches, Activating
<1>19. CASE StopFails
  BY <1>19 DEF StopFails, End
<1>20. CASE Start
  BY <1>20 DEF Start, Goto
<1>21. CASE StartFails
  <2>1. op # NoOp /\ AfterFailure
    BY <1>21 DEF StartFails
  <2> QED
    BY <1>21, <2>1, Failure, SameInventory DEF StartFails, End, Activating, SameOp, StartFails
<1>22. CASE AwaitReady
  BY <1>22 DEF AwaitReady, AfterReady, Goto, End, Activating
<1>23. CASE AwaitFails
  <2>1. op # NoOp /\ AfterFailure
    BY <1>23 DEF AwaitFails
  <2> QED
    BY <1>23, <2>1, Failure, SameInventory DEF AwaitFails, End, Activating, SameOp, AwaitFails
<1>24. CASE WritePending
  BY <1>24 DEF WritePending, MayWrite, Goto
<1>25. CASE Rename
  BY <1>25 DEF Rename, NextInventory, Goto
<1>26. CASE Sync
  <2>1. op # NoOp /\ AfterWrite /\ pc = "sync"
    BY <1>26 DEF Sync
  <2> QED
    BY <1>26, <2>1, Committed, SameInventory DEF End, Goto, MayRelaunch, SameOp, Sync
<1>27. CASE WriteFails
  <2>1. op # NoOp /\ pc \in {"write", "rename", "sync"} /\ (End \/ (Activating /\ AfterFailure))
    BY <1>27 DEF WriteFails
  <2> QED
    BY <1>27, <2>1, Failure, SameInventory DEF End, Activating, SameOp, WriteFails
<1>28. CASE CommitSettings
  BY <1>28 DEF CommitSettings, AfterSettings, Goto, End
<1>29. CASE SettingsFail
  BY <1>29 DEF SettingsFail, End
<1>30. CASE RestoreBegin
  BY <1>30 DEF RestoreBegin
<1>31. CASE Close
  <2>1. CASE End
    BY <2>1 DEF End
  <2>2. CASE ~End
    <3>1. PICK p \in Plugin :
             op' = [kind |-> "close", plugin |-> p, epoch |-> epoch, phase |-> "apply",
                    orig |-> inv, rec |-> NoRecord, was |-> FALSE]
      BY <1>31, <2>2 DEF Close
    <3>2. pc' = "stop"
      BY <1>31, <2>2 DEF Close
    <3> QED
      BY <1>31, <3>1, <3>2 DEF Close
  <2> QED
    BY <2>1, <2>2
<1>32. CASE Open
  BY <1>32 DEF Open, Opening
<1>33. CASE Crash
  BY <1>33 DEF Crash
<1>34. CASE Revoke
  BY <1>34 DEF Revoke, Host!RevokeEpoch, Host!Live
<1>35. CASE Resume
  BY <1>35 DEF Resume, Host!Resume
<1>36. CASE UNCHANGED vars
  BY <1>36 DEF vars
<1> QED
  BY ONLY <1>1, <1>2, <1>3, <1>4, <1>5, <1>6, <1>7, <1>8, <1>9, <1>10, <1>11, <1>12, <1>13, <1>14,
          <1>15, <1>16, <1>17, <1>18, <1>19, <1>20, <1>21, <1>22, <1>23, <1>24, <1>25, <1>26, <1>27,
          <1>28, <1>29, <1>30, <1>31, <1>32, <1>33, <1>34, <1>35, <1>36, [Next]_vars
     DEF Next, Step

\* The record of each operation is a legal successor of the one it has read.
LEMMA Legal ==
    ASSUME DataTypes, NEW p \in Plugin, inv[p] # NoRecord
    PROVE  /\ \A v \in Version, b \in BOOLEAN : NewRecord(p, v, b) \in Promise!NextRecord(inv[p])
           /\ \A b \in BOOLEAN : [inv[p] EXCEPT !.enabled = b] \in Promise!NextRecord(inv[p])
           /\ inv[p].rollback # NoVersion =>
                 [inv[p] EXCEPT !.active = inv[p].rollback, !.rollback = inv[p].active]
                     \in Promise!NextRecord(inv[p])
           /\ NoRecord \in Promise!NextRecord(inv[p])
<1> DEFINE r == inv[p]
<1>1. r \in Record
  BY DEF DataTypes, Inventory
<1>2. r.active \in Version /\ r.rollback \in Version \cup {NoVersion} /\ r.enabled \in BOOLEAN
  BY ONLY <1>1 DEF Record
<1>3. ASSUME NEW v \in Version, NEW b \in BOOLEAN
      PROVE  NewRecord(p, v, b) \in Promise!NextRecord(r)
  <2>1. CASE v = r.active
    <3>1. NewRecord(p, v, b) = Promise!Rec(r.active, r.rollback, b)
      BY <2>1 DEF NewRecord, Promise!Rec
    <3> QED
      BY ONLY <3>1, <1>3 DEF Promise!NextRecord
  <2>2. CASE v # r.active
    <3>1. NewRecord(p, v, b) = Promise!Rec(v, r.active, b)
      BY <2>2 DEF NewRecord, Promise!Rec
    <3> QED
      BY ONLY <3>1, <1>3, <2>2 DEF Promise!NextRecord
  <2> QED
    BY <2>1, <2>2
<1>4. ASSUME NEW b \in BOOLEAN PROVE [r EXCEPT !.enabled = b] \in Promise!NextRecord(r)
  <2>1. [r EXCEPT !.enabled = b] = Promise!Rec(r.active, r.rollback, b)
    BY ONLY <1>1 DEF Record, Promise!Rec
  <2> QED
    BY ONLY <2>1, <1>4 DEF Promise!NextRecord
<1>5. ASSUME r.rollback # NoVersion
      PROVE  [r EXCEPT !.active = r.rollback, !.rollback = r.active] \in Promise!NextRecord(r)
  <2>1. [r EXCEPT !.active = r.rollback, !.rollback = r.active]
            = Promise!Rec(r.rollback, r.active, r.enabled)
    <3> DEFINE x == [r EXCEPT !.active = r.rollback, !.rollback = r.active]
    <3>1. x \in Record
      BY ONLY <1>1, <1>2, <1>5 DEF Record
    <3>2. x.active = r.rollback /\ x.rollback = r.active /\ x.enabled = r.enabled
      BY ONLY <1>1 DEF Record
    <3> HIDE DEF x
    <3>3. x = Promise!Rec(x.active, x.rollback, x.enabled)
      BY ONLY <3>1 DEF Record, Promise!Rec
    <3> QED
      BY ONLY <3>2, <3>3 DEF x
  <2> QED
    BY ONLY <2>1, <1>5 DEF Promise!NextRecord
<1>6. NoRecord \in Promise!NextRecord(r)
  BY ONLY DEF Promise!NextRecord
<1> QED
  BY <1>3, <1>4, <1>5, <1>6

\* Every operation begins with a legal record and keeps it; an installation is
\* admitted before it goes on.
LEMMA RecordStep ==
    ASSUME DataTypes, OpTypes, PhaseInv, ReadInv, RecordInv, [Next]_vars
    PROVE  RecordInv'
<1>0. pc \notin {"down", "idle"} => op # NoOp /\ op \in Operation /\ OpFields
  BY Fields DEF OpTypes
<1> USE <1>0, NoneAssumption DEF PhaseInv, RecordInv, OpFields, disk, workers, authority, pass
<1>1. ASSUME NEW p \in Plugin, NEW v \in Version, NEW b \in BOOLEAN, Install(p, v, b)
      PROVE  RecordInv'
  <2>1. /\ op'.kind = "install" /\ op'.plugin = p /\ op'.orig = inv /\ op'.rec = NewRecord(p, v, b)
        /\ pc' = "recover"
    BY <1>1 DEF Install, Begin
  <2>2. inv[p] \in Record \cup {NoRecord}
    BY Records
  <2>3. NewRecord(p, v, b) # NoRecord /\ (inv[p] = NoRecord => NewRecord(p, v, b).rollback = NoVersion)
    <3>1. NewRecord(p, v, b) \in Record
      BY ONLY Records, DataTypes, <1>1
    <3> QED
      BY <3>1 DEF NewRecord
  <2>4. inv[p] # NoRecord => NewRecord(p, v, b) \in Promise!NextRecord(inv[p])
    BY <1>1, Legal
  <2> QED
    BY <2>1, <2>3, <2>4
<1>2. ASSUME NEW p \in Plugin, Enable(p) PROVE RecordInv'
  <2>1. /\ op'.kind = "enable" /\ op'.plugin = p /\ op'.orig = inv /\ op'.rec = [inv[p] EXCEPT !.enabled = TRUE]
        /\ pc' = "activate"
    BY <1>2 DEF Enable, Begin
  <2>2. inv[p] \in Record \cup {NoRecord}
    BY Records
  <2>3. /\ inv[p] # NoRecord /\ op'.rec # NoRecord
        /\ op'.rec \in Promise!NextRecord(inv[p])
    <3>1. inv[p] # NoRecord
      BY <1>2 DEF Enable
    <3>2. op'.rec \in Record
      BY ONLY <3>1, <2>1, Records, DataTypes, p \in Plugin
    <3>3. op'.rec \in Promise!NextRecord(inv[p])
      BY ONLY <3>1, <2>1, Legal, DataTypes, p \in Plugin
    <3> QED
      BY ONLY <3>1, <3>2, <3>3, NoneAssumption
  <2> QED
    BY <2>1, <2>3
<1>3. ASSUME NEW p \in Plugin, Rollback(p) PROVE RecordInv'
  <2>1. /\ op'.kind = "rollback" /\ op'.plugin = p /\ op'.orig = inv
        /\ op'.rec = [inv[p] EXCEPT !.active = inv[p].rollback, !.rollback = inv[p].active]
        /\ pc' = "activate"
    BY <1>3 DEF Rollback, Begin
  <2>2. inv[p] \in Record \cup {NoRecord}
    BY Records
  <2>3. /\ inv[p] # NoRecord /\ op'.rec # NoRecord
        /\ op'.rec \in Promise!NextRecord(inv[p])
    <3>1. inv[p] # NoRecord /\ inv[p].rollback # NoVersion
      BY <1>3 DEF Rollback
    <3>2. op'.rec \in Record
      BY ONLY <3>1, <2>1, Records, DataTypes, p \in Plugin
    <3>3. op'.rec \in Promise!NextRecord(inv[p])
      <4>1. [inv[p] EXCEPT !.active = inv[p].rollback, !.rollback = inv[p].active]
                \in Promise!NextRecord(inv[p])
        BY ONLY <3>1, Legal, DataTypes, p \in Plugin
      <4>2. op'.rec = [inv[p] EXCEPT !.active = inv[p].rollback, !.rollback = inv[p].active]
        BY <2>1
      <4> QED
        BY ONLY <4>1, <4>2, Zenon
    <3> QED
      BY ONLY <3>1, <3>2, <3>3, NoneAssumption
  <2> QED
    BY <2>1, <2>3
<1>4. ASSUME NEW p \in Plugin, Disable(p) PROVE RecordInv'
  <2>1. /\ op'.kind = "disable" /\ op'.plugin = p /\ op'.orig = inv /\ op'.rec = [inv[p] EXCEPT !.enabled = FALSE]
        /\ pc' = "stop"
    BY <1>4 DEF Disable, Begin
  <2>2. inv[p] \in Record \cup {NoRecord}
    BY Records
  <2>3. /\ inv[p] # NoRecord /\ op'.rec # NoRecord
        /\ ~op'.rec.enabled /\ op'.rec.active = inv[p].active
        /\ op'.rec \in Promise!NextRecord(inv[p])
    <3>1. inv[p] # NoRecord
      BY <1>4 DEF Disable
    <3>2. op'.rec \in Record
      BY ONLY <3>1, <2>1, Records, DataTypes, p \in Plugin
    <3>4. op'.rec \in Promise!NextRecord(inv[p])
      BY ONLY <3>1, <2>1, Legal, DataTypes, p \in Plugin
    <3>3. ~op'.rec.enabled /\ op'.rec.active = inv[p].active
      BY <3>1, <2>1, <2>2 DEF Record
    <3> QED
      BY ONLY <3>1, <3>2, <3>3, <3>4, NoneAssumption
  <2> QED
    BY <2>1, <2>3
<1>5. ASSUME NEW p \in Plugin, Remove(p) PROVE RecordInv'
  <2>1. /\ op'.kind = "remove" /\ op'.plugin = p /\ op'.orig = inv /\ op'.rec = NoRecord
        /\ pc' = "stop"
    BY <1>5 DEF Remove, Begin
  <2>2. inv[p] \in Record \cup {NoRecord}
    BY Records
  <2>3. /\ inv[p] # NoRecord
        /\ op'.rec \in Promise!NextRecord(inv[p])
    BY <1>5, <2>1, Legal DEF Remove
  <2> QED
    BY <2>1, <2>3
<1>6. ASSUME NEW p \in Plugin, ApplySettings(p) PROVE RecordInv'
  BY <1>6 DEF ApplySettings, Begin
<1>7. ASSUME NEW p \in Plugin, RestoreNext(p) PROVE RecordInv'
  <2>1. CASE UNCHANGED <<pc, op>>
    BY <2>1
  <2>2. CASE ~UNCHANGED <<pc, op>>
    BY <1>7, <2>2 DEF RestoreNext, StillEnabled
  <2> QED
    BY <2>1, <2>2
<1>8. ASSUME NEW p \in Plugin, WorkerChanges(p) PROVE RecordInv'
  BY <1>8 DEF WorkerChanges, Host!WorkerChanges, Host!Becomes, Host!Live
<1>9. CASE RecoverClean
  BY <1>9 DEF RecoverClean
<1>10. CASE RecoverDelete
  BY <1>10 DEF RecoverDelete
<1>11. CASE RecoverDone
  BY <1>11 DEF RecoverDone, AfterRecover, Goto, End
<1>12. CASE RecoverFails
  BY <1>12 DEF RecoverFails, End
<1>13. CASE Stage
  <2>1. CASE End
    BY <2>1 DEF End
  <2>2. CASE ~End
    <3>1. op # NoOp /\ op' = op /\ pc = "stage" /\ Admitted
      BY <1>13, <2>2 DEF Stage, Goto
    <3>2. inv = op.orig
      BY <3>1 DEF ReadInv
    <3>3. op.orig[op.plugin] = NoRecord => Cardinality(Installed(op.orig)) < MaxPlugins
      BY <3>1, <3>2 DEF Admitted
    <3> QED
      BY <3>1, <3>3
  <2> QED
    BY <2>1, <2>2
<1>14. CASE Publish
  BY <1>14 DEF Publish, Goto
<1>15. CASE StageFails
  BY <1>15 DEF StageFails, End
<1>16. CASE Activate
  BY <1>16 DEF Activate
<1>17. CASE ActivateFails
  BY <1>17 DEF ActivateFails, End
<1>18. CASE StopOwned
  BY <1>18 DEF StopOwned, AfterStop, Goto, End, Relaunches, Activating
<1>19. CASE StopFails
  BY <1>19 DEF StopFails, End
<1>20. CASE Start
  BY <1>20 DEF Start, Goto
<1>21. CASE StartFails
  <2>1. op # NoOp /\ AfterFailure
    BY <1>21 DEF StartFails
  <2> QED
    BY <1>21, <2>1, Failure DEF StartFails, End, Activating, SameOp, StartFails
<1>22. CASE AwaitReady
  BY <1>22 DEF AwaitReady, AfterReady, Goto, End, Activating
<1>23. CASE AwaitFails
  <2>1. op # NoOp /\ AfterFailure
    BY <1>23 DEF AwaitFails
  <2> QED
    BY <1>23, <2>1, Failure DEF AwaitFails, End, Activating, SameOp, AwaitFails
<1>24. CASE WritePending
  BY <1>24 DEF WritePending, MayWrite, Goto
<1>25. CASE Rename
  BY <1>25 DEF Rename, Goto
<1>26. CASE Sync
  <2>1. op # NoOp /\ AfterWrite /\ pc = "sync"
    BY <1>26 DEF Sync
  <2> QED
    BY <1>26, <2>1, Committed DEF End, Goto, MayRelaunch, SameOp, Sync
<1>27. CASE WriteFails
  <2>1. op # NoOp /\ pc \in {"write", "rename", "sync"} /\ (End \/ (Activating /\ AfterFailure))
    BY <1>27 DEF WriteFails
  <2> QED
    BY <1>27, <2>1, Failure DEF End, Activating, SameOp, WriteFails
<1>28. CASE CommitSettings
  BY <1>28 DEF CommitSettings, AfterSettings, Goto, End
<1>29. CASE SettingsFail
  BY <1>29 DEF SettingsFail, End
<1>30. CASE RestoreBegin
  BY <1>30 DEF RestoreBegin
<1>31. CASE Close
  <2>1. CASE End
    BY <2>1 DEF End
  <2>2. CASE ~End
    <3>1. PICK p \in Plugin :
             op' = [kind |-> "close", plugin |-> p, epoch |-> epoch, phase |-> "apply",
                    orig |-> inv, rec |-> NoRecord, was |-> FALSE]
      BY <1>31, <2>2 DEF Close
    <3>2. pc' = "stop"
      BY <1>31, <2>2 DEF Close
    <3> QED
      BY <3>1, <3>2
  <2> QED
    BY <2>1, <2>2
<1>32. CASE Open
  BY <1>32 DEF Open, Opening
<1>33. CASE Crash
  BY <1>33 DEF Crash
<1>34. CASE Revoke
  BY <1>34 DEF Revoke, Host!RevokeEpoch, Host!Live
<1>35. CASE Resume
  BY <1>35 DEF Resume, Host!Resume
<1>36. CASE UNCHANGED vars
  BY <1>36 DEF vars
<1> QED
  BY ONLY <1>1, <1>2, <1>3, <1>4, <1>5, <1>6, <1>7, <1>8, <1>9, <1>10, <1>11, <1>12, <1>13, <1>14,
          <1>15, <1>16, <1>17, <1>18, <1>19, <1>20, <1>21, <1>22, <1>23, <1>24, <1>25, <1>26, <1>27,
          <1>28, <1>29, <1>30, <1>31, <1>32, <1>33, <1>34, <1>35, <1>36, [Next]_vars
     DEF Next, Step

\* The version a record may be rolled back to is one its predecessor referred to.
LEMMA RetainedRollback ==
    ASSUME NEW r, NEW q \in Promise!NextRecord(r), q # NoRecord
    PROVE  q.rollback \in {r.active, r.rollback}
BY DEF Promise!NextRecord, Promise!Rec

\* A commit adds one version to what the inventory refers to.
LEMMA NewReferences ==
    ASSUME OpFields, RecordInv, op # NoOp, Changing, NEW c \in Referenced(NewInventory)
    PROVE  c \in Referenced(op.orig) \/ (op.rec # NoRecord /\ c = <<op.plugin, op.rec.active>>)
<1> DEFINE old == op.orig[op.plugin]
<1>1. /\ c \in Plugin \X Version /\ NewInventory[c[1]] # NoRecord
      /\ c[2] \in {NewInventory[c[1]].active, NewInventory[c[1]].rollback}
  BY DEF Referenced
<1>2. op.orig \in Inventory /\ op.plugin \in Plugin
  BY DEF OpFields
<1>3. CASE c[1] # op.plugin
  <2>1. NewInventory[c[1]] = op.orig[c[1]]
    BY ONLY <1>1, <1>2, <1>3 DEF NewInventory, Inventory
  <2> QED
    BY ONLY <1>1, <2>1 DEF Referenced
<1>4. CASE c[1] = op.plugin
  <2>1. NewInventory[c[1]] = op.rec
    BY ONLY <1>2, <1>4 DEF NewInventory, Inventory
  <2>2. c = <<op.plugin, c[2]>>
    BY ONLY <1>1, <1>4
  <2>3. CASE c[2] = op.rec.active
    BY <1>1, <2>1, <2>2, <2>3
  <2>4. CASE c[2] = op.rec.rollback
    <3>1. op.rec.rollback # NoVersion
      BY <1>1, <2>4, StoreAssumption
    <3>2. old # NoRecord /\ op.rec \in Promise!NextRecord(old)
      BY <3>1 DEF RecordInv, Changing
    <3>3. op.rec.rollback \in {old.active, old.rollback}
      BY ONLY <1>1, <2>1, <3>2, RetainedRollback
    <3> QED
      BY ONLY <1>1, <1>2, <1>4, <2>4, <3>2, <3>3 DEF Referenced
  <2> QED
    BY <1>1, <2>1, <2>3, <2>4
<1> QED
  BY <1>3, <1>4

\* No step deletes what is recorded or may be recorded again.
LEMMA ContentStep ==
    ASSUME DataTypes, OpTypes, PhaseInv, ReadInv, RecordInv, ContentInv, [Next]_vars
    PROVE  ContentInv'
<1>0. pc \notin {"down", "idle"} => op # NoOp /\ op \in Operation /\ OpFields
  BY Fields DEF OpTypes
<1> USE <1>0, NoneAssumption DEF PhaseInv, ContentInv, InventoryInstallable, Activating, disk, workers, authority, pass
<1>1. ASSUME NEW p \in Plugin, NEW v \in Version, NEW b \in BOOLEAN, Install(p, v, b)
      PROVE  ContentInv'
  BY <1>1 DEF Install, Begin
<1>2. ASSUME NEW p \in Plugin, Enable(p) PROVE ContentInv'
  BY <1>2 DEF Enable, Begin
<1>3. ASSUME NEW p \in Plugin, Rollback(p) PROVE ContentInv'
  BY <1>3 DEF Rollback, Begin
<1>4. ASSUME NEW p \in Plugin, Disable(p) PROVE ContentInv'
  BY <1>4 DEF Disable, Begin
<1>5. ASSUME NEW p \in Plugin, Remove(p) PROVE ContentInv'
  BY <1>5 DEF Remove, Begin
<1>6. ASSUME NEW p \in Plugin, ApplySettings(p) PROVE ContentInv'
  BY <1>6 DEF ApplySettings, Begin, Verified
<1>7. ASSUME NEW p \in Plugin, RestoreNext(p) PROVE ContentInv'
  BY <1>7 DEF RestoreNext, Verified
<1>8. ASSUME NEW p \in Plugin, WorkerChanges(p) PROVE ContentInv'
  BY <1>8 DEF WorkerChanges, Host!WorkerChanges, Host!Becomes, Host!Live
<1>9. CASE RecoverClean
  BY <1>9 DEF RecoverClean
<1>10. CASE RecoverDelete
  <2>1. pc = "recover" /\ inv' = inv /\ op' = op /\ pc' = pc
    BY <1>10 DEF RecoverDelete
  <2>2. Referenced(inv) \subseteq content'
    BY <1>10 DEF RecoverDelete, Retained
  <2>3. op.phase # "committed" => op.orig = inv
    BY <2>1 DEF ReadInv
  <2> QED
    BY <2>1, <2>2, <2>3
<1>11. CASE RecoverDone
  BY <1>11 DEF RecoverDone, AfterRecover, Goto, End
<1>12. CASE RecoverFails
  BY <1>12 DEF RecoverFails, End
<1>13. CASE Stage
  BY <1>13 DEF Stage, Verified, Goto, End
<1>14. CASE Publish
  BY <1>14 DEF Publish, Goto
<1>15. CASE StageFails
  BY <1>15 DEF StageFails, End
<1>16. CASE Activate
  BY <1>16 DEF Activate, Verified
<1>17. CASE ActivateFails
  BY <1>17 DEF ActivateFails, End
<1>18. CASE StopOwned
  BY <1>18 DEF StopOwned, AfterStop, Goto, End, Activating
<1>19. CASE StopFails
  BY <1>19 DEF StopFails, End
<1>20. CASE Start
  BY <1>20 DEF Start, Verified, Goto
<1>21. CASE StartFails
  <2>1. op # NoOp /\ AfterFailure
    BY <1>21 DEF StartFails
  <2> QED
    BY <1>21, <2>1, Failure DEF StartFails, End, Activating, SameOp, StartFails
<1>22. CASE AwaitReady
  BY <1>22 DEF AwaitReady, AfterReady, Goto, End, Activating
<1>23. CASE AwaitFails
  <2>1. op # NoOp /\ AfterFailure
    BY <1>23 DEF AwaitFails
  <2> QED
    BY <1>23, <2>1, Failure DEF AwaitFails, End, Activating, SameOp, AwaitFails
<1>24. CASE WritePending
  BY <1>24 DEF WritePending, MayWrite, Goto
<1>25. CASE Rename
  <2>1. pc = "rename" /\ inv' = NextInventory /\ op' = op /\ content' = content /\ pc' = "sync"
    BY <1>25 DEF Rename, Goto
  <2>2. op # NoOp /\ Changing /\ op.phase \in {"apply", "undo"}
    BY <2>1
  <2>3. Referenced(op.orig) \subseteq content
    BY <2>2
  <2>4. ASSUME NEW c \in Referenced(NewInventory) PROVE c \in content
    <3>1. CASE c \in Referenced(op.orig)
      BY <2>3, <3>1
    <3>2. CASE op.rec # NoRecord /\ c = <<op.plugin, op.rec.active>>
      <4>1. CASE Activating
        BY <2>1, <2>2, <3>2, <4>1
      <4>2. CASE op.kind = "disable"
        <5>1. op.rec.active = op.orig[op.plugin].active /\ op.orig[op.plugin] # NoRecord
          BY <2>2, <4>2 DEF RecordInv
        <5>2. c \in Plugin \X Version
          BY DEF Referenced
        <5>3. c \in Referenced(op.orig)
          BY ONLY <3>2, <5>1, <5>2 DEF Referenced
        <5> QED
          BY <2>3, <5>3
      <4>3. CASE op.kind = "remove"
        BY <2>2, <3>2, <4>3 DEF RecordInv
      <4> QED
        BY <2>2, <4>1, <4>2, <4>3 DEF Changing
    <3> QED
      BY <2>1, <2>2, <3>1, <3>2, NewReferences
  <2>5. Referenced(inv') \subseteq content
    <3>1. CASE op.phase = "undo"
      BY <2>1, <2>3, <3>1 DEF NextInventory
    <3>2. CASE op.phase = "apply"
      BY <2>1, <2>4, <3>2 DEF NextInventory, NewInventory
    <3> QED
      BY <2>2, <3>1, <3>2
  <2> QED
    BY <2>1, <2>5
<1>26. CASE Sync
  <2>1. op # NoOp /\ AfterWrite /\ pc = "sync"
    BY <1>26 DEF Sync
  <2> QED
    BY <1>26, <2>1, Committed DEF End, Goto, MayRelaunch, SameOp, Sync
<1>27. CASE WriteFails
  <2>1. op # NoOp /\ pc \in {"write", "rename", "sync"} /\ (End \/ (Activating /\ AfterFailure))
    BY <1>27 DEF WriteFails
  <2> QED
    BY <1>27, <2>1, Failure DEF End, Activating, SameOp, WriteFails
<1>28. CASE CommitSettings
  BY <1>28 DEF CommitSettings, AfterSettings, Goto, End
<1>29. CASE SettingsFail
  BY <1>29 DEF SettingsFail, End
<1>30. CASE RestoreBegin
  BY <1>30 DEF RestoreBegin
<1>31. CASE Close
  <2>1. CASE End
    BY <1>31, <2>1 DEF Close, End
  <2>2. CASE ~End
    <3>1. PICK p \in Plugin :
             op' = [kind |-> "close", plugin |-> p, epoch |-> epoch, phase |-> "apply",
                    orig |-> inv, rec |-> NoRecord, was |-> FALSE]
      BY <1>31, <2>2 DEF Close
    <3>2. pc' = "stop"
      BY <1>31, <2>2 DEF Close
    <3> QED
      BY <1>31, <3>1, <3>2 DEF Close
  <2> QED
    BY <2>1, <2>2
<1>32. CASE Open
  BY <1>32 DEF Open, Opening
<1>33. CASE Crash
  BY <1>33 DEF Crash
<1>34. CASE Revoke
  BY <1>34 DEF Revoke, Host!RevokeEpoch, Host!Live
<1>35. CASE Resume
  BY <1>35 DEF Resume, Host!Resume
<1>36. CASE UNCHANGED vars
  BY <1>36 DEF vars
<1> QED
  BY ONLY <1>1, <1>2, <1>3, <1>4, <1>5, <1>6, <1>7, <1>8, <1>9, <1>10, <1>11, <1>12, <1>13, <1>14,
          <1>15, <1>16, <1>17, <1>18, <1>19, <1>20, <1>21, <1>22, <1>23, <1>24, <1>25, <1>26, <1>27,
          <1>28, <1>29, <1>30, <1>31, <1>32, <1>33, <1>34, <1>35, <1>36, [Next]_vars
     DEF Next, Step

\* Starting and stopping change the manager's map and the host's together.
LEMMA OwnStep ==
    ASSUME DataTypes, OpTypes, PhaseInv, ReadInv, RecordInv, OwnInv, [Next]_vars
    PROVE  OwnInv'
<1>0. pc \notin {"down", "idle"} => op # NoOp /\ OpFields
  BY Fields DEF OpTypes
<1> USE <1>0 DEF OwnInv, DataTypes, disk, workers, authority, pass
<1>1. ASSUME NEW p \in Plugin, NEW v \in Version, NEW b \in BOOLEAN, Install(p, v, b) PROVE OwnInv'
  BY <1>1 DEF Install, Begin
<1>2. ASSUME NEW p \in Plugin, Enable(p) PROVE OwnInv'
  BY <1>2 DEF Enable, Begin
<1>3. ASSUME NEW p \in Plugin, Rollback(p) PROVE OwnInv'
  BY <1>3 DEF Rollback, Begin
<1>4. ASSUME NEW p \in Plugin, Disable(p) PROVE OwnInv'
  BY <1>4 DEF Disable, Begin
<1>5. ASSUME NEW p \in Plugin, Remove(p) PROVE OwnInv'
  BY <1>5 DEF Remove, Begin
<1>6. ASSUME NEW p \in Plugin, ApplySettings(p) PROVE OwnInv'
  BY <1>6 DEF ApplySettings, Begin
<1>7. ASSUME NEW p \in Plugin, RestoreNext(p) PROVE OwnInv'
  BY <1>7 DEF RestoreNext
<1>8. ASSUME NEW p \in Plugin, WorkerChanges(p) PROVE OwnInv'
  BY <1>8 DEF WorkerChanges, Host!WorkerChanges, Host!Becomes, Host!Live, Live
<1>9. CASE RecoverClean
  BY <1>9 DEF RecoverClean
<1>10. CASE RecoverDelete
  BY <1>10 DEF RecoverDelete
<1>11. CASE RecoverDone
  BY <1>11 DEF RecoverDone
<1>12. CASE RecoverFails
  BY <1>12 DEF RecoverFails
<1>13. CASE Stage
  BY <1>13 DEF Stage
<1>14. CASE Publish
  BY <1>14 DEF Publish
<1>15. CASE StageFails
  BY <1>15 DEF StageFails
<1>16. CASE Activate
  BY <1>16 DEF Activate, Live
<1>17. CASE ActivateFails
  BY <1>17 DEF ActivateFails
<1>18. CASE StopOwned
  BY <1>18 DEF StopOwned
<1>19. CASE StopFails
  BY <1>19 DEF StopFails
<1>20. CASE Start
  <2>1. op.plugin \in Plugin /\ Target \in Version /\ Target # NoVersion
    BY <1>20, Versions, StoreAssumption DEF Start, OpFields
  <2>2. /\ owned' = [owned EXCEPT ![op.plugin] = Target] /\ wver' = [wver EXCEPT ![op.plugin] = Target]
        /\ wstate' = [wstate EXCEPT ![op.plugin] = "starting"]
    BY <1>20 DEF Start
  <2> QED
    BY <2>1, <2>2
<1>21. CASE StartFails
  BY <1>21 DEF StartFails
<1>22. CASE AwaitReady
  BY <1>22 DEF AwaitReady
<1>23. CASE AwaitFails
  BY <1>23 DEF AwaitFails
<1>24. CASE WritePending
  BY <1>24 DEF WritePending
<1>25. CASE Rename
  BY <1>25 DEF Rename
<1>26. CASE Sync
  BY <1>26 DEF Sync
<1>27. CASE WriteFails
  BY <1>27 DEF WriteFails
<1>28. CASE CommitSettings
  BY <1>28 DEF CommitSettings
<1>29. CASE SettingsFail
  BY <1>29 DEF SettingsFail
<1>30. CASE RestoreBegin
  BY <1>30 DEF RestoreBegin
<1>31. CASE Close
  BY <1>31 DEF Close
<1>32. CASE Open
  BY <1>32 DEF Open
<1>33. CASE Crash
  BY <1>33 DEF Crash
<1>34. CASE Revoke
  BY <1>34 DEF Revoke, Host!RevokeEpoch, Host!Live, Live
<1>35. CASE Resume
  BY <1>35 DEF Resume, Host!Resume
<1>36. CASE UNCHANGED vars
  BY <1>36 DEF vars
<1> QED
  BY ONLY <1>1, <1>2, <1>3, <1>4, <1>5, <1>6, <1>7, <1>8, <1>9, <1>10, <1>11, <1>12, <1>13, <1>14,
          <1>15, <1>16, <1>17, <1>18, <1>19, <1>20, <1>21, <1>22, <1>23, <1>24, <1>25, <1>26, <1>27,
          <1>28, <1>29, <1>30, <1>31, <1>32, <1>33, <1>34, <1>35, <1>36, [Next]_vars
     DEF Next, Step

\* Files are deleted only when no worker is owned that runs them.
LEMMA FileStep ==
    ASSUME DataTypes, OpTypes, OwnInv, ContentUnderWorker, [Next]_vars
    PROVE  ContentUnderWorker'
<1>0. pc \notin {"down", "idle"} => op # NoOp /\ OpFields
  BY Fields DEF OpTypes
<1> USE <1>0 DEF ContentUnderWorker, DataTypes, disk, workers, authority, pass
<1>1. ASSUME NEW p \in Plugin, NEW v \in Version, NEW b \in BOOLEAN, Install(p, v, b)
      PROVE  ContentUnderWorker'
  BY <1>1 DEF Install, Begin
<1>2. ASSUME NEW p \in Plugin, Enable(p) PROVE ContentUnderWorker'
  BY <1>2 DEF Enable, Begin
<1>3. ASSUME NEW p \in Plugin, Rollback(p) PROVE ContentUnderWorker'
  BY <1>3 DEF Rollback, Begin
<1>4. ASSUME NEW p \in Plugin, Disable(p) PROVE ContentUnderWorker'
  BY <1>4 DEF Disable, Begin
<1>5. ASSUME NEW p \in Plugin, Remove(p) PROVE ContentUnderWorker'
  BY <1>5 DEF Remove, Begin
<1>6. ASSUME NEW p \in Plugin, ApplySettings(p) PROVE ContentUnderWorker'
  BY <1>6 DEF ApplySettings, Begin, Verified
<1>7. ASSUME NEW p \in Plugin, RestoreNext(p) PROVE ContentUnderWorker'
  BY <1>7 DEF RestoreNext, Verified
<1>8. ASSUME NEW p \in Plugin, WorkerChanges(p) PROVE ContentUnderWorker'
  BY <1>8 DEF WorkerChanges, Host!WorkerChanges, Host!Becomes, Host!Live, Live
<1>9. CASE RecoverClean
  BY <1>9 DEF RecoverClean
<1>10. CASE RecoverDelete
  <2>1. UNCHANGED <<wstate, wver>> /\ MayRecover
    BY <1>10 DEF RecoverDelete
  <2>2. \A c \in content : c \notin Referenced(inv) \/ c \in content'
    BY <1>10 DEF RecoverDelete, Retained
  <2>3. ASSUME NEW p \in Plugin, wstate[p] # "none" PROVE <<p, wver[p]>> \in Referenced(inv)
    BY <2>1, <2>3 DEF MayRecover, OwnInv
  <2> QED
    BY <2>1, <2>2, <2>3
<1>11. CASE RecoverDone
  BY <1>11 DEF RecoverDone
<1>12. CASE RecoverFails
  BY <1>12 DEF RecoverFails
<1>13. CASE Stage
  BY <1>13 DEF Stage, Verified
<1>14. CASE Publish
  BY <1>14 DEF Publish
<1>15. CASE StageFails
  BY <1>15 DEF StageFails
<1>16. CASE Activate
  BY <1>16 DEF Activate, Verified, Live
<1>17. CASE ActivateFails
  BY <1>17 DEF ActivateFails
<1>18. CASE StopOwned
  BY <1>18 DEF StopOwned
<1>19. CASE StopFails
  BY <1>19 DEF StopFails
<1>20. CASE Start
  BY <1>20 DEF Start, Verified, Target
<1>21. CASE StartFails
  BY <1>21 DEF StartFails
<1>22. CASE AwaitReady
  BY <1>22 DEF AwaitReady
<1>23. CASE AwaitFails
  BY <1>23 DEF AwaitFails
<1>24. CASE WritePending
  BY <1>24 DEF WritePending
<1>25. CASE Rename
  BY <1>25 DEF Rename
<1>26. CASE Sync
  BY <1>26 DEF Sync
<1>27. CASE WriteFails
  BY <1>27 DEF WriteFails
<1>28. CASE CommitSettings
  BY <1>28 DEF CommitSettings
<1>29. CASE SettingsFail
  BY <1>29 DEF SettingsFail
<1>30. CASE RestoreBegin
  BY <1>30 DEF RestoreBegin
<1>31. CASE Close
  BY <1>31 DEF Close
<1>32. CASE Open
  BY <1>32 DEF Open
<1>33. CASE Crash
  BY <1>33 DEF Crash
<1>34. CASE Revoke
  BY <1>34 DEF Revoke, Host!RevokeEpoch, Host!Live, Live
<1>35. CASE Resume
  BY <1>35 DEF Resume, Host!Resume
<1>36. CASE UNCHANGED vars
  BY <1>36 DEF vars
<1> QED
  BY ONLY <1>1, <1>2, <1>3, <1>4, <1>5, <1>6, <1>7, <1>8, <1>9, <1>10, <1>11, <1>12, <1>13, <1>14,
          <1>15, <1>16, <1>17, <1>18, <1>19, <1>20, <1>21, <1>22, <1>23, <1>24, <1>25, <1>26, <1>27,
          <1>28, <1>29, <1>30, <1>31, <1>32, <1>33, <1>34, <1>35, <1>36, [Next]_vars
     DEF Next, Step

\* The lease is released after the last owned worker, and nothing starts without it.
LEMMA LeaseStep ==
    ASSUME DataTypes, OpTypes, PhaseInv, OwnInv, LeaseInv, [Next]_vars
    PROVE  LeaseInv'
<1>0. pc \notin {"down", "idle"} => op # NoOp /\ op \in Operation /\ OpFields
  BY Fields DEF OpTypes
<1> USE <1>0, NoneAssumption DEF LeaseInv, LeaseOutlivesWorkers, DataTypes, Authorized, disk, workers, authority, pass
<1>1. ASSUME NEW p \in Plugin, NEW v \in Version, NEW b \in BOOLEAN, Install(p, v, b)
      PROVE  LeaseInv'
  BY <1>1 DEF Install, Begin
<1>2. ASSUME NEW p \in Plugin, Enable(p) PROVE LeaseInv'
  BY <1>2 DEF Enable, Begin
<1>3. ASSUME NEW p \in Plugin, Rollback(p) PROVE LeaseInv'
  BY <1>3 DEF Rollback, Begin
<1>4. ASSUME NEW p \in Plugin, Disable(p) PROVE LeaseInv'
  BY <1>4 DEF Disable, Begin
<1>5. ASSUME NEW p \in Plugin, Remove(p) PROVE LeaseInv'
  BY <1>5 DEF Remove, Begin
<1>6. ASSUME NEW p \in Plugin, ApplySettings(p) PROVE LeaseInv'
  BY <1>6 DEF ApplySettings, Begin
<1>7. ASSUME NEW p \in Plugin, RestoreNext(p) PROVE LeaseInv'
  BY <1>7 DEF RestoreNext
<1>8. ASSUME NEW p \in Plugin, WorkerChanges(p) PROVE LeaseInv'
  BY <1>8 DEF WorkerChanges, Host!WorkerChanges, Host!Becomes, Host!Live, Live
<1>9. CASE RecoverClean
  BY <1>9 DEF RecoverClean
<1>10. CASE RecoverDelete
  BY <1>10 DEF RecoverDelete
<1>11. CASE RecoverDone
  BY <1>11 DEF RecoverDone, AfterRecover, Goto, End
<1>12. CASE RecoverFails
  BY <1>12 DEF RecoverFails, End
<1>13. CASE Stage
  BY <1>13 DEF Stage, Goto, End
<1>14. CASE Publish
  BY <1>14 DEF Publish, Goto
<1>15. CASE StageFails
  BY <1>15 DEF StageFails, End
<1>16. CASE Activate
  BY <1>16 DEF Activate, Live
<1>17. CASE ActivateFails
  BY <1>17 DEF ActivateFails, End
<1>18. CASE StopOwned
  BY <1>18 DEF StopOwned, AfterStop, Goto, End
<1>19. CASE StopFails
  <2>1. op' = NoOp /\ pc' = "idle" /\ closed' = closed
    BY <1>19 DEF StopFails, End
  <2>2. wstate[op.plugin] # "none" /\ op.plugin \in Plugin
    BY <1>19 DEF StopFails, OpFields
  <2> QED
    BY <2>1, <2>2
<1>20. CASE Start
  <2>1. op.kind # "open" /\ op' = op /\ pc' = "await"
    BY <1>20 DEF Start, Goto, PhaseInv, Relaunches, Activating
  <2>2. ~closed /\ closed' = closed
    BY <1>20 DEF Start
  <2> QED
    BY <2>1, <2>2
<1>21. CASE StartFails
  <2>1. op # NoOp /\ AfterFailure
    BY <1>21 DEF StartFails
  <2> QED
    BY <1>21, <2>1, Failure DEF StartFails, End, Activating, SameOp, StartFails
<1>22. CASE AwaitReady
  BY <1>22 DEF AwaitReady, AfterReady, Goto, End
<1>23. CASE AwaitFails
  <2>1. op # NoOp /\ AfterFailure
    BY <1>23 DEF AwaitFails
  <2> QED
    BY <1>23, <2>1, Failure DEF AwaitFails, End, Activating, SameOp, AwaitFails
<1>24. CASE WritePending
  BY <1>24 DEF WritePending, Goto
<1>25. CASE Rename
  BY <1>25 DEF Rename, Goto
<1>26. CASE Sync
  <2>1. op # NoOp /\ AfterWrite /\ pc = "sync"
    BY <1>26 DEF Sync
  <2> QED
    BY <1>26, <2>1, Committed DEF End, Goto, MayRelaunch, SameOp, Sync
<1>27. CASE WriteFails
  <2>1. op # NoOp /\ pc \in {"write", "rename", "sync"} /\ (End \/ (Activating /\ AfterFailure))
    BY <1>27 DEF WriteFails
  <2> QED
    BY <1>27, <2>1, Failure DEF End, Activating, SameOp, WriteFails
<1>28. CASE CommitSettings
  BY <1>28 DEF CommitSettings, AfterSettings, Goto, End
<1>29. CASE SettingsFail
  BY <1>29 DEF SettingsFail, End
<1>30. CASE RestoreBegin
  BY <1>30 DEF RestoreBegin
<1>31. CASE Close
  <2>1. CASE \A p \in Plugin : owned[p] = NoVersion
    <3>1. \A p \in Plugin : wstate[p] = "none"
      BY <2>1 DEF OwnInv
    <3> QED
      BY <1>31, <2>1, <3>1 DEF Close, End
  <2>2. CASE ~\A p \in Plugin : owned[p] = NoVersion
    <3>1. PICK p \in Plugin :
             op' = [kind |-> "close", plugin |-> p, epoch |-> epoch, phase |-> "apply",
                    orig |-> inv, rec |-> NoRecord, was |-> FALSE]
      BY <1>31, <2>2 DEF Close
    <3>2. pc' = "stop" /\ closed' = closed /\ wstate' = wstate
      BY <1>31, <2>2 DEF Close
    <3>3. op'.kind = "close"
      BY <3>1
    <3> QED
      BY <3>2, <3>3
  <2> QED
    BY <2>1, <2>2
<1>32. CASE Open
  BY <1>32 DEF Open, Opening
<1>33. CASE Crash
  BY <1>33 DEF Crash
<1>34. CASE Revoke
  BY <1>34 DEF Revoke, Host!RevokeEpoch, Host!Live, Live
<1>35. CASE Resume
  BY <1>35 DEF Resume, Host!Resume
<1>36. CASE UNCHANGED vars
  BY <1>36 DEF vars
<1> QED
  BY ONLY <1>1, <1>2, <1>3, <1>4, <1>5, <1>6, <1>7, <1>8, <1>9, <1>10, <1>11, <1>12, <1>13, <1>14,
          <1>15, <1>16, <1>17, <1>18, <1>19, <1>20, <1>21, <1>22, <1>23, <1>24, <1>25, <1>26, <1>27,
          <1>28, <1>29, <1>30, <1>31, <1>32, <1>33, <1>34, <1>35, <1>36, [Next]_vars
     DEF Next, Step

\* The two inventories of an operation differ in its own record.
LEMMA Entries ==
    ASSUME OpFields
    PROVE  /\ NewInventory[op.plugin] = op.rec
           /\ NextInventory[op.plugin] = IF op.phase = "undo" THEN op.orig[op.plugin] ELSE op.rec
           /\ \A q \in Plugin \ {op.plugin} :
                 NewInventory[q] = op.orig[q] /\ NextInventory[q] = op.orig[q]
BY DEF OpFields, Inventory, NewInventory, NextInventory

\* No worker is left behind that the inventory does not want.
LEMMA WantedStep ==
    ASSUME DataTypes, OpTypes, PhaseInv, ReadInv, RecordInv, OwnInv, LeaseInv, WantedInv, [Next]_vars
    PROVE  WantedInv'
<1>0. pc \notin {"down", "idle"} => op # NoOp /\ op \in Operation /\ OpFields
  BY Fields DEF OpTypes
<1>a. pc \notin {"down", "idle"} =>
        /\ NewInventory[op.plugin] = op.rec
        /\ NextInventory[op.plugin] = IF op.phase = "undo" THEN op.orig[op.plugin] ELSE op.rec
        /\ \A q \in Plugin \ {op.plugin} :
              NewInventory[q] = op.orig[q] /\ NextInventory[q] = op.orig[q]
  BY <1>0, Entries
<1>b. op' = op => NextInventory' = NextInventory
  BY DEF NextInventory
<1> USE <1>0, <1>a, <1>b, NoneAssumption DEF WantedInv, Fits, Present, disk, workers, authority, pass
<1>1. ASSUME NEW p \in Plugin, NEW v \in Version, NEW b \in BOOLEAN, Install(p, v, b)
      PROVE  WantedInv'
  BY <1>1 DEF Install, Begin
<1>2. ASSUME NEW p \in Plugin, Enable(p) PROVE WantedInv'
  BY <1>2 DEF Enable, Begin
<1>3. ASSUME NEW p \in Plugin, Rollback(p) PROVE WantedInv'
  BY <1>3 DEF Rollback, Begin
<1>4. ASSUME NEW p \in Plugin, Disable(p) PROVE WantedInv'
  BY <1>4 DEF Disable, Begin
<1>5. ASSUME NEW p \in Plugin, Remove(p) PROVE WantedInv'
  BY <1>5 DEF Remove, Begin
<1>6. ASSUME NEW p \in Plugin, ApplySettings(p) PROVE WantedInv'
  BY <1>6 DEF ApplySettings, Begin
<1>7. ASSUME NEW p \in Plugin, RestoreNext(p) PROVE WantedInv'
  <2>1. CASE UNCHANGED <<pc, op>>
    BY <1>7, <2>1 DEF RestoreNext
  <2>2. CASE ~UNCHANGED <<pc, op>>
    BY <1>7, <2>2 DEF RestoreNext, StillEnabled
  <2> QED
    BY <2>1, <2>2
<1>8. ASSUME NEW p \in Plugin, WorkerChanges(p) PROVE WantedInv'
  <2>1. /\ UNCHANGED <<inv, settings, wver, wset, pc, op>>
        /\ \A q \in Plugin : /\ Present(q)' => Present(q)
                             /\ wstate[q] = "none" => wstate'[q] = "none"
    BY <1>8 DEF WorkerChanges, Host!WorkerChanges, Host!Becomes, Host!Live, Present, DataTypes
  <2>2. \A q \in Plugin : wver'[q] = wver[q] /\ wset'[q] = wset[q] /\ settings'[q] = settings[q]
    BY <2>1
  <2> QED
    BY <2>1, <2>2, <1>0, <1>a, <1>b DEF WantedInv, Fits, OpFields
<1>9. CASE RecoverClean
  BY <1>9 DEF RecoverClean
<1>10. CASE RecoverDelete
  BY <1>10 DEF RecoverDelete
<1>11. CASE RecoverDone
  BY <1>11 DEF RecoverDone, AfterRecover, Goto, End
<1>12. CASE RecoverFails
  BY <1>12 DEF RecoverFails, End
<1>13. CASE Stage
  BY <1>13 DEF Stage, Goto, End
<1>14. CASE Publish
  BY <1>14 DEF Publish, Goto
<1>15. CASE StageFails
  BY <1>15 DEF StageFails, End
<1>16. CASE Activate
  BY <1>16 DEF Activate
<1>17. CASE ActivateFails
  BY <1>17 DEF ActivateFails, End
<1>18. CASE StopOwned
  <2>1. op.plugin \in Plugin
    BY <1>18 DEF StopOwned, OpFields
  <2>2. /\ UNCHANGED <<inv, settings>> /\ wstate'[op.plugin] = "none"
        /\ \A q \in Plugin \ {op.plugin} :
              wstate'[q] = wstate[q] /\ wver'[q] = wver[q] /\ wset'[q] = wset[q]
    BY <1>18, <2>1 DEF StopOwned, DataTypes
  <2>3. \A q \in Plugin : Fits(q, inv)'
    BY <1>18, <2>2 DEF StopOwned
  <2>4. \/ op' = NoOp /\ pc' = "idle"
        \/ op' = op /\ pc' \in {"write", "start", "close"}
    BY <1>18 DEF StopOwned, AfterStop, Goto, End
  <2> QED
    BY <2>2, <2>3, <2>4
<1>19. CASE StopFails
  <2>1. op.plugin \in Plugin
    BY <1>19 DEF StopFails, OpFields
  <2>2. /\ UNCHANGED <<inv, settings, wver, wset>> /\ wstate'[op.plugin] = "stuck"
        /\ \A q \in Plugin \ {op.plugin} : wstate'[q] = wstate[q]
    BY <1>19, <2>1 DEF StopFails, DataTypes
  <2> QED
    BY <1>19, <2>2 DEF StopFails, End
<1>20. CASE Start
  <2>1. op.plugin \in Plugin
    BY <1>20 DEF Start, OpFields
  <2>2. /\ UNCHANGED <<inv, settings>> /\ pc = "start" /\ op' = op /\ pc' = "await"
        /\ wver'[op.plugin] = Target /\ wset'[op.plugin] = settings[op.plugin]
        /\ \A q \in Plugin \ {op.plugin} :
              wstate'[q] = wstate[q] /\ wver'[q] = wver[q] /\ wset'[q] = wset[q]
    BY <1>20, <2>1 DEF Start, Goto, DataTypes
  <2>3. NextInventory[op.plugin] # NoRecord /\ NextInventory[op.plugin].active = Target
        /\ NextInventory[op.plugin].enabled
    <3>1. CASE op.phase = "apply"
      BY <2>2, <3>1 DEF Target, PhaseInv, RecordInv, Relaunches, Activating
    <3>2. CASE op.phase = "undo"
      BY <2>2, <3>2 DEF Target, PhaseInv, ReadInv
    <3> QED
      BY <2>2, <3>1, <3>2 DEF PhaseInv
  <2> QED
    BY <2>2, <2>3
<1>21. CASE StartFails
  <2>1. op # NoOp /\ AfterFailure
    BY <1>21 DEF StartFails
  <2> QED
    BY <1>21, <2>1, Failure DEF StartFails, End, SameOp, OpFields
<1>22. CASE AwaitReady
  <2>1. pc = "await" /\ UNCHANGED <<inv, settings, workers>>
    BY <1>22 DEF AwaitReady
  <2>2. CASE pc' = "write" /\ op' = op /\ op.phase = "apply"
    BY <2>1, <2>2
  <2>3. CASE End /\ ~(Activating /\ op.phase = "apply")
    <3>1. NextInventory[op.plugin] = inv[op.plugin]
      <4>1. CASE op.phase = "apply"
        BY <2>1, <2>3, <4>1 DEF PhaseInv, Relaunches, ReadInv, RecordInv
      <4>2. CASE op.phase = "undo"
        BY <2>1, <4>2 DEF ReadInv
      <4> QED
        BY <2>1, <4>1, <4>2 DEF PhaseInv
    <3> QED
      BY <2>1, <2>3, <3>1 DEF End
  <2> QED
    BY <1>22, <2>2, <2>3 DEF AwaitReady, AfterReady, Goto
<1>23. CASE AwaitFails
  <2>1. pc = "await" /\ op # NoOp /\ AfterFailure /\ UNCHANGED <<inv, settings, workers>>
    BY <1>23 DEF AwaitFails
  <2>2. CASE op.phase = "apply"
    BY <2>1, <2>2, Failure DEF SameOp
  <2>3. CASE op.phase = "undo"
    <3>1. NextInventory[op.plugin] = inv[op.plugin]
      BY <2>1, <2>3 DEF ReadInv
    <3> QED
      BY <2>1, <2>3, <3>1, Failure DEF End
  <2> QED
    BY <2>1, <2>2, <2>3 DEF PhaseInv
<1>24. CASE WritePending
  <2>1. /\ pc = "write" /\ pc' = "rename" /\ op' = op /\ UNCHANGED <<inv, workers>>
        /\ \A q \in Plugin \ {op.plugin} : settings'[q] = settings[q]
        /\ settings' = settings \/ op.kind = "remove"
    BY <1>24 DEF WritePending, CleanSettings, Goto, DataTypes
  <2>2. op.kind = "remove" => ~Present(op.plugin)
    BY <2>1 DEF RecordInv, PhaseInv, Activating
  <2> QED
    BY <2>1, <2>2
<1>25. CASE Rename
  <2>1. pc = "rename" /\ pc' = "sync" /\ op' = op /\ inv' = NextInventory /\ UNCHANGED <<settings, workers>>
    BY <1>25 DEF Rename, Goto
  <2>2. \A q \in Plugin \ {op.plugin} : NextInventory[q] = inv[q]
    BY <2>1 DEF ReadInv, PhaseInv
  <2> QED
    BY <2>1, <2>2
<1>26. CASE Sync
  <2>1. op # NoOp /\ AfterWrite /\ pc = "sync" /\ UNCHANGED <<inv, settings, workers>>
    BY <1>26 DEF Sync
  <2>2. inv[op.plugin] = NextInventory[op.plugin]
    BY <2>1 DEF ReadInv, PhaseInv
  <2>3. \A q \in Plugin : Fits(q, inv)'
    BY <2>1, <2>2
  <2> QED
    BY <2>1, <2>3, Committed DEF End, Goto, SameOp, OpFields
<1>27. CASE WriteFails
  <2>1. /\ op # NoOp /\ pc \in {"write", "rename", "sync"} /\ UNCHANGED <<inv, workers>>
        /\ op.plugin \in Plugin /\ IF Activating THEN AfterFailure ELSE End
        /\ \A q \in Plugin \ {op.plugin} : settings'[q] = settings[q]
    BY <1>27 DEF WriteFails, CleanSettings, DataTypes, OpFields
  <2>2. CASE Activating /\ op.phase = "apply"
    BY <2>1, <2>2, Failure DEF SameOp, AfterFailure
  <2>3. CASE ~(Activating /\ op.phase = "apply")
    <3>1. ~Present(op.plugin)
      BY <2>1, <2>3 DEF PhaseInv, Changing, Activating, RecordInv
    <3>2. End
      BY <2>1, <2>3, Failure
    <3> QED
      BY <2>1, <3>1, <3>2 DEF End
  <2> QED
    BY <2>2, <2>3
<1>28. CASE CommitSettings
  <2>1. /\ pc = "settings" /\ UNCHANGED <<inv, workers>> /\ op.plugin \in Plugin
        /\ \A q \in Plugin \ {op.plugin} : settings'[q] = settings[q]
    BY <1>28 DEF CommitSettings, DataTypes, OpFields
  <2>2. op.rec = inv[op.plugin]
    BY <2>1 DEF PhaseInv, ReadInv, RecordInv
  <2>3. CASE op.rec.enabled
    BY <1>28, <2>1, <2>3 DEF CommitSettings, AfterSettings, Goto
  <2>4. CASE ~op.rec.enabled
    BY <1>28, <2>1, <2>2, <2>4 DEF CommitSettings, AfterSettings, End
  <2> QED
    BY <2>3, <2>4
<1>29. CASE SettingsFail
  BY <1>29 DEF SettingsFail, End
<1>30. CASE RestoreBegin
  BY <1>30 DEF RestoreBegin
<1>31. CASE Close
  <2>1. UNCHANGED <<inv, workers, settings>>
    BY <1>31 DEF Close
  <2>2. \A p \in Plugin : Fits(p, inv)
    BY <1>31 DEF Close
  <2>3. CASE pc' = "idle" /\ op' = NoOp
    BY <2>1, <2>2, <2>3
  <2>4. CASE pc' = "stop"
    BY <2>1, <2>2, <2>4
  <2> QED
    BY <1>31, <2>3, <2>4 DEF Close, End
<1>32. CASE Open
  <2>1. UNCHANGED <<inv, settings, workers>> /\ pc' = "recover" /\ \A q \in Plugin : wstate[q] = "none"
    BY <1>32 DEF Open, LeaseInv
  <2>2. PICK p \in Plugin : op' = Opening(p)
    BY <1>32 DEF Open
  <2>3. op'.plugin \in Plugin
    BY <2>2 DEF Opening
  <2> QED
    BY <2>1, <2>3
<1>33. CASE Crash
  BY <1>33 DEF Crash
<1>34. CASE Revoke
  <2>1. /\ UNCHANGED <<inv, settings, wver, wset, pc, op>>
        /\ \A q \in Plugin : /\ Present(q)' => Present(q)
                             /\ wstate[q] = "none" => wstate'[q] = "none"
    BY <1>34 DEF Revoke, Host!RevokeEpoch, Host!Live, Present, DataTypes
  <2>2. \A q \in Plugin : wver'[q] = wver[q] /\ wset'[q] = wset[q] /\ settings'[q] = settings[q]
    BY <2>1
  <2> QED
    BY <2>1, <2>2, <1>0, <1>a, <1>b DEF WantedInv, Fits, OpFields
<1>35. CASE Resume
  BY <1>35 DEF Resume, Host!Resume
<1>36. CASE UNCHANGED vars
  BY <1>36 DEF vars
<1> QED
  BY ONLY <1>1, <1>2, <1>3, <1>4, <1>5, <1>6, <1>7, <1>8, <1>9, <1>10, <1>11, <1>12, <1>13, <1>14,
          <1>15, <1>16, <1>17, <1>18, <1>19, <1>20, <1>21, <1>22, <1>23, <1>24, <1>25, <1>26, <1>27,
          <1>28, <1>29, <1>30, <1>31, <1>32, <1>33, <1>34, <1>35, <1>36, [Next]_vars
     DEF Next, Step

\* A revocation waits for the commit.
LEMMA CommitStep ==
    ASSUME OpTypes, PhaseInv, CommitInv, [Next]_vars
    PROVE  CommitInv'
<1>0. pc \notin {"down", "idle"} => op # NoOp /\ op \in Operation /\ OpFields
  BY Fields DEF OpTypes
<1> USE <1>0 DEF CommitInv, Authorized, disk, workers, authority, pass
<1>1. ASSUME NEW p \in Plugin, NEW v \in Version, NEW b \in BOOLEAN, Install(p, v, b)
      PROVE  CommitInv'
  BY <1>1 DEF Install, Begin
<1>2. ASSUME NEW p \in Plugin, Enable(p) PROVE CommitInv'
  BY <1>2 DEF Enable, Begin
<1>3. ASSUME NEW p \in Plugin, Rollback(p) PROVE CommitInv'
  BY <1>3 DEF Rollback, Begin
<1>4. ASSUME NEW p \in Plugin, Disable(p) PROVE CommitInv'
  BY <1>4 DEF Disable, Begin
<1>5. ASSUME NEW p \in Plugin, Remove(p) PROVE CommitInv'
  BY <1>5 DEF Remove, Begin
<1>6. ASSUME NEW p \in Plugin, ApplySettings(p) PROVE CommitInv'
  BY <1>6 DEF ApplySettings, Begin
<1>7. ASSUME NEW p \in Plugin, RestoreNext(p) PROVE CommitInv'
  BY <1>7 DEF RestoreNext
<1>8. ASSUME NEW p \in Plugin, WorkerChanges(p) PROVE CommitInv'
  BY <1>8 DEF WorkerChanges, Host!WorkerChanges, Host!Becomes, Host!Live
<1>9. CASE RecoverClean
  BY <1>9 DEF RecoverClean
<1>10. CASE RecoverDelete
  BY <1>10 DEF RecoverDelete
<1>11. CASE RecoverDone
  BY <1>11 DEF RecoverDone, AfterRecover, Goto, End
<1>12. CASE RecoverFails
  BY <1>12 DEF RecoverFails, End
<1>13. CASE Stage
  BY <1>13 DEF Stage, Goto, End
<1>14. CASE Publish
  BY <1>14 DEF Publish, Goto
<1>15. CASE StageFails
  BY <1>15 DEF StageFails, End
<1>16. CASE Activate
  BY <1>16 DEF Activate
<1>17. CASE ActivateFails
  BY <1>17 DEF ActivateFails, End
<1>18. CASE StopOwned
  BY <1>18 DEF StopOwned, AfterStop, Goto, End, Activating
<1>19. CASE StopFails
  BY <1>19 DEF StopFails, End
<1>20. CASE Start
  BY <1>20 DEF Start, Goto
<1>21. CASE StartFails
  <2>1. op # NoOp /\ AfterFailure
    BY <1>21 DEF StartFails
  <2> QED
    BY <1>21, <2>1, Failure DEF StartFails, End, Activating, SameOp, StartFails
<1>22. CASE AwaitReady
  BY <1>22 DEF AwaitReady, AfterReady, Goto, End, Activating
<1>23. CASE AwaitFails
  <2>1. op # NoOp /\ AfterFailure
    BY <1>23 DEF AwaitFails
  <2> QED
    BY <1>23, <2>1, Failure DEF AwaitFails, End, Activating, SameOp, AwaitFails
<1>24. CASE WritePending
  BY <1>24 DEF WritePending, MayWrite, Goto
<1>25. CASE Rename
  BY <1>25 DEF Rename, Goto
<1>26. CASE Sync
  <2>1. op # NoOp /\ AfterWrite /\ pc = "sync"
    BY <1>26 DEF Sync
  <2> QED
    BY <1>26, <2>1, Committed DEF End, Goto, MayRelaunch, SameOp, Sync
<1>27. CASE WriteFails
  <2>1. op # NoOp /\ pc \in {"write", "rename", "sync"} /\ (End \/ (Activating /\ AfterFailure))
    BY <1>27 DEF WriteFails
  <2> QED
    BY <1>27, <2>1, Failure DEF End, Activating, SameOp, WriteFails
<1>28. CASE CommitSettings
  BY <1>28 DEF CommitSettings, AfterSettings, Goto, End
<1>29. CASE SettingsFail
  BY <1>29 DEF SettingsFail, End
<1>30. CASE RestoreBegin
  BY <1>30 DEF RestoreBegin
<1>31. CASE Close
  <2>1. CASE End
    BY <2>1 DEF End
  <2>2. CASE ~End
    <3>1. PICK p \in Plugin :
             op' = [kind |-> "close", plugin |-> p, epoch |-> epoch, phase |-> "apply",
                    orig |-> inv, rec |-> NoRecord, was |-> FALSE]
      BY <1>31, <2>2 DEF Close
    <3>2. pc' = "stop"
      BY <1>31, <2>2 DEF Close
    <3> QED
      BY <1>31, <3>1, <3>2 DEF Close
  <2> QED
    BY <2>1, <2>2
<1>32. CASE Open
  BY <1>32 DEF Open, Opening
<1>33. CASE Crash
  BY <1>33 DEF Crash
<1>34. CASE Revoke
  BY <1>34 DEF Revoke, Host!RevokeEpoch, Host!Live, Committing
<1>35. CASE Resume
  BY <1>35 DEF Resume, Host!Resume
<1>36. CASE UNCHANGED vars
  BY <1>36 DEF vars
<1> QED
  BY ONLY <1>1, <1>2, <1>3, <1>4, <1>5, <1>6, <1>7, <1>8, <1>9, <1>10, <1>11, <1>12, <1>13, <1>14,
          <1>15, <1>16, <1>17, <1>18, <1>19, <1>20, <1>21, <1>22, <1>23, <1>24, <1>25, <1>26, <1>27,
          <1>28, <1>29, <1>30, <1>31, <1>32, <1>33, <1>34, <1>35, <1>36, [Next]_vars
     DEF Next, Step

-----------------------------------------------------------------------------
(* Every reachable state                                                     *)

\* In the first state nothing is installed, runs or is in progress.
LEMMA InitInv == Init => IInv
<1> SUFFICES ASSUME Init PROVE IInv
  OBVIOUS
<1>1. TypeOK
  <2>1. FlagTypes
    BY Zenon DEF Init, FlagTypes
  <2>2. DataTypes
    BY StoreAssumption DEF Init, DataTypes, Inventory
  <2>3. OpTypes
    BY DEF Init, OpTypes, PcAt
  <2> QED
    BY <2>1, <2>2, <2>3, TypeParts
<1>2. PhaseInv /\ ReadInv /\ RecordInv /\ CommitInv
  BY DEF Init, PhaseInv, ReadInv, RecordInv, CommitInv
<1>3. ContentInv
  BY DEF Init, ContentInv, InventoryInstallable, Referenced
<1>4. WorkerInv
  BY DEF Init, WorkerInv, OwnInv, ContentUnderWorker, LeaseInv, LeaseOutlivesWorkers, WantedInv,
         Fits, Present
<1> QED
  BY <1>1, <1>2, <1>3, <1>4 DEF IInv

\* Every step preserves the strengthening.
LEMMA NextInv == IInv /\ [Next]_vars => IInv'
<1> SUFFICES ASSUME IInv, [Next]_vars PROVE IInv'
  OBVIOUS
<1>1. /\ FlagTypes /\ DataTypes /\ OpTypes /\ PhaseInv /\ ReadInv /\ RecordInv /\ ContentInv
      /\ OwnInv /\ ContentUnderWorker /\ LeaseInv /\ WantedInv /\ WorkerInv /\ CommitInv
  BY TypeParts DEF IInv, WorkerInv
<1>2. FlagTypes' /\ DataTypes' /\ OpTypes'
  BY <1>1, FlagStep, DataStep, OpStep
<1>3. TypeOK'
  BY <1>2, TypeParts, PTL
<1>4. PhaseInv' /\ ReadInv' /\ RecordInv' /\ CommitInv'
  BY <1>1, PhaseStep, ReadStep, RecordStep, CommitStep
<1>5. ContentInv'
  BY <1>1, ContentStep
<1>6. WorkerInv'
  BY <1>1, OwnStep, FileStep, LeaseStep, WantedStep DEF WorkerInv
<1> QED
  BY <1>3, <1>4, <1>5, <1>6 DEF IInv

\* The strengthening holds in every reachable state, for any plugins, versions and
\* number of operations.
THEOREM Invariance == Spec => []IInv
<1>1. Init => IInv
  BY InitInv
<1>2. IInv /\ [Next]_vars => IInv'
  BY NextInv
<1> QED
  BY <1>1, <1>2, PTL DEF Spec

\* What is on disk, what is recorded and what runs fit each other whatever fails,
\* is revoked or crashes between two steps of installer.rs: every recorded version is
\* complete, a process never loses its files, between operations only wanted workers
\* run, and the lease outlives them.
THEOREM StoreSound == Spec => []StoreIsSound
<1>1. IInv => StoreIsSound
  BY DEF IInv, StoreIsSound, ContentInv, WorkerInv, LeaseInv, WantedInv, Fits, Present, Live,
         WorkersAreWanted
<1> QED
  BY <1>1, Invariance, PTL

-----------------------------------------------------------------------------
(* The inventory is the atomic one of PackageInventory.                      *)

\* Only the rename writes the inventory; the rest of an operation leaves it
\* undecided as it was, or decided.
Quietly == inv' = inv /\ (Undecided' => Undecided /\ op'.orig = op.orig)

\* Every step but the rename is quiet.
LEMMA QuietSteps ==
    ASSUME IInv, [Next]_vars, ~Rename
    PROVE  Quietly
<1>0. OpTypes /\ PhaseInv /\ ReadInv /\ (pc \notin {"down", "idle"} => op # NoOp /\ op \in Operation /\ OpFields)
  <2>1. OpTypes /\ PhaseInv /\ ReadInv
    BY TypeParts DEF IInv
  <2> QED
    BY <2>1, Fields DEF OpTypes
<1> USE <1>0 DEF Quietly, Undecided, PhaseInv, ReadInv, disk, workers, authority, pass
<1>1. ASSUME NEW p \in Plugin, NEW v \in Version, NEW b \in BOOLEAN, Install(p, v, b) PROVE Quietly
  BY <1>1 DEF Install, Begin
<1>2. ASSUME NEW p \in Plugin, Enable(p) PROVE Quietly
  BY <1>2 DEF Enable, Begin
<1>3. ASSUME NEW p \in Plugin, Rollback(p) PROVE Quietly
  BY <1>3 DEF Rollback, Begin
<1>4. ASSUME NEW p \in Plugin, Disable(p) PROVE Quietly
  BY <1>4 DEF Disable, Begin
<1>5. ASSUME NEW p \in Plugin, Remove(p) PROVE Quietly
  BY <1>5 DEF Remove, Begin
<1>6. ASSUME NEW p \in Plugin, ApplySettings(p) PROVE Quietly
  BY <1>6 DEF ApplySettings, Begin
<1>7. ASSUME NEW p \in Plugin, RestoreNext(p) PROVE Quietly
  BY <1>7 DEF RestoreNext
<1>8. ASSUME NEW p \in Plugin, WorkerChanges(p) PROVE Quietly
  BY <1>8 DEF WorkerChanges, Host!WorkerChanges, Host!Becomes, Host!Live
<1>9. CASE RecoverClean
  BY <1>9 DEF RecoverClean
<1>10. CASE RecoverDelete
  BY <1>10 DEF RecoverDelete
<1>11. CASE RecoverDone
  BY <1>11 DEF RecoverDone, AfterRecover, Goto, End
<1>12. CASE RecoverFails
  BY <1>12 DEF RecoverFails, End
<1>13. CASE Stage
  BY <1>13 DEF Stage, Goto, End
<1>14. CASE Publish
  BY <1>14 DEF Publish, Goto
<1>15. CASE StageFails
  BY <1>15 DEF StageFails, End
<1>16. CASE Activate
  BY <1>16 DEF Activate
<1>17. CASE ActivateFails
  BY <1>17 DEF ActivateFails, End
<1>18. CASE StopOwned
  BY <1>18 DEF StopOwned, AfterStop, Goto, End, Activating
<1>19. CASE StopFails
  BY <1>19 DEF StopFails, End
<1>20. CASE Start
  BY <1>20 DEF Start, Goto
<1>21. CASE StartFails
  <2>1. op # NoOp /\ AfterFailure
    BY <1>21 DEF StartFails
  <2> QED
    BY <1>21, <2>1, Failure DEF StartFails, End, Activating, SameOp, StartFails
<1>22. CASE AwaitReady
  BY <1>22 DEF AwaitReady, AfterReady, Goto, End, Activating
<1>23. CASE AwaitFails
  <2>1. op # NoOp /\ AfterFailure
    BY <1>23 DEF AwaitFails
  <2> QED
    BY <1>23, <2>1, Failure DEF AwaitFails, End, Activating, SameOp, AwaitFails
<1>24. CASE WritePending
  BY <1>24 DEF WritePending, MayWrite, Goto
<1>25. CASE Rename
  BY <1>25
<1>26. CASE Sync
  <2>1. op # NoOp /\ AfterWrite /\ pc = "sync"
    BY <1>26 DEF Sync
  <2> QED
    BY <1>26, <2>1, Committed DEF End, Goto, MayRelaunch, SameOp, Sync
<1>27. CASE WriteFails
  <2>1. op # NoOp /\ pc \in {"write", "rename", "sync"} /\ (End \/ (Activating /\ AfterFailure))
    BY <1>27 DEF WriteFails
  <2> QED
    BY <1>27, <2>1, Failure DEF End, Activating, SameOp, WriteFails
<1>28. CASE CommitSettings
  BY <1>28 DEF CommitSettings, AfterSettings, Goto, End
<1>29. CASE SettingsFail
  BY <1>29 DEF SettingsFail, End
<1>30. CASE RestoreBegin
  BY <1>30 DEF RestoreBegin
<1>31. CASE Close
  <2>1. CASE End
    BY <1>31, <2>1 DEF Close, End
  <2>2. CASE ~End
    <3>1. PICK p \in Plugin :
             op' = [kind |-> "close", plugin |-> p, epoch |-> epoch, phase |-> "apply",
                    orig |-> inv, rec |-> NoRecord, was |-> FALSE]
      BY <1>31, <2>2 DEF Close
    <3>2. pc' = "stop"
      BY <1>31, <2>2 DEF Close
    <3> QED
      BY <1>31, <3>1, <3>2 DEF Close
  <2> QED
    BY <2>1, <2>2
<1>32. CASE Open
  BY <1>32 DEF Open, Opening
<1>33. CASE Crash
  BY <1>33 DEF Crash
<1>34. CASE Revoke
  BY <1>34 DEF Revoke, Host!RevokeEpoch, Host!Live, Committing
<1>35. CASE Resume
  BY <1>35 DEF Resume, Host!Resume
<1>36. CASE UNCHANGED vars
  BY <1>36 DEF vars
<1> QED
  BY ONLY <1>1, <1>2, <1>3, <1>4, <1>5, <1>6, <1>7, <1>8, <1>9, <1>10, <1>11, <1>12, <1>13, <1>14,
          <1>15, <1>16, <1>17, <1>18, <1>19, <1>20, <1>21, <1>22, <1>23, <1>24, <1>25, <1>26, <1>27,
          <1>28, <1>29, <1>30, <1>31, <1>32, <1>33, <1>34, <1>35, <1>36, [Next]_vars
     DEF Next, Step

\* Both modules count alike.
LEMMA SameCount == ASSUME NEW S PROVE Promise!Cardinality(S) = Cardinality(S)
BY Zenon DEF Promise!Cardinality, Cardinality

\* The rename makes one legal change, or takes it back.
LEMMA RenameStep ==
    ASSUME IInv, Rename
    PROVE  \/ UNCHANGED <<inv, IF Undecided THEN {op.orig} ELSE {}>>
           \/ \E p \in Plugin : Promise!Change(p)
           \/ Promise!Undo
<1>1. OpTypes /\ PhaseInv /\ ReadInv /\ RecordInv
  BY TypeParts DEF IInv
<1>2. /\ op # NoOp /\ pc = "rename" /\ OpFields
      /\ inv' = NextInventory /\ op' = op /\ pc' = "sync"
  BY <1>1, Fields DEF OpTypes, Rename, Goto
<1>3. Changing /\ op.phase \in {"apply", "undo"}
  BY <1>1, <1>2 DEF PhaseInv
<1>4. CASE op.phase = "undo"
  <2>1. inv' = op.orig
    BY <1>2, <1>4 DEF NextInventory
  <2>2. ~Undecided'
    BY <1>2, <2>1 DEF Undecided
  <2>3. CASE inv = op.orig
    BY <2>1, <2>2, <2>3 DEF Undecided
  <2>4. CASE inv # op.orig
    <3>1. Undecided
      BY <1>2, <1>4, <2>4 DEF Undecided
    <3> QED
      BY <2>1, <2>2, <3>1 DEF Promise!Undo
  <2> QED
    BY <2>3, <2>4
<1>5. CASE op.phase = "apply"
  <2>1. inv' = NewInventory /\ inv = op.orig /\ ~Undecided
    BY <1>1, <1>2, <1>5 DEF NextInventory, NewInventory, ReadInv, Undecided
  <2>2. CASE NewInventory = op.orig
    BY <1>2, <2>1, <2>2 DEF Undecided
  <2>3. CASE NewInventory # op.orig
    <3>1. Undecided'
      BY <1>2, <2>1, <2>3 DEF Undecided
    <3>2. CASE inv[op.plugin] # NoRecord
      <4>1. op.rec \in Promise!NextRecord(inv[op.plugin])
        BY <1>1, <1>2, <1>3, <2>1, <3>2 DEF RecordInv, Changing
      <4>2. inv' = [inv EXCEPT ![op.plugin] = op.rec]
        BY <2>1 DEF NewInventory
      <4>3. (IF Undecided THEN {op.orig} ELSE {}) = {}
        BY <2>1
      <4>4. (IF Undecided THEN {op.orig} ELSE {})' = {inv}
        BY <1>2, <2>1, <3>1
      <4>5. Promise!Change(op.plugin)
        BY ONLY <3>2, <4>1, <4>2, <4>3, <4>4 DEF Promise!Change
      <4> QED
        BY <1>2, <4>5 DEF OpFields
    <3>3. CASE inv[op.plugin] = NoRecord
      <4>0. op.kind = "install"
        BY <1>1, <1>2, <1>3, <2>1, <3>3 DEF RecordInv, Changing
      <4>1. op.rec \in Record /\ op.rec.rollback = NoVersion
        BY <1>1, <1>2, <4>0, <2>1, <3>3 DEF RecordInv, OpFields
      <4>6. op.rec \in Promise!FirstRecord(op.plugin)
        <5>1. op.rec.active \in Version /\ op.rec.enabled \in BOOLEAN
          BY ONLY <4>1 DEF Record
        <5>2. op.rec = Promise!Rec(op.rec.active, NoVersion, op.rec.enabled)
          BY ONLY <4>1 DEF Record, Promise!Rec
        <5>3. Cardinality({q \in Plugin : inv[q] # NoRecord}) < MaxPlugins
          BY <1>1, <1>2, <4>0, <2>1, <3>3 DEF RecordInv, Installed
        <5>4. Promise!Cardinality({q \in Plugin : inv[q] # NoRecord}) < MaxPlugins
          BY ONLY <5>3, SameCount
        <5> QED
          BY ONLY <5>1, <5>2, <5>4 DEF Promise!FirstRecord
      <4>2. inv' = [inv EXCEPT ![op.plugin] = op.rec]
        BY <2>1 DEF NewInventory
      <4>3. (IF Undecided THEN {op.orig} ELSE {}) = {}
        BY <2>1
      <4>4. (IF Undecided THEN {op.orig} ELSE {})' = {inv}
        BY <1>2, <2>1, <3>1
      <4>5. Promise!Change(op.plugin)
        BY ONLY <3>3, <4>6, <4>2, <4>3, <4>4 DEF Promise!Change
      <4> QED
        BY <1>2, <4>5 DEF OpFields
    <3> QED
      BY <3>2, <3>3
  <2> QED
    BY <2>2, <2>3
<1> QED
  BY <1>3, <1>4, <1>5

\* The rename of a commit happens in the session of its operation.
LEMMA Authority ==
    ASSUME IInv, Rename, inv' # inv
    PROVE  Authorized(op.epoch) \/ inv' = op.orig
<1>1. OpTypes /\ PhaseInv /\ CommitInv /\ op # NoOp
  BY TypeParts DEF IInv, Rename, OpTypes
<1> QED
  BY <1>1 DEF Rename, NextInventory, PhaseInv, CommitInv

\* The disk always holds the inventory of PackageInventory: write_state changes one
\* record at a time, legally and only for the session that asked; only the operation
\* that made a change takes it back, and never after it returned or the process died.
THEOREM InventoryRefined == Spec => RefinesInventory
<1>1. Init => Promise!Init
  BY DEF Init, Promise!Init, Undecided
<1>2. IInv /\ [Next]_vars => [Promise!Next]_(<<inv, IF Undecided THEN {op.orig} ELSE {}>>)
  <2> SUFFICES ASSUME IInv, [Next]_vars
               PROVE  [Promise!Next]_(<<inv, IF Undecided THEN {op.orig} ELSE {}>>)
    OBVIOUS
  <2>1. CASE Rename
    BY <2>1, RenameStep DEF Promise!Next
  <2>2. CASE ~Rename
    <3>1. Quietly
      BY <2>2, QuietSteps
    <3> QED
      BY <3>1 DEF Quietly, Promise!Next, Promise!Keep
  <2> QED
    BY <2>1, <2>2
<1>3. IInv /\ [Next]_vars => [inv' # inv => Authorized(op.epoch) \/ inv' = op.orig]_vars
  BY QuietSteps, Authority DEF Quietly
<1> QED
  BY <1>1, <1>2, <1>3, Invariance, PTL
     DEF Spec, RefinesInventory, CommitsAuthorized, Promise!Spec
=============================================================================
