---------------------------- MODULE MediaService ----------------------------
(***************************************************************************)
(* The media of plugins (src-tauri/src/plugins/media.rs, media_windows.rs, *)
(* http_video.rs): a request of a worker's generation is queued, gets a    *)
(* slot, is downloaded into a private file and shown in a window of its    *)
(* own; slot and file are held until the window is known to be gone.       *)
(*                                                                         *)
(* One task per request, one adapter for the windows, the native windows,  *)
(* the readers of files and the shutdown interleave. A generation may be   *)
(* revoked and the process may crash at any step. Sizes are small numbers. *)
(***************************************************************************)
EXTENDS Naturals, Sequences, FiniteSetsExt

CONSTANTS
    Item,           \* requests
    Camera,         \* cameras a request may name
    MaxQueued, MaxWindows, MaxTransfers, MaxReads, EventCapacity,
    MaxMediaBytes,  \* disk bytes all items together may reserve
    ByteLimit,      \* ByteLimit[kind]: what one download may take
    MaxAttempts,    \* tries of a download
    MaxFaults       \* bound on revocations, failures of the system and crashes

\* A download takes something of the disk.
LimitsAssumption ==
    /\ MaxWindows \in Nat /\ MaxMediaBytes \in Nat
    /\ \A k \in DOMAIN ByteLimit : ByteLimit[k] \in Nat \ {0}

VARIABLES
    root,       \* the media directory is initialized
    item,       \* the registry
    task,       \* the step of each request's task
    file,       \* the file of each request: "none", "own", "orphan"
    events,     \* events on their way to the adapter
    adapter,    \* the event the adapter handles
    window,     \* the native windows
    reads,      \* reads under way
    active,     \* the generation is not revoked
    broken,     \* cleanup_failed: a file could not be removed
    shutdown,   \* the drain
    faults

vars == <<root, item, task, file, events, adapter, window, reads, active, broken, shutdown, faults>>
-----------------------------------------------------------------------------
None == {}
Kind == DOMAIN ByteLimit
NoItem == [phase |-> "absent", preview |-> FALSE, kind |-> "video", camera |-> None, bytes |-> 0,
           retired |-> FALSE, stuck |-> FALSE, tries |-> 0, file |-> FALSE]
NoShutdown == [at |-> "idle", retry |-> {}, failed |-> FALSE, requested |-> FALSE]
Quiet == [at |-> "idle", for |-> None]

Init ==
    /\ root = FALSE
    /\ item = [i \in Item |-> NoItem]
    /\ task = [i \in Item |-> "none"]
    /\ file \in {[i \in Item |-> "none"], [i \in Item |-> "orphan"]}
    /\ events = <<>> /\ adapter = Quiet
    /\ window = [i \in Item |-> "none"]
    /\ reads = [i \in Item |-> 0]
    /\ active = TRUE /\ broken = FALSE
    /\ shutdown = NoShutdown
    /\ faults = 0

Closing == shutdown.requested
In(phases) == {i \in Item : item[i].phase \in phases}
Present == {i \in Item : item[i].phase # "absent"}
Fault == faults < MaxFaults /\ faults' = faults + 1
Goto(i, at) == task' = [task EXCEPT ![i] = at]
\* notify_waiters: those waiting for a slot look again.
Notified(t) == [i \in Item |-> IF t[i] = "blocked" THEN "reserve" ELSE t[i]]
GotoAndNotify(i, at) == task' = [Notified(task) EXCEPT ![i] = at]
\* is_window_active: the request owns its window and its generation is current.
WindowActive(i) == ~Closing /\ active /\ item[i].phase = "ready" /\ ~item[i].retired
-----------------------------------------------------------------------------
(* Files. *)

\* recover_directory: what an earlier process left is removed, after all of it was checked.
Recovered == [i \in Item |-> "none"]
Initialize ==
    /\ ~root /\ ~Closing
    /\ \/ root' = TRUE /\ file' = Recovered /\ UNCHANGED faults
       \/ Fault /\ UNCHANGED <<root, file>>
    /\ UNCHANGED <<item, task, events, adapter, window, reads, active, broken, shutdown>>

\* Dropping the last owner closes and unlinks; what cannot be removed ends admission.
Unlink(i) ==
    \/ file' = [file EXCEPT ![i] = "none"] /\ UNCHANGED <<broken, faults>>
    \/ Fault /\ broken' = TRUE /\ UNCHANGED file
Drop(i) == IF file[i] = "own" THEN Unlink(i) ELSE UNCHANGED <<file, broken, faults>>
-----------------------------------------------------------------------------
(* try_submit: refused, ignored as a duplicate of its camera, or queued with a task. *)
Submit(i, preview, kind, camera) ==
    /\ item[i].phase = "absent" /\ task[i] = "none" /\ file[i] # "own"
    /\ ~Closing /\ ~broken /\ active /\ root
    /\ camera # None => \A j \in Present : item[j].camera # camera
    /\ Cardinality(In({"queued"})) < MaxQueued
    /\ preview => kind = "video"
    /\ item' = [item EXCEPT ![i] = [NoItem EXCEPT !.phase = "queued", !.preview = preview,
                                                  !.kind = kind, !.camera = camera]]
    /\ Goto(i, "reserve")
    /\ UNCHANGED <<root, file, events, adapter, window, reads, active, broken, shutdown, faults>>

\* reserve: a preview takes a window only, a download also a transfer and its byte limit.
Reservation(i) == IF item[i].preview THEN 0 ELSE ByteLimit[item[i].kind]
Reserved == UNION {{i} \X (1 .. item[i].bytes) : i \in Item}  \* byte by byte, as a set
Windows == In({"downloading", "ready", "closing"})
Fits(i) ==
    /\ Cardinality(Windows) < MaxWindows
    /\ item[i].preview \/ /\ Cardinality(In({"downloading"})) < MaxTransfers
                          /\ Cardinality(Reserved) + Reservation(i) <= MaxMediaBytes

Reserve(i) ==
    /\ task[i] = "reserve"
    /\ active /\ ~item[i].retired /\ ~Closing /\ ~broken
    /\ IF Fits(i)
       THEN /\ item' = [item EXCEPT ![i].phase = IF item[i].preview THEN "ready" ELSE "downloading",
                                    ![i].bytes = Reservation(i)]
            /\ Goto(i, IF item[i].preview THEN "deliver" ELSE "create")
       ELSE Goto(i, "blocked") /\ UNCHANGED item
    /\ UNCHANGED <<root, file, events, adapter, window, reads, active, broken, shutdown, faults>>

\* Given up while queued: revoked, closing, failed, or the motion of a preview is over.
GiveUp(i) ==
    /\ \/ task[i] = "reserve" /\ (~active \/ item[i].retired \/ Closing \/ broken)
       \/ task[i] = "blocked" /\ (~active \/ item[i].retired \/ Closing)
       \/ task[i] \in {"reserve", "blocked"} /\ item[i].preview
    /\ Goto(i, "remove")
    /\ UNCHANGED <<root, item, file, events, adapter, window, reads, active, broken, shutdown, faults>>

\* MediaFile::create; a file that cannot be identified stays and ends admission.
Create(i) ==
    /\ task[i] = "create"
    /\ \/ file' = [file EXCEPT ![i] = "own"] /\ Goto(i, "transfer") /\ UNCHANGED <<broken, faults>>
       \/ Fault /\ Goto(i, "failed") /\ UNCHANGED <<file, broken>>
       \/ Fault /\ Goto(i, "failed") /\ file' = [file EXCEPT ![i] = "orphan"] /\ broken' = TRUE
    /\ UNCHANGED <<root, item, events, adapter, window, reads, active, shutdown>>

\* download: the file is reset before each try; a failure is final or, while tries are
\* left, tried again; a revocation or the shutdown cancels it.
Transfer(i) ==
    /\ task[i] = "transfer"
    /\ \/ active /\ ~Closing /\ Goto(i, "commit") /\ UNCHANGED item
       \/ item[i].tries + 1 < MaxAttempts /\ active /\ ~Closing
          /\ item' = [item EXCEPT ![i].tries = @ + 1] /\ UNCHANGED task
       \/ Goto(i, "discard") /\ UNCHANGED item
    /\ UNCHANGED <<root, file, events, adapter, window, reads, active, broken, shutdown, faults>>

Discard(i) ==
    /\ task[i] = "discard"
    /\ Drop(i)
    /\ Goto(i, "failed")
    /\ UNCHANGED <<root, item, events, adapter, window, reads, active, shutdown>>

\* The result is committed while the generation is active: a failure is shown too.
Commit(i) ==
    /\ task[i] \in {"commit", "failed"}
    /\ IF active /\ ~item[i].retired /\ ~Closing
       THEN /\ item' = [item EXCEPT ![i].phase = "ready", ![i].file = (task[i] = "commit"),
                                    ![i].bytes = IF task[i] = "commit" THEN 1 ELSE 0]
            /\ GotoAndNotify(i, "deliver")
       ELSE UNCHANGED item /\ GotoAndNotify(i, "drop")
    /\ UNCHANGED <<root, file, events, adapter, window, reads, active, broken, shutdown, faults>>

DropUncommitted(i) ==
    /\ task[i] = "drop"
    /\ Drop(i)
    /\ Goto(i, "remove")
    /\ UNCHANGED <<root, item, events, adapter, window, reads, active, shutdown>>

\* present_until_retired: nothing is delivered once revoked or closing.
Deliver(i) ==
    /\ task[i] = "deliver"
    /\ IF ~active \/ Closing THEN Goto(i, "remove") /\ UNCHANGED events
       ELSE Len(events) < EventCapacity /\ events' = Append(events, <<"ready", i>>) /\ Goto(i, "present")
    /\ UNCHANGED <<root, item, file, adapter, window, reads, active, broken, shutdown, faults>>

\* Mutant: the task only watches its window.
PresentUntilGone(i) ==
    /\ task[i] = "present" /\ item[i].retired
    /\ Goto(i, "remove")
    /\ UNCHANGED <<root, item, file, events, adapter, window, reads, active, broken, shutdown, faults>>

\* Until the window is gone, the generation revoked, the shutdown, or a preview's end.
EndPresenting(i) ==
    /\ task[i] = "present"
    /\ item[i].retired \/ ~active \/ Closing \/ item[i].preview
    /\ item' = [item EXCEPT ![i].phase = IF item[i].preview THEN "closing" ELSE @]
    /\ Goto(i, IF item[i].retired THEN "remove" ELSE "close")
    /\ UNCHANGED <<root, file, events, adapter, window, reads, active, broken, shutdown, faults>>

SendClose(i) ==
    /\ task[i] = "close" /\ Len(events) < EventCapacity
    /\ events' = Append(events, <<"close", i>>)
    /\ Goto(i, "acknowledge")
    /\ UNCHANGED <<root, item, file, adapter, window, reads, active, broken, shutdown, faults>>

\* The slot is kept until the window is known to be absent.
Acknowledged(i) ==
    /\ task[i] = "acknowledge" /\ item[i].retired
    /\ Goto(i, "remove")
    /\ UNCHANGED <<root, item, file, events, adapter, window, reads, active, broken, shutdown, faults>>

Remove(i) ==
    /\ task[i] = "remove"
    /\ item' = [item EXCEPT ![i].retired = TRUE, ![i].file = FALSE]
    /\ Goto(i, IF item[i].file THEN "drain" ELSE "delete")
    /\ UNCHANGED <<root, file, events, adapter, window, reads, active, broken, shutdown, faults>>

\* Mutant: the file is unlinked and the slot freed without waiting for its readers.
DrainAtOnce(i) ==
    /\ task[i] = "drain"
    /\ Drop(i)
    /\ Goto(i, "delete")
    /\ UNCHANGED <<root, item, events, adapter, window, reads, active, shutdown>>

\* remove_item: after the last reader, the file, and only then the reservation.
Drain(i) ==
    /\ task[i] = "drain" /\ reads[i] = 0
    /\ Drop(i)
    /\ Goto(i, "delete")
    /\ UNCHANGED <<root, item, events, adapter, window, reads, active, shutdown>>

Delete(i) ==
    /\ task[i] = "delete"
    /\ item' = [item EXCEPT ![i] = NoItem]
    /\ GotoAndNotify(i, "done")
    /\ UNCHANGED <<root, file, events, adapter, window, reads, active, broken, shutdown, faults>>
-----------------------------------------------------------------------------
(* forward_events: one event at a time, each on the native side. *)
Retire(i) == item' = [item EXCEPT ![i].retired = (item[i].phase # "absent")]
\* window_cleanup_failed: not proof of absence; nothing is released.
CleanupFailed(i) ==
    IF i \in Present /\ ~item[i].retired
    THEN /\ item' = [item EXCEPT ![i].stuck = TRUE]
         /\ shutdown' = [shutdown EXCEPT !.failed = (shutdown.at \in {"retry", "join"})]
    ELSE UNCHANGED <<item, shutdown>>
Destroy(i) ==
    \/ window' = [window EXCEPT ![i] = "dying"] /\ UNCHANGED <<item, shutdown, faults>>
    \/ Fault /\ CleanupFailed(i) /\ UNCHANGED window

Take ==
    /\ adapter.at = "idle" /\ events # <<>>
    /\ adapter' = [at |-> Head(events)[1], for |-> {Head(events)[2]}]
    /\ events' = Tail(events)
    /\ UNCHANGED <<root, item, task, file, window, reads, active, broken, shutdown, faults>>

\* open_window: checked, built hidden, checked again.
OpenWindow ==
    /\ adapter.at = "ready"
    /\ \E i \in adapter.for :
          \/ /\ WindowActive(i)
             /\ window' = [window EXCEPT ![i] = "hidden"]
             /\ adapter' = [adapter EXCEPT !.at = "recheck"]
             /\ UNCHANGED faults
          \/ /\ WindowActive(i) /\ Fault                         \* it could not be built
             /\ adapter' = [adapter EXCEPT !.at = "failed"] /\ UNCHANGED window
          \/ /\ ~WindowActive(i)
             /\ adapter' = [adapter EXCEPT !.at = "failed"] /\ UNCHANGED <<window, faults>>
    /\ UNCHANGED <<root, item, task, file, events, reads, active, broken, shutdown>>

Recheck ==
    /\ adapter.at = "recheck"
    /\ \E i \in adapter.for :
          adapter' = IF WindowActive(i) THEN Quiet ELSE [adapter EXCEPT !.at = "failed"]
    /\ UNCHANGED <<root, item, task, file, events, window, reads, active, broken, shutdown, faults>>

\* A window that should not be there is destroyed; an absent one is acknowledged.
CloseWindow ==
    /\ adapter.at \in {"failed", "close"}
    /\ \E i \in adapter.for :
          IF window[i] # "none"
          THEN Destroy(i) /\ UNCHANGED task
          ELSE /\ Retire(i) /\ task' = Notified(task)
               /\ UNCHANGED <<window, shutdown, faults>>
    /\ adapter' = Quiet
    /\ UNCHANGED <<root, file, events, reads, active, broken>>

\* The native window is gone, whoever asked for it.
Destroyed(i) ==
    /\ window[i] = "dying"
    /\ window' = [window EXCEPT ![i] = "none"]
    /\ Retire(i) /\ task' = Notified(task)
    /\ UNCHANGED <<root, file, events, adapter, reads, active, broken, shutdown, faults>>

\* The page shows itself once it has something to show, on the main thread.
Reveal(i) ==
    /\ window[i] = "hidden" /\ WindowActive(i)
    /\ window' = [window EXCEPT ![i] = "visible"]
    /\ UNCHANGED <<root, item, task, file, events, adapter, reads, active, broken, shutdown, faults>>

CloseByUser(i) ==
    /\ window[i] = "visible"
    /\ window' = [window EXCEPT ![i] = "dying"]
    /\ UNCHANGED <<root, item, task, file, events, adapter, reads, active, broken, shutdown, faults>>

\* A window that never showed itself loses its authority before it is destroyed.
ExpireHidden(i) ==
    /\ window[i] = "hidden" /\ adapter.for # {i} /\ WindowActive(i)
    /\ \/ /\ item' = [item EXCEPT ![i].phase = "closing"]
          /\ window' = [window EXCEPT ![i] = "dying"] /\ UNCHANGED <<shutdown, faults>>
       \/ /\ Fault /\ item' = [item EXCEPT ![i].phase = "closing", ![i].stuck = TRUE]
          /\ UNCHANGED <<window, shutdown>>
    /\ UNCHANGED <<root, task, file, events, adapter, reads, active, broken>>

\* read_range, for the exact window, while a permit is free.
BeginRead(i) ==
    /\ window[i] \in {"hidden", "visible"} /\ WindowActive(i) /\ item[i].file
    /\ MapThenSumSet(LAMBDA j : reads[j], Item) < MaxReads
    /\ reads' = [reads EXCEPT ![i] = @ + 1]
    /\ UNCHANGED <<root, item, task, file, events, adapter, window, active, broken, shutdown, faults>>

EndRead(i) ==
    /\ reads[i] > 0
    /\ reads' = [reads EXCEPT ![i] = @ - 1]
    /\ UNCHANGED <<root, item, task, file, events, adapter, window, active, broken, shutdown, faults>>
-----------------------------------------------------------------------------
(* shutdown: may be called again after it failed. *)
BeginShutdown ==
    /\ shutdown.at \in {"idle", "failed"}
    /\ LET retry == {i \in Present : item[i].stuck /\ ~item[i].retired}
       IN  /\ shutdown' = [at |-> "retry", retry |-> retry, failed |-> FALSE, requested |-> TRUE]
           /\ item' = [i \in Item |-> IF i \in retry THEN [item[i] EXCEPT !.stuck = FALSE] ELSE item[i]]
    /\ UNCHANGED <<root, task, file, events, adapter, window, reads, active, broken, faults>>

RetryClose ==
    /\ shutdown.at = "retry"
    /\ IF shutdown.retry = {}
       THEN shutdown' = [shutdown EXCEPT !.at = "join"] /\ UNCHANGED events
       ELSE /\ Len(events) < EventCapacity
            /\ LET i == CHOOSE j \in shutdown.retry : TRUE
               IN  events' = Append(events, <<"close", i>>) /\ shutdown' = [shutdown EXCEPT !.retry = @ \ {i}]
    /\ UNCHANGED <<root, item, task, file, adapter, window, reads, active, broken, faults>>

\* Every task is joined, unless a window cannot be closed; then the reads.
Join ==
    /\ shutdown.at = "join"
    /\ \/ shutdown.failed /\ shutdown' = [shutdown EXCEPT !.at = "failed"]
       \/ /\ \A i \in Item : task[i] \in {"none", "done"}
          /\ \A i \in Item : reads[i] = 0
          /\ shutdown' = [shutdown EXCEPT !.at = IF broken \/ Present # {} THEN "failed" ELSE "ok"]
    /\ UNCHANGED <<root, item, task, file, events, adapter, window, reads, active, broken, faults>>

Revoke ==
    /\ active /\ Fault /\ active' = FALSE
    /\ UNCHANGED <<root, item, task, file, events, adapter, window, reads, broken, shutdown>>

\* The process dies: only files survive, under names nobody knows any more.
Crash ==
    /\ Fault
    /\ root' = FALSE /\ active' = TRUE /\ broken' = FALSE
    /\ file' = [i \in Item |-> IF file[i] = "none" THEN "none" ELSE "orphan"]
    /\ item' = [i \in Item |-> NoItem] /\ task' = [i \in Item |-> "none"]
    /\ events' = <<>> /\ adapter' = Quiet
    /\ window' = [i \in Item |-> "none"] /\ reads' = [i \in Item |-> 0]
    /\ shutdown' = NoShutdown

TaskStep(i) ==
    \/ Reserve(i) \/ GiveUp(i) \/ Create(i) \/ Transfer(i) \/ Discard(i) \/ Commit(i)
    \/ DropUncommitted(i) \/ Deliver(i) \/ EndPresenting(i) \/ SendClose(i) \/ Acknowledged(i)
    \/ Remove(i) \/ Drain(i) \/ Delete(i)
AdapterStep == Take \/ OpenWindow \/ Recheck \/ CloseWindow
ShutdownStep == RetryClose \/ Join

Next ==
    \/ Initialize \/ BeginShutdown \/ ShutdownStep \/ AdapterStep \/ Revoke \/ Crash
    \/ \E i \in Item :
          \/ TaskStep(i) \/ Destroyed(i) \/ Reveal(i) \/ CloseByUser(i) \/ ExpireHidden(i)
          \/ BeginRead(i) \/ EndRead(i)
          \/ \E preview \in BOOLEAN, kind \in Kind, camera \in {None} \cup {{c} : c \in Camera} :
                Submit(i, preview, kind, camera)

Spec == Init /\ [][Next]_vars

\* Tasks, the adapter, the native side, readers and the drain are scheduled.
Fairness ==
    /\ WF_vars(AdapterStep) /\ WF_vars(ShutdownStep)
    /\ \A i \in Item : WF_vars(TaskStep(i)) /\ WF_vars(Destroyed(i)) /\ WF_vars(EndRead(i))
FairSpec == Spec /\ Fairness
-----------------------------------------------------------------------------
\* A window, a read or a file is there only under an entry of the registry that holds its
\* slot and its bytes: the limits hold for what exists, not only for what is registered.
OwnedUntilGone ==
    /\ \A i \in Item : /\ window[i] # "none" => i \in Windows
                       /\ reads[i] > 0 => file[i] = "own" /\ i \in Windows
                       /\ file[i] = "own" /\ ~broken => i \in Windows
    /\ Cardinality({i \in Item : window[i] # "none"}) <= MaxWindows
    /\ Cardinality(Reserved) <= MaxMediaBytes

\* A drain that reports success leaves no task, window, read or file of this process.
ShutdownLeavesNothing ==
    shutdown.at = "ok" => \A i \in Item : /\ item[i].phase = "absent" /\ window[i] = "none"
                                          /\ reads[i] = 0 /\ file[i] # "own"

\* What a revoked generation had on the screen is taken from it, unless the system refused
\* to destroy the window.
RevokedWindowsClose ==
    \A i \in Item : (window[i] # "none" /\ ~active) ~> (window[i] = "none" \/ item[i].stuck)

\* Nothing is left behind: what is open has an owner, and nothing is open after a drain.
NothingLeftBehind == OwnedUntilGone /\ ShutdownLeavesNothing
=============================================================================
