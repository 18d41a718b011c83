----------------------------- MODULE ActionPath -----------------------------
(***************************************************************************)
(* The way of an action request through one worker registration, as        *)
(* src-tauri/src/plugins/runtime.rs builds it: admission by the caller,    *)
(* the control queue, handle_control in the supervisor, the writer queue   *)
(* and the writer task that sends the frame, the worker's answer, and the  *)
(* deadlines, cancellations, revocations and restarts that race with it.   *)
(*                                                                         *)
(* The registration has one contribution with an action.  It is absent,    *)
(* static, or a number input, which the host guards by a lease: the lease  *)
(* changes whenever the worker withdraws or changes the input.  Time is    *)
(* what has become of a request's two deadlines.                           *)
(***************************************************************************)
EXTENDS Naturals, Sequences, FiniteSets

CONSTANTS
    Request,       \* correlation identities
    Control,       \* a frame without a request: hello, cancel, shutdown
    NoAction, Static,   \* the action is not offered; it has fixed parameters
    MaxInFlight,   \* MAX_IN_FLIGHT, the capacity of the rejection channel too
    ControlCap,    \* CONTROL_QUEUE_CAPACITY
    PipeCap,       \* PIPE_QUEUE_CAPACITY
    MaxRestarts,   \* MAX_RESTARTS
    MaxLeases,     \* bound on the number inputs ever contributed
    MaxDue         \* bound on the passing of deadlines: 2 when both may pass

ASSUME ActionAssumption ==
    /\ Control \notin Request /\ IsFiniteSet(Request)
    /\ {MaxInFlight, ControlCap, PipeCap} \subseteq Nat \ {0}
    /\ {MaxRestarts, MaxLeases} \subseteq Nat /\ MaxDue \in 0 .. 2
    /\ {NoAction, Static} \cap Nat = {} /\ NoAction # Static

VARIABLES
    authorized, stop,   \* the entry's authority, and its stop channel
    sup, gen, outcome,  \* the supervisor, PluginSnapshot.generation, Outcome
    open,               \* the snapshot is Running and has an instance_id
    offer,              \* the contributed action
    numeric, leases,    \* WorkerEntry.numeric, and the leases ever created
    cmds,               \* WorkerEntry.commands
    pending,            \* run_generation's pending requests
    out, rejected,      \* WorkerPipes.writer and WorkerPipes.rejected
    wr, hand,           \* the writer task and the frame it works on
    torn,               \* a frame of this generation was left incomplete
    got,                \* requests the worker has read completely
    call, ans,          \* a request's caller, and what it was answered
    want, reqGen,       \* the action and the generation it was admitted for
    due,                \* 1: worker_deadline has passed, 2: deadline too
    cancel,             \* the cancellation channel
    reply,              \* the reply channel
    begun               \* the generation that was sent its first byte

entryVars == <<authorized, stop>>
supVars == <<sup, gen, outcome>>
offerVars == <<open, offer, numeric, leases>>
pipeVars == <<out, rejected, wr, hand, torn, got, begun>>
askVars == <<want, reqGen>>
callVars == <<call, ans, cancel>>
vars == <<entryVars, supVars, offerVars, cmds, pending, pipeVars, askVars, callVars, due, reply>>

Lease == 1 .. MaxLeases
NoLease == 0

Init ==
    /\ authorized = TRUE /\ stop = FALSE
    /\ sup = "start" /\ gen = 1 /\ outcome = "none"
    /\ open = FALSE /\ offer = NoAction /\ numeric = NoLease /\ leases = 0
    /\ cmds = <<>> /\ pending = {}
    /\ out = <<Control>> /\ rejected = <<>> /\ wr = "idle" /\ hand = Control
    /\ torn = FALSE /\ got = {}
    /\ call = [r \in Request |-> "none"] /\ ans = [r \in Request |-> "none"]
    /\ want = [r \in Request |-> NoAction] /\ reqGen = [r \in Request |-> 0]
    /\ due = [r \in Request |-> 0]
    /\ cancel = [r \in Request |-> FALSE]
    /\ reply = [r \in Request |-> "none"]
    /\ begun = [r \in Request |-> 0]

-----------------------------------------------------------------------------
(* Helpers *)

Looping == sup \in {"start", "run"}

\* Mutant: the checks of the first byte are not under the authority lock.
BugLocked == FALSE

\* The writer holds the authority lock between its checks and the first byte.
Locked == wr = "check"

\* try_send: into the writer queue when it has room and a reader.
WriterOpen == Len(out) < PipeCap /\ wr \notin {"none", "gone", "failed"}
SendControl == out' = IF WriterOpen THEN Append(out, Control) ELSE out

Answered(rs, what) == reply' = [r \in Request |-> IF r \in rs THEN what ELSE reply[r]]

\* The requests whose reply channel is in the control queue.
Queued == {cmds[i].r : i \in {j \in DOMAIN cmds : cmds[j].k = "action"}}

-----------------------------------------------------------------------------
(* The callers: action_in_epoch_with_budget *)

\* The checks and the try_send under the authority lock.
Admit(r) ==
    /\ call[r] = "none" /\ ~Locked
    /\ authorized /\ open /\ offer # NoAction
    /\ sup # "over" /\ Len(cmds) < ControlCap
    /\ cmds' = Append(cmds, [k |-> "action", r |-> r])
    /\ call' = [call EXCEPT ![r] = "waiting"]
    /\ want' = [want EXCEPT ![r] = offer]
    /\ reqGen' = [reqGen EXCEPT ![r] = gen]
    /\ UNCHANGED <<entryVars, supVars, offerVars, pending, pipeVars, ans, cancel, due, reply>>

\* CancelOnDrop: the flag always, the control only into a queue with room.
CancelOnDrop(r) ==
    /\ cancel' = [cancel EXCEPT ![r] = TRUE]
    /\ cmds' = IF sup # "over" /\ Len(cmds) < ControlCap
               THEN Append(cmds, [k |-> "cancel", r |-> r]) ELSE cmds

Done(r, a) ==
    /\ call[r] = "waiting"
    /\ call' = [call EXCEPT ![r] = "returned"]
    /\ ans' = [ans EXCEPT ![r] = a]
    /\ CancelOnDrop(r)
    /\ UNCHANGED <<entryVars, supVars, offerVars, pending, pipeVars, askVars, due, reply>>

\* The reply or the total deadline, then the authority once more.
Return(r) ==
    /\ reply[r] # "none" \/ due[r] = 2
    /\ Done(r, IF authorized /\ reply[r] = "ok" THEN "ok" ELSE "error")

\* The caller's future is dropped.
Abandon(r) == Done(r, "dropped")

\* A deadline passes.
Pass(r) ==
    /\ call[r] # "none" /\ due[r] < MaxDue
    /\ due' = [due EXCEPT ![r] = @ + 1]
    /\ UNCHANGED <<entryVars, supVars, offerVars, cmds, pending, pipeVars, askVars, callVars, reply>>

-----------------------------------------------------------------------------
(* The supervisor: run_generation and supervise *)

\* The last handshake frame.
Ready ==
    /\ sup = "start" /\ authorized /\ ~Locked
    /\ sup' = "run" /\ open' = ~stop
    /\ UNCHANGED <<entryVars, gen, outcome, offer, numeric, leases, cmds, pending, pipeVars,
                   askVars, callVars, due, reply>>

\* replace_contributions: an unchanged number input keeps its lease.
Contribute ==
    /\ sup = "run" /\ authorized /\ ~Locked
    /\ \/ offer' \in {NoAction, Static} /\ numeric' = NoLease /\ UNCHANGED leases
       \/ /\ leases < MaxLeases
          /\ leases' = leases + 1 /\ offer' = leases' /\ numeric' = leases'
    /\ offer' # offer
    /\ UNCHANGED <<entryVars, supVars, open, cmds, pending, pipeVars, askVars, callVars, due, reply>>

\* An ActionResult or ActionError for a request the worker has read.
WorkerAnswers(r, what) ==
    /\ sup = "run" /\ authorized /\ ~Locked
    /\ r \in got /\ r \in pending
    /\ pending' = pending \ {r}
    /\ Answered({r}, IF what = "ok" /\ due[r] < 2 THEN "ok" ELSE "error")
    /\ UNCHANGED <<entryVars, supVars, offerVars, cmds, pipeVars, askVars, callVars, due>>

\* Mutant: a request whose caller is gone stays until its deadline.
BugExpired(r) == due[r] = 2

Expired(r) == call[r] = "returned" \/ due[r] = 2

\* expire_pending, and a cancel frame for each request as long as there is room.
Tick ==
    /\ Looping
    /\ \E rs \in SUBSET pending :
        /\ rs = {r \in pending : Expired(r)} /\ rs # {}
        /\ pending' = pending \ rs
        /\ Answered(rs, "error")
        /\ \E n \in 0 .. PipeCap :
            /\ n = IF ~WriterOpen THEN 0
                   ELSE IF Cardinality(rs) <= PipeCap - Len(out) THEN Cardinality(rs)
                   ELSE PipeCap - Len(out)
            /\ out' = out \o [i \in 1 .. n |-> Control]
    /\ UNCHANGED <<entryVars, supVars, offerVars, cmds, rejected, wr, hand, torn, got, begun,
                   askVars, callVars, due>>

\* The writer has refused a request whose lease was revoked.
Rejection ==
    /\ Looping /\ rejected # <<>>
    /\ rejected' = Tail(rejected)
    /\ Answered({Head(rejected)} \cap pending, "error")
    /\ pending' = pending \ {Head(rejected)}
    /\ UNCHANGED <<entryVars, supVars, offerVars, cmds, out, wr, hand, torn, got, begun, askVars,
                   callVars, due>>

\* Mutant: the generation of the request is not compared.
BugCurrent(r) == authorized /\ sup = "run"

Current(r) == authorized /\ sup = "run" /\ reqGen[r] = gen

\* Still advertised, and a number input still under the same lease.
Advertised(r) == offer = want[r] /\ (want[r] # Static => numeric = want[r])

HasCapacity == Cardinality(pending) < MaxInFlight /\ WriterOpen

\* handle_control for a request.
Submit(r) ==
    IF Current(r) /\ due[r] = 0 /\ Advertised(r) /\ HasCapacity
    THEN pending' = pending \cup {r} /\ out' = Append(out, r) /\ UNCHANGED reply
    ELSE Answered({r}, "error") /\ UNCHANGED <<pending, out>>

\* handle_control for a cancellation.
Cancel(r) ==
    IF r \in pending
    THEN pending' = pending \ {r} /\ Answered({r}, "error") /\ SendControl
    ELSE UNCHANGED <<pending, out, reply>>

\* The biased select! takes a control only after the rejections.
HandleControl ==
    /\ Looping /\ cmds # <<>> /\ rejected = <<>> /\ ~Locked
    /\ cmds' = Tail(cmds)
    /\ \/ Head(cmds).k = "action" /\ Submit(Head(cmds).r)
       \/ Head(cmds).k = "cancel" /\ Cancel(Head(cmds).r)
    /\ UNCHANGED <<entryVars, supVars, offerVars, rejected, wr, hand, torn, got, begun, askVars,
                   callVars, due>>

\* Mutant: the requests in flight are forgotten.
BugFailPending == UNCHANGED <<pending, reply>>

\* The end of run_generation: every request in flight is answered.
FailPending == pending' = {} /\ Answered(pending, "error")

Leave(o) ==
    /\ Looping
    /\ sup' = "revoke" /\ outcome' = o
    /\ FailPending
    /\ UNCHANGED <<entryVars, gen, offerVars, cmds, pipeVars, askVars, callVars, due>>

StopSeen == stop /\ Leave("stopped")
WriterErrorSeen == wr = "failed" /\ (Leave("failed") \/ Leave("exited"))

\* The worker exits, closes its pipe, breaks the protocol or never gets ready.
WorkerFails == Leave("failed") \/ Leave("exited")

\* revoke_generation needs the lease registry, which the writer may hold.
RevokeGeneration ==
    /\ sup = "revoke" /\ ~(Locked /\ want[hand] # Static)
    /\ sup' = "update" /\ open' = FALSE /\ numeric' = NoLease
    /\ UNCHANGED <<entryVars, gen, outcome, offer, leases, cmds, pending, pipeVars, askVars,
                   callVars, due, reply>>

\* The contributions are cleared and terminate asks the worker to shut down.
BeginTerminate ==
    /\ sup = "update"
    /\ sup' = "reap" /\ offer' = NoAction
    /\ SendControl
    /\ UNCHANGED <<entryVars, gen, outcome, open, numeric, leases, cmds, pending, rejected, wr,
                   hand, torn, got, begun, askVars, callVars, due, reply>>

\* Where supervise goes on; a process that cannot be reaped ends it as well.
AfterReap ==
    \/ outcome = "stopped" /\ sup' = "final"
    \/ outcome = "exited" /\ gen <= MaxRestarts /\ sup' = "backoff"
    \/ (outcome = "failed" \/ gen > MaxRestarts) /\ sup' = "dropped"

\* terminate returns and the pipes are dropped, with the writer task.
Reap ==
    /\ sup = "reap" /\ ~Locked
    /\ AfterReap \/ sup' = "dropped"
    /\ wr' = "none" /\ hand' = Control /\ out' = <<>> /\ rejected' = <<>> /\ torn' = FALSE
    /\ got' = {}
    /\ UNCHANGED <<entryVars, gen, outcome, offerVars, cmds, pending, begun, askVars, callVars,
                   due, reply>>

\* reject_control while the restart is delayed.
RejectControl ==
    /\ sup = "backoff" /\ cmds # <<>>
    /\ cmds' = Tail(cmds)
    /\ Answered(IF Head(cmds).k = "action" THEN {Head(cmds).r} ELSE {}, "error")
    /\ UNCHANGED <<entryVars, supVars, offerVars, pending, pipeVars, askVars, callVars, due>>

\* The next generation, unless it cannot be spawned or the entry was stopped
\* in the meantime.
BackoffEnds ==
    /\ sup = "backoff" /\ ~Locked
    /\ \/ /\ authorized /\ ~stop /\ gen' = gen + 1
          /\ \/ sup' = "start" /\ wr' = "idle" /\ out' = <<Control>>
             \/ sup' = "dropped" /\ UNCHANGED <<wr, out>>
       \/ ~(authorized /\ ~stop) /\ sup' = "final" /\ UNCHANGED <<gen, wr, out>>
    /\ UNCHANGED <<entryVars, outcome, offerVars, cmds, pending, rejected, hand, torn, got, begun,
                   askVars, callVars, due, reply>>

\* supervise returns: what is left in the queue is refused, or dropped with
\* its reply channel, which the caller sees as Unavailable.
SuperviseReturns ==
    /\ sup \in {"final", "dropped"}
    /\ sup' = "over" /\ cmds' = <<>>
    /\ Answered(Queued, "error")
    /\ UNCHANGED <<entryVars, gen, outcome, offerVars, pending, pipeVars, askVars, callVars, due>>

-----------------------------------------------------------------------------
(* The writer task: write_frames *)

Writer(stage, r) == wr' = stage /\ hand' = r
WriterKeeps ==
    UNCHANGED <<entryVars, supVars, offerVars, cmds, pending, askVars, callVars, due, reply>>

\* A frame is taken; a request that must not be sent any more is skipped.
TakeFrame ==
    /\ wr = "idle" /\ out # <<>> /\ ~stop
    /\ out' = Tail(out)
    /\ LET f == Head(out) IN
         IF f = Control THEN Writer("partial", f)
         ELSE IF authorized /\ ~cancel[f] /\ due[f] = 0 THEN Writer("poll", f)
         ELSE Writer("idle", Control)
    /\ UNCHANGED <<rejected, torn, got, begun>> /\ WriterKeeps

\* Stopped between two frames, or before the first byte.
WriterStops ==
    /\ wr \in {"idle", "poll"} /\ stop
    /\ Writer("gone", Control)
    /\ UNCHANGED <<out, rejected, torn, got, begun>> /\ WriterKeeps

\* Cancelled, out of time or the pipe is broken before the first byte.
FirstByteFails ==
    /\ wr \in {"poll", "check"}
    /\ Writer("failed", Control)
    /\ UNCHANGED <<out, rejected, torn, got, begun>> /\ WriterKeeps

\* Less than a millisecond is left.
FirstByteExpires ==
    /\ wr = "poll" /\ due[hand] > 0
    /\ Writer("idle", Control)
    /\ UNCHANGED <<out, rejected, torn, got, begun>> /\ WriterKeeps

LeaseRevoked(r) == want[r] # Static /\ numeric # want[r]

\* The lease of a number input was revoked: the supervisor is told.
FirstByteRejected ==
    /\ wr = "poll" /\ LeaseRevoked(hand)
    /\ IF Len(rejected) < MaxInFlight
       THEN rejected' = Append(rejected, hand) /\ Writer("idle", Control)
       ELSE Writer("failed", Control) /\ UNCHANGED rejected
    /\ UNCHANGED <<out, torn, got, begun>> /\ WriterKeeps

\* poll_fn: authority and registry are locked and everything is checked again.
CheckFirstByte ==
    /\ wr = "poll"
    /\ authorized /\ ~stop /\ ~cancel[hand] /\ due[hand] = 0 /\ ~LeaseRevoked(hand)
    /\ Writer("check", hand)
    /\ UNCHANGED <<out, rejected, torn, got, begun>> /\ WriterKeeps

\* poll_write accepts a byte, or none and the locks are released.
FirstByte ==
    /\ wr = "check"
    /\ Writer("partial", hand) /\ begun' = [begun EXCEPT ![hand] = gen]
    /\ UNCHANGED <<out, rejected, torn, got>> /\ WriterKeeps

WriteBlocked ==
    /\ wr = "check"
    /\ Writer("poll", hand)
    /\ UNCHANGED <<out, rejected, torn, got, begun>> /\ WriterKeeps

\* The rest of the frame.
FrameComplete ==
    /\ wr = "partial"
    /\ got' = got \cup ({hand} \ {Control})
    /\ Writer("idle", Control)
    /\ UNCHANGED <<out, rejected, torn, begun>> /\ WriterKeeps

\* The writer ends with an incomplete frame.
AbandonFrame == Writer("failed", Control) \/ (stop /\ Writer("gone", Control))

FrameTorn ==
    /\ wr = "partial"
    /\ AbandonFrame /\ torn' = TRUE
    /\ UNCHANGED <<out, rejected, got, begun>> /\ WriterKeeps

-----------------------------------------------------------------------------
(* The session and the package manager *)

\* revoke_epoch on this entry.
Revoke ==
    /\ authorized /\ ~Locked
    /\ authorized' = FALSE /\ stop' = (stop \/ sup # "over")
    /\ open' = FALSE /\ numeric' = NoLease /\ offer' = NoAction
    /\ UNCHANGED <<supVars, leases, cmds, pending, pipeVars, askVars, callVars, due, reply>>

\* stop and remove: the contributions stay until the supervisor clears them.
StopEntry ==
    /\ ~stop /\ sup # "over" /\ ~Locked
    /\ stop' = TRUE /\ open' = FALSE /\ numeric' = NoLease
    /\ UNCHANGED <<authorized, supVars, offer, leases, cmds, pending, pipeVars, askVars, callVars,
                   due, reply>>

-----------------------------------------------------------------------------
Callers == \E r \in Request : Admit(r) \/ Return(r) \/ Abandon(r) \/ Pass(r)

Worker == WorkerFails \/ Ready \/ Contribute \/ \E r \in Request, a \in {"ok", "error"} : WorkerAnswers(r, a)

Supervisor ==
    \/ Tick \/ Rejection \/ HandleControl \/ StopSeen \/ WriterErrorSeen
    \/ RevokeGeneration \/ BeginTerminate \/ Reap \/ RejectControl \/ BackoffEnds
    \/ SuperviseReturns

WriterTask ==
    \/ TakeFrame \/ WriterStops \/ FirstByteFails \/ FirstByteExpires \/ FirstByteRejected
    \/ CheckFirstByte \/ FirstByte \/ WriteBlocked \/ FrameComplete \/ FrameTorn

Next == Callers \/ Worker \/ Supervisor \/ WriterTask \/ Revoke \/ StopEntry

Spec == Init /\ [][Next]_vars

\* The supervisor is polled and its timers fire, the writer leaves poll_fn, and
\* a caller that was woken returns.  No deadline has to pass, no byte has to be
\* accepted and no worker has to answer.
Fairness ==
    /\ WF_vars(Tick) /\ WF_vars(Rejection) /\ WF_vars(HandleControl) /\ WF_vars(StopSeen)
    /\ WF_vars(sup \notin {"start", "run"} /\ Supervisor)
    /\ WF_vars(FirstByte \/ WriteBlocked)
    /\ \A r \in Request : WF_vars(reply[r] # "none" /\ Return(r))

FairSpec == Spec /\ Fairness

-----------------------------------------------------------------------------
(* Properties *)

\* No queue or table outgrows its limit, whatever requests are admitted.
TypeOK ==
    /\ {authorized, stop, open, torn} \subseteq BOOLEAN
    /\ sup \in {"start", "run", "revoke", "update", "reap", "backoff", "final", "dropped", "over"}
    /\ gen \in 1 .. MaxRestarts + 1
    /\ outcome \in {"none", "stopped", "exited", "failed"}
    /\ offer \in {NoAction, Static} \cup Lease /\ numeric \in Lease \cup {NoLease}
    /\ leases \in 0 .. MaxLeases
    /\ cmds \in Seq([k : {"action", "cancel"}, r : Request]) /\ Len(cmds) <= ControlCap
    /\ pending \subseteq Request /\ Cardinality(pending) <= MaxInFlight
    /\ out \in Seq(Request \cup {Control}) /\ Len(out) <= PipeCap
    /\ rejected \in Seq(Request) /\ Len(rejected) <= MaxInFlight
    /\ wr \in {"none", "idle", "poll", "check", "partial", "gone", "failed"}
    /\ hand \in Request \cup {Control} /\ (wr \in {"poll", "check"} => hand \in Request)
    /\ got \subseteq Request
    /\ call \in [Request -> {"none", "waiting", "returned"}]
    /\ ans \in [Request -> {"none", "ok", "error", "dropped"}]
    /\ want \in [Request -> {NoAction, Static} \cup Lease]
    /\ reqGen \in [Request -> Nat] /\ begun \in [Request -> Nat]
    /\ due \in [Request -> 0 .. 2] /\ cancel \in [Request -> BOOLEAN]
    /\ reply \in [Request -> {"none", "ok", "error"}]

\* A request reaches no other process than the one on whose dashboard it was
\* made, although the control queue outlives the process.
IsolatedGenerations == \A r \in Request : begun[r] # 0 => begun[r] = reqGen[r]

\* The first byte of a request goes out only while the session is authorized
\* and, for a number input, while its lease is current: write_frames checks and
\* writes under the locks that every revocation takes.
FirstByteAuthorized ==
    [][\A r \in Request : begun'[r] # begun[r] => authorized /\ ~LeaseRevoked(r)]_vars

\* After an incomplete frame nothing is written to this process any more.
TornPipeIsSilent == torn => wr \in {"none", "gone", "failed"}

\* No process reads what was not meant for it whole: neither a request of its predecessor's
\* dashboard, nor the frame after a torn one.
PipesAreClean == TypeOK /\ IsolatedGenerations /\ TornPipeIsSilent

\* Nobody waits for a process that is gone, and nothing of a caller that is gone stays: when its
\* process ends, a caller is answered without waiting for its deadline, and a request whose caller
\* has gone is taken out of the table, also when its cancellation was lost to a full queue.
RequestsLeave ==
    \A r \in Request :
        (\/ call[r] = "waiting" /\ (~Looping \/ reqGen[r] # gen)
         \/ call[r] = "returned" /\ r \in pending)
            ~> call[r] = "returned" /\ r \notin pending
=============================================================================
