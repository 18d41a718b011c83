------------------------ MODULE HomeAssistantActions ------------------------
(***************************************************************************)
(* Commands of the Home Assistant worker (desktop-plugins/home-assistant:  *)
(* actions.rs, the connection of network.rs, the grants of state.rs). A    *)
(* frame published to the host grants controls; a request refers to such a *)
(* grant, is admitted, and releases one service call to Home Assistant.    *)
(*                                                                         *)
(* The worker is one task that polls a biased select: a change of the      *)
(* connection is always seen before a completion or a request is handled.  *)
(* Only the HTTP transport runs beside it, and it may own the body of a    *)
(* lock command after the command itself was given up.                     *)
(*                                                                         *)
(* Three controls stand for the operations: "lock" (explicit target, read  *)
(* first, guarded body, confirmed by an observation), "toggle" (read first)*)
(* and "number" (validated against the published bounds).                  *)
(***************************************************************************)
EXTENDS Naturals, FiniteSets

CONSTANTS Request, Settings, MaxActive, MaxEpoch, MaxSeen

VARIABLES
    controls, \* the configured controls, one of Settings
    net,      \* network::run: "session", "backoff" or "parked"; "over" when the process has ended
    link,     \* [epoch, phase]: the watched connection
    lock,     \* [state, rev]: the lock's observation and its lock_revision
    number,   \* [bounds, rev]: the number's constraints (0 is none) and its grant
    offered,  \* the switch is in a state one can act on: any but unavailable
    dirty,    \* the book changed since it was published
    granted,  \* what the last frame granted, and the book still advertises
    shown,    \* what the last frame showed the user
    seen,     \* the epoch the command loop has seen
    req,      \* each request
    wire,     \* the body of each lock command: "none", "held" by the transport, "sent", "aborted"
    wrote,    \* the requests whose service call was released
    fresh     \* history: the controls shown whose grant nothing has touched since

vars == <<controls, net, link, lock, number, offered, dirty, granted, shown, seen, req, wire, wrote, fresh>>
bookVars == <<controls, lock, number, offered, dirty, granted, fresh>>

Alive == net # "over"
Kind == {"lock", "toggle", "number"}
Target == "locked"
NoGrant == <<>>
NoGrants == [k \in Kind |-> NoGrant]
NewRequest == [at |-> "none", kind |-> "none", token |-> NoGrant, received |-> 0, epoch |-> 0, rev |-> 0,
               eligible |-> FALSE, submitted |-> FALSE, late |-> FALSE, answer |-> "none", stale |-> FALSE]
Running == {"read", "posted", "confirm"}
Active == {r \in Request : req[r].at \in Running}

Init ==
    /\ controls \in Settings
    /\ net = "session" /\ link = [epoch |-> 1, phase |-> "connecting"]
    /\ lock = [state |-> "none", rev |-> 0] /\ number = [bounds |-> 0, rev |-> 0] /\ offered = FALSE
    /\ dirty = TRUE /\ granted = NoGrants /\ shown = NoGrants /\ seen = 1
    /\ req = [r \in Request |-> NewRequest]
    /\ wire = [r \in Request |-> "none"] /\ wrote = {} /\ fresh = {}
-----------------------------------------------------------------------------
(* The book. *)

Connected == link.phase = "connected"
\* History: requests of these kinds refer to something that has changed meanwhile.
Touch(reqs, kinds) ==
    [r \in Request |-> IF reqs[r].kind \in kinds /\ reqs[r].at # "none"
                       THEN [reqs[r] EXCEPT !.stale = TRUE] ELSE reqs[r]]

\* Book::connection: a new epoch, nothing advertised, every numeric grant rotated.
Connection(phase, reqs) ==
    /\ link.epoch < MaxEpoch
    /\ link' = [epoch |-> link.epoch + 1, phase |-> phase]
    /\ granted' = NoGrants /\ dirty' = TRUE /\ fresh' = {} /\ UNCHANGED controls
    /\ req' = Touch(reqs, Kind)
\* begin_session and clear also forget every observation; a lock's revision stays, the
\* token names the epoch.
Forgotten(rotations) ==
    /\ lock' = [lock EXCEPT !.state = "none"]
    /\ number' = [bounds |-> 0, rev |-> number.rev + (IF number.bounds = 0 THEN 0 ELSE 1) + rotations]
    /\ offered' = FALSE

\* action_entity, action_params and Input::token: what may be granted now.
LockToken == IF Connected /\ lock.state \in {"locked", "unlocked"} /\ lock.state # Target
             THEN <<link.epoch, lock.rev>> ELSE NoGrant
NumberToken == IF Connected /\ number.bounds # 0 THEN <<number.rev>> ELSE NoGrant
ToggleToken == IF Connected /\ offered THEN <<0>> ELSE NoGrant
Grants == [k \in Kind |-> CASE k = "lock" -> LockToken [] k = "number" -> NumberToken [] OTHER -> ToggleToken]

\* action_target, action_request, input_target: still advertised, as it is now.
Eligible(kind, token) ==
    /\ granted[kind] = token /\ Grants[kind] = token /\ token # NoGrant
\* Book::lock_revision of the configured action.
LockRevisionIs(rev) == Eligible("lock", granted["lock"]) /\ lock.rev = rev

\* publish: the frame and what it grants, when the output has room.
Publish ==
    /\ Alive /\ dirty /\ dirty' = FALSE
    /\ granted' = Grants /\ shown' = Grants
    /\ fresh' = {k \in Kind : Grants[k] # NoGrant}
    /\ UNCHANGED <<controls, net, link, lock, number, offered, seen, req, wire, wrote>>

\* Book::update: a live event or an initial read changes what is known.
SeeLock(state, reqs) ==
    /\ lock.rev < MaxSeen /\ state # lock.state
    /\ lock' = [state |-> state, rev |-> lock.rev + 1]
    /\ dirty' = TRUE /\ fresh' = fresh \ {"lock"}
    /\ req' = Touch(reqs, {"lock"})
    /\ UNCHANGED <<controls, number, offered, granted>>
ObserveLock(state) ==
    /\ net = "session" /\ "lock" \in controls /\ SeeLock(state, req)
    /\ UNCHANGED <<net, link, shown, seen, wire, wrote>>
\* numeric::observe: nothing that can be offered, or one of two sets of constraints.
Observation == 0 .. 2
ObserveNumber(bounds) ==
    /\ net = "session" /\ "number" \in controls /\ number.rev < MaxSeen + link.epoch /\ bounds # number.bounds
    /\ number' = [bounds |-> bounds, rev |-> number.rev + 1]
    /\ granted' = [granted EXCEPT !["number"] = NoGrant]
    /\ dirty' = TRUE /\ fresh' = fresh \ {"number"}
    /\ req' = Touch(req, {"number"})
    /\ UNCHANGED <<controls, net, link, lock, offered, shown, seen, wire, wrote>>
ObserveSwitch ==
    /\ net = "session" /\ "toggle" \in controls /\ offered' = ~offered /\ dirty' = TRUE
    /\ UNCHANGED <<controls, net, link, lock, number, granted, shown, seen, req, wire, wrote, fresh>>
-----------------------------------------------------------------------------
(* The connection (network::run). *)

\* authenticate: subscribed.
SessionConnected ==
    /\ net = "session" /\ link.phase = "connecting"
    /\ Connection("connected", req)
    /\ number' = [number EXCEPT !.rev = @ + 1]
    /\ UNCHANGED <<net, lock, offered, shown, seen, wire, wrote>>

\* The session fails, or a command was refused: the rejection is polled first.
\* Mutant: whatever ended the session, it is retried.
SessionEndsRetry(denied) ==
    /\ net = "session"
    /\ Forgotten(1)
    /\ Connection(IF denied THEN "rejected" ELSE "disconnected", req)
    /\ net' = IF denied THEN "parked" ELSE "backoff"
    /\ UNCHANGED <<shown, seen, wire, wrote>>
SessionEnds(denied) ==
    /\ net = "session"
    /\ Forgotten(1)
    /\ IF denied \/ link.phase = "rejected"
       THEN Connection("rejected", req) /\ net' = "parked"
       ELSE Connection("disconnected", req) /\ net' = "backoff"
    /\ UNCHANGED <<shown, seen, wire, wrote>>
BackoffEnds ==
    /\ net = "backoff"
    /\ IF link.phase = "rejected"
       THEN net' = "parked" /\ UNCHANGED <<link, req, bookVars>>
       ELSE net' = "session" /\ Connection("connecting", req) /\ Forgotten(1)
    /\ UNCHANGED <<shown, seen, wire, wrote>>
-----------------------------------------------------------------------------
(* The command loop (actions::run and service). *)

Answered(x, answer) ==
    [x EXCEPT !.at = "done", !.eligible = FALSE, !.answer = IF @ = "none" THEN answer ELSE "twice"]
Answer(r, answer) == req' = [req EXCEPT ![r] = Answered(@, answer)]

\* The user acts on what is shown; the request is decoded later, and waits.
Click(r, kind) ==
    /\ req[r].at = "none" /\ shown[kind] # NoGrant
    /\ req' = [req EXCEPT ![r] = [NewRequest EXCEPT !.at = "pipe", !.kind = kind, !.token = shown[kind],
                                                    !.stale = kind \notin fresh]]
    /\ UNCHANGED <<net, link, bookVars, shown, seen, wire, wrote>>
\* A toggle says nothing about the frame it was pressed in: it counts from here.
Receive(r) ==
    /\ Alive /\ req[r].at = "pipe"
    /\ req' = [req EXCEPT ![r].at = "queued", ![r].received = link.epoch,
                          ![r].stale = @ /\ req[r].kind # "toggle"]
    /\ UNCHANGED <<net, link, bookVars, shown, seen, wire, wrote>>
Expire(r) ==
    /\ Alive /\ req[r].at \in Running \cup {"queued"} /\ ~req[r].late
    /\ req' = [req EXCEPT ![r].late = TRUE]
    /\ UNCHANGED <<net, link, bookVars, shown, seen, wire, wrote>>

\* connection.changed: everything pending is given up, its outcome unknown.
SeeConnection ==
    /\ Alive /\ seen # link.epoch /\ seen' = link.epoch
    /\ req' = [r \in Request |-> IF r \in Active THEN Answered(req[r], "unknown") ELSE req[r]]
    /\ UNCHANGED <<net, link, bookVars, shown, wire, wrote>>
Ready == Alive /\ seen = link.epoch

Refusal(x) ==
    CASE x.late -> "timeout"
      [] ~x.late /\ x.received # seen -> "unavailable"    \* received before this connection
      [] ~x.late /\ x.received = seen /\ ~Eligible(x.kind, x.token) -> "unavailable"
      [] OTHER -> IF \/ x.kind = "lock" /\ \E o \in Active : req[o].kind = "lock"
                     \/ Cardinality(Active) = MaxActive
                  THEN "overloaded" ELSE "none"
\* Admission; a number is posted by the first poll of its operation.
Admit(r) ==
    /\ Ready /\ req[r].at = "queued"
    /\ LET no == Refusal(req[r])
           admitted == [req[r] EXCEPT !.epoch = link.epoch, !.rev = lock.rev, !.eligible = TRUE] IN
       IF no # "none" THEN Answer(r, no) /\ UNCHANGED wrote
       ELSE IF req[r].kind = "number"
       THEN req' = [req EXCEPT ![r] = [admitted EXCEPT !.at = "posted", !.submitted = TRUE]] /\ wrote' = wrote \cup {r}
       ELSE req' = [req EXCEPT ![r] = [admitted EXCEPT !.at = "read"]] /\ UNCHANGED wrote
    /\ UNCHANGED <<net, link, bookVars, shown, seen, wire>>

\* The end of service(): the permit is revoked, then the answer says what is known.
\* Mutant: a body the transport still owns keeps its permit.
FinishedKept(r, ok) ==
    LET answer == IF ok /\ ~req[r].late THEN "ok" ELSE IF req[r].submitted THEN "unknown" ELSE "unavailable" IN
    [req EXCEPT ![r] = [Answered(@, answer) EXCEPT !.eligible = TRUE]]
Finished(r, ok) ==
    LET answer == IF ok /\ ~req[r].late THEN "ok" ELSE IF req[r].submitted THEN "unknown" ELSE "unavailable" IN
    [req EXCEPT ![r] = Answered(@, answer)]
Finish(r, ok) == req' = Finished(r, ok) /\ UNCHANGED <<net, link, bookVars, shown, seen, wire, wrote>>
\* 401 or 403: the book turns to "Authentication rejected" with the completion.
FinishDenied(r) ==
    /\ Forgotten(1)
    /\ Connection("rejected", Finished(r, FALSE))
    /\ UNCHANGED <<net, shown, seen, wire, wrote>>

\* The fresh read before a toggle or a lock command returned a state.
ReadState(r, state) ==
    /\ Ready /\ req[r].at = "read"
    /\ IF req[r].kind = "toggle"
       THEN IF req[r].late THEN Finish(r, FALSE)
            ELSE /\ req' = [req EXCEPT ![r].at = "posted", ![r].submitted = TRUE]
                 /\ wrote' = wrote \cup {r}
                 /\ UNCHANGED <<net, link, bookVars, shown, seen, wire>>
       ELSE IF state = "jammed" \/ link.epoch # req[r].epoch \/ ~LockRevisionIs(req[r].rev)
       THEN Finish(r, FALSE)
       ELSE IF state = Target      \* it already holds: no command, and the book learns it
       THEN SeeLock(state, Finished(r, TRUE)) /\ UNCHANGED <<net, link, shown, seen, wire, wrote>>
       ELSE /\ req' = [req EXCEPT ![r].at = "posted"]
            /\ wire' = [wire EXCEPT ![r] = "held"]
            /\ UNCHANGED <<net, link, bookVars, shown, seen, wrote>>
ReadFails(r, denied) ==
    /\ Ready /\ req[r].at = "read"
    /\ IF denied THEN FinishDenied(r) ELSE Finish(r, FALSE)

\* guarded_lock_body, polled by the transport whenever it likes: the commit point.
\* Mutant: it compares the state with the one the command was for.
BodyAllowedByState(x) ==
    /\ x.eligible /\ ~x.late /\ link.epoch = x.epoch
    /\ lock.state = "unlocked"
BodyAllowed(x) ==
    /\ x.eligible /\ ~x.late /\ link.epoch = x.epoch
    /\ LockRevisionIs(x.rev)
PollBody(r) ==
    /\ Alive /\ wire[r] = "held"
    /\ IF BodyAllowed(req[r])
       THEN /\ wire' = [wire EXCEPT ![r] = "sent"] /\ wrote' = wrote \cup {r}
            /\ req' = [req EXCEPT ![r].submitted = TRUE]
       ELSE wire' = [wire EXCEPT ![r] = "aborted"] /\ UNCHANGED <<wrote, req>>
    /\ UNCHANGED <<net, link, bookVars, shown, seen>>

\* The response to the service call; an error may come before the body is taken.
Responds(r, result) ==
    /\ Ready /\ req[r].at = "posted"
    /\ result = "ok" /\ req[r].kind = "lock" => wire[r] = "sent"
    /\ CASE result = "denied" -> FinishDenied(r)
         [] result = "fail" -> Finish(r, FALSE)
         [] OTHER -> IF req[r].kind # "lock" THEN Finish(r, TRUE)
                     ELSE /\ req' = [req EXCEPT ![r].at = "confirm"]
                          /\ UNCHANGED <<net, link, bookVars, shown, seen, wire, wrote>>
\* lock_confirmed: a later observation shows the target, or something it cannot be.
Confirm(r) ==
    /\ Ready /\ req[r].at = "confirm"
    /\ LET held == lock.rev # req[r].rev /\ lock.state = Target IN
       /\ held \/ lock.state \notin {"locked", "unlocked"}
       /\ Finish(r, held)
\* completed_before_deadline.
\* Mutant: the wait for a confirmation is not under it.
TimeoutService(r) ==
    /\ Ready /\ req[r].at \in Running \ {"confirm"} /\ req[r].late
    /\ Finish(r, FALSE)
Timeout(r) ==
    /\ Ready /\ req[r].at \in Running /\ req[r].late
    /\ Finish(r, FALSE)
Cancel(r) ==
    /\ Ready /\ r \in Active
    /\ Answer(r, "unknown")
    /\ UNCHANGED <<net, link, bookVars, shown, seen, wire, wrote>>

\* session and run of main.rs: the host says Shutdown or closes the pipe, sends what is not a
\* command or more than the queue holds, or does not drain the answers. The biased select
\* drops every task; the host itself answers for what is then lost.
Exit ==
    /\ Alive /\ net' = "over"
    /\ req' = [r \in Request |-> IF req[r].at \in {"none", "done"} THEN req[r] ELSE Answered(req[r], "lost")]
    /\ wire' = [r \in Request |-> IF wire[r] = "held" THEN "aborted" ELSE wire[r]]
    /\ lock' = [state |-> "none", rev |-> 0] /\ number' = [bounds |-> 0, rev |-> 0] /\ offered' = FALSE
    /\ dirty' = FALSE /\ granted' = NoGrants /\ shown' = NoGrants /\ fresh' = {} /\ seen' = link.epoch
    /\ UNCHANGED <<controls, link, wrote>>
-----------------------------------------------------------------------------
Handle(r) ==
    \/ Admit(r) \/ Timeout(r)
    \/ \E state \in {"locked", "unlocked", "jammed"} : ReadState(r, state)
    \/ \E denied \in BOOLEAN : ReadFails(r, denied)
    \/ \E result \in {"ok", "fail", "denied"} : Responds(r, result)
    \/ Confirm(r)

Next ==
    \/ Publish \/ SessionConnected \/ BackoffEnds \/ ObserveSwitch \/ SeeConnection \/ Exit
    \/ \E denied \in BOOLEAN : SessionEnds(denied)
    \/ \E state \in {"locked", "unlocked", "jammed"} : ObserveLock(state)
    \/ \E bounds \in Observation : ObserveNumber(bounds)
    \/ \E r \in Request :
          \/ \E kind \in Kind : Click(r, kind)
          \/ Receive(r) \/ Expire(r) \/ Handle(r) \/ PollBody(r) \/ Cancel(r)

\* The runtime polls the task, and the clock reaches every deadline.
Fairness ==
    /\ WF_vars(SeeConnection)
    /\ \A r \in Request : WF_vars(Expire(r)) /\ WF_vars(Admit(r)) /\ WF_vars(Timeout(r))

Spec == Init /\ [][Next]_vars
FairSpec == Spec /\ Fairness
-----------------------------------------------------------------------------
\* A service call is released only if nothing it was granted on has changed since the user
\* saw it: no reconnection (for a toggle, since the request arrived), no other observation of
\* the lock, even one that changed back, no other bounds of the number.
WritesAreCurrent == [][\A r \in wrote' \ wrote : ~req[r].stale]_vars

\* A request is answered once, and one that was answered as not submitted stays so, also
\* when the transport still owns its body.
AnswersAreTrue ==
    \A r \in Request :
        /\ req[r].answer # "twice"
        /\ req[r].answer \in {"unavailable", "timeout", "overloaded"} => r \notin wrote

\* A rejected token is not tried again by this process, whoever noticed it and however the
\* session ended.
RejectionIsTerminal == [][link.phase = "rejected" => link'.phase = "rejected"]_vars

\* Every request taken from the host is answered in the end, or lost with the process.
RequestsAnswered == \A r \in Request : req[r].at = "queued" ~> req[r].at = "done"
=============================================================================
