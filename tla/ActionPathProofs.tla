-------------------------- MODULE ActionPathProofs --------------------------
(***************************************************************************)
(* Proofs about ActionPath for any requests, limits and restarts: a        *)
(* request reaches only the process it was admitted for, nothing follows a *)
(* torn frame, and the first byte is sent under the authority and the      *)
(* lease that admitted the request.                                        *)
(***************************************************************************)
EXTENDS ActionPath, FiniteSetTheorems, SequenceTheorems, TLAPS

\* A request in a queue or in the writer's hands has been admitted.
AdmittedInv ==
    /\ \A i \in 1 .. Len(cmds) : call[cmds[i].r] # "none"
    /\ \A i \in 1 .. Len(out) : out[i] # Control => call[out[i]] # "none"
    /\ hand # Control => call[hand] # "none"
    /\ \A r \in Request : begun[r] # 0 => call[r] # "none"

\* The pipes belong to one generation: they end before the next one begins, and
\* what is in them was admitted in it.
PipeInv ==
    /\ sup \in {"backoff", "final", "dropped", "over"} => out = <<>> /\ wr = "none" /\ ~torn
    /\ sup = "backoff" => gen <= MaxRestarts
    /\ \A i \in 1 .. Len(out) : out[i] # Control => reqGen[out[i]] = gen
    /\ wr \in {"poll", "check"} => reqGen[hand] = gen

\* Between the writer's checks and the first byte nobody revokes.
LockedInv == wr = "check" => authorized /\ ~LeaseRevoked(hand)

IInv ==
    /\ TypeOK /\ AdmittedInv /\ PipeInv /\ LockedInv /\ IsolatedGenerations
    /\ TornPipeIsSilent
-----------------------------------------------------------------------------
(* TypeOK in three parts: what is small, what is queued and what is kept    *)
(* for each request.                                                        *)
SmallTypes ==
    /\ {authorized, stop, open, torn} \subseteq BOOLEAN
    /\ sup \in {"start", "run", "revoke", "update", "reap", "backoff", "final", "dropped", "over"}
    /\ gen \in 1 .. MaxRestarts + 1
    /\ outcome \in {"none", "stopped", "exited", "failed"}
    /\ offer \in {NoAction, Static} \cup Lease /\ numeric \in Lease \cup {NoLease}
    /\ leases \in 0 .. MaxLeases
    /\ wr \in {"none", "idle", "poll", "check", "partial", "gone", "failed"}

QueueTypes ==
    /\ cmds \in Seq([k : {"action", "cancel"}, r : Request]) /\ Len(cmds) <= ControlCap
    /\ out \in Seq(Request \cup {Control}) /\ Len(out) <= PipeCap
    /\ rejected \in Seq(Request) /\ Len(rejected) <= MaxInFlight
    /\ hand \in Request \cup {Control} /\ (wr \in {"poll", "check"} => hand \in Request)

TableTypes ==
    /\ pending \subseteq Request /\ Cardinality(pending) <= MaxInFlight
    /\ got \subseteq Request
    /\ call \in [Request -> {"none", "waiting", "returned"}]
    /\ ans \in [Request -> {"none", "ok", "error", "dropped"}]
    /\ want \in [Request -> {NoAction, Static} \cup Lease]
    /\ reqGen \in [Request -> Nat] /\ begun \in [Request -> Nat]
    /\ due \in [Request -> 0 .. 2] /\ cancel \in [Request -> BOOLEAN]
    /\ reply \in [Request -> {"none", "ok", "error"}]

\* The three parts are TypeOK.
LEMMA TypeParts == TypeOK <=> SmallTypes /\ QueueTypes /\ TableTypes
BY DEF TypeOK, SmallTypes, QueueTypes, TableTypes

\* Every step keeps the small state in its range: a restart is bounded by MAX_RESTARTS.
LEMMA SmallStep ==
    ASSUME SmallTypes, PipeInv, [Next]_vars
    PROVE  SmallTypes'
<1> USE ActionAssumption DEF entryVars, supVars, offerVars, pipeVars, askVars, callVars, SmallTypes, PipeInv, Lease, NoLease
<1>1. ASSUME NEW r \in Request, Admit(r) PROVE SmallTypes'
  BY <1>1 DEF Admit
<1>2. ASSUME NEW r \in Request, Return(r) PROVE SmallTypes'
  BY <1>2 DEF Return, Done, CancelOnDrop
<1>3. ASSUME NEW r \in Request, Abandon(r) PROVE SmallTypes'
  BY <1>3 DEF Abandon, Done, CancelOnDrop
<1>4. ASSUME NEW r \in Request, Pass(r) PROVE SmallTypes'
  BY <1>4 DEF Pass
<1>5. CASE WorkerFails
  BY <1>5 DEF WorkerFails, Leave, Looping, FailPending
<1>6. CASE Ready
  BY <1>6 DEF Ready
<1>7. CASE Contribute
  BY <1>7 DEF Contribute
<1>8. ASSUME NEW r \in Request, NEW a \in {"ok", "error"}, WorkerAnswers(r, a) PROVE SmallTypes'
  BY <1>8 DEF WorkerAnswers
<1>9. CASE Tick
  BY <1>9 DEF Tick, Looping, WriterOpen
<1>10. CASE Rejection
  BY <1>10 DEF Rejection, Looping
<1>11. CASE HandleControl
  BY <1>11 DEF HandleControl, Looping, Submit, Cancel, WriterOpen, SendControl
<1>12. CASE StopSeen
  BY <1>12 DEF StopSeen, Leave, Looping, FailPending
<1>13. CASE WriterErrorSeen
  BY <1>13 DEF WriterErrorSeen, Leave, Looping, FailPending
<1>14. CASE RevokeGeneration
  BY <1>14 DEF RevokeGeneration
<1>15. CASE BeginTerminate
  BY <1>15 DEF BeginTerminate, SendControl, WriterOpen
<1>16. CASE Reap
  BY <1>16 DEF Reap, AfterReap
<1>17. CASE RejectControl
  BY <1>17 DEF RejectControl
<1>18. CASE BackoffEnds
  BY <1>18 DEF BackoffEnds
<1>19. CASE SuperviseReturns
  BY <1>19 DEF SuperviseReturns
<1>20. CASE TakeFrame
  BY <1>20 DEF TakeFrame, Writer, WriterKeeps
<1>21. CASE WriterStops
  BY <1>21 DEF WriterStops, Writer, WriterKeeps
<1>22. CASE FirstByteFails
  BY <1>22 DEF FirstByteFails, Writer, WriterKeeps
<1>23. CASE FirstByteExpires
  BY <1>23 DEF FirstByteExpires, Writer, WriterKeeps
<1>24. CASE FirstByteRejected
  BY <1>24 DEF FirstByteRejected, Writer, WriterKeeps
<1>25. CASE CheckFirstByte
  BY <1>25 DEF CheckFirstByte, Writer, WriterKeeps
<1>26. CASE FirstByte
  BY <1>26 DEF FirstByte, Writer, WriterKeeps
<1>27. CASE WriteBlocked
  BY <1>27 DEF WriteBlocked, Writer, WriterKeeps
<1>28. CASE FrameComplete
  BY <1>28 DEF FrameComplete, Writer, WriterKeeps
<1>29. CASE FrameTorn
  BY <1>29 DEF FrameTorn, Writer, WriterKeeps, AbandonFrame
<1>30. CASE Revoke
  BY <1>30 DEF Revoke
<1>31. CASE StopEntry
  BY <1>31 DEF StopEntry
<1>32. CASE UNCHANGED vars
  BY <1>32 DEF vars
<1> QED
  BY ONLY <1>1, <1>2, <1>3, <1>4, <1>5, <1>6, <1>7, <1>8, <1>9, <1>10, <1>11, <1>12, <1>13, <1>14,
          <1>15, <1>16, <1>17, <1>18, <1>19, <1>20, <1>21, <1>22, <1>23, <1>24, <1>25, <1>26, <1>27,
          <1>28, <1>29, <1>30, <1>31, <1>32, [Next]_vars
     DEF Next, Callers, Worker, Supervisor, WriterTask

\* try_send into a queue with room keeps it within its capacity.
LEMMA Room ==
    ASSUME NEW S, NEW s \in Seq(S), NEW e \in S, NEW n \in Nat, Len(s) < n
    PROVE  Append(s, e) \in Seq(S) /\ Len(Append(s, e)) <= n
BY AppendProperties, LenProperties

\* What handle_control takes is a control.
LEMMA HeadOfCmds ==
    ASSUME QueueTypes, cmds # <<>>
    PROVE  Head(cmds) \in [k : {"action", "cancel"}, r : Request] /\ Head(cmds).r \in Request
<1>1. Head(cmds) \in [k : {"action", "cancel"}, r : Request]
  BY HeadTailProperties DEF QueueTypes
<1> QED
  BY <1>1

\* A control appended to a queue with room.
LEMMA Appended ==
    ASSUME QueueTypes, NEW c \in {"action", "cancel"}, NEW r \in Request, Len(cmds) < ControlCap
    PROVE  /\ Append(cmds, [k |-> c, r |-> r]) \in Seq([k : {"action", "cancel"}, r : Request])
           /\ Len(Append(cmds, [k |-> c, r |-> r])) <= ControlCap
<1>1. [k |-> c, r |-> r] \in [k : {"action", "cancel"}, r : Request]
  OBVIOUS
<1> QED
  BY <1>1, AppendProperties, ActionAssumption DEF QueueTypes

\* Cancel frames appended as far as there is room.
LEMMA Padded ==
    ASSUME QueueTypes, NEW n \in Nat
    PROVE  LET s == out \o [i \in 1 .. n |-> Control] IN
             /\ s \in Seq(Request \cup {Control}) /\ Len(s) = Len(out) + n
             /\ \A i \in 1 .. Len(s) : s[i] = IF i <= Len(out) THEN out[i] ELSE Control
<1> DEFINE p == [i \in 1 .. n |-> Control]
<1>1. p \in [1 .. n -> Request \cup {Control}]
  OBVIOUS
<1>2. p \in Seq(Request \cup {Control})
  BY <1>1, SeqDef
<1>3. Len(p) = n
  BY <1>1, <1>2, LenProperties
<1>4. \A i \in 1 .. n : p[i] = Control
  OBVIOUS
<1>5. out \in Seq(Request \cup {Control}) /\ Len(out) \in Nat
  BY LenProperties DEF QueueTypes
<1> HIDE DEF p
<1>6. /\ out \o p \in Seq(Request \cup {Control}) /\ Len(out \o p) = Len(out) + Len(p)
      /\ \A i \in 1 .. Len(out) + Len(p) :
            (out \o p)[i] = IF i <= Len(out) THEN out[i] ELSE p[i - Len(out)]
  BY <1>2, <1>5, ConcatProperties
<1>7. \A i \in 1 .. Len(out) + n : i > Len(out) => p[i - Len(out)] = Control
  BY <1>4, <1>5
<1>8. \A i \in 1 .. Len(out \o p) : (out \o p)[i] = IF i <= Len(out) THEN out[i] ELSE Control
  BY <1>3, <1>5, <1>6, <1>7
<1> QED
  BY <1>3, <1>6, <1>8 DEF p

\* Every step keeps the queues within their capacities.
LEMMA QueueStep ==
    ASSUME SmallTypes, QueueTypes, TableTypes, [Next]_vars
    PROVE  QueueTypes'
<1> USE ActionAssumption DEF entryVars, supVars, offerVars, pipeVars, askVars, callVars, QueueTypes
<1>1. ASSUME NEW r \in Request, Admit(r) PROVE QueueTypes'
  BY <1>1 DEF Admit
<1>2. ASSUME NEW r \in Request, Return(r) PROVE QueueTypes'
  <2>1. cmds' = cmds \/ (Len(cmds) < ControlCap /\ cmds' = Append(cmds, [k |-> "cancel", r |-> r]))
    BY <1>2 DEF Return, Done, CancelOnDrop
  <2>2. UNCHANGED <<out, rejected, hand, wr>>
    BY <1>2 DEF Return, Done, CancelOnDrop
  <2> QED
    BY ONLY <2>1, <2>2, Appended, QueueTypes, r \in Request DEF QueueTypes
<1>3. ASSUME NEW r \in Request, Abandon(r) PROVE QueueTypes'
  <2>1. cmds' = cmds \/ (Len(cmds) < ControlCap /\ cmds' = Append(cmds, [k |-> "cancel", r |-> r]))
    BY <1>3 DEF Abandon, Done, CancelOnDrop
  <2>2. UNCHANGED <<out, rejected, hand, wr>>
    BY <1>3 DEF Abandon, Done, CancelOnDrop
  <2> QED
    BY ONLY <2>1, <2>2, Appended, QueueTypes, r \in Request DEF QueueTypes
<1>4. ASSUME NEW r \in Request, Pass(r) PROVE QueueTypes'
  BY <1>4 DEF Pass
<1>5. CASE WorkerFails
  BY <1>5 DEF WorkerFails, Leave, Looping, FailPending
<1>6. CASE Ready
  BY <1>6 DEF Ready
<1>7. CASE Contribute
  BY <1>7 DEF Contribute
<1>8. ASSUME NEW r \in Request, NEW a \in {"ok", "error"}, WorkerAnswers(r, a) PROVE QueueTypes'
  BY <1>8 DEF WorkerAnswers
<1>9. CASE Tick
  <2>1. PICK n \in 0 .. PipeCap :
            /\ n = 0 \/ (Len(out) < PipeCap /\ n <= PipeCap - Len(out))
            /\ out' = out \o [i \in 1 .. n |-> Control]
    <3>1. PICK rs \in SUBSET pending, n \in 0 .. PipeCap :
            /\ n = IF ~WriterOpen THEN 0
                   ELSE IF Cardinality(rs) <= PipeCap - Len(out) THEN Cardinality(rs)
                   ELSE PipeCap - Len(out)
            /\ out' = out \o [i \in 1 .. n |-> Control]
      BY <1>9 DEF Tick
    <3>2. Len(out) \in Nat
      BY LenProperties
    <3>3. n = 0 \/ (Len(out) < PipeCap /\ n <= PipeCap - Len(out))
      BY <3>1, <3>2 DEF WriterOpen
    <3> QED
      BY <3>1, <3>3
  <2>2. UNCHANGED <<cmds, rejected, hand, wr>>
    BY <1>9 DEF Tick
  <2>3. out' \in Seq(Request \cup {Control}) /\ Len(out') = Len(out) + n
    BY <2>1, Padded
  <2>4. Len(out') <= PipeCap
    BY <2>1, <2>3, LenProperties
  <2> QED
    BY <2>2, <2>3, <2>4
<1>10. CASE Rejection
  BY <1>10 DEF Rejection, Looping
<1>11. CASE HandleControl
  <2>1. UNCHANGED <<rejected, hand, wr>> /\ cmds # <<>> /\ cmds' = Tail(cmds)
    BY <1>11 DEF HandleControl
  <2>2. Head(cmds).r \in Request
    BY <2>1, HeadOfCmds
  <2>3. cmds' \in Seq([k : {"action", "cancel"}, r : Request]) /\ Len(cmds') <= ControlCap
    BY <2>1, HeadTailProperties, LenProperties
  <2>4. out' = out \/ (Len(out) < PipeCap /\ \E f \in Request \cup {Control} : out' = Append(out, f))
    BY <1>11, <2>2 DEF HandleControl, Submit, Cancel, HasCapacity, WriterOpen, SendControl
  <2>5. out' \in Seq(Request \cup {Control}) /\ Len(out') <= PipeCap
    <3>1. PipeCap \in Nat /\ out \in Seq(Request \cup {Control}) /\ Len(out) <= PipeCap
      OBVIOUS
    <3> QED
      BY ONLY <2>4, <3>1, Room
  <2> QED
    BY <2>1, <2>3, <2>5
<1>12. CASE StopSeen
  BY <1>12 DEF StopSeen, Leave, Looping, FailPending
<1>13. CASE WriterErrorSeen
  BY <1>13 DEF WriterErrorSeen, Leave, Looping, FailPending
<1>14. CASE RevokeGeneration
  BY <1>14 DEF RevokeGeneration
<1>15. CASE BeginTerminate
  BY <1>15 DEF BeginTerminate, SendControl, WriterOpen
<1>16. CASE Reap
  BY <1>16 DEF Reap, AfterReap
<1>17. CASE RejectControl
  BY <1>17 DEF RejectControl
<1>18. CASE BackoffEnds
  <2>1. UNCHANGED <<cmds, rejected, hand>> /\ (wr' = wr \/ wr' = "idle")
    BY <1>18 DEF BackoffEnds
  <2>2. out' = out \/ out' = <<Control>>
    BY <1>18 DEF BackoffEnds
  <2>3. <<Control>> \in Seq(Request \cup {Control}) /\ Len(<<Control>>) = 1
    OBVIOUS
  <2>4. out' \in Seq(Request \cup {Control}) /\ Len(out') <= PipeCap
    <3>1. PipeCap \in Nat \ {0} /\ out \in Seq(Request \cup {Control}) /\ Len(out) <= PipeCap
      OBVIOUS
    <3>2. 1 <= PipeCap
      BY ONLY <3>1
    <3> QED
      BY ONLY <2>2, <2>3, <3>1, <3>2, Zenon
  <2> QED
    BY <2>1, <2>4
<1>19. CASE SuperviseReturns
  BY <1>19 DEF SuperviseReturns
<1>20. CASE TakeFrame
  BY <1>20 DEF TakeFrame, Writer, WriterKeeps
<1>21. CASE WriterStops
  BY <1>21 DEF WriterStops, Writer, WriterKeeps
<1>22. CASE FirstByteFails
  BY <1>22 DEF FirstByteFails, Writer, WriterKeeps
<1>23. CASE FirstByteExpires
  BY <1>23 DEF FirstByteExpires, Writer, WriterKeeps
<1>24. CASE FirstByteRejected
  <2>1. UNCHANGED <<cmds, out>> /\ hand \in Request /\ hand' = Control /\ wr' \in {"idle", "failed"}
    BY <1>24 DEF FirstByteRejected, Writer, WriterKeeps
  <2>2. rejected' = rejected \/ (Len(rejected) < MaxInFlight /\ rejected' = Append(rejected, hand))
    BY <1>24 DEF FirstByteRejected, Writer, WriterKeeps
  <2>3. rejected' \in Seq(Request) /\ Len(rejected') <= MaxInFlight
    <3>1. MaxInFlight \in Nat /\ rejected \in Seq(Request) /\ Len(rejected) <= MaxInFlight
      OBVIOUS
    <3> QED
      BY ONLY <2>1, <2>2, <3>1, Room
  <2> QED
    BY <2>1, <2>3
<1>25. CASE CheckFirstByte
  BY <1>25 DEF CheckFirstByte, Writer, WriterKeeps
<1>26. CASE FirstByte
  BY <1>26 DEF FirstByte, Writer, WriterKeeps
<1>27. CASE WriteBlocked
  BY <1>27 DEF WriteBlocked, Writer, WriterKeeps
<1>28. CASE FrameComplete
  BY <1>28 DEF FrameComplete, Writer, WriterKeeps
<1>29. CASE FrameTorn
  BY <1>29 DEF FrameTorn, Writer, WriterKeeps, AbandonFrame
<1>30. CASE Revoke
  BY <1>30 DEF Revoke
<1>31. CASE StopEntry
  BY <1>31 DEF StopEntry
<1>32. CASE UNCHANGED vars
  BY <1>32 DEF vars
<1> QED
  BY ONLY <1>1, <1>2, <1>3, <1>4, <1>5, <1>6, <1>7, <1>8, <1>9, <1>10, <1>11, <1>12, <1>13, <1>14,
          <1>15, <1>16, <1>17, <1>18, <1>19, <1>20, <1>21, <1>22, <1>23, <1>24, <1>25, <1>26, <1>27,
          <1>28, <1>29, <1>30, <1>31, <1>32, [Next]_vars
     DEF Next, Callers, Worker, Supervisor, WriterTask

\* Answering leaves well-typed replies.
LEMMA ReplyTypes ==
    ASSUME TableTypes, NEW rs, NEW what \in {"ok", "error"}, Answered(rs, what)
    PROVE  reply' \in [Request -> {"none", "ok", "error"}]
BY DEF TableTypes, Answered

\* What is left of the table has room in it.
LEMMA Shrinks ==
    ASSUME TableTypes, NEW S \in SUBSET pending
    PROVE  S \subseteq Request /\ Cardinality(S) <= MaxInFlight
<1>1. IsFiniteSet(pending)
  BY ActionAssumption, FS_Subset DEF TableTypes
<1>2. IsFiniteSet(S) /\ Cardinality(S) <= Cardinality(pending)
  BY <1>1, FS_Subset
<1>3. Cardinality(S) \in Nat /\ Cardinality(pending) \in Nat
  BY <1>1, <1>2, FS_CardinalityType
<1> QED
  BY <1>2, <1>3, ActionAssumption DEF TableTypes

\* A request is added to the table when there is room for it.
LEMMA Grows ==
    ASSUME TableTypes, NEW r \in Request, Cardinality(pending) < MaxInFlight
    PROVE  Cardinality(pending \cup {r}) <= MaxInFlight
<1>1. IsFiniteSet(pending)
  BY ActionAssumption, FS_Subset DEF TableTypes
<1>2. Cardinality(pending) \in Nat
  BY <1>1, FS_CardinalityType
<1>3. Cardinality(pending \cup {r}) = IF r \in pending THEN Cardinality(pending) ELSE Cardinality(pending) + 1
  BY <1>1, FS_AddElement, Zenon
<1>4. Cardinality(pending \cup {r}) \in Nat
  BY <1>1, FS_AddElement, FS_CardinalityType
<1> QED
  BY <1>2, <1>3, <1>4, ActionAssumption

\* Every step keeps the table of requests in flight within MAX_IN_FLIGHT.
LEMMA TableStep ==
    ASSUME SmallTypes, QueueTypes, TableTypes, [Next]_vars
    PROVE  TableTypes'
<1> USE ActionAssumption DEF entryVars, supVars, offerVars, pipeVars, askVars, callVars, TableTypes
<1>1. ASSUME NEW r \in Request, Admit(r) PROVE TableTypes'
  <2>1. UNCHANGED <<pending, got, ans, begun, due, cancel, reply>>
    BY <1>1 DEF Admit
  <2>2. call' \in [Request -> {"none", "waiting", "returned"}]
    BY <1>1 DEF Admit
  <2>3. want' \in [Request -> {NoAction, Static} \cup Lease]
    BY <1>1 DEF Admit, SmallTypes
  <2>4. reqGen' \in [Request -> Nat]
    <3>1. gen \in Nat
      BY DEF SmallTypes
    <3> QED
      BY <1>1, <3>1 DEF Admit
  <2> QED
    BY <2>1, <2>2, <2>3, <2>4
<1>2. ASSUME NEW r \in Request, Return(r) PROVE TableTypes'
  BY <1>2 DEF Return, Done, CancelOnDrop
<1>3. ASSUME NEW r \in Request, Abandon(r) PROVE TableTypes'
  BY <1>3 DEF Abandon, Done, CancelOnDrop
<1>4. ASSUME NEW r \in Request, Pass(r) PROVE TableTypes'
  BY <1>4 DEF Pass
<1>5. CASE WorkerFails
  <2>1. pending' = {} /\ UNCHANGED <<got, call, ans, want, reqGen, begun, due, cancel>>
    BY <1>5 DEF WorkerFails, Leave, Looping, FailPending, Answered
  <2>2. reply' \in [Request -> {"none", "ok", "error"}]
    BY <1>5, ReplyTypes DEF WorkerFails, Leave, FailPending
  <2>3. pending' \subseteq Request /\ Cardinality(pending') <= MaxInFlight
    BY <2>1, Shrinks
  <2> QED
    BY <2>1, <2>2, <2>3
<1>6. CASE Ready
  BY <1>6 DEF Ready
<1>7. CASE Contribute
  BY <1>7 DEF Contribute
<1>8. ASSUME NEW r \in Request, NEW a \in {"ok", "error"}, WorkerAnswers(r, a) PROVE TableTypes'
  <2>1. pending' = pending \ {r} /\ UNCHANGED <<got, call, ans, want, reqGen, begun, due, cancel>>
    BY <1>8 DEF WorkerAnswers
  <2>2. reply' \in [Request -> {"none", "ok", "error"}]
    BY <1>8, ReplyTypes DEF WorkerAnswers
  <2>3. pending' \subseteq Request /\ Cardinality(pending') <= MaxInFlight
    BY <2>1, Shrinks
  <2> QED
    BY <2>1, <2>2, <2>3
<1>9. CASE Tick
  <2>1. UNCHANGED <<got, call, ans, want, reqGen, begun, due, cancel>>
    BY <1>9 DEF Tick
  <2>2. PICK rs : pending' = pending \ rs /\ Answered(rs, "error")
    BY <1>9 DEF Tick
  <2>3. reply' \in [Request -> {"none", "ok", "error"}]
    BY <2>2, ReplyTypes
  <2>4. pending' \subseteq Request /\ Cardinality(pending') <= MaxInFlight
    BY <2>2, Shrinks
  <2> QED
    BY <2>1, <2>3, <2>4
<1>10. CASE Rejection
  <2>1. UNCHANGED <<got, call, ans, want, reqGen, begun, due, cancel>>
    BY <1>10 DEF Rejection
  <2>2. pending' = pending \ {Head(rejected)} /\ Answered({Head(rejected)} \cap pending, "error")
    BY <1>10 DEF Rejection
  <2>3. reply' \in [Request -> {"none", "ok", "error"}]
    BY <2>2, ReplyTypes
  <2>4. pending' \subseteq Request /\ Cardinality(pending') <= MaxInFlight
    BY <2>2, Shrinks
  <2> QED
    BY <2>1, <2>3, <2>4
<1>11. CASE HandleControl
  <2> DEFINE r == Head(cmds).r
  <2>1. UNCHANGED <<got, call, ans, want, reqGen, begun, due, cancel>> /\ cmds # <<>>
    BY <1>11 DEF HandleControl
  <2>2. r \in Request
    BY <2>1, HeadOfCmds
  <2>3. UNCHANGED reply \/ Answered({r}, "error")
    BY <1>11 DEF HandleControl, Submit, Cancel
  <2>4. reply' \in [Request -> {"none", "ok", "error"}]
    BY <2>3, ReplyTypes
  <2>5. \/ pending' = pending \/ pending' = pending \ {r}
        \/ pending' = pending \cup {r} /\ Cardinality(pending) < MaxInFlight
    BY <1>11 DEF HandleControl, Submit, Cancel, HasCapacity
  <2>6. pending' \subseteq Request /\ Cardinality(pending') <= MaxInFlight
    BY <2>2, <2>5, Shrinks, Grows
  <2> QED
    BY <2>1, <2>4, <2>6
<1>12. CASE StopSeen
  <2>1. pending' = {} /\ UNCHANGED <<got, call, ans, want, reqGen, begun, due, cancel>>
    BY <1>12 DEF StopSeen, Leave, Looping, FailPending, Answered
  <2>2. reply' \in [Request -> {"none", "ok", "error"}]
    BY <1>12, ReplyTypes DEF StopSeen, Leave, FailPending
  <2>3. pending' \subseteq Request /\ Cardinality(pending') <= MaxInFlight
    BY <2>1, Shrinks
  <2> QED
    BY <2>1, <2>2, <2>3
<1>13. CASE WriterErrorSeen
  <2>1. pending' = {} /\ UNCHANGED <<got, call, ans, want, reqGen, begun, due, cancel>>
    BY <1>13 DEF WriterErrorSeen, Leave, Looping, FailPending, Answered
  <2>2. reply' \in [Request -> {"none", "ok", "error"}]
    BY <1>13, ReplyTypes DEF WriterErrorSeen, Leave, FailPending
  <2>3. pending' \subseteq Request /\ Cardinality(pending') <= MaxInFlight
    BY <2>1, Shrinks
  <2> QED
    BY <2>1, <2>2, <2>3
<1>14. CASE RevokeGeneration
  BY <1>14 DEF RevokeGeneration
<1>15. CASE BeginTerminate
  BY <1>15 DEF BeginTerminate
<1>16. CASE Reap
  BY <1>16 DEF Reap, AfterReap
<1>17. CASE RejectControl
  BY <1>17 DEF RejectControl, Answered
<1>18. CASE BackoffEnds
  BY <1>18 DEF BackoffEnds
<1>19. CASE SuperviseReturns
  BY <1>19 DEF SuperviseReturns, Answered
<1>20. CASE TakeFrame
  BY <1>20 DEF TakeFrame, Writer, WriterKeeps
<1>21. CASE WriterStops
  BY <1>21 DEF WriterStops, Writer, WriterKeeps
<1>22. CASE FirstByteFails
  BY <1>22 DEF FirstByteFails, Writer, WriterKeeps
<1>23. CASE FirstByteExpires
  BY <1>23 DEF FirstByteExpires, Writer, WriterKeeps
<1>24. CASE FirstByteRejected
  BY <1>24 DEF FirstByteRejected, Writer, WriterKeeps
<1>25. CASE CheckFirstByte
  BY <1>25 DEF CheckFirstByte, Writer, WriterKeeps
<1>26. CASE FirstByte
  <2>1. UNCHANGED <<pending, got, call, ans, want, reqGen, due, cancel, reply>>
    BY <1>26 DEF FirstByte, WriterKeeps
  <2>2. begun' \in [Request -> Nat]
    <3>1. gen \in Nat
      BY DEF SmallTypes
    <3> QED
      BY <1>26, <3>1 DEF FirstByte
  <2> QED
    BY <2>1, <2>2
<1>27. CASE WriteBlocked
  BY <1>27 DEF WriteBlocked, Writer, WriterKeeps
<1>28. CASE FrameComplete
  <2>1. UNCHANGED <<pending, call, ans, want, reqGen, begun, due, cancel, reply>>
    BY <1>28 DEF FrameComplete, WriterKeeps
  <2>2. got' \subseteq Request
    BY <1>28 DEF FrameComplete, QueueTypes
  <2> QED
    BY <2>1, <2>2
<1>29. CASE FrameTorn
  BY <1>29 DEF FrameTorn, Writer, WriterKeeps, AbandonFrame
<1>30. CASE Revoke
  BY <1>30 DEF Revoke
<1>31. CASE StopEntry
  BY <1>31 DEF StopEntry
<1>32. CASE UNCHANGED vars
  BY <1>32 DEF vars
<1> QED
  BY ONLY <1>1, <1>2, <1>3, <1>4, <1>5, <1>6, <1>7, <1>8, <1>9, <1>10, <1>11, <1>12, <1>13, <1>14,
          <1>15, <1>16, <1>17, <1>18, <1>19, <1>20, <1>21, <1>22, <1>23, <1>24, <1>25, <1>26, <1>27,
          <1>28, <1>29, <1>30, <1>31, <1>32, [Next]_vars
     DEF Next, Callers, Worker, Supervisor, WriterTask
(* Every step keeps the types: no queue outgrows its limit. *)
LEMMA TypeStep ==
    ASSUME TypeOK, PipeInv, [Next]_vars
    PROVE  TypeOK'
<1>1. SmallTypes /\ QueueTypes /\ TableTypes
  BY TypeParts
<1>2. SmallTypes' /\ QueueTypes' /\ TableTypes'
  BY <1>1, SmallStep, QueueStep, TableStep
<1> QED
  BY <1>2 DEF TypeOK, SmallTypes, QueueTypes, TableTypes
-----------------------------------------------------------------------------
(* What becomes of a request, and of what is queued.                        *)

\* An admitted request stays admitted, for what it was admitted for.
AdmittedStay ==
    \A q \in Request :
        call[q] # "none" => call'[q] # "none" /\ reqGen'[q] = reqGen[q] /\ want'[q] = want[q]

\* No step withdraws an admission or rewrites what it was for.
LEMMA AdmittedStep ==
    ASSUME TableTypes, [Next]_vars
    PROVE  AdmittedStay
<1> USE DEF AdmittedStay, TableTypes, entryVars, supVars, offerVars, pipeVars, askVars, callVars
<1>1. ASSUME NEW r \in Request, Admit(r) PROVE AdmittedStay
  BY <1>1 DEF Admit
<1>2. ASSUME NEW r \in Request, Return(r) PROVE AdmittedStay
  BY <1>2 DEF Return, Done, CancelOnDrop
<1>3. ASSUME NEW r \in Request, Abandon(r) PROVE AdmittedStay
  BY <1>3 DEF Abandon, Done, CancelOnDrop
<1>4. ASSUME NEW r \in Request, Pass(r) PROVE AdmittedStay
  BY <1>4 DEF Pass
<1>5. CASE WorkerFails
  BY <1>5 DEF WorkerFails, Leave
<1>6. CASE Ready
  BY <1>6 DEF Ready
<1>7. CASE Contribute
  BY <1>7 DEF Contribute
<1>8. ASSUME NEW r \in Request, NEW a \in {"ok", "error"}, WorkerAnswers(r, a) PROVE AdmittedStay
  BY <1>8 DEF WorkerAnswers
<1>9. CASE Tick
  BY <1>9 DEF Tick
<1>10. CASE Rejection
  BY <1>10 DEF Rejection
<1>11. CASE HandleControl
  BY <1>11 DEF HandleControl, Submit, Cancel, SendControl
<1>12. CASE StopSeen
  BY <1>12 DEF StopSeen, Leave
<1>13. CASE WriterErrorSeen
  BY <1>13 DEF WriterErrorSeen, Leave
<1>14. CASE RevokeGeneration
  BY <1>14 DEF RevokeGeneration
<1>15. CASE BeginTerminate
  BY <1>15 DEF BeginTerminate, SendControl
<1>16. CASE Reap
  BY <1>16 DEF Reap
<1>17. CASE RejectControl
  BY <1>17 DEF RejectControl
<1>18. CASE BackoffEnds
  BY <1>18 DEF BackoffEnds
<1>19. CASE SuperviseReturns
  BY <1>19 DEF SuperviseReturns
<1>20. CASE TakeFrame
  BY <1>20 DEF TakeFrame, Writer, WriterKeeps
<1>21. CASE WriterStops
  BY <1>21 DEF WriterStops, Writer, WriterKeeps
<1>22. CASE FirstByteFails
  BY <1>22 DEF FirstByteFails, Writer, WriterKeeps
<1>23. CASE FirstByteExpires
  BY <1>23 DEF FirstByteExpires, Writer, WriterKeeps
<1>24. CASE FirstByteRejected
  BY <1>24 DEF FirstByteRejected, Writer, WriterKeeps
<1>25. CASE CheckFirstByte
  BY <1>25 DEF CheckFirstByte, Writer, WriterKeeps
<1>26. CASE FirstByte
  BY <1>26 DEF FirstByte, Writer, WriterKeeps
<1>27. CASE WriteBlocked
  BY <1>27 DEF WriteBlocked, Writer, WriterKeeps
<1>28. CASE FrameComplete
  BY <1>28 DEF FrameComplete, Writer, WriterKeeps
<1>29. CASE FrameTorn
  BY <1>29 DEF FrameTorn, Writer, WriterKeeps, AbandonFrame
<1>30. CASE Revoke
  BY <1>30 DEF Revoke
<1>31. CASE StopEntry
  BY <1>31 DEF StopEntry
<1>32. CASE UNCHANGED vars
  BY <1>32 DEF vars
<1> QED
  BY ONLY <1>1, <1>2, <1>3, <1>4, <1>5, <1>6, <1>7, <1>8, <1>9, <1>10, <1>11, <1>12, <1>13, <1>14,
          <1>15, <1>16, <1>17, <1>18, <1>19, <1>20, <1>21, <1>22, <1>23, <1>24, <1>25, <1>26, <1>27,
          <1>28, <1>29, <1>30, <1>31, <1>32, [Next]_vars
     DEF Next, Callers, Worker, Supervisor, WriterTask

\* How the control queue moves: it gains only controls of admitted requests.
CmdsMove ==
    \/ cmds' = cmds \/ cmds' = <<>> \/ (cmds # <<>> /\ cmds' = Tail(cmds))
    \/ \E q \in Request, c \in {"action", "cancel"} :
          call'[q] # "none" /\ cmds' = Append(cmds, [k |-> c, r |-> q])

\* Every step moves the control queue that way.
LEMMA CmdsStep ==
    ASSUME TableTypes, [Next]_vars
    PROVE  CmdsMove
<1> USE DEF CmdsMove, TableTypes, entryVars, supVars, offerVars, pipeVars, askVars, callVars
<1>1. ASSUME NEW r \in Request, Admit(r) PROVE CmdsMove
  BY <1>1 DEF Admit
<1>2. ASSUME NEW r \in Request, Return(r) PROVE CmdsMove
  BY <1>2 DEF Return, Done, CancelOnDrop
<1>3. ASSUME NEW r \in Request, Abandon(r) PROVE CmdsMove
  BY <1>3 DEF Abandon, Done, CancelOnDrop
<1>4. ASSUME NEW r \in Request, Pass(r) PROVE CmdsMove
  BY <1>4 DEF Pass
<1>5. CASE WorkerFails
  BY <1>5 DEF WorkerFails, Leave
<1>6. CASE Ready
  BY <1>6 DEF Ready
<1>7. CASE Contribute
  BY <1>7 DEF Contribute
<1>8. ASSUME NEW r \in Request, NEW a \in {"ok", "error"}, WorkerAnswers(r, a) PROVE CmdsMove
  BY <1>8 DEF WorkerAnswers
<1>9. CASE Tick
  BY <1>9 DEF Tick
<1>10. CASE Rejection
  BY <1>10 DEF Rejection
<1>11. CASE HandleControl
  BY <1>11 DEF HandleControl
<1>12. CASE StopSeen
  BY <1>12 DEF StopSeen, Leave
<1>13. CASE WriterErrorSeen
  BY <1>13 DEF WriterErrorSeen, Leave
<1>14. CASE RevokeGeneration
  BY <1>14 DEF RevokeGeneration
<1>15. CASE BeginTerminate
  BY <1>15 DEF BeginTerminate
<1>16. CASE Reap
  BY <1>16 DEF Reap
<1>17. CASE RejectControl
  BY <1>17 DEF RejectControl
<1>18. CASE BackoffEnds
  BY <1>18 DEF BackoffEnds
<1>19. CASE SuperviseReturns
  BY <1>19 DEF SuperviseReturns
<1>20. CASE TakeFrame
  BY <1>20 DEF TakeFrame, Writer, WriterKeeps
<1>21. CASE WriterStops
  BY <1>21 DEF WriterStops, Writer, WriterKeeps
<1>22. CASE FirstByteFails
  BY <1>22 DEF FirstByteFails, Writer, WriterKeeps
<1>23. CASE FirstByteExpires
  BY <1>23 DEF FirstByteExpires, Writer, WriterKeeps
<1>24. CASE FirstByteRejected
  BY <1>24 DEF FirstByteRejected, Writer, WriterKeeps
<1>25. CASE CheckFirstByte
  BY <1>25 DEF CheckFirstByte, Writer, WriterKeeps
<1>26. CASE FirstByte
  BY <1>26 DEF FirstByte, Writer, WriterKeeps
<1>27. CASE WriteBlocked
  BY <1>27 DEF WriteBlocked, Writer, WriterKeeps
<1>28. CASE FrameComplete
  BY <1>28 DEF FrameComplete, Writer, WriterKeeps
<1>29. CASE FrameTorn
  BY <1>29 DEF FrameTorn, Writer, WriterKeeps, AbandonFrame
<1>30. CASE Revoke
  BY <1>30 DEF Revoke
<1>31. CASE StopEntry
  BY <1>31 DEF StopEntry
<1>32. CASE UNCHANGED vars
  BY <1>32 DEF vars
<1> QED
  BY ONLY <1>1, <1>2, <1>3, <1>4, <1>5, <1>6, <1>7, <1>8, <1>9, <1>10, <1>11, <1>12, <1>13, <1>14,
          <1>15, <1>16, <1>17, <1>18, <1>19, <1>20, <1>21, <1>22, <1>23, <1>24, <1>25, <1>26, <1>27,
          <1>28, <1>29, <1>30, <1>31, <1>32, [Next]_vars
     DEF Next, Callers, Worker, Supervisor, WriterTask

\* How the writer queue moves: it gains only requests of this generation.
OutMove ==
    \/ out' = <<>> \/ out' = <<Control>>
    \/ /\ gen' = gen
       /\ \/ out' = out \/ (out # <<>> /\ out' = Tail(out))
          \/ \E n \in Nat : out' = out \o [i \in 1 .. n |-> Control]
          \/ \E f \in Request \cup {Control} :
                out' = Append(out, f) /\ (f # Control => call[f] # "none" /\ reqGen[f] = gen)

\* Every step moves the writer queue that way.
LEMMA OutStep ==
    ASSUME QueueTypes, AdmittedInv, PipeInv, [Next]_vars
    PROVE  OutMove
<1> USE DEF OutMove, entryVars, supVars, offerVars, pipeVars, askVars, callVars
<1>1. ASSUME NEW r \in Request, Admit(r) PROVE OutMove
  BY <1>1 DEF Admit
<1>2. ASSUME NEW r \in Request, Return(r) PROVE OutMove
  BY <1>2 DEF Return, Done
<1>3. ASSUME NEW r \in Request, Abandon(r) PROVE OutMove
  BY <1>3 DEF Abandon, Done
<1>4. ASSUME NEW r \in Request, Pass(r) PROVE OutMove
  BY <1>4 DEF Pass
<1>5. CASE WorkerFails
  BY <1>5 DEF WorkerFails, Leave
<1>6. CASE Ready
  BY <1>6 DEF Ready
<1>7. CASE Contribute
  BY <1>7 DEF Contribute
<1>8. ASSUME NEW r \in Request, NEW a \in {"ok", "error"}, WorkerAnswers(r, a) PROVE OutMove
  BY <1>8 DEF WorkerAnswers
<1>9. CASE Tick
  <2>1. PICK n \in 0 .. PipeCap : out' = out \o [i \in 1 .. n |-> Control]
    BY <1>9 DEF Tick
  <2>2. n \in Nat /\ gen' = gen
    BY <1>9 DEF Tick
  <2> QED
    BY <2>1, <2>2
<1>10. CASE Rejection
  BY <1>10 DEF Rejection
<1>11. CASE HandleControl
  <2>1. cmds # <<>> /\ gen' = gen
    BY <1>11 DEF HandleControl
  <2>2. Head(cmds).r \in Request /\ Head(cmds) = cmds[1] /\ Len(cmds) \in Nat \ {0}
    BY <2>1, HeadOfCmds, LenProperties, EmptySeq DEF QueueTypes
  <2>3. call[Head(cmds).r] # "none"
    BY <2>2 DEF AdmittedInv
  <2>4. \/ out' = out \/ out' = Append(out, Control)
        \/ out' = Append(out, Head(cmds).r) /\ reqGen[Head(cmds).r] = gen
    BY <1>11 DEF HandleControl, Submit, Cancel, Current, SendControl
  <2> QED
    BY <2>1, <2>2, <2>3, <2>4
<1>12. CASE StopSeen
  BY <1>12 DEF StopSeen, Leave
<1>13. CASE WriterErrorSeen
  BY <1>13 DEF WriterErrorSeen, Leave
<1>14. CASE RevokeGeneration
  BY <1>14 DEF RevokeGeneration
<1>15. CASE BeginTerminate
  BY <1>15 DEF BeginTerminate, SendControl, WriterOpen
<1>16. CASE Reap
  BY <1>16 DEF Reap
<1>17. CASE RejectControl
  BY <1>17 DEF RejectControl
<1>18. CASE BackoffEnds
  BY <1>18 DEF BackoffEnds, PipeInv
<1>19. CASE SuperviseReturns
  BY <1>19 DEF SuperviseReturns
<1>20. CASE TakeFrame
  BY <1>20 DEF TakeFrame, Writer, WriterKeeps
<1>21. CASE WriterStops
  BY <1>21 DEF WriterStops, Writer, WriterKeeps
<1>22. CASE FirstByteFails
  BY <1>22 DEF FirstByteFails, Writer, WriterKeeps
<1>23. CASE FirstByteExpires
  BY <1>23 DEF FirstByteExpires, Writer, WriterKeeps
<1>24. CASE FirstByteRejected
  BY <1>24 DEF FirstByteRejected, Writer, WriterKeeps
<1>25. CASE CheckFirstByte
  BY <1>25 DEF CheckFirstByte, Writer, WriterKeeps
<1>26. CASE FirstByte
  BY <1>26 DEF FirstByte, Writer, WriterKeeps
<1>27. CASE WriteBlocked
  BY <1>27 DEF WriteBlocked, Writer, WriterKeeps
<1>28. CASE FrameComplete
  BY <1>28 DEF FrameComplete, Writer, WriterKeeps
<1>29. CASE FrameTorn
  BY <1>29 DEF FrameTorn, Writer, WriterKeeps, AbandonFrame
<1>30. CASE Revoke
  BY <1>30 DEF Revoke
<1>31. CASE StopEntry
  BY <1>31 DEF StopEntry
<1>32. CASE UNCHANGED vars
  BY <1>32 DEF vars
<1> QED
  BY ONLY <1>1, <1>2, <1>3, <1>4, <1>5, <1>6, <1>7, <1>8, <1>9, <1>10, <1>11, <1>12, <1>13, <1>14,
          <1>15, <1>16, <1>17, <1>18, <1>19, <1>20, <1>21, <1>22, <1>23, <1>24, <1>25, <1>26, <1>27,
          <1>28, <1>29, <1>30, <1>31, <1>32, [Next]_vars
     DEF Next, Callers, Worker, Supervisor, WriterTask
\* What is in the writer queue after a step was in it before, or was just admitted.
LEMMA OutElements ==
    ASSUME QueueTypes, OutMove, NEW i \in 1 .. Len(out'), out'[i] # Control
    PROVE  /\ gen' = gen /\ out'[i] \in Request
           /\ \/ \E j \in 1 .. Len(out) : out'[i] = out[j]
              \/ call[out'[i]] # "none" /\ reqGen[out'[i]] = gen
<1>1. out \in Seq(Request \cup {Control}) /\ Len(out) \in Nat
  BY LenProperties DEF QueueTypes
<1>2. \A j \in 1 .. Len(out) : out[j] \in Request \cup {Control}
  BY <1>1, ElementOfSeq
<1>3. CASE out' = <<>>
  BY <1>3
<1>4. CASE out' = <<Control>>
  <2>1. Len(out') = 1 /\ out'[1] = Control
    BY <1>4
  <2> QED
    BY <2>1
<1>5. CASE out' = out /\ gen' = gen
  BY <1>2, <1>5
<1>6. CASE out # <<>> /\ out' = Tail(out) /\ gen' = gen
  <2>1. out'[i] = out[i + 1] /\ i + 1 \in 1 .. Len(out)
    BY <1>1, <1>6, HeadTailProperties
  <2> QED
    BY <1>2, <1>6, <2>1
<1>7. ASSUME gen' = gen, NEW n \in Nat, out' = out \o [k \in 1 .. n |-> Control]
      PROVE  gen' = gen /\ out'[i] \in Request /\ \E j \in 1 .. Len(out) : out'[i] = out[j]
  <2>1. out'[i] = IF i <= Len(out) THEN out[i] ELSE Control
    BY <1>7, Padded
  <2>2. i \in 1 .. Len(out) /\ out'[i] = out[i]
    BY <2>1, <1>1
  <2> QED
    BY <1>2, <1>7, <2>2
<1>8. ASSUME gen' = gen, NEW f \in Request \cup {Control}, out' = Append(out, f),
             f # Control => call[f] # "none" /\ reqGen[f] = gen
      PROVE  /\ gen' = gen /\ out'[i] \in Request
             /\ \/ \E j \in 1 .. Len(out) : out'[i] = out[j]
                \/ call[out'[i]] # "none" /\ reqGen[out'[i]] = gen
  <2>1. Len(out') = Len(out) + 1 /\ out'[Len(out) + 1] = f
        /\ \A j \in 1 .. Len(out) : out'[j] = out[j]
    BY <1>1, <1>8, AppendProperties
  <2>2. i \in 1 .. Len(out) \/ i = Len(out) + 1
    BY <1>1, <2>1
  <2>3. CASE i \in 1 .. Len(out)
    BY <1>2, <1>8, <2>1, <2>3
  <2>4. CASE i = Len(out) + 1
    BY <1>8, <2>1, <2>4
  <2> QED
    BY <2>2, <2>3, <2>4
<1> QED
  BY ONLY OutMove, <1>3, <1>4, <1>5, <1>6, <1>7, <1>8 DEF OutMove

\* What is in the control queue after a step was in it before, or was just admitted.
LEMMA CmdsElements ==
    ASSUME QueueTypes, CmdsMove, NEW i \in 1 .. Len(cmds')
    PROVE  \/ \E j \in 1 .. Len(cmds) : cmds'[i] = cmds[j]
           \/ call'[cmds'[i].r] # "none"
<1>1. cmds \in Seq([k : {"action", "cancel"}, r : Request]) /\ Len(cmds) \in Nat
  BY LenProperties DEF QueueTypes
<1>2. CASE cmds' = <<>> \/ cmds' = cmds
  BY <1>1, <1>2
<1>3. CASE cmds # <<>> /\ cmds' = Tail(cmds)
  <2>1. cmds'[i] = cmds[i + 1] /\ i + 1 \in 1 .. Len(cmds)
    BY <1>1, <1>3, HeadTailProperties
  <2> QED
    BY <2>1
<1>4. ASSUME NEW q \in Request, NEW c \in {"action", "cancel"}, call'[q] # "none",
             cmds' = Append(cmds, [k |-> c, r |-> q])
      PROVE  (\E j \in 1 .. Len(cmds) : cmds'[i] = cmds[j]) \/ call'[cmds'[i].r] # "none"
  <2>1. [k |-> c, r |-> q] \in [k : {"action", "cancel"}, r : Request]
    OBVIOUS
  <2>2. Len(cmds') = Len(cmds) + 1 /\ cmds'[Len(cmds) + 1] = [k |-> c, r |-> q]
        /\ \A j \in 1 .. Len(cmds) : cmds'[j] = cmds[j]
    BY <1>1, <1>4, <2>1, AppendProperties
  <2>3. i \in 1 .. Len(cmds) \/ i = Len(cmds) + 1
    BY <1>1, <2>2
  <2>4. CASE i = Len(cmds) + 1
    <3>1. cmds'[i].r = q
      BY <2>2, <2>4
    <3> QED
      BY <1>4, <3>1
  <2> QED
    BY <2>2, <2>3, <2>4
<1> QED
  BY ONLY CmdsMove, <1>2, <1>3, <1>4 DEF CmdsMove
-----------------------------------------------------------------------------
(* The parts of the invariant that only the writer can disturb.             *)
HandInv ==
    /\ hand # Control => call[hand] # "none"
    /\ \A r \in Request : begun[r] # 0 => call[r] # "none"
    /\ wr \in {"poll", "check"} => reqGen[hand] = gen
    /\ IsolatedGenerations

\* The request that the writer takes was admitted for this process.
LEMMA HeadOfOut ==
    ASSUME QueueTypes, AdmittedInv, PipeInv, out # <<>>, Head(out) # Control
    PROVE  Head(out) \in Request /\ call[Head(out)] # "none" /\ reqGen[Head(out)] = gen
<1>1. Head(out) \in Request \cup {Control} /\ Head(out) = out[1] /\ Len(out) \in Nat \ {0}
  BY HeadTailProperties, LenProperties, EmptySeq DEF QueueTypes
<1> QED
  BY <1>1 DEF AdmittedInv, PipeInv

\* Every step keeps what the writer holds admitted for this process.
LEMMA HandStep ==
    ASSUME SmallTypes, QueueTypes, TableTypes, AdmittedInv, PipeInv, IsolatedGenerations, [Next]_vars
    PROVE  HandInv'
<1>0. HandInv /\ (sup = "backoff" => wr = "none")
  BY DEF AdmittedInv, PipeInv, HandInv
<1> USE <1>0, ActionAssumption, AdmittedStep
        DEF AdmittedStay, HandInv, IsolatedGenerations, QueueTypes, entryVars, supVars, offerVars, pipeVars, askVars, callVars
<1>1. ASSUME NEW r \in Request, Admit(r) PROVE HandInv'
  BY <1>1 DEF Admit
<1>2. ASSUME NEW r \in Request, Return(r) PROVE HandInv'
  BY <1>2 DEF Return, Done
<1>3. ASSUME NEW r \in Request, Abandon(r) PROVE HandInv'
  BY <1>3 DEF Abandon, Done
<1>4. ASSUME NEW r \in Request, Pass(r) PROVE HandInv'
  BY <1>4 DEF Pass
<1>5. CASE WorkerFails
  BY <1>5 DEF WorkerFails, Leave
<1>6. CASE Ready
  BY <1>6 DEF Ready
<1>7. CASE Contribute
  BY <1>7 DEF Contribute
<1>8. ASSUME NEW r \in Request, NEW a \in {"ok", "error"}, WorkerAnswers(r, a) PROVE HandInv'
  BY <1>8 DEF WorkerAnswers
<1>9. CASE Tick
  BY <1>9 DEF Tick
<1>10. CASE Rejection
  BY <1>10 DEF Rejection
<1>11. CASE HandleControl
  BY <1>11 DEF HandleControl
<1>12. CASE StopSeen
  BY <1>12 DEF StopSeen, Leave
<1>13. CASE WriterErrorSeen
  BY <1>13 DEF WriterErrorSeen, Leave
<1>14. CASE RevokeGeneration
  BY <1>14 DEF RevokeGeneration
<1>15. CASE BeginTerminate
  BY <1>15 DEF BeginTerminate
<1>16. CASE Reap
  BY <1>16 DEF Reap
<1>17. CASE RejectControl
  BY <1>17 DEF RejectControl
<1>18. CASE BackoffEnds
  BY <1>18 DEF BackoffEnds
<1>19. CASE SuperviseReturns
  BY <1>19 DEF SuperviseReturns
<1>20. CASE TakeFrame
  <2>1. out # <<>> /\ UNCHANGED <<call, reqGen, begun, gen>>
    BY <1>20 DEF TakeFrame, WriterKeeps
  <2>2. \/ hand' = Control /\ wr' \in {"partial", "idle"}
        \/ hand' = Head(out) /\ Head(out) # Control
    BY <1>20 DEF TakeFrame, Writer
  <2>3. hand' = Head(out) /\ Head(out) # Control => call[hand'] # "none" /\ reqGen[hand'] = gen
    BY <2>1, HeadOfOut
  <2> QED
    BY <2>1, <2>2, <2>3
<1>21. CASE WriterStops
  BY <1>21 DEF WriterStops, Writer, WriterKeeps
<1>22. CASE FirstByteFails
  BY <1>22 DEF FirstByteFails, Writer, WriterKeeps
<1>23. CASE FirstByteExpires
  BY <1>23 DEF FirstByteExpires, Writer, WriterKeeps
<1>24. CASE FirstByteRejected
  BY <1>24 DEF FirstByteRejected, Writer, WriterKeeps
<1>25. CASE CheckFirstByte
  BY <1>25 DEF CheckFirstByte, Writer, WriterKeeps
<1>26. CASE FirstByte
  BY <1>26 DEF FirstByte, Writer, WriterKeeps
<1>27. CASE WriteBlocked
  BY <1>27 DEF WriteBlocked, Writer, WriterKeeps
<1>28. CASE FrameComplete
  BY <1>28 DEF FrameComplete, Writer, WriterKeeps
<1>29. CASE FrameTorn
  BY <1>29 DEF FrameTorn, Writer, WriterKeeps, AbandonFrame
<1>30. CASE Revoke
  BY <1>30 DEF Revoke
<1>31. CASE StopEntry
  BY <1>31 DEF StopEntry
<1>32. CASE UNCHANGED vars
  BY <1>32 DEF vars
<1> QED
  BY ONLY <1>1, <1>2, <1>3, <1>4, <1>5, <1>6, <1>7, <1>8, <1>9, <1>10, <1>11, <1>12, <1>13, <1>14,
          <1>15, <1>16, <1>17, <1>18, <1>19, <1>20, <1>21, <1>22, <1>23, <1>24, <1>25, <1>26, <1>27,
          <1>28, <1>29, <1>30, <1>31, <1>32, [Next]_vars
     DEF Next, Callers, Worker, Supervisor, WriterTask

(* What is in the pipe belongs to its process.                              *)
EndedPipe == sup \in {"backoff", "final", "dropped", "over"} => out = <<>> /\ wr = "none" /\ ~torn
MayRestart == sup = "backoff" => gen <= MaxRestarts

\* A pipe is gone before its supervisor waits, restarts or returns.
LEMMA EndedStep ==
    ASSUME SmallTypes, QueueTypes, PipeInv, [Next]_vars
    PROVE  EndedPipe' /\ MayRestart'
<1>0. EndedPipe /\ MayRestart
  BY DEF PipeInv, EndedPipe, MayRestart
<1> USE <1>0, ActionAssumption
        DEF EndedPipe, MayRestart, SmallTypes, entryVars, supVars, offerVars, pipeVars, askVars, callVars
<1>1. ASSUME NEW r \in Request, Admit(r) PROVE (EndedPipe /\ MayRestart)'
  BY <1>1 DEF Admit
<1>2. ASSUME NEW r \in Request, Return(r) PROVE (EndedPipe /\ MayRestart)'
  BY <1>2 DEF Return, Done
<1>3. ASSUME NEW r \in Request, Abandon(r) PROVE (EndedPipe /\ MayRestart)'
  BY <1>3 DEF Abandon, Done
<1>4. ASSUME NEW r \in Request, Pass(r) PROVE (EndedPipe /\ MayRestart)'
  BY <1>4 DEF Pass
<1>5. CASE WorkerFails
  BY <1>5 DEF WorkerFails, Leave, Looping
<1>6. CASE Ready
  BY <1>6 DEF Ready
<1>7. CASE Contribute
  BY <1>7 DEF Contribute
<1>8. ASSUME NEW r \in Request, NEW a \in {"ok", "error"}, WorkerAnswers(r, a) PROVE (EndedPipe /\ MayRestart)'
  BY <1>8 DEF WorkerAnswers
<1>9. CASE Tick
  BY <1>9 DEF Tick, Looping, WriterOpen
<1>10. CASE Rejection
  BY <1>10 DEF Rejection, Looping
<1>11. CASE HandleControl
  BY <1>11 DEF HandleControl, Looping, Submit, Cancel, WriterOpen, SendControl
<1>12. CASE StopSeen
  BY <1>12 DEF StopSeen, Leave, Looping
<1>13. CASE WriterErrorSeen
  BY <1>13 DEF WriterErrorSeen, Leave, Looping
<1>14. CASE RevokeGeneration
  BY <1>14 DEF RevokeGeneration
<1>15. CASE BeginTerminate
  BY <1>15 DEF BeginTerminate, SendControl, WriterOpen
<1>16. CASE Reap
  BY <1>16 DEF Reap, AfterReap
<1>17. CASE RejectControl
  BY <1>17 DEF RejectControl
<1>18. CASE BackoffEnds
  BY <1>18 DEF BackoffEnds
<1>19. CASE SuperviseReturns
  BY <1>19 DEF SuperviseReturns
<1>20. CASE TakeFrame
  BY <1>20 DEF TakeFrame, Writer, WriterKeeps
<1>21. CASE WriterStops
  BY <1>21 DEF WriterStops, Writer, WriterKeeps
<1>22. CASE FirstByteFails
  BY <1>22 DEF FirstByteFails, Writer, WriterKeeps
<1>23. CASE FirstByteExpires
  BY <1>23 DEF FirstByteExpires, Writer, WriterKeeps
<1>24. CASE FirstByteRejected
  BY <1>24 DEF FirstByteRejected, Writer, WriterKeeps
<1>25. CASE CheckFirstByte
  BY <1>25 DEF CheckFirstByte, Writer, WriterKeeps
<1>26. CASE FirstByte
  BY <1>26 DEF FirstByte, Writer, WriterKeeps
<1>27. CASE WriteBlocked
  BY <1>27 DEF WriteBlocked, Writer, WriterKeeps
<1>28. CASE FrameComplete
  BY <1>28 DEF FrameComplete, Writer, WriterKeeps
<1>29. CASE FrameTorn
  BY <1>29 DEF FrameTorn, Writer, WriterKeeps, AbandonFrame
<1>30. CASE Revoke
  BY <1>30 DEF Revoke
<1>31. CASE StopEntry
  BY <1>31 DEF StopEntry
<1>32. CASE UNCHANGED vars
  BY <1>32 DEF vars
<1> QED
  BY ONLY <1>1, <1>2, <1>3, <1>4, <1>5, <1>6, <1>7, <1>8, <1>9, <1>10, <1>11, <1>12, <1>13, <1>14,
          <1>15, <1>16, <1>17, <1>18, <1>19, <1>20, <1>21, <1>22, <1>23, <1>24, <1>25, <1>26, <1>27,
          <1>28, <1>29, <1>30, <1>31, <1>32, [Next]_vars
     DEF Next, Callers, Worker, Supervisor, WriterTask

\* Together: every step keeps the pipes of the generations apart.
LEMMA PipeStep ==
    ASSUME TypeOK, AdmittedInv, PipeInv, IsolatedGenerations, [Next]_vars
    PROVE  AdmittedInv' /\ PipeInv' /\ IsolatedGenerations'
<1>1. SmallTypes /\ QueueTypes /\ TableTypes
  BY TypeParts
<1>2. AdmittedStay /\ CmdsMove /\ OutMove
  BY <1>1, AdmittedStep, CmdsStep, OutStep
<1>3. HandInv' /\ EndedPipe' /\ MayRestart'
  BY <1>1, HandStep, EndedStep
<1>4. ASSUME NEW i \in 1 .. Len(cmds') PROVE call'[cmds'[i].r] # "none"
  <2>1. \A j \in 1 .. Len(cmds) : cmds[j].r \in Request /\ call[cmds[j].r] # "none"
    <3>1. \A j \in 1 .. Len(cmds) : cmds[j] \in [k : {"action", "cancel"}, r : Request]
      BY <1>1, ElementOfSeq DEF QueueTypes
    <3> QED
      BY <3>1 DEF AdmittedInv
  <2>2. (\E j \in 1 .. Len(cmds) : cmds'[i] = cmds[j]) \/ call'[cmds'[i].r] # "none"
    BY <1>1, <1>2, <1>4, CmdsElements
  <2> QED
    BY <1>2, <2>1, <2>2 DEF AdmittedStay
<1>5. ASSUME NEW i \in 1 .. Len(out'), out'[i] # Control
      PROVE  call'[out'[i]] # "none" /\ reqGen'[out'[i]] = gen'
  <2>1. /\ gen' = gen /\ out'[i] \in Request
        /\ \/ \E j \in 1 .. Len(out) : out'[i] = out[j]
           \/ call[out'[i]] # "none" /\ reqGen[out'[i]] = gen
    BY <1>1, <1>2, <1>5, OutElements
  <2>2. call[out'[i]] # "none" /\ reqGen[out'[i]] = gen
    BY <1>5, <2>1 DEF AdmittedInv, PipeInv
  <2> QED
    BY <1>2, <2>1, <2>2 DEF AdmittedStay
<1> QED
  BY <1>3, <1>4, <1>5 DEF AdmittedInv, PipeInv, HandInv, EndedPipe, MayRestart, IsolatedGenerations

(* Revocations wait for the lock that the writer holds, and a torn frame    *)
(* ends the writer.                                                         *)
LEMMA WriterStep ==
    ASSUME TypeOK, AdmittedInv, PipeInv, LockedInv, TornPipeIsSilent, [Next]_vars
    PROVE  LockedInv' /\ TornPipeIsSilent'
<1>0. SmallTypes /\ QueueTypes /\ TableTypes
  BY TypeParts
<1> USE <1>0, ActionAssumption, AdmittedStep
        DEF AdmittedStay, AdmittedInv, PipeInv, LockedInv, TornPipeIsSilent, LeaseRevoked, Locked,
            SmallTypes, QueueTypes, entryVars, supVars, offerVars, pipeVars, askVars, callVars
<1>1. ASSUME NEW r \in Request, Admit(r) PROVE (LockedInv /\ TornPipeIsSilent)'
  BY <1>1 DEF Admit
<1>2. ASSUME NEW r \in Request, Return(r) PROVE (LockedInv /\ TornPipeIsSilent)'
  BY <1>2 DEF Return, Done
<1>3. ASSUME NEW r \in Request, Abandon(r) PROVE (LockedInv /\ TornPipeIsSilent)'
  BY <1>3 DEF Abandon, Done
<1>4. ASSUME NEW r \in Request, Pass(r) PROVE (LockedInv /\ TornPipeIsSilent)'
  BY <1>4 DEF Pass
<1>5. CASE WorkerFails
  BY <1>5 DEF WorkerFails, Leave
<1>6. CASE Ready
  BY <1>6 DEF Ready
<1>7. CASE Contribute
  BY <1>7 DEF Contribute
<1>8. ASSUME NEW r \in Request, NEW a \in {"ok", "error"}, WorkerAnswers(r, a) PROVE (LockedInv /\ TornPipeIsSilent)'
  BY <1>8 DEF WorkerAnswers
<1>9. CASE Tick
  BY <1>9 DEF Tick
<1>10. CASE Rejection
  BY <1>10 DEF Rejection
<1>11. CASE HandleControl
  BY <1>11 DEF HandleControl
<1>12. CASE StopSeen
  BY <1>12 DEF StopSeen, Leave
<1>13. CASE WriterErrorSeen
  BY <1>13 DEF WriterErrorSeen, Leave
<1>14. CASE RevokeGeneration
  BY <1>14 DEF RevokeGeneration
<1>15. CASE BeginTerminate
  BY <1>15 DEF BeginTerminate
<1>16. CASE Reap
  BY <1>16 DEF Reap, AfterReap
<1>17. CASE RejectControl
  BY <1>17 DEF RejectControl
<1>18. CASE BackoffEnds
  BY <1>18 DEF BackoffEnds
<1>19. CASE SuperviseReturns
  BY <1>19 DEF SuperviseReturns
<1>20. CASE TakeFrame
  BY <1>20 DEF TakeFrame, Writer, WriterKeeps
<1>21. CASE WriterStops
  BY <1>21 DEF WriterStops, Writer, WriterKeeps
<1>22. CASE FirstByteFails
  BY <1>22 DEF FirstByteFails, Writer, WriterKeeps
<1>23. CASE FirstByteExpires
  BY <1>23 DEF FirstByteExpires, Writer, WriterKeeps
<1>24. CASE FirstByteRejected
  BY <1>24 DEF FirstByteRejected, Writer, WriterKeeps
<1>25. CASE CheckFirstByte
  BY <1>25 DEF CheckFirstByte, Writer, WriterKeeps
<1>26. CASE FirstByte
  BY <1>26 DEF FirstByte, Writer, WriterKeeps
<1>27. CASE WriteBlocked
  BY <1>27 DEF WriteBlocked, Writer, WriterKeeps
<1>28. CASE FrameComplete
  BY <1>28 DEF FrameComplete, Writer, WriterKeeps
<1>29. CASE FrameTorn
  BY <1>29 DEF FrameTorn, Writer, WriterKeeps, AbandonFrame
<1>30. CASE Revoke
  BY <1>30 DEF Revoke
<1>31. CASE StopEntry
  BY <1>31 DEF StopEntry
<1>32. CASE UNCHANGED vars
  BY <1>32 DEF vars
<1> QED
  BY ONLY <1>1, <1>2, <1>3, <1>4, <1>5, <1>6, <1>7, <1>8, <1>9, <1>10, <1>11, <1>12, <1>13, <1>14,
          <1>15, <1>16, <1>17, <1>18, <1>19, <1>20, <1>21, <1>22, <1>23, <1>24, <1>25, <1>26, <1>27,
          <1>28, <1>29, <1>30, <1>31, <1>32, [Next]_vars
     DEF Next, Callers, Worker, Supervisor, WriterTask

(* Only the first byte changes what a request has begun.                    *)
BegunMove == FirstByte \/ begun' = begun

LEMMA BegunStep ==
    ASSUME [Next]_vars
    PROVE  BegunMove
<1> USE DEF BegunMove, entryVars, supVars, offerVars, pipeVars, askVars, callVars
<1>1. ASSUME NEW r \in Request, Admit(r) PROVE BegunMove
  BY <1>1 DEF Admit
<1>2. ASSUME NEW r \in Request, Return(r) PROVE BegunMove
  BY <1>2 DEF Return, Done
<1>3. ASSUME NEW r \in Request, Abandon(r) PROVE BegunMove
  BY <1>3 DEF Abandon, Done
<1>4. ASSUME NEW r \in Request, Pass(r) PROVE BegunMove
  BY <1>4 DEF Pass
<1>5. CASE WorkerFails
  BY <1>5 DEF WorkerFails, Leave
<1>6. CASE Ready
  BY <1>6 DEF Ready
<1>7. CASE Contribute
  BY <1>7 DEF Contribute
<1>8. ASSUME NEW r \in Request, NEW a \in {"ok", "error"}, WorkerAnswers(r, a) PROVE BegunMove
  BY <1>8 DEF WorkerAnswers
<1>9. CASE Tick
  BY <1>9 DEF Tick
<1>10. CASE Rejection
  BY <1>10 DEF Rejection
<1>11. CASE HandleControl
  BY <1>11 DEF HandleControl
<1>12. CASE StopSeen
  BY <1>12 DEF StopSeen, Leave
<1>13. CASE WriterErrorSeen
  BY <1>13 DEF WriterErrorSeen, Leave
<1>14. CASE RevokeGeneration
  BY <1>14 DEF RevokeGeneration
<1>15. CASE BeginTerminate
  BY <1>15 DEF BeginTerminate
<1>16. CASE Reap
  BY <1>16 DEF Reap
<1>17. CASE RejectControl
  BY <1>17 DEF RejectControl
<1>18. CASE BackoffEnds
  BY <1>18 DEF BackoffEnds
<1>19. CASE SuperviseReturns
  BY <1>19 DEF SuperviseReturns
<1>20. CASE TakeFrame
  BY <1>20 DEF TakeFrame, WriterKeeps
<1>21. CASE WriterStops
  BY <1>21 DEF WriterStops, WriterKeeps
<1>22. CASE FirstByteFails
  BY <1>22 DEF FirstByteFails, WriterKeeps
<1>23. CASE FirstByteExpires
  BY <1>23 DEF FirstByteExpires, WriterKeeps
<1>24. CASE FirstByteRejected
  BY <1>24 DEF FirstByteRejected, WriterKeeps
<1>25. CASE CheckFirstByte
  BY <1>25 DEF CheckFirstByte, WriterKeeps
<1>26. CASE FirstByte
  BY <1>26 DEF FirstByte, WriterKeeps
<1>27. CASE WriteBlocked
  BY <1>27 DEF WriteBlocked, WriterKeeps
<1>28. CASE FrameComplete
  BY <1>28 DEF FrameComplete, WriterKeeps
<1>29. CASE FrameTorn
  BY <1>29 DEF FrameTorn, WriterKeeps
<1>30. CASE Revoke
  BY <1>30 DEF Revoke
<1>31. CASE StopEntry
  BY <1>31 DEF StopEntry
<1>32. CASE UNCHANGED vars
  BY <1>32 DEF vars
<1> QED
  BY ONLY <1>1, <1>2, <1>3, <1>4, <1>5, <1>6, <1>7, <1>8, <1>9, <1>10, <1>11, <1>12, <1>13, <1>14,
          <1>15, <1>16, <1>17, <1>18, <1>19, <1>20, <1>21, <1>22, <1>23, <1>24, <1>25, <1>26, <1>27,
          <1>28, <1>29, <1>30, <1>31, <1>32, [Next]_vars
     DEF Next, Callers, Worker, Supervisor, WriterTask
-----------------------------------------------------------------------------
\* The inductive invariant holds for any number of requests, restarts and leases.
THEOREM Invariance == Spec => []IInv
<1>1. Init => IInv
  <2> SUFFICES ASSUME Init PROVE IInv
    OBVIOUS
  <2> USE ActionAssumption DEF Init
  <2>1. SmallTypes
    <3>1. {authorized, stop, open, torn} \subseteq BOOLEAN
      BY Zenon
    <3>2. gen \in 1 .. MaxRestarts + 1 /\ leases \in 0 .. MaxLeases
      OBVIOUS
    <3>3. sup = "start" /\ outcome = "none" /\ wr = "idle" /\ offer = NoAction /\ numeric = NoLease
      BY Zenon
    <3> QED
      BY ONLY <3>1, <3>2, <3>3 DEF SmallTypes
  <2>2. QueueTypes
    <3>1. <<Control>> \in Seq(Request \cup {Control}) /\ Len(<<Control>>) = 1
      OBVIOUS
    <3> QED
      BY <3>1 DEF QueueTypes
  <2>3. TableTypes
    BY FS_EmptySet DEF TableTypes
  <2>4. AdmittedInv /\ PipeInv
    <3>1. Len(out) = 1 /\ out[1] = Control
      OBVIOUS
    <3>2. \A i \in 1 .. Len(out) : out[i] = Control
      BY <3>1
    <3> QED
      BY <3>2 DEF AdmittedInv, PipeInv
  <2>5. LockedInv /\ IsolatedGenerations /\ TornPipeIsSilent
    BY DEF LockedInv, IsolatedGenerations, TornPipeIsSilent
  <2> QED
    BY <2>1, <2>2, <2>3, <2>4, <2>5, TypeParts DEF IInv
<1>2. IInv /\ [Next]_vars => IInv'
  BY TypeStep, PipeStep, WriterStep DEF IInv
<1> QED
  BY <1>1, <1>2, PTL DEF Spec

\* No process reads a request of its predecessor or a frame after a torn one, and no queue
\* outgrows its limit.
THEOREM CleanPipes == Spec => []PipesAreClean
<1>1. IInv => PipesAreClean
  BY DEF IInv, PipesAreClean
<1> QED
  BY <1>1, Invariance, PTL

\* write_frames sends the first byte of a request only under the authority and the lease that
\* admitted it.
THEOREM AuthorizedFirstBytes == Spec => FirstByteAuthorized
<1> DEFINE Authorized == \A r \in Request : begun'[r] # begun[r] => authorized /\ ~LeaseRevoked(r)
<1>1. IInv /\ [Next]_vars => [Authorized]_vars
  <2> SUFFICES ASSUME IInv, [Next]_vars, NEW r \in Request, begun'[r] # begun[r]
               PROVE  authorized /\ ~LeaseRevoked(r)
    BY DEF vars
  <2>1. FirstByte
    BY BegunStep DEF BegunMove
  <2>2. wr = "check" /\ begun' = [begun EXCEPT ![hand] = gen]
    BY <2>1 DEF FirstByte
  <2>3. begun \in [Request -> Nat]
    BY DEF IInv, TypeOK
  <2>4. r = hand
    BY <2>2, <2>3
  <2> QED
    BY <2>2, <2>4 DEF IInv, LockedInv
<1> QED
  BY <1>1, Invariance, PTL DEF Spec, FirstByteAuthorized
=============================================================================
