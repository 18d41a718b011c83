---------------------------- MODULE LinksProofs ----------------------------
(***************************************************************************)
(* What carries messages between the processes, for every value of the     *)
(* constants. First one MQTT client (MqttClient): nothing is delivered or  *)
(* published after stop(), and a burst ends with its newest snapshot. Then *)
(* the commands of the Home Assistant worker: a call is released only on a *)
(* grant nothing has touched, and a command is answered truly. Then        *)
(* the composition of MCLinks: each of its steps is a step of one part     *)
(* that leaves the variables of the others alone, so it implements the     *)
(* specification of every part, and what is shown here of the client and   *)
(* in TransportLinkProofs and ActionPathProofs of the other parts holds of *)
(* it.                                                                     *)
(***************************************************************************)
EXTENDS MCLinks, Sequences, TLAPS

-----------------------------------------------------------------------------
(* One MQTT client.                                                        *)

\* The limits that TypeOK states are kept because of these: one sleeper for each
\* schedule, room for a message that was announced, every keepalive task counted.
RangeInv ==
    /\ scheduled <=> sleepers = 1
    /\ overslept => sleepers = 1
    /\ pending # None => scheduled
    /\ loop = "apply" \/ (loop = "event" /\ event = "message") => version < MaxMessages
    /\ loop \in {"emit", "drop", "queue", "dispatch"} => carried = version /\ version > 0
    /\ keepers + orphans <= MaxKeepers

\* stop() waits for while_running, then silences the emitter, then empties the slot.
StopInv ==
    /\ stopped <=> stop # "idle"
    /\ guarded => stop = "idle"
    /\ active <=> stop \in {"idle", "emitter"}
    /\ ~active => pending = None
    /\ stop = "done" => ~slot
    /\ ~late

\* In a window that was never shown again: a flush that has taken a snapshot is the
\* only one, within an interval in which the loop only keeps back.
BurstInv ==
    shows = 0 =>
        /\ show = "idle"
        /\ loop = "drop" => hidden
        /\ flushing # {} => recent /\ ~overslept /\ loop # "dispatch" /\ \E s \in flushing : flushing = {s}
        /\ loop = "dispatch" => recent /\ pending = None

\* The newest snapshot is in exactly the hands that will deliver it last.
NewestInv ==
    shows = 0 /\ stop = "idle" /\ ~hidden /\ version > 0 =>
        \/ loop \in {"emit", "queue", "dispatch"}
        \/ pending = version
        \/ pending = None /\ flushing = {version}
        \/ pending = None /\ flushing = {} /\ shown = version

IInv == TypeOK /\ RangeInv /\ StopInv /\ BurstInv /\ NewestInv
-----------------------------------------------------------------------------
(* Every step keeps the types.                                              *)
LEMMA TypeStep ==
    ASSUME TypeOK, RangeInv, [Next]_vars
    PROVE  TypeOK'
<1> USE ClientAssumption
        DEF TypeOK, RangeInv, None, loopVars, keepVars, emitVars, flushVars, showVars, outVars, stopVars
<1>1. CASE LoopTop
  BY <1>1 DEF LoopTop, Goto, LoopOnly
<1>2. CASE Build
  BY <1>2 DEF Build, Goto, LoopOnly, StoreClient
<1>3. CASE Subscribe
  BY <1>3 DEF Subscribe, Goto, LoopOnly
<1>4. CASE NextEvent
  BY <1>4 DEF NextEvent, Goto, LoopOnly
<1>5. CASE DiscoverPortal
  BY <1>5 DEF DiscoverPortal, LoopOnly
<1>6. CASE KnownPortal
  BY <1>6 DEF KnownPortal, LoopOnly
<1>7. CASE Enter
  BY <1>7 DEF Enter, LoopOnly
<1>8. CASE Tell
  BY <1>8 DEF Tell, Delivered
<1>9. CASE Apply
  BY <1>9 DEF Apply
<1>10. CASE Emit
  BY <1>10 DEF Emit, Goto, LoopOnly
<1>11. CASE Drop
  <2>1. {stopped, guarded, slot, active, recent, scheduled, overslept, hidden, late}' \subseteq BOOLEAN
    BY <1>11, Zenon DEF Drop, Leave
  <2> QED
    BY <1>11, <2>1 DEF Drop, Leave
<1>12. CASE QueueMessage
  <2>1. {stopped, guarded, slot, active, recent, scheduled, hidden, late}' \subseteq BOOLEAN
    BY <1>12, Zenon DEF QueueMessage, Leave, Goto, Coalesce, Schedule, EmitNow
  <2>2. overslept' \in BOOLEAN
    BY <1>12 DEF QueueMessage, Leave, Goto, Coalesce, Schedule, EmitNow
  <2> QED
    BY <1>12, <2>1, <2>2 DEF QueueMessage, Leave, Goto, Coalesce, Schedule, EmitNow
<1>13. CASE DispatchMessage
  <2>1. {stopped, guarded, slot, active, recent, scheduled, overslept, hidden, late}' \subseteq BOOLEAN
    BY <1>13, Zenon DEF DispatchMessage, Leave, Dispatch, Delivered
  <2> QED
    BY <1>13, <2>1 DEF DispatchMessage, Leave, Dispatch, Delivered
<1>14. CASE EventsEnd
  BY <1>14 DEF EventsEnd, Goto, LoopOnly
<1>15. CASE Ended
  BY <1>15 DEF Ended, Goto, LoopOnly, CancelChildren
<1>16. CASE ClearSlot
  BY <1>16 DEF ClearSlot, Goto, LoopOnly
<1>17. CASE EnterStatus
  BY <1>17 DEF EnterStatus, Goto, LoopOnly
<1>18. CASE Backoff
  BY <1>18 DEF Backoff, Goto, LoopOnly
<1>19. CASE FlushWakes
  <2>1. {stopped, guarded, slot, active, recent, scheduled, overslept, hidden, late}' \subseteq BOOLEAN
    BY <1>19, Zenon DEF FlushWakes, TakePending
  <2>2. /\ pending' = None \/ pending' = pending
        /\ flushing' = flushing \/ (pending # None /\ flushing' = flushing \cup {pending})
    BY ONLY <1>19, Zenon DEF FlushWakes, TakePending
  <2>3. MaxMessages \in Nat /\ pending \in 0 .. MaxMessages /\ flushing \subseteq 1 .. MaxMessages
    OBVIOUS
  <2>5. pending # None => pending \in 1 .. MaxMessages
    BY ONLY <2>3 DEF None
  <2>4. pending' \in 0 .. MaxMessages
    BY ONLY <2>2, <2>3 DEF None
  <2>6. flushing' \subseteq 1 .. MaxMessages
    BY ONLY <2>2, <2>3, <2>5, Zenon
  <2> QED
    BY <1>19, <2>1, <2>4, <2>6 DEF FlushWakes
<1>20. ASSUME NEW s \in 1 .. MaxMessages, FlushDelivers(s) PROVE TypeOK'
  BY <1>20 DEF FlushDelivers, Dispatch, Delivered
<1>21. CASE Hide
  BY <1>21 DEF Hide
<1>22. CASE Show
  <2>1. {stopped, guarded, slot, active, recent, scheduled, overslept, hidden, late}' \subseteq BOOLEAN
    BY <1>22, Zenon DEF Show
  <2> QED
    BY <1>22, <2>1 DEF Show
<1>23. CASE ReadState
  BY <1>23 DEF ReadState, ShowTo, ShowKeeps
<1>24. CASE QueueShown
  <2>1. {stopped, guarded, slot, active, recent, scheduled, hidden, late}' \subseteq BOOLEAN
    BY <1>24, Zenon DEF QueueShown, ShowTo, ShowKeeps, EmitNow
  <2>2. overslept' \in BOOLEAN
    BY <1>24 DEF QueueShown, ShowTo, ShowKeeps, EmitNow
  <2> QED
    BY <1>24, <2>1, <2>2 DEF QueueShown, ShowTo, ShowKeeps, EmitNow
<1>25. CASE DispatchShown
  BY <1>25 DEF DispatchShown, ShowTo, ShowKeeps, Dispatch, Delivered
<1>26. CASE StopFlag
  BY <1>26 DEF StopFlag, Raise
<1>27. CASE StopEmitter
  <2>1. {stopped, guarded, slot, active, recent, scheduled, overslept, hidden, late}' \subseteq BOOLEAN
    BY <1>27, Zenon DEF StopEmitter
  <2> QED
    BY <1>27, <2>1 DEF StopEmitter
<1>28. CASE StopSlot
  BY <1>28 DEF StopSlot
<1>29. CASE IntervalEnds
  BY <1>29 DEF IntervalEnds
<1>30. CASE KeeperCancelled
  BY <1>30 DEF KeeperCancelled
<1>31. CASE KeeperFails
  BY <1>31 DEF KeeperFails
<1>32. CASE UNCHANGED vars
  BY <1>32 DEF vars
<1> QED
  BY ONLY <1>1, <1>2, <1>3, <1>4, <1>5, <1>6, <1>7, <1>8, <1>9, <1>10, <1>11, <1>12, <1>13, <1>14,
          <1>15, <1>16, <1>17, <1>18, <1>19, <1>20, <1>21, <1>22, <1>23, <1>24, <1>25, <1>26, <1>27,
          <1>28, <1>29, <1>30, <1>31, <1>32, [Next]_vars
     DEF Next, Loop, Flush, Window, Stop

(* Every step keeps the limits' reasons.                                    *)
LEMMA RangeStep ==
    ASSUME TypeOK, RangeInv, StopInv, TypeOK', [Next]_vars
    PROVE  RangeInv'
<1> USE ClientAssumption
        DEF TypeOK, RangeInv, StopInv, None, loopVars, keepVars, emitVars, flushVars, showVars, stopVars
<1>1. CASE LoopTop
  BY <1>1 DEF LoopTop, Goto, LoopOnly
<1>2. CASE Build
  BY <1>2 DEF Build, Goto, LoopOnly, StoreClient
<1>3. CASE Subscribe
  BY <1>3 DEF Subscribe, Goto, LoopOnly
<1>4. CASE NextEvent
  BY <1>4 DEF NextEvent, Goto, LoopOnly
<1>5. CASE DiscoverPortal
  BY <1>5 DEF DiscoverPortal, LoopOnly
<1>6. CASE KnownPortal
  BY <1>6 DEF KnownPortal, LoopOnly
<1>7. CASE Enter
  BY <1>7 DEF Enter, LoopOnly
<1>8. CASE Tell
  BY <1>8 DEF Tell, Delivered
<1>9. CASE Apply
  BY <1>9 DEF Apply
<1>10. CASE Emit
  BY <1>10 DEF Emit, Goto, LoopOnly
<1>11. CASE Drop
  BY <1>11 DEF Drop, Leave
<1>12. CASE QueueMessage
  BY <1>12 DEF QueueMessage, Leave, Goto, Coalesce, Schedule, EmitNow
<1>13. CASE DispatchMessage
  BY <1>13 DEF DispatchMessage, Leave, Dispatch, Delivered
<1>14. CASE EventsEnd
  BY <1>14 DEF EventsEnd, Goto, LoopOnly
<1>15. CASE Ended
  BY <1>15 DEF Ended, Goto, LoopOnly, CancelChildren
<1>16. CASE ClearSlot
  BY <1>16 DEF ClearSlot, Goto, LoopOnly
<1>17. CASE EnterStatus
  BY <1>17 DEF EnterStatus, Goto, LoopOnly
<1>18. CASE Backoff
  BY <1>18 DEF Backoff, Goto, LoopOnly
<1>19. CASE FlushWakes
  BY <1>19 DEF FlushWakes, TakePending
<1>20. ASSUME NEW s \in 1 .. MaxMessages, FlushDelivers(s) PROVE RangeInv'
  BY <1>20 DEF FlushDelivers, Dispatch, Delivered
<1>21. CASE Hide
  BY <1>21 DEF Hide
<1>22. CASE Show
  BY <1>22 DEF Show
<1>23. CASE ReadState
  BY <1>23 DEF ReadState, ShowTo, ShowKeeps
<1>24. CASE QueueShown
  BY <1>24 DEF QueueShown, ShowTo, ShowKeeps, EmitNow
<1>25. CASE DispatchShown
  BY <1>25 DEF DispatchShown, ShowTo, ShowKeeps, Dispatch, Delivered
<1>26. CASE StopFlag
  BY <1>26 DEF StopFlag, Raise
<1>27. CASE StopEmitter
  BY <1>27 DEF StopEmitter
<1>28. CASE StopSlot
  BY <1>28 DEF StopSlot
<1>29. CASE IntervalEnds
  BY <1>29 DEF IntervalEnds
<1>30. CASE KeeperCancelled
  BY <1>30 DEF KeeperCancelled
<1>31. CASE KeeperFails
  BY <1>31 DEF KeeperFails
<1>32. CASE UNCHANGED vars
  BY <1>32 DEF vars
<1> QED
  BY ONLY <1>1, <1>2, <1>3, <1>4, <1>5, <1>6, <1>7, <1>8, <1>9, <1>10, <1>11, <1>12, <1>13, <1>14,
          <1>15, <1>16, <1>17, <1>18, <1>19, <1>20, <1>21, <1>22, <1>23, <1>24, <1>25, <1>26, <1>27,
          <1>28, <1>29, <1>30, <1>31, <1>32, [Next]_vars
     DEF Next, Loop, Flush, Window, Stop

(* stop() raises the flag while nobody is inside while_running, and nothing *)
(* is delivered or stored after the step that would let it.                 *)
LEMMA StopStep ==
    ASSUME TypeOK, RangeInv, StopInv, TypeOK', [Next]_vars
    PROVE  StopInv'
<1> USE ClientAssumption
        DEF TypeOK, RangeInv, StopInv, None, loopVars, keepVars, emitVars, flushVars, showVars, outVars, stopVars
<1>1. CASE LoopTop
  BY <1>1 DEF LoopTop, Goto, LoopOnly
<1>2. CASE Build
  BY <1>2 DEF Build, Goto, LoopOnly, StoreClient
<1>3. CASE Subscribe
  BY <1>3 DEF Subscribe, Goto, LoopOnly
<1>4. CASE NextEvent
  BY <1>4 DEF NextEvent, Goto, LoopOnly
<1>5. CASE DiscoverPortal
  BY <1>5 DEF DiscoverPortal, LoopOnly
<1>6. CASE KnownPortal
  BY <1>6 DEF KnownPortal, LoopOnly
<1>7. CASE Enter
  BY <1>7 DEF Enter, LoopOnly
<1>8. CASE Tell
  BY <1>8 DEF Tell, Delivered
<1>9. CASE Apply
  BY <1>9 DEF Apply
<1>10. CASE Emit
  BY <1>10 DEF Emit, Goto, LoopOnly
<1>11. CASE Drop
  BY <1>11 DEF Drop, Leave
<1>12. CASE QueueMessage
  BY <1>12 DEF QueueMessage, Leave, Goto, Coalesce, Schedule, EmitNow
<1>13. CASE DispatchMessage
  BY <1>13 DEF DispatchMessage, Leave, Dispatch, Delivered
<1>14. CASE EventsEnd
  BY <1>14 DEF EventsEnd, Goto, LoopOnly
<1>15. CASE Ended
  BY <1>15 DEF Ended, Goto, LoopOnly, CancelChildren
<1>16. CASE ClearSlot
  BY <1>16 DEF ClearSlot, Goto, LoopOnly
<1>17. CASE EnterStatus
  BY <1>17 DEF EnterStatus, Goto, LoopOnly
<1>18. CASE Backoff
  BY <1>18 DEF Backoff, Goto, LoopOnly
<1>19. CASE FlushWakes
  BY <1>19 DEF FlushWakes, TakePending
<1>20. ASSUME NEW s \in 1 .. MaxMessages, FlushDelivers(s) PROVE StopInv'
  BY <1>20 DEF FlushDelivers, Dispatch, Delivered
<1>21. CASE Hide
  BY <1>21 DEF Hide
<1>22. CASE Show
  BY <1>22 DEF Show
<1>23. CASE ReadState
  BY <1>23 DEF ReadState, ShowTo, ShowKeeps
<1>24. CASE QueueShown
  BY <1>24 DEF QueueShown, ShowTo, ShowKeeps, EmitNow
<1>25. CASE DispatchShown
  BY <1>25 DEF DispatchShown, ShowTo, ShowKeeps, Dispatch, Delivered
<1>26. CASE StopFlag
  BY <1>26 DEF StopFlag, Raise
<1>27. CASE StopEmitter
  BY <1>27 DEF StopEmitter
<1>28. CASE StopSlot
  BY <1>28 DEF StopSlot
<1>29. CASE IntervalEnds
  BY <1>29 DEF IntervalEnds
<1>30. CASE KeeperCancelled
  BY <1>30 DEF KeeperCancelled
<1>31. CASE KeeperFails
  BY <1>31 DEF KeeperFails
<1>32. CASE UNCHANGED vars
  BY <1>32 DEF vars
<1> QED
  BY ONLY <1>1, <1>2, <1>3, <1>4, <1>5, <1>6, <1>7, <1>8, <1>9, <1>10, <1>11, <1>12, <1>13, <1>14,
          <1>15, <1>16, <1>17, <1>18, <1>19, <1>20, <1>21, <1>22, <1>23, <1>24, <1>25, <1>26, <1>27,
          <1>28, <1>29, <1>30, <1>31, <1>32, [Next]_vars
     DEF Next, Loop, Flush, Window, Stop

(* A flush that holds a snapshot keeps the interval open until it has       *)
(* delivered it, so no other task emits in the meantime.                    *)
LEMMA BurstStep ==
    ASSUME TypeOK, RangeInv, StopInv, BurstInv, TypeOK', [Next]_vars
    PROVE  BurstInv'
<1> USE ClientAssumption
        DEF TypeOK, RangeInv, StopInv, BurstInv, None, loopVars, emitVars, flushVars, showVars, stopVars
<1>1. CASE LoopTop
  BY <1>1 DEF LoopTop, Goto, LoopOnly
<1>2. CASE Build
  BY <1>2 DEF Build, Goto, LoopOnly, StoreClient
<1>3. CASE Subscribe
  BY <1>3 DEF Subscribe, Goto, LoopOnly
<1>4. CASE NextEvent
  BY <1>4 DEF NextEvent, Goto, LoopOnly
<1>5. CASE DiscoverPortal
  BY <1>5 DEF DiscoverPortal, LoopOnly
<1>6. CASE KnownPortal
  BY <1>6 DEF KnownPortal, LoopOnly
<1>7. CASE Enter
  BY <1>7 DEF Enter, LoopOnly
<1>8. CASE Tell
  BY <1>8 DEF Tell, Delivered
<1>9. CASE Apply
  BY <1>9 DEF Apply
<1>10. CASE Emit
  BY <1>10 DEF Emit, Goto, LoopOnly
<1>11. CASE Drop
  BY <1>11 DEF Drop, Leave
<1>12. CASE QueueMessage
  BY <1>12 DEF QueueMessage, Leave, Goto, Coalesce, Schedule, EmitNow
<1>13. CASE DispatchMessage
  BY <1>13 DEF DispatchMessage, Leave, Dispatch, Delivered
<1>14. CASE EventsEnd
  BY <1>14 DEF EventsEnd, Goto, LoopOnly
<1>15. CASE Ended
  BY <1>15 DEF Ended, Goto, LoopOnly, CancelChildren
<1>16. CASE ClearSlot
  BY <1>16 DEF ClearSlot, Goto, LoopOnly
<1>17. CASE EnterStatus
  BY <1>17 DEF EnterStatus, Goto, LoopOnly
<1>18. CASE Backoff
  BY <1>18 DEF Backoff, Goto, LoopOnly
<1>19. CASE FlushWakes
  BY <1>19 DEF FlushWakes, TakePending
<1>20. ASSUME NEW s \in 1 .. MaxMessages, FlushDelivers(s) PROVE BurstInv'
  BY <1>20 DEF FlushDelivers, Dispatch, Delivered
<1>21. CASE Hide
  BY <1>21 DEF Hide
<1>22. CASE Show
  BY <1>22 DEF Show
<1>23. CASE ReadState
  BY <1>23 DEF ReadState, ShowTo, ShowKeeps
<1>24. CASE QueueShown
  BY <1>24 DEF QueueShown, ShowTo, ShowKeeps, EmitNow
<1>25. CASE DispatchShown
  BY <1>25 DEF DispatchShown, ShowTo, ShowKeeps, Dispatch, Delivered
<1>26. CASE StopFlag
  BY <1>26 DEF StopFlag, Raise
<1>27. CASE StopEmitter
  BY <1>27 DEF StopEmitter
<1>28. CASE StopSlot
  BY <1>28 DEF StopSlot
<1>29. CASE IntervalEnds
  BY <1>29 DEF IntervalEnds
<1>30. CASE KeeperCancelled
  BY <1>30 DEF KeeperCancelled
<1>31. CASE KeeperFails
  BY <1>31 DEF KeeperFails
<1>32. CASE UNCHANGED vars
  BY <1>32 DEF vars
<1> QED
  BY ONLY <1>1, <1>2, <1>3, <1>4, <1>5, <1>6, <1>7, <1>8, <1>9, <1>10, <1>11, <1>12, <1>13, <1>14,
          <1>15, <1>16, <1>17, <1>18, <1>19, <1>20, <1>21, <1>22, <1>23, <1>24, <1>25, <1>26, <1>27,
          <1>28, <1>29, <1>30, <1>31, <1>32, [Next]_vars
     DEF Next, Loop, Flush, Window, Stop

(* The newest snapshot passes from the loop to the emitter, to its flush    *)
(* and to the front end, and no older one is delivered after it.            *)
LEMMA NewestStep ==
    ASSUME TypeOK, RangeInv, StopInv, BurstInv, NewestInv, TypeOK', [Next]_vars
    PROVE  NewestInv'
<1> USE ClientAssumption
        DEF TypeOK, RangeInv, StopInv, BurstInv, NewestInv, None, loopVars, emitVars, flushVars, showVars,
            outVars, stopVars
<1>1. CASE LoopTop
  BY <1>1 DEF LoopTop, Goto, LoopOnly
<1>2. CASE Build
  BY <1>2 DEF Build, Goto, LoopOnly, StoreClient
<1>3. CASE Subscribe
  BY <1>3 DEF Subscribe, Goto, LoopOnly
<1>4. CASE NextEvent
  BY <1>4 DEF NextEvent, Goto, LoopOnly
<1>5. CASE DiscoverPortal
  BY <1>5 DEF DiscoverPortal, LoopOnly
<1>6. CASE KnownPortal
  BY <1>6 DEF KnownPortal, LoopOnly
<1>7. CASE Enter
  BY <1>7 DEF Enter, LoopOnly
<1>8. CASE Tell
  BY <1>8 DEF Tell, Delivered
<1>9. CASE Apply
  BY <1>9 DEF Apply
<1>10. CASE Emit
  BY <1>10 DEF Emit, Goto, LoopOnly
<1>11. CASE Drop
  BY <1>11 DEF Drop, Leave
<1>12. CASE QueueMessage
  BY <1>12 DEF QueueMessage, Leave, Goto, Coalesce, Schedule, EmitNow
<1>13. CASE DispatchMessage
  BY <1>13 DEF DispatchMessage, Leave, Dispatch, Delivered
<1>14. CASE EventsEnd
  BY <1>14 DEF EventsEnd, Goto, LoopOnly
<1>15. CASE Ended
  BY <1>15 DEF Ended, Goto, LoopOnly, CancelChildren
<1>16. CASE ClearSlot
  BY <1>16 DEF ClearSlot, Goto, LoopOnly
<1>17. CASE EnterStatus
  BY <1>17 DEF EnterStatus, Goto, LoopOnly
<1>18. CASE Backoff
  BY <1>18 DEF Backoff, Goto, LoopOnly
<1>19. CASE FlushWakes
  BY <1>19 DEF FlushWakes, TakePending
<1>20. ASSUME NEW s \in 1 .. MaxMessages, FlushDelivers(s) PROVE NewestInv'
  BY <1>20 DEF FlushDelivers, Dispatch, Delivered
<1>21. CASE Hide
  BY <1>21 DEF Hide
<1>22. CASE Show
  BY <1>22 DEF Show
<1>23. CASE ReadState
  BY <1>23 DEF ReadState, ShowTo, ShowKeeps
<1>24. CASE QueueShown
  BY <1>24 DEF QueueShown, ShowTo, ShowKeeps, EmitNow
<1>25. CASE DispatchShown
  BY <1>25 DEF DispatchShown, ShowTo, ShowKeeps, Dispatch, Delivered
<1>26. CASE StopFlag
  BY <1>26 DEF StopFlag, Raise
<1>27. CASE StopEmitter
  BY <1>27 DEF StopEmitter
<1>28. CASE StopSlot
  BY <1>28 DEF StopSlot
<1>29. CASE IntervalEnds
  BY <1>29 DEF IntervalEnds
<1>30. CASE KeeperCancelled
  BY <1>30 DEF KeeperCancelled
<1>31. CASE KeeperFails
  BY <1>31 DEF KeeperFails
<1>32. CASE UNCHANGED vars
  BY <1>32 DEF vars
<1> QED
  BY ONLY <1>1, <1>2, <1>3, <1>4, <1>5, <1>6, <1>7, <1>8, <1>9, <1>10, <1>11, <1>12, <1>13, <1>14,
          <1>15, <1>16, <1>17, <1>18, <1>19, <1>20, <1>21, <1>22, <1>23, <1>24, <1>25, <1>26, <1>27,
          <1>28, <1>29, <1>30, <1>31, <1>32, [Next]_vars
     DEF Next, Loop, Flush, Window, Stop

-----------------------------------------------------------------------------
(* The inductive invariant: the order of stop(), the one scheduled flush    *)
(* and where the newest snapshot is.                                        *)
THEOREM Invariance == Spec => []IInv
<1>1. Init => IInv
  <2> SUFFICES ASSUME Init PROVE IInv
    OBVIOUS
  <2>1. {stopped, guarded, slot, active, recent, scheduled, overslept, hidden, late} \subseteq BOOLEAN
    BY Zenon DEF Init
  <2>2. TypeOK
    BY <2>1, ClientAssumption DEF Init, TypeOK, None
  <2>3. RangeInv /\ StopInv
    BY ClientAssumption DEF Init, RangeInv, StopInv, None
  <2>4. BurstInv /\ NewestInv
    BY DEF Init, BurstInv, NewestInv
  <2> QED
    BY <2>2, <2>3, <2>4 DEF IInv
<1>2. IInv /\ [Next]_vars => IInv'
  <2> SUFFICES ASSUME IInv, [Next]_vars PROVE IInv'
    OBVIOUS
  <2>1. TypeOK'
    BY TypeStep DEF IInv
  <2> QED
    BY <2>1, RangeStep, StopStep, BurstStep, NewestStep DEF IInv
<1> QED
  BY <1>1, <1>2, PTL DEF Spec

(* What the front end gets of one client is true: nothing after stop() has  *)
(* returned, no broker client in the slot it emptied, and of a burst the    *)
(* newest snapshot.                                                         *)
THEOREM StreamTruth == Spec => []StreamIsTrue
<1>1. IInv => StreamIsTrue
  <2> SUFFICES ASSUME IInv PROVE StreamIsTrue
    OBVIOUS
  <2>1. SilentAfterStop
    BY DEF IInv, StopInv, SilentAfterStop
  <2>2. BurstEndsNewest
    BY DEF IInv, TypeOK, RangeInv, NewestInv, BurstEndsNewest, NewestIsShown, Quiet, None
  <2> QED
    BY <2>1, <2>2 DEF IInv, StreamIsTrue
<1> QED
  BY <1>1, Invariance, PTL

-----------------------------------------------------------------------------
(* The commands of the Home Assistant worker (HomeAssistantActions) *)

Phase == {"connecting", "connected", "disconnected", "rejected"}
Token == Seq(Nat)
Stage == {"none", "pipe", "queued", "read", "posted", "confirm", "done"}
Outcome == {"none", "ok", "unknown", "unavailable", "timeout", "overloaded", "lost", "twice"}
Asked == [at : Stage, kind : Home!Kind \cup {"none"}, token : Token, received : Nat, epoch : Nat, rev : Nat,
          eligible : BOOLEAN, submitted : BOOLEAN, late : BOOLEAN, answer : Outcome, stale : BOOLEAN]
HomeTypeOK ==
    /\ net \in {"session", "backoff", "parked", "over"}
    /\ link \in [epoch : Nat, phase : Phase]
    /\ lock \in [state : {"none", "locked", "unlocked", "jammed"}, rev : Nat]
    /\ number \in [bounds : Nat, rev : Nat]
    /\ granted \in [Home!Kind -> Token] /\ displayed \in [Home!Kind -> Token]
    /\ noted \in Nat
    /\ req \in [HomeRequest -> Asked]
    /\ wire \in [HomeRequest -> {"none", "held", "sent", "aborted"}]
    /\ wrote \subseteq HomeRequest /\ fresh \subseteq Home!Kind

\* The grant of a frame, or of a request, is not newer than what it was granted on, and older
\* when something has touched that. Here and below e, l and n are the epoch of the
\* connection, the revision of the lock and the grant of the number.
Known(kind, grant, stale, e, l, n) ==
    /\ kind = "lock" => /\ grant[1] \in 0 .. e /\ grant[2] \in 0 .. l
                        /\ stale => grant[1] # e \/ grant[2] # l
    /\ kind = "number" => /\ grant[1] \in 0 .. n
                          /\ stale => grant[1] # n

\* So is what a request was admitted on; s is the epoch the command loop has seen.
Current(x, e, l, n, s) ==
    /\ x.at \in {"pipe", "queued"} => Known(x.kind, x.token, x.stale, e, l, n)
    /\ x.at = "queued" /\ x.kind = "toggle" => x.received \in 0 .. e /\ (x.stale => x.received # e)
    /\ x.at \in Home!Running =>
          /\ x.epoch = s /\ x.epoch \in 0 .. e /\ x.rev \in 0 .. l
          /\ x.stale /\ x.kind = "toggle" => x.epoch # e
          /\ x.stale /\ x.kind = "lock" => x.epoch # e \/ x.rev # l

\* A request has one answer, and a service call that is released is known as submitted; the
\* body of a lock command that was answered has no permit any more.
Honest(x, written, body) ==
    /\ x.at # "none" => x.kind \in Home!Kind
    /\ x.answer # "twice" /\ (x.answer = "none") = (x.at # "done")
    /\ written => x.submitted /\ x.at \in {"posted", "confirm", "done"}
    /\ x.at = "done" => ~x.eligible
    /\ x.at = "read" => x.kind # "number"
    /\ body = "held" => x.kind = "lock" /\ x.at \in {"posted", "done"}
    /\ x.answer \in {"unavailable", "timeout", "overloaded"} => ~written

CurrentInv == \A r \in HomeRequest : Current(req[r], link.epoch, lock.rev, number.rev, noted)
HonestInv == \A r \in HomeRequest : Honest(req[r], r \in wrote, wire[r])
ShownInv ==
    \A k \in Home!Kind : displayed[k] # Home!NoGrant =>
        Known(k, displayed[k], k \notin fresh, link.epoch, lock.rev, number.rev)

HomeInv == HomeTypeOK /\ CurrentInv /\ HonestInv /\ ShownInv

\* The same request, as far as one can see; its history may say more.
Same(x, y) ==
    /\ y.at = x.at /\ y.kind = x.kind /\ y.token = x.token /\ y.received = x.received
    /\ y.epoch = x.epoch /\ y.rev = x.rev /\ y.eligible = x.eligible /\ y.submitted = x.submitted
    /\ y.late = x.late /\ y.answer = x.answer

\* History touches nothing but the mark that says so.
LEMMA Touches ==
    ASSUME NEW reqs \in [HomeRequest -> Asked], NEW kinds
    PROVE  /\ Home!Touch(reqs, kinds) \in [HomeRequest -> Asked]
           /\ \A r \in HomeRequest : /\ Same(reqs[r], Home!Touch(reqs, kinds)[r])
                                     /\ Home!Touch(reqs, kinds)[r].stale => reqs[r].stale \/ reqs[r].kind \in kinds
<1>1. ASSUME NEW x \in Asked PROVE [x EXCEPT !.stale = TRUE] \in Asked
  BY <1>1 DEF Asked
<1>2. Home!Touch(reqs, kinds) \in [HomeRequest -> Asked]
  BY <1>1 DEF Home!Touch
<1>3. ASSUME NEW x \in Asked PROVE Same(x, [x EXCEPT !.stale = TRUE]) /\ Same(x, x)
  BY <1>3 DEF Asked, Same
<1> SUFFICES ASSUME NEW r \in HomeRequest
             PROVE  /\ Same(reqs[r], Home!Touch(reqs, kinds)[r])
                    /\ Home!Touch(reqs, kinds)[r].stale => reqs[r].stale \/ reqs[r].kind \in kinds
  BY <1>2
<1>4. reqs[r] \in Asked
  OBVIOUS
<1>5. CASE Home!Touch(reqs, kinds)[r] = reqs[r]
  BY <1>3, <1>4, <1>5
<1>6. CASE Home!Touch(reqs, kinds)[r] = [reqs[r] EXCEPT !.stale = TRUE] /\ reqs[r].kind \in kinds
  BY <1>3, <1>4, <1>6
<1> QED
  BY <1>5, <1>6 DEF Home!Touch

\* What is not newer than the world before is not newer than the world after, and older if
\* the step touches it.
LEMMA StillKnown ==
    ASSUME NEW kind, NEW grant, NEW stale, NEW stale2, NEW kinds,
           NEW e \in Nat, NEW l \in Nat, NEW n \in Nat, NEW e2 \in Nat, NEW l2 \in Nat, NEW n2 \in Nat,
           e <= e2, l <= l2, n <= n2,
           "lock" \in kinds => e < e2 \/ l < l2, "number" \in kinds => n < n2,
           stale2 => stale \/ kind \in kinds,
           Known(kind, grant, stale, e, l, n)
    PROVE  Known(kind, grant, stale2, e2, l2, n2)
BY DEF Known

LEMMA StillCurrent ==
    ASSUME NEW x \in Asked, NEW y \in Asked, NEW kinds, NEW s \in Nat,
           NEW e \in Nat, NEW l \in Nat, NEW n \in Nat, NEW e2 \in Nat, NEW l2 \in Nat, NEW n2 \in Nat,
           e <= e2, l <= l2, n <= n2,
           "lock" \in kinds => e < e2 \/ l < l2, "number" \in kinds => n < n2, "toggle" \in kinds => e < e2,
           Same(x, y), y.stale => x.stale \/ x.kind \in kinds,
           Current(x, e, l, n, s)
    PROVE  Current(y, e2, l2, n2, s)
<1>1. x.at \in {"pipe", "queued"} => Known(y.kind, y.token, y.stale, e2, l2, n2)
  BY StillKnown DEF Current, Same
<1> QED
  BY <1>1 DEF Current, Same
LEMMA SameHonest ==
    ASSUME NEW x, NEW y, Same(x, y), NEW written, NEW body, Honest(x, written, body)
    PROVE  Honest(y, written, body)
BY DEF Same, Honest

\* The connection and what is observed go on: of these kinds they touch every grant.
Passes(kinds) ==
    /\ link'.epoch \in Nat /\ lock'.rev \in Nat /\ number'.rev \in Nat
    /\ link.epoch <= link'.epoch /\ lock.rev <= lock'.rev /\ number.rev <= number'.rev
    /\ "lock" \in kinds => link.epoch < link'.epoch \/ lock.rev < lock'.rev
    /\ "number" \in kinds => number.rev < number'.rev
    /\ "toggle" \in kinds => link.epoch < link'.epoch
    /\ displayed' = displayed /\ fresh \ kinds \subseteq fresh' /\ noted' = noted

\* Then nothing that was granted before passes for current.
LEMMA Passing ==
    ASSUME HomeTypeOK, ShownInv, NEW kinds, Passes(kinds),
           NEW reqs \in [HomeRequest -> Asked], req' = Home!Touch(reqs, kinds),
           \A r \in HomeRequest : Current(reqs[r], link.epoch, lock.rev, number.rev, noted),
           wrote' = wrote, wire' = wire, \A r \in HomeRequest : Honest(reqs[r], r \in wrote, wire[r])
    PROVE  CurrentInv' /\ HonestInv' /\ ShownInv' /\ req' \in [HomeRequest -> Asked]
<1>1. link.epoch \in Nat /\ lock.rev \in Nat /\ number.rev \in Nat /\ noted \in Nat
  BY DEF HomeTypeOK
<1>2. req' \in [HomeRequest -> Asked]
  BY Touches
<1>3. ASSUME NEW r \in HomeRequest
      PROVE  Current(req'[r], link'.epoch, lock'.rev, number'.rev, noted')
  <2>1. Same(reqs[r], req'[r]) /\ (req'[r].stale => reqs[r].stale \/ reqs[r].kind \in kinds)
    BY Touches
  <2>2. reqs[r] \in Asked /\ req'[r] \in Asked
    BY <1>2
  <2> QED
    BY <1>1, <2>1, <2>2, StillCurrent DEF Passes
<1>4. ASSUME NEW r \in HomeRequest PROVE Honest(req'[r], r \in wrote', wire'[r])
  <2>1. Same(reqs[r], req'[r])
    BY Touches
  <2> QED
    BY <2>1, SameHonest
<1>5. ASSUME NEW k \in Home!Kind, displayed'[k] # Home!NoGrant
      PROVE  Known(k, displayed'[k], k \notin fresh', link'.epoch, lock'.rev, number'.rev)
  <2>1. Known(k, displayed[k], k \notin fresh, link.epoch, lock.rev, number.rev)
    BY <1>5 DEF Passes, ShownInv
  <2>2. k \notin fresh' => k \notin fresh \/ k \in kinds
    BY DEF Passes
  <2> QED
    BY <1>1, <2>1, <2>2 DEF Passes, Known
<1> QED
  BY <1>2, <1>3, <1>4, <1>5 DEF CurrentInv, HonestInv, ShownInv

\* One request changes, the world does not.
LEMMA Changing ==
    ASSUME HomeInv, UNCHANGED <<net, link, lock, number, granted, displayed, fresh, noted>>,
           wire' \in [HomeRequest -> {"none", "held", "sent", "aborted"}], wrote' \subseteq HomeRequest,
           NEW r \in HomeRequest, NEW x \in Asked, req' = [req EXCEPT ![r] = x],
           Current(x, link.epoch, lock.rev, number.rev, noted),
           \A o \in HomeRequest : o # r => (o \in wrote' <=> o \in wrote) /\ wire'[o] = wire[o],
           Honest(x, r \in wrote', wire'[r])
    PROVE  HomeInv'
<1>1. req \in [HomeRequest -> Asked]
  BY DEF HomeInv, HomeTypeOK
<1>2. req' \in [HomeRequest -> Asked] /\ req'[r] = x /\ \A o \in HomeRequest : o # r => req'[o] = req[o]
  BY <1>1
<1>3. CurrentInv' /\ ShownInv'
  BY <1>2 DEF HomeInv, CurrentInv, ShownInv
<1>4. ASSUME NEW o \in HomeRequest PROVE Honest(req'[o], o \in wrote', wire'[o])
  <2>1. CASE o = r
    BY <1>2, <2>1
  <2>2. CASE o # r
    <3>1. Honest(req[o], o \in wrote, wire[o])
      BY DEF HomeInv, HonestInv
    <3>2. req'[o] = req[o] /\ (o \in wrote' <=> o \in wrote) /\ wire'[o] = wire[o]
      BY <1>2, <2>2
    <3> QED
      BY <3>1, <3>2 DEF Honest
  <2> QED
    BY <2>1, <2>2
<1>5. HomeTypeOK'
  BY <1>2 DEF HomeInv, HomeTypeOK
<1> QED
  BY <1>3, <1>4, <1>5 DEF HonestInv, HomeInv

\* An answer is the first, and ends what the request may still do.
LEMMA Answers ==
    ASSUME NEW x \in Asked, x.at \notin {"none", "done"}, NEW answer \in Outcome \ {"none", "twice"},
           NEW written, NEW body, Honest(x, written, body),
           answer \in {"unavailable", "timeout", "overloaded"} => ~written,
           NEW e, NEW l, NEW n, NEW s
    PROVE  LET y == Home!Answered(x, answer) IN
           y \in Asked /\ y.at = "done" /\ Honest(y, written, body) /\ Current(y, e, l, n, s)
<1> DEFINE y == Home!Answered(x, answer)
<1>1. x.answer = "none"
  BY DEF Honest
<1>2. y \in Asked /\ y.at = "done" /\ y.eligible = FALSE /\ y.answer = answer /\ y.kind = x.kind /\ y.submitted = x.submitted
  BY <1>1 DEF Home!Answered, Asked, Stage, Outcome
<1> HIDE DEF y
<1>3. Honest(y, written, body)
  BY <1>1, <1>2 DEF Honest
<1>4. Current(y, e, l, n, s)
  BY <1>2 DEF Current, Home!Running
<1> QED
  BY <1>2, <1>3, <1>4 DEF y
\* The connection changes: a new epoch, every grant gone.
LEMMA Connects ==
    ASSUME HomeInv, NEW phase \in Phase, NEW reqs \in [HomeRequest -> Asked], Home!Connection(phase, reqs),
           \A r \in HomeRequest : Current(reqs[r], link.epoch, lock.rev, number.rev, noted)
                                  /\ Honest(reqs[r], r \in wrote, wire[r]),
           lock' \in [state : {"none", "locked", "unlocked", "jammed"}, rev : Nat], lock'.rev = lock.rev,
           number' \in [bounds : Nat, rev : Nat], number.rev < number'.rev,
           net' \in {"session", "backoff", "parked", "over"}, UNCHANGED <<displayed, noted, wire, wrote>>
    PROVE  HomeInv'
<1>1. /\ link \in [epoch : Nat, phase : Phase] /\ lock.rev \in Nat /\ number.rev \in Nat
      /\ HomeTypeOK /\ ShownInv
  BY DEF HomeInv, HomeTypeOK
<1>2. /\ link' = [epoch |-> link.epoch + 1, phase |-> phase] /\ granted' = Home!NoGrants
      /\ fresh' = {} /\ req' = Home!Touch(reqs, Home!Kind)
  BY DEF Home!Connection
<1>3. link' \in [epoch : Nat, phase : Phase] /\ link'.epoch = link.epoch + 1 /\ lock'.rev \in Nat /\ number'.rev \in Nat
  BY <1>1, <1>2
<1>4. Passes(Home!Kind)
  <2>1. fresh \ Home!Kind \subseteq fresh'
    BY DEF HomeInv, HomeTypeOK
  <2> QED
    BY <1>1, <1>2, <1>3, <2>1 DEF Passes
<1>5. CurrentInv' /\ HonestInv' /\ ShownInv' /\ req' \in [HomeRequest -> Asked]
  BY <1>1, <1>2, <1>4, Passing
<1>6. granted' \in [Home!Kind -> Token] /\ fresh' \subseteq Home!Kind
  BY <1>2 DEF Home!NoGrants, Home!NoGrant, Token
<1>7. HomeTypeOK'
  BY <1>1, <1>3, <1>5, <1>6 DEF HomeTypeOK
<1> QED
  BY <1>5, <1>7 DEF HomeInv

\* begin_session and clear.
LEMMA Forgetting ==
    ASSUME HomeTypeOK, Home!Forgotten(1)
    PROVE  /\ lock' \in [state : {"none", "locked", "unlocked", "jammed"}, rev : Nat] /\ lock'.rev = lock.rev
           /\ number' \in [bounds : Nat, rev : Nat] /\ number.rev < number'.rev
BY DEF HomeTypeOK, Home!Forgotten

\* The end of service() answers the one request, truly.
LEMMA Finishing ==
    ASSUME HomeInv, NEW r \in HomeRequest, NEW ok \in BOOLEAN, req[r].at \in Home!Running
    PROVE  /\ Home!Finished(r, ok) \in [HomeRequest -> Asked]
           /\ \A o \in HomeRequest :
                 /\ Current(Home!Finished(r, ok)[o], link.epoch, lock.rev, number.rev, noted)
                 /\ Honest(Home!Finished(r, ok)[o], o \in wrote, wire[o])
           /\ \E x \in Asked : /\ Home!Finished(r, ok) = [req EXCEPT ![r] = x]
                              /\ Current(x, link.epoch, lock.rev, number.rev, noted)
                              /\ Honest(x, r \in wrote, wire[r])
<1>1. req \in [HomeRequest -> Asked] /\ req[r] \in Asked
  BY DEF HomeInv, HomeTypeOK
<1>2. /\ \A o \in HomeRequest : Current(req[o], link.epoch, lock.rev, number.rev, noted)
      /\ \A o \in HomeRequest : Honest(req[o], o \in wrote, wire[o])
  BY DEF HomeInv, CurrentInv, HonestInv
<1>3. PICK answer \in {"ok", "unknown", "unavailable"} :
         /\ Home!Finished(r, ok) = [req EXCEPT ![r] = Home!Answered(@, answer)]
         /\ answer = "unavailable" => ~req[r].submitted
  BY DEF Home!Finished
<1>4. answer = "unavailable" => r \notin wrote
  BY <1>2, <1>3 DEF Honest
<1> DEFINE x == Home!Answered(req[r], answer)
<1>5. x \in Asked /\ Honest(x, r \in wrote, wire[r]) /\ Current(x, link.epoch, lock.rev, number.rev, noted)
  <2>1. answer \in Outcome \ {"none", "twice"} /\ req[r].at \notin {"none", "done"}
    BY <1>3 DEF Outcome, Home!Running
  <2>2. answer \in {"unavailable", "timeout", "overloaded"} => r \notin wrote
    BY <1>3, <1>4
  <2>3. ASSUME NEW w, NEW b, Honest(req[r], w, b), answer \in {"unavailable", "timeout", "overloaded"} => ~w
        PROVE  x \in Asked /\ Honest(x, w, b) /\ Current(x, link.epoch, lock.rev, number.rev, noted)
    BY <1>1, <2>1, <2>3, Answers
  <2> QED
    BY <1>2, <2>2, <2>3
<1> HIDE DEF x
<1>6. Home!Finished(r, ok) = [req EXCEPT ![r] = x]
  BY <1>1, <1>3 DEF x
<1>7. ASSUME NEW o \in HomeRequest
      PROVE  Home!Finished(r, ok)[o] = IF o = r THEN x ELSE req[o]
  BY <1>1, <1>6
<1> QED
  BY <1>1, <1>2, <1>5, <1>6, <1>7
\* The steps of the book.
LEMMA BookKeeps ==
    ASSUME HomeInv,
           \/ Home!Publish \/ Home!ObserveSwitch
           \/ \E state \in {"locked", "unlocked", "jammed"} : Home!ObserveLock(state)
           \/ \E bounds \in Home!Observation : Home!ObserveNumber(bounds)
    PROVE  HomeInv'
<1>1. /\ HomeTypeOK /\ ShownInv /\ CurrentInv /\ HonestInv
      /\ link \in [epoch : Nat, phase : Phase] /\ number \in [bounds : Nat, rev : Nat] /\ noted \in Nat
      /\ lock \in [state : {"none", "locked", "unlocked", "jammed"}, rev : Nat]
      /\ req \in [HomeRequest -> Asked] /\ granted \in [Home!Kind -> Token]
      /\ \A r \in HomeRequest : Current(req[r], link.epoch, lock.rev, number.rev, noted)
      /\ \A r \in HomeRequest : Honest(req[r], r \in wrote, wire[r])
  BY DEF HomeInv, HomeTypeOK, CurrentInv, HonestInv
<1>2. CASE Home!Publish
  <2>1. Home!Grants \in [Home!Kind -> Token]
    BY <1>1 DEF Home!Grants, Home!LockToken, Home!NumberToken, Home!ToggleToken, Home!NoGrant, Token
  <2>2. \A k \in Home!Kind : Home!Grants[k] # Home!NoGrant =>
            Known(k, Home!Grants[k], FALSE, link.epoch, lock.rev, number.rev)
    BY <1>1 DEF Home!Grants, Home!LockToken, Home!NumberToken, Home!ToggleToken, Home!NoGrant, Home!Kind, Known
  <2>3. ShownInv'
    BY <1>2, <2>2 DEF Home!Publish, ShownInv, Known
  <2>4. HomeTypeOK'
    BY <1>1, <1>2, <2>1 DEF Home!Publish, HomeTypeOK
  <2> QED
    BY <1>1, <1>2, <2>3, <2>4 DEF Home!Publish, HomeInv, CurrentInv, HonestInv
<1>3. CASE Home!ObserveSwitch
  BY <1>1, <1>3 DEF Home!ObserveSwitch, HomeInv, HomeTypeOK, CurrentInv, HonestInv, ShownInv
<1>6. ASSUME NEW kinds, Passes(kinds), req' = Home!Touch(req, kinds), UNCHANGED <<wire, wrote>>
      PROVE  CurrentInv' /\ HonestInv' /\ ShownInv' /\ req' \in [HomeRequest -> Asked]
  BY <1>1, <1>6, Passing
<1>4. ASSUME NEW state \in {"locked", "unlocked", "jammed"}, Home!ObserveLock(state) PROVE HomeInv'
  <2>1. /\ lock' = [state |-> state, rev |-> lock.rev + 1] /\ req' = Home!Touch(req, {"lock"})
        /\ fresh' = fresh \ {"lock"} /\ UNCHANGED <<net, link, number, granted, displayed, noted, wire, wrote>>
    BY <1>4 DEF Home!ObserveLock, Home!SeeLock
  <2>2. lock' \in [state : {"none", "locked", "unlocked", "jammed"}, rev : Nat] /\ lock'.rev = lock.rev + 1
    BY <1>1, <2>1
  <2>3. Passes({"lock"})
    BY <1>1, <2>1, <2>2 DEF Passes
  <2>4. CurrentInv' /\ HonestInv' /\ ShownInv' /\ req' \in [HomeRequest -> Asked]
    BY <1>6, <2>1, <2>3
  <2>5. HomeTypeOK'
    BY <1>1, <2>1, <2>2, <2>4 DEF HomeTypeOK
  <2> QED
    BY <2>4, <2>5 DEF HomeInv
<1>5. ASSUME NEW bounds \in Home!Observation, Home!ObserveNumber(bounds) PROVE HomeInv'
  <2>1. /\ number' = [bounds |-> bounds, rev |-> number.rev + 1] /\ req' = Home!Touch(req, {"number"})
        /\ granted' = [granted EXCEPT !["number"] = Home!NoGrant]
        /\ fresh' = fresh \ {"number"} /\ UNCHANGED <<net, link, lock, displayed, noted, wire, wrote>>
    BY <1>5 DEF Home!ObserveNumber
  <2>2. number' \in [bounds : Nat, rev : Nat] /\ number'.rev = number.rev + 1
    BY <1>1, <2>1 DEF Home!Observation
  <2>3. Passes({"number"})
    BY <1>1, <2>1, <2>2 DEF Passes
  <2>4. CurrentInv' /\ HonestInv' /\ ShownInv' /\ req' \in [HomeRequest -> Asked]
    BY <1>6, <2>1, <2>3
  <2>5. granted' \in [Home!Kind -> Token]
    <3>1. Home!NoGrant \in Token
      BY DEF Home!NoGrant, Token
    <3> QED
      BY <1>1, <2>1, <3>1
  <2>6. HomeTypeOK'
    BY <1>1, <2>1, <2>2, <2>4, <2>5 DEF HomeTypeOK
  <2> QED
    BY <2>4, <2>6 DEF HomeInv
<1> QED
  BY <1>2, <1>3, <1>4, <1>5

\* The steps of the connection.
LEMMA ConnectionKeeps ==
    ASSUME HomeInv,
           Home!SessionConnected \/ Home!BackoffEnds \/ \E denied \in BOOLEAN : Home!SessionEnds(denied)
    PROVE  HomeInv'
<1>1. /\ HomeTypeOK /\ req \in [HomeRequest -> Asked]
      /\ \A r \in HomeRequest : /\ Current(req[r], link.epoch, lock.rev, number.rev, noted)
                                /\ Honest(req[r], r \in wrote, wire[r])
  BY DEF HomeInv, HomeTypeOK, CurrentInv, HonestInv
<1>2. CASE Home!SessionConnected
  <2>1. /\ Home!Connection("connected", req) /\ "connected" \in Phase /\ number' = [number EXCEPT !.rev = @ + 1]
        /\ UNCHANGED <<net, lock, displayed, noted, wire, wrote>>
    BY <1>2 DEF Home!SessionConnected, Phase
  <2>2. /\ number' \in [bounds : Nat, rev : Nat] /\ number.rev < number'.rev
        /\ lock' \in [state : {"none", "locked", "unlocked", "jammed"}, rev : Nat] /\ lock'.rev = lock.rev
        /\ net' \in {"session", "backoff", "parked", "over"}
    BY <1>1, <2>1 DEF HomeTypeOK
  <2> QED
    BY <1>1, <2>1, <2>2, Connects
<1>3. ASSUME NEW phase \in Phase, Home!Forgotten(1), Home!Connection(phase, req),
             net' \in {"session", "backoff", "parked", "over"}, UNCHANGED <<displayed, noted, wire, wrote>>
      PROVE  HomeInv'
  BY <1>1, <1>3, Forgetting, Connects
<1>4. {"rejected", "disconnected", "connecting"} \subseteq Phase
  BY DEF Phase
<1>5. ASSUME NEW denied \in BOOLEAN, Home!SessionEnds(denied) PROVE HomeInv'
  BY <1>3, <1>4, <1>5 DEF Home!SessionEnds
<1>6. CASE Home!BackoffEnds /\ link.phase # "rejected"
  BY <1>3, <1>4, <1>6 DEF Home!BackoffEnds
<1>7. CASE Home!BackoffEnds /\ link.phase = "rejected"
  BY <1>7 DEF Home!BackoffEnds, Home!bookVars, HomeInv, HomeTypeOK, CurrentInv, HonestInv, ShownInv
<1> QED
  BY <1>2, <1>5, <1>6, <1>7

\* The user acts on what is shown, the worker takes the request, its time runs out.
LEMMA AsksKeep ==
    ASSUME HomeInv, NEW r \in HomeRequest,
           (\E kind \in Home!Kind : Home!Click(r, kind)) \/ Home!Receive(r) \/ Home!Expire(r)
    PROVE  HomeInv'
<1>1. /\ req \in [HomeRequest -> Asked] /\ req[r] \in Asked /\ displayed \in [Home!Kind -> Token]
      /\ link.epoch \in Nat
      /\ wire \in [HomeRequest -> {"none", "held", "sent", "aborted"}] /\ wrote \subseteq HomeRequest
      /\ Current(req[r], link.epoch, lock.rev, number.rev, noted) /\ Honest(req[r], r \in wrote, wire[r])
  BY DEF HomeInv, HomeTypeOK, CurrentInv, HonestInv
<1>2. ASSUME NEW kind \in Home!Kind, Home!Click(r, kind) PROVE HomeInv'
  <2> DEFINE x == [Home!NewRequest EXCEPT !.at = "pipe", !.kind = kind, !.token = displayed[kind],
                                          !.stale = kind \notin fresh]
  <2>1. /\ req[r].at = "none" /\ displayed[kind] # Home!NoGrant /\ req' = [req EXCEPT ![r] = x]
        /\ UNCHANGED <<net, link, lock, number, granted, displayed, fresh, noted, wire, wrote>>
    BY <1>2 DEF Home!Click, Home!bookVars
  <2>2. x \in Asked /\ x.at = "pipe" /\ x.kind = kind /\ x.token = displayed[kind] /\ x.answer = "none"
        /\ (x.stale <=> kind \notin fresh)
    BY <1>1 DEF Home!NewRequest, Asked, Stage, Outcome, Home!NoGrant, Token
  <2> HIDE DEF x
  <2>3. Known(kind, displayed[kind], kind \notin fresh, link.epoch, lock.rev, number.rev)
    BY <2>1 DEF HomeInv, ShownInv
  <2>4. Current(x, link.epoch, lock.rev, number.rev, noted)
    BY <2>2, <2>3 DEF Current, Known, Home!Running
  <2>5. r \notin wrote /\ wire[r] # "held"
    BY <1>1, <2>1 DEF Honest
  <2>6. Honest(x, r \in wrote', wire'[r])
    BY <2>1, <2>2, <2>5 DEF Honest
  <2> QED
    BY <1>1, <2>1, <2>2, <2>4, <2>6, Changing
<1>3. CASE Home!Receive(r)
  <2> DEFINE x == [req[r] EXCEPT !.at = "queued", !.received = link.epoch,
                                 !.stale = @ /\ req[r].kind # "toggle"]
  <2>1. /\ req[r].at = "pipe" /\ req' = [req EXCEPT ![r] = x]
        /\ UNCHANGED <<net, link, lock, number, granted, displayed, fresh, noted, wire, wrote>>
    BY <1>1, <1>3 DEF Home!Receive, Home!bookVars
  <2>2. /\ x \in Asked /\ x.at = "queued" /\ x.received = link.epoch /\ x.kind = req[r].kind
        /\ x.token = req[r].token /\ x.answer = req[r].answer
        /\ (x.stale <=> req[r].stale /\ req[r].kind # "toggle")
    BY <1>1 DEF Asked, Stage
  <2> HIDE DEF x
  <2>3. Current(x, link.epoch, lock.rev, number.rev, noted)
    BY <1>1, <2>1, <2>2 DEF Current, Known, Home!Running
  <2>4. Honest(x, r \in wrote', wire'[r])
    BY <1>1, <2>1, <2>2 DEF Honest
  <2> QED
    BY <1>1, <2>1, <2>2, <2>3, <2>4, Changing
<1>4. CASE Home!Expire(r)
  <2> DEFINE x == [req[r] EXCEPT !.late = TRUE]
  <2>1. /\ req' = [req EXCEPT ![r] = x]
        /\ UNCHANGED <<net, link, lock, number, granted, displayed, fresh, noted, wire, wrote>>
    BY <1>1, <1>4 DEF Home!Expire, Home!bookVars
  <2>2. /\ x \in Asked /\ x.at = req[r].at /\ x.received = req[r].received /\ x.kind = req[r].kind
        /\ x.token = req[r].token /\ x.answer = req[r].answer /\ x.stale = req[r].stale /\ x.epoch = req[r].epoch
        /\ x.rev = req[r].rev /\ x.eligible = req[r].eligible /\ x.submitted = req[r].submitted
    BY <1>1 DEF Asked
  <2> HIDE DEF x
  <2>3. Current(x, link.epoch, lock.rev, number.rev, noted)
    BY <1>1, <2>2 DEF Current
  <2>4. Honest(x, r \in wrote', wire'[r])
    BY <1>1, <2>1, <2>2 DEF Honest
  <2> QED
    BY <1>1, <2>1, <2>2, <2>3, <2>4, Changing
<1> QED
  BY <1>2, <1>3, <1>4

\* Everything pending is given up when the connection changed.
LEMMA GivingUpKeeps ==
    ASSUME HomeInv, Home!SeeConnection
    PROVE  HomeInv'
<1>1. /\ req \in [HomeRequest -> Asked] /\ link \in [epoch : Nat, phase : Phase]
      /\ \A r \in HomeRequest : Current(req[r], link.epoch, lock.rev, number.rev, noted)
      /\ \A r \in HomeRequest : Honest(req[r], r \in wrote, wire[r])
  BY DEF HomeInv, HomeTypeOK, CurrentInv, HonestInv
<1>2. /\ noted' = link.epoch
      /\ req' = [r \in HomeRequest |-> IF r \in Home!Active THEN Home!Answered(req[r], "unknown") ELSE req[r]]
      /\ UNCHANGED <<net, link, lock, number, granted, displayed, fresh, wire, wrote>>
  BY DEF Home!SeeConnection, Home!bookVars
<1>3. ASSUME NEW r \in HomeRequest
      PROVE  /\ req'[r] \in Asked /\ Honest(req'[r], r \in wrote', wire'[r])
             /\ Current(req'[r], link'.epoch, lock'.rev, number'.rev, noted')
  <2>1. CASE r \in Home!Active
    <3>1. req[r] \in Asked /\ req[r].at \notin {"none", "done"} /\ "unknown" \in Outcome \ {"none", "twice"}
      BY <1>1, <2>1 DEF Home!Active, Home!Running, Outcome
    <3>2. ASSUME NEW w, NEW b, NEW e, NEW l, NEW n, NEW s, Honest(req[r], w, b)
          PROVE  /\ Home!Answered(req[r], "unknown") \in Asked
                 /\ Honest(Home!Answered(req[r], "unknown"), w, b)
                 /\ Current(Home!Answered(req[r], "unknown"), e, l, n, s)
      BY <3>1, <3>2, Answers
    <3> QED
      BY <1>1, <1>2, <2>1, <3>2
  <2>2. CASE r \notin Home!Active
    <3>1. req'[r] = req[r] /\ req[r].at \notin Home!Running
      BY <1>2, <2>2 DEF Home!Active
    <3> QED
      BY <1>1, <1>2, <3>1 DEF Current
  <2> QED
    BY <2>1, <2>2
<1>4. req' \in [HomeRequest -> Asked]
  BY <1>2, <1>3
<1>5. HomeTypeOK' /\ ShownInv'
  BY <1>1, <1>2, <1>4 DEF HomeInv, HomeTypeOK, ShownInv
<1> QED
  BY <1>3, <1>5 DEF HomeInv, CurrentInv, HonestInv

\* The end of a command, and the end of one that was refused for its token.
LEMMA EndsKeep ==
    ASSUME HomeInv, NEW r \in HomeRequest, req[r].at \in Home!Running,
           (\E ok \in BOOLEAN : Home!Finish(r, ok)) \/ Home!FinishDenied(r)
    PROVE  HomeInv'
<1>1. /\ net \in {"session", "backoff", "parked", "over"}
      /\ wire \in [HomeRequest -> {"none", "held", "sent", "aborted"}] /\ wrote \subseteq HomeRequest
  BY DEF HomeInv, HomeTypeOK
<1>2. ASSUME NEW ok \in BOOLEAN, Home!Finish(r, ok) PROVE HomeInv'
  <2>1. /\ req' = Home!Finished(r, ok)
        /\ UNCHANGED <<net, link, lock, number, granted, displayed, fresh, noted, wire, wrote>>
    BY <1>2 DEF Home!Finish, Home!bookVars
  <2>2. PICK x \in Asked : /\ Home!Finished(r, ok) = [req EXCEPT ![r] = x]
                           /\ Current(x, link.epoch, lock.rev, number.rev, noted)
                           /\ Honest(x, r \in wrote, wire[r])
    BY Finishing
  <2>3. Honest(x, r \in wrote', wire'[r])
    BY <2>1, <2>2 DEF Honest
  <2> QED
    BY <1>1, <2>1, <2>2, <2>3, Changing
<1>3. CASE Home!FinishDenied(r)
  <2>1. /\ Home!Forgotten(1) /\ Home!Connection("rejected", Home!Finished(r, FALSE)) /\ "rejected" \in Phase
        /\ UNCHANGED <<net, displayed, noted, wire, wrote>>
    BY <1>3 DEF Home!FinishDenied, Phase
  <2>2. HomeTypeOK
    BY DEF HomeInv
  <2>3. /\ Home!Finished(r, FALSE) \in [HomeRequest -> Asked]
        /\ \A o \in HomeRequest :
              /\ Current(Home!Finished(r, FALSE)[o], link.epoch, lock.rev, number.rev, noted)
              /\ Honest(Home!Finished(r, FALSE)[o], o \in wrote, wire[o])
    BY Finishing
  <2> DEFINE reqs == Home!Finished(r, FALSE)
  <2> HIDE DEF reqs
  <2>4. /\ reqs \in [HomeRequest -> Asked] /\ Home!Connection("rejected", reqs)
        /\ \A o \in HomeRequest : Current(reqs[o], link.epoch, lock.rev, number.rev, noted)
                                   /\ Honest(reqs[o], o \in wrote, wire[o])
    BY <2>1, <2>3 DEF reqs
  <2> QED
    BY <1>1, <2>1, <2>2, <2>4, Forgetting, Connects
<1> QED
  BY <1>2, <1>3

\* An answer without a service call, from outside the service.
LEMMA RefusesKeep ==
    ASSUME HomeInv, NEW r \in HomeRequest, req[r].at \in Home!Running \cup {"queued"},
           NEW answer \in Outcome \ {"none", "twice"},
           answer \in {"unavailable", "timeout", "overloaded"} => req[r].at = "queued",
           Home!Answer(r, answer),
           UNCHANGED <<net, link, lock, number, granted, displayed, fresh, noted, wire, wrote>>
    PROVE  HomeInv'
<1>1. /\ req \in [HomeRequest -> Asked] /\ req[r] \in Asked
      /\ wire \in [HomeRequest -> {"none", "held", "sent", "aborted"}] /\ wrote \subseteq HomeRequest
      /\ Honest(req[r], r \in wrote, wire[r])
  BY DEF HomeInv, HomeTypeOK, HonestInv
<1> DEFINE x == Home!Answered(req[r], answer)
<1>2. req[r].at = "queued" => r \notin wrote
  BY <1>1 DEF Honest
<1>3. x \in Asked /\ Honest(x, r \in wrote, wire[r]) /\ Current(x, link.epoch, lock.rev, number.rev, noted)
  <2>1. req[r].at \notin {"none", "done"}
    BY DEF Home!Running
  <2>2. ASSUME NEW w, NEW b, Honest(req[r], w, b), answer \in {"unavailable", "timeout", "overloaded"} => ~w
        PROVE  x \in Asked /\ Honest(x, w, b) /\ Current(x, link.epoch, lock.rev, number.rev, noted)
    BY <1>1, <2>1, <2>2, Answers
  <2> QED
    BY <1>1, <1>2, <2>2
<1>4. req' = [req EXCEPT ![r] = x]
  BY <1>1 DEF Home!Answer
<1> HIDE DEF x
<1>5. Honest(x, r \in wrote', wire'[r])
  BY <1>3 DEF Honest
<1> QED
  BY <1>1, <1>3, <1>4, <1>5, Changing

\* What is admitted refers to what is granted now, and nothing has touched that.
LEMMA Admitted ==
    ASSUME HomeInv, NEW r \in HomeRequest, req[r].at = "queued", noted = link.epoch,
           Home!Refusal(req[r]) = "none"
    PROVE  ~req[r].stale
<1>1. /\ req[r] \in Asked /\ link \in [epoch : Nat, phase : Phase] /\ number.rev \in Nat /\ lock.rev \in Nat
      /\ Current(req[r], link.epoch, lock.rev, number.rev, noted) /\ Honest(req[r], r \in wrote, wire[r])
  BY DEF HomeInv, HomeTypeOK, CurrentInv, HonestInv
<1>2. req[r].kind \in Home!Kind /\ req[r].stale \in BOOLEAN
  BY <1>1 DEF Honest, Asked
<1>3. req[r].received = noted /\ Home!Eligible(req[r].kind, req[r].token)
  <2>1. req[r].late \in BOOLEAN
    BY <1>1 DEF Asked
  <2> QED
    BY <2>1 DEF Home!Refusal
<1>4. CASE req[r].kind = "lock"
  <2>1. req[r].token = <<link.epoch, lock.rev>>
    BY <1>3, <1>4 DEF Home!Eligible, Home!Grants, Home!Kind, Home!LockToken
  <2> QED
    BY <1>1, <1>4, <2>1 DEF Current, Known
<1>5. CASE req[r].kind = "number"
  <2>1. req[r].token = <<number.rev>>
    BY <1>3, <1>5 DEF Home!Eligible, Home!Grants, Home!Kind, Home!NumberToken
  <2> QED
    BY <1>1, <1>5, <2>1 DEF Current, Known
<1>6. CASE req[r].kind = "toggle"
  BY <1>1, <1>3, <1>6 DEF Current
<1> QED
  BY <1>2, <1>4, <1>5, <1>6 DEF Home!Kind

\* Admission: refused, posted or read first.
LEMMA AdmitKeeps ==
    ASSUME HomeInv, NEW r \in HomeRequest, Home!Admit(r)
    PROVE  HomeInv'
<1>1. /\ req \in [HomeRequest -> Asked] /\ req[r] \in Asked
      /\ link \in [epoch : Nat, phase : Phase] /\ lock.rev \in Nat
      /\ wire \in [HomeRequest -> {"none", "held", "sent", "aborted"}] /\ wrote \subseteq HomeRequest
      /\ Honest(req[r], r \in wrote, wire[r])
  BY DEF HomeInv, HomeTypeOK, HonestInv
<1>2. /\ req[r].at = "queued" /\ noted = link.epoch
      /\ UNCHANGED <<net, link, lock, number, granted, displayed, fresh, noted, wire>>
  BY DEF Home!Admit, Home!Ready, Home!bookVars
<1>3. CASE Home!Refusal(req[r]) # "none"
  <2> DEFINE no == Home!Refusal(req[r])
  <2>1. no \in {"timeout", "unavailable", "overloaded"}
    BY <1>3 DEF Home!Refusal
  <2>2. Home!Answer(r, no) /\ UNCHANGED wrote
    BY <1>3 DEF Home!Admit
  <2> HIDE DEF no
  <2> QED
    BY <1>2, <2>1, <2>2, RefusesKeep DEF Outcome
<1>4. CASE Home!Refusal(req[r]) = "none"
  <2>1. ~req[r].stale
    BY <1>2, <1>4, Admitted
  <2> DEFINE y == [req[r] EXCEPT !.epoch = link.epoch, !.rev = lock.rev, !.eligible = TRUE]
  <2>2. /\ y \in Asked /\ y.epoch = link.epoch /\ y.rev = lock.rev /\ y.stale = req[r].stale
        /\ y.kind = req[r].kind /\ y.answer = req[r].answer
    BY <1>1 DEF Asked
  <2>3. CASE req[r].kind = "number"
    <3> DEFINE x == [y EXCEPT !.at = "posted", !.submitted = TRUE]
    <3>1. req' = [req EXCEPT ![r] = x] /\ wrote' = wrote \cup {r}
      BY <1>4, <2>3 DEF Home!Admit
    <3> HIDE DEF y
    <3>2. /\ x \in Asked /\ x.at = "posted" /\ x.submitted = TRUE /\ x.epoch = y.epoch /\ x.rev = y.rev
          /\ x.stale = y.stale /\ x.kind = y.kind /\ x.answer = y.answer
      BY <2>2 DEF Asked, Stage
    <3> HIDE DEF x
    <3>3. Current(x, link.epoch, lock.rev, number.rev, noted)
      BY <1>1, <1>2, <2>1, <2>2, <3>2 DEF Current
    <3>4. Honest(x, r \in wrote', wire'[r])
      BY <1>1, <1>2, <2>2, <3>1, <3>2 DEF Honest
    <3> QED
      BY <1>1, <1>2, <3>1, <3>2, <3>3, <3>4, Changing
  <2>4. CASE req[r].kind # "number"
    <3> DEFINE x == [y EXCEPT !.at = "read"]
    <3>1. req' = [req EXCEPT ![r] = x] /\ wrote' = wrote
      BY <1>4, <2>4 DEF Home!Admit
    <3> HIDE DEF y
    <3>2. /\ x \in Asked /\ x.at = "read" /\ x.epoch = y.epoch /\ x.rev = y.rev
          /\ x.stale = y.stale /\ x.kind = y.kind /\ x.answer = y.answer
      BY <2>2 DEF Asked, Stage
    <3> HIDE DEF x
    <3>3. Current(x, link.epoch, lock.rev, number.rev, noted)
      BY <1>1, <1>2, <2>1, <2>2, <3>2 DEF Current
    <3>4. Honest(x, r \in wrote', wire'[r])
      BY <1>1, <1>2, <2>2, <2>4, <3>1, <3>2 DEF Honest
    <3> QED
      BY <1>1, <1>2, <3>1, <3>2, <3>3, <3>4, Changing
  <2> QED
    BY <2>3, <2>4
<1> QED
  BY <1>3, <1>4

\* One request goes on to another stage, its service call perhaps released.
LEMMA MovingOn ==
    ASSUME HomeInv, NEW r \in HomeRequest, req[r].at \in Home!Running, NEW x \in Asked,
           req' = [req EXCEPT ![r] = x], x.at \in Home!Running \ {"read"},
           x.kind = req[r].kind, x.epoch = req[r].epoch, x.rev = req[r].rev, x.stale = req[r].stale,
           x.answer = req[r].answer, req[r].submitted => x.submitted,
           wrote' = wrote \/ (wrote' = wrote \cup {r} /\ x.submitted),
           \E w \in {"none", "held", "sent", "aborted"} :
               wire' = [wire EXCEPT ![r] = w] /\ (w = "held" => x.kind = "lock" /\ x.at = "posted"),
           UNCHANGED <<net, link, lock, number, granted, displayed, fresh, noted>>
    PROVE  HomeInv'
<1>1. /\ req \in [HomeRequest -> Asked]
      /\ wire \in [HomeRequest -> {"none", "held", "sent", "aborted"}] /\ wrote \subseteq HomeRequest
      /\ Current(req[r], link.epoch, lock.rev, number.rev, noted) /\ Honest(req[r], r \in wrote, wire[r])
  BY DEF HomeInv, HomeTypeOK, CurrentInv, HonestInv
<1>2. /\ wire' \in [HomeRequest -> {"none", "held", "sent", "aborted"}] /\ wrote' \subseteq HomeRequest
      /\ \A o \in HomeRequest : o # r => (o \in wrote' <=> o \in wrote) /\ wire'[o] = wire[o]
      /\ r \in wrote' => r \in wrote \/ x.submitted
      /\ wire'[r] = "held" => x.kind = "lock" /\ x.at = "posted"
  BY <1>1
<1>3. Current(x, link.epoch, lock.rev, number.rev, noted)
  BY <1>1 DEF Current, Home!Running
<1>4. Honest(x, r \in wrote', wire'[r])
  BY <1>1, <1>2 DEF Honest, Home!Running
<1> QED
  BY <1>2, <1>3, <1>4, Changing

\* The fresh read of a toggle or a lock command ended.
LEMMA ReadsKeep ==
    ASSUME HomeInv, NEW r \in HomeRequest,
           \/ \E state \in {"locked", "unlocked", "jammed"} : Home!ReadState(r, state)
           \/ \E denied \in BOOLEAN : Home!ReadFails(r, denied)
    PROVE  HomeInv'
<1>1. /\ HomeTypeOK /\ ShownInv /\ req \in [HomeRequest -> Asked] /\ req[r] \in Asked
      /\ lock \in [state : {"none", "locked", "unlocked", "jammed"}, rev : Nat]
      /\ link.epoch \in Nat /\ number.rev \in Nat
      /\ wire \in [HomeRequest -> {"none", "held", "sent", "aborted"}] /\ wrote \subseteq HomeRequest
      /\ Honest(req[r], r \in wrote, wire[r])
  BY DEF HomeInv, HomeTypeOK, HonestInv
<1>2. req[r].at = "read"
  BY DEF Home!ReadState, Home!ReadFails
<1>3. req[r].at \in Home!Running /\ req[r].kind \in {"lock", "toggle"} /\ req[r].answer = "none"
  BY <1>1, <1>2 DEF Honest, Home!Running, Home!Kind
<1>4. ASSUME NEW ok \in BOOLEAN, Home!Finish(r, ok) PROVE HomeInv'
  BY <1>3, <1>4, EndsKeep
<1>5. ASSUME NEW denied \in BOOLEAN, Home!ReadFails(r, denied) PROVE HomeInv'
  BY <1>3, <1>4, <1>5, EndsKeep DEF Home!ReadFails
<1>6. ASSUME NEW state \in {"locked", "unlocked", "jammed"}, Home!ReadState(r, state) PROVE HomeInv'
  <2>1. CASE req[r].kind = "toggle" /\ ~req[r].late
    <3> DEFINE x == [req[r] EXCEPT !.at = "posted", !.submitted = TRUE]
    <3>1. /\ req' = [req EXCEPT ![r] = x] /\ wrote' = wrote \cup {r} /\ wire' = wire
          /\ UNCHANGED <<net, link, lock, number, granted, displayed, fresh, noted>>
      BY <1>1, <1>6, <2>1 DEF Home!ReadState, Home!bookVars
    <3>2. /\ x \in Asked /\ x.at = "posted" /\ x.submitted = TRUE /\ x.kind = req[r].kind /\ x.epoch = req[r].epoch
          /\ x.rev = req[r].rev /\ x.stale = req[r].stale /\ x.answer = req[r].answer
      BY <1>1 DEF Asked, Stage
    <3> HIDE DEF x
    <3>3. /\ wire' = [wire EXCEPT ![r] = wire[r]] /\ wire[r] \in {"none", "held", "sent", "aborted"}
          /\ wire[r] # "held"
      BY <1>1, <1>2, <3>1 DEF Honest
    <3>4. x.at \in Home!Running \ {"read"}
      BY <3>2 DEF Home!Running
    <3> QED
      BY <1>3, <3>1, <3>2, <3>3, <3>4, MovingOn
  <2>2. CASE req[r].kind = "toggle" /\ req[r].late
    BY <1>4, <1>6, <2>2 DEF Home!ReadState
  <2>3. CASE req[r].kind = "lock" /\ (state = "jammed" \/ link.epoch # req[r].epoch \/ ~Home!LockRevisionIs(req[r].rev))
    BY <1>4, <1>6, <2>3 DEF Home!ReadState
  <2>4. CASE /\ req[r].kind = "lock" /\ state = Home!Target
             /\ ~(state = "jammed" \/ link.epoch # req[r].epoch \/ ~Home!LockRevisionIs(req[r].rev))
    <3> DEFINE reqs == Home!Finished(r, TRUE)
               kinds == {"lock"}
    <3>1. /\ lock' = [state |-> state, rev |-> lock.rev + 1] /\ req' = Home!Touch(reqs, kinds)
          /\ fresh' = fresh \ kinds
          /\ UNCHANGED <<net, link, number, granted, displayed, noted, wire, wrote>>
      BY <1>6, <2>4 DEF Home!ReadState, Home!SeeLock
    <3>2. lock' \in [state : {"none", "locked", "unlocked", "jammed"}, rev : Nat] /\ lock'.rev = lock.rev + 1
      BY <1>1, <3>1
    <3>3. Passes(kinds)
      BY <1>1, <3>1, <3>2 DEF Passes
    <3>4. /\ reqs \in [HomeRequest -> Asked]
          /\ \A o \in HomeRequest : Current(reqs[o], link.epoch, lock.rev, number.rev, noted)
          /\ \A o \in HomeRequest : Honest(reqs[o], o \in wrote, wire[o])
      BY <1>3, Finishing
    <3> HIDE DEF reqs, kinds
    <3>5. CurrentInv' /\ HonestInv' /\ ShownInv' /\ req' \in [HomeRequest -> Asked]
      BY <1>1, <3>1, <3>3, <3>4, Passing
    <3>6. HomeTypeOK'
      BY <1>1, <3>1, <3>2, <3>5 DEF HomeTypeOK
    <3> QED
      BY <3>5, <3>6 DEF HomeInv
  <2>5. CASE /\ req[r].kind = "lock" /\ state # Home!Target
             /\ ~(state = "jammed" \/ link.epoch # req[r].epoch \/ ~Home!LockRevisionIs(req[r].rev))
    <3> DEFINE x == [req[r] EXCEPT !.at = "posted"]
    <3>1. /\ req' = [req EXCEPT ![r] = x] /\ wrote' = wrote /\ wire' = [wire EXCEPT ![r] = "held"]
          /\ UNCHANGED <<net, link, lock, number, granted, displayed, fresh, noted>>
      BY <1>1, <1>6, <2>5 DEF Home!ReadState, Home!bookVars
    <3>2. /\ x \in Asked /\ x.at = "posted" /\ x.submitted = req[r].submitted /\ x.kind = req[r].kind
          /\ x.epoch = req[r].epoch /\ x.rev = req[r].rev /\ x.stale = req[r].stale /\ x.answer = req[r].answer
      BY <1>1 DEF Asked, Stage
    <3> HIDE DEF x
    <3>3. x.at \in Home!Running \ {"read"}
      BY <3>2 DEF Home!Running
    <3> QED
      BY <1>3, <2>5, <3>1, <3>2, <3>3, MovingOn
  <2> QED
    BY <1>3, <2>1, <2>2, <2>3, <2>4, <2>5
<1> QED
  BY <1>5, <1>6

\* A permit is used only while it is held by a command that nothing has touched.
LEMMA Permitted ==
    ASSUME HomeInv, NEW r \in HomeRequest, wire[r] = "held", Home!BodyAllowed(req[r])
    PROVE  req[r].at = "posted" /\ req[r].kind = "lock" /\ ~req[r].stale
<1>1. /\ link.epoch \in Nat /\ lock.rev \in Nat /\ req[r] \in Asked
      /\ Current(req[r], link.epoch, lock.rev, number.rev, noted) /\ Honest(req[r], r \in wrote, wire[r])
  BY DEF HomeInv, HomeTypeOK, CurrentInv, HonestInv
<1>2. req[r].eligible /\ link.epoch = req[r].epoch /\ lock.rev = req[r].rev
  BY DEF Home!BodyAllowed, Home!LockRevisionIs
<1>3. req[r].at = "posted" /\ req[r].kind = "lock"
  BY <1>1, <1>2 DEF Honest
<1>4. req[r].stale \in BOOLEAN
  BY <1>1 DEF Asked
<1> QED
  BY <1>1, <1>2, <1>3, <1>4 DEF Current, Home!Running

\* The service call, its response and what follows.
LEMMA CallsKeep ==
    ASSUME HomeInv, NEW r \in HomeRequest,
           \/ Home!PollBody(r) \/ Home!Confirm(r) \/ Home!Timeout(r) \/ Home!Cancel(r)
           \/ \E result \in {"ok", "fail", "denied"} : Home!Responds(r, result)
    PROVE  HomeInv'
<1>1. /\ req \in [HomeRequest -> Asked] /\ req[r] \in Asked
      /\ wire \in [HomeRequest -> {"none", "held", "sent", "aborted"}] /\ wrote \subseteq HomeRequest
      /\ Honest(req[r], r \in wrote, wire[r])
  BY DEF HomeInv, HomeTypeOK, HonestInv
<1>2. ASSUME NEW ok \in BOOLEAN, Home!Finish(r, ok), req[r].at \in Home!Running PROVE HomeInv'
  BY <1>2, EndsKeep
<1>3. CASE Home!PollBody(r) /\ Home!BodyAllowed(req[r])
  <2> DEFINE x == [req[r] EXCEPT !.submitted = TRUE]
  <2>1. /\ wire[r] = "held" /\ req' = [req EXCEPT ![r] = x]
        /\ wrote' = wrote \cup {r} /\ wire' = [wire EXCEPT ![r] = "sent"]
        /\ UNCHANGED <<net, link, lock, number, granted, displayed, fresh, noted>>
    BY <1>1, <1>3 DEF Home!PollBody, Home!bookVars
  <2>2. req[r].at = "posted"
    BY <1>3, <2>1, Permitted
  <2>3. /\ x \in Asked /\ x.at = "posted" /\ x.submitted = TRUE /\ x.kind = req[r].kind
        /\ x.epoch = req[r].epoch /\ x.rev = req[r].rev /\ x.stale = req[r].stale /\ x.answer = req[r].answer
    BY <1>1, <2>2 DEF Asked
  <2> HIDE DEF x
  <2>4. x.at \in Home!Running \ {"read"} /\ req[r].at \in Home!Running
    BY <2>2, <2>3 DEF Home!Running
  <2> QED
    BY <2>1, <2>3, <2>4, MovingOn
<1>4. CASE Home!PollBody(r) /\ ~Home!BodyAllowed(req[r])
  <2>1. /\ req' = req /\ wrote' = wrote /\ wire' = [wire EXCEPT ![r] = "aborted"]
        /\ UNCHANGED <<net, link, lock, number, granted, displayed, fresh, noted>>
    BY <1>4 DEF Home!PollBody, Home!bookVars
  <2>2. req' = [req EXCEPT ![r] = req[r]]
    BY <1>1, <2>1
  <2>3. Honest(req[r], r \in wrote', wire'[r])
    BY <1>1, <2>1 DEF Honest
  <2>4. wire' \in [HomeRequest -> {"none", "held", "sent", "aborted"}] /\ \A o \in HomeRequest : o # r => wire'[o] = wire[o]
    BY <1>1, <2>1
  <2>5. Current(req[r], link.epoch, lock.rev, number.rev, noted)
    BY DEF HomeInv, CurrentInv
  <2> QED
    BY <1>1, <2>1, <2>2, <2>3, <2>4, <2>5, Changing
<1>5. CASE Home!Confirm(r)
  BY <1>2, <1>5 DEF Home!Confirm, Home!Running
<1>6. CASE Home!Timeout(r)
  BY <1>2, <1>6 DEF Home!Timeout
<1>7. CASE Home!Cancel(r)
  <2>1. /\ req[r].at \in Home!Running /\ Home!Answer(r, "unknown") /\ "unknown" \in Outcome \ {"none", "twice"}
        /\ UNCHANGED <<net, link, lock, number, granted, displayed, fresh, noted, wire, wrote>>
    BY <1>7 DEF Home!Cancel, Home!Active, Home!bookVars, Outcome
  <2> QED
    BY <2>1, RefusesKeep
<1>8. ASSUME NEW result \in {"ok", "fail", "denied"}, Home!Responds(r, result) PROVE HomeInv'
  <2>1. req[r].at = "posted" /\ req[r].at \in Home!Running
    BY <1>8 DEF Home!Responds, Home!Running
  <2>2. CASE result = "denied"
    BY <1>8, <2>1, <2>2, EndsKeep DEF Home!Responds
  <2>3. CASE result = "fail" \/ (result = "ok" /\ req[r].kind # "lock")
    BY <1>2, <1>8, <2>1, <2>3 DEF Home!Responds
  <2>4. CASE result = "ok" /\ req[r].kind = "lock"
    <3> DEFINE x == [req[r] EXCEPT !.at = "confirm"]
    <3>1. /\ wire[r] = "sent" /\ req' = [req EXCEPT ![r] = x] /\ wrote' = wrote /\ wire' = wire
          /\ UNCHANGED <<net, link, lock, number, granted, displayed, fresh, noted>>
      BY <1>1, <1>8, <2>4 DEF Home!Responds, Home!bookVars
    <3>2. /\ x \in Asked /\ x.at = "confirm" /\ x.submitted = req[r].submitted /\ x.kind = req[r].kind
          /\ x.epoch = req[r].epoch /\ x.rev = req[r].rev /\ x.stale = req[r].stale /\ x.answer = req[r].answer
      BY <1>1 DEF Asked, Stage
    <3> HIDE DEF x
    <3>3. wire' = [wire EXCEPT ![r] = "sent"] /\ x.at \in Home!Running \ {"read"}
      BY <1>1, <3>1, <3>2 DEF Home!Running
    <3> QED
      BY <2>1, <3>1, <3>2, <3>3, MovingOn
  <2> QED
    BY <2>2, <2>3, <2>4
<1> QED
  BY <1>3, <1>4, <1>5, <1>6, <1>7, <1>8

\* The process ends: the host answers for what is lost with it.
LEMMA ExitKeeps ==
    ASSUME HomeInv, Home!Exit
    PROVE  HomeInv'
<1>1. /\ req \in [HomeRequest -> Asked] /\ link \in [epoch : Nat, phase : Phase]
      /\ wire \in [HomeRequest -> {"none", "held", "sent", "aborted"}] /\ wrote \subseteq HomeRequest
      /\ \A r \in HomeRequest : Honest(req[r], r \in wrote, wire[r])
      /\ \A r \in HomeRequest : Current(req[r], link.epoch, lock.rev, number.rev, noted)
  BY DEF HomeInv, HomeTypeOK, CurrentInv, HonestInv
<1>2. /\ req' = [r \in HomeRequest |-> IF req[r].at \in {"none", "done"} THEN req[r] ELSE Home!Answered(req[r], "lost")]
      /\ wire' = [r \in HomeRequest |-> IF wire[r] = "held" THEN "aborted" ELSE wire[r]]
      /\ net' = "over" /\ lock' = [state |-> "none", rev |-> 0] /\ number' = [bounds |-> 0, rev |-> 0]
      /\ granted' = Home!NoGrants /\ displayed' = Home!NoGrants /\ fresh' = {} /\ noted' = link.epoch
      /\ UNCHANGED <<link, wrote>>
  BY DEF Home!Exit
<1>3. ASSUME NEW r \in HomeRequest
      PROVE  /\ req'[r] \in Asked /\ Honest(req'[r], r \in wrote', wire'[r])
             /\ Current(req'[r], link'.epoch, lock'.rev, number'.rev, noted')
  <2>1. wire'[r] = wire[r] \/ wire'[r] = "aborted"
    BY <1>2
  <2>2. ASSUME NEW x, NEW w, Honest(x, w, wire[r]) PROVE Honest(x, w, wire'[r])
    BY <2>1, <2>2 DEF Honest
  <2>3. CASE req[r].at \in {"none", "done"}
    <3>1. req'[r] = req[r]
      BY <1>2, <2>3
    <3>2. Honest(req[r], r \in wrote', wire[r])
      BY <1>1, <1>2 DEF Honest
    <3> QED
      BY <1>1, <2>2, <2>3, <3>1, <3>2 DEF Current, Home!Running
  <2>4. CASE req[r].at \notin {"none", "done"}
    <3>1. req[r] \in Asked /\ "lost" \in Outcome \ {"none", "twice"}
      BY <1>1 DEF Outcome
    <3>2. ASSUME NEW w, NEW b, NEW e, NEW l, NEW n, NEW s, Honest(req[r], w, b)
          PROVE  /\ Home!Answered(req[r], "lost") \in Asked
                 /\ Honest(Home!Answered(req[r], "lost"), w, b)
                 /\ Current(Home!Answered(req[r], "lost"), e, l, n, s)
      BY <2>4, <3>1, <3>2, Answers
    <3>3. req'[r] = Home!Answered(req[r], "lost")
      BY <1>2, <2>4
    <3>4. Honest(req[r], r \in wrote', wire'[r])
      BY <1>1, <1>2, <2>2 DEF Honest
    <3> QED
      BY <3>2, <3>3, <3>4
  <2> QED
    BY <2>3, <2>4
<1>4. req' \in [HomeRequest -> Asked] /\ wire' \in [HomeRequest -> {"none", "held", "sent", "aborted"}]
  BY <1>1, <1>2, <1>3
<1>5. Home!NoGrants \in [Home!Kind -> Token]
  BY DEF Home!NoGrants, Home!NoGrant, Token
<1>6. HomeTypeOK'
  BY <1>1, <1>2, <1>4, <1>5 DEF HomeTypeOK
<1>7. ShownInv'
  BY <1>2 DEF ShownInv, Home!NoGrants
<1> QED
  BY <1>3, <1>6, <1>7 DEF HomeInv, CurrentInv, HonestInv

LEMMA HomeStarts ==
    ASSUME Home!Init
    PROVE  HomeInv
<1>1. /\ Home!NewRequest \in Asked /\ Home!NewRequest.at = "none" /\ Home!NewRequest.answer = "none"
  BY DEF Home!NewRequest, Asked, Stage, Outcome, Home!NoGrant, Token
<1>2. ASSUME NEW r \in HomeRequest
      PROVE  req[r] = Home!NewRequest /\ wire[r] = "none" /\ r \notin wrote
  BY DEF Home!Init
<1>3. CurrentInv
  BY <1>1, <1>2 DEF CurrentInv, Current, Home!Running
<1>4. HonestInv
  BY <1>1, <1>2 DEF HonestInv, Honest
<1>5. Home!NoGrants \in [Home!Kind -> Token]
  BY DEF Home!NoGrants, Home!NoGrant, Token
<1>6. HomeTypeOK
  <2> HIDE DEF Home!NewRequest, Asked
  <2>1. req \in [HomeRequest -> Asked] /\ wire \in [HomeRequest -> {"none", "held", "sent", "aborted"}]
    BY <1>1 DEF Home!Init
  <2> QED
    BY <1>5, <2>1 DEF Home!Init, HomeTypeOK, Phase
<1>7. ShownInv
  BY DEF ShownInv, Home!Init, Home!NoGrants
<1> QED
  BY <1>3, <1>4, <1>6, <1>7 DEF HomeInv

\* Nothing that is granted, shown, asked or admitted is newer than the world it refers to, and
\* what something has touched is older (actions.rs, state.rs and network.rs of the worker).
THEOREM HomeInvariance == Home!Spec => []HomeInv
<1>1. Home!Init => HomeInv
  BY HomeStarts
<1>2. HomeInv /\ [Home!Next]_(Home!vars) => HomeInv'
  <2> SUFFICES ASSUME HomeInv, [Home!Next]_(Home!vars) PROVE HomeInv'
    OBVIOUS
  <2>1. CASE \/ Home!Publish \/ Home!ObserveSwitch
             \/ \E state \in {"locked", "unlocked", "jammed"} : Home!ObserveLock(state)
             \/ \E bounds \in Home!Observation : Home!ObserveNumber(bounds)
    BY <2>1, BookKeeps
  <2>2. CASE Home!SessionConnected \/ Home!BackoffEnds \/ \E denied \in BOOLEAN : Home!SessionEnds(denied)
    BY <2>2, ConnectionKeeps
  <2>3. CASE Home!SeeConnection \/ Home!Exit
    BY <2>3, GivingUpKeeps, ExitKeeps
  <2>4. ASSUME NEW r \in HomeRequest,
               (\E kind \in Home!Kind : Home!Click(r, kind)) \/ Home!Receive(r) \/ Home!Expire(r)
        PROVE  HomeInv'
    BY <2>4, AsksKeep
  <2>5. ASSUME NEW r \in HomeRequest, Home!Handle(r) \/ Home!PollBody(r) \/ Home!Cancel(r) PROVE HomeInv'
    BY <2>5, AdmitKeeps, ReadsKeep, CallsKeep DEF Home!Handle
  <2>6. CASE UNCHANGED Home!vars
    BY <2>6 DEF Home!vars, HomeInv, HomeTypeOK, CurrentInv, HonestInv, ShownInv
  <2> QED
    BY <2>1, <2>2, <2>3, <2>4, <2>5, <2>6 DEF Home!Next
<1> QED
  BY <1>1, <1>2, PTL DEF Home!Spec

\* A service call is released only by a request that nothing has touched.
LEMMA Releases ==
    ASSUME HomeInv, [Home!Next]_(Home!vars), NEW r \in wrote' \ wrote
    PROVE  ~req[r].stale
<1>1. ASSUME NEW o \in HomeRequest, Home!Admit(o), r \in wrote' PROVE ~req[r].stale
  <2>1. Home!Refusal(req[o]) = "none" /\ wrote' = wrote \cup {o}
    BY <1>1 DEF Home!Admit
  <2>2. req[o].at = "queued" /\ noted = link.epoch
    BY <1>1 DEF Home!Admit, Home!Ready
  <2> QED
    BY <2>1, <2>2, Admitted
<1>2. ASSUME NEW o \in HomeRequest, NEW state, Home!ReadState(o, state) PROVE ~req[r].stale
  <2>1. req[o].at = "read" /\ noted = link.epoch /\ req[o].kind = "toggle" /\ r = o
    BY <1>2 DEF Home!ReadState, Home!Ready, Home!Finish, Home!SeeLock
  <2>2. /\ link.epoch \in Nat /\ req[o] \in Asked
        /\ Current(req[o], link.epoch, lock.rev, number.rev, noted)
    BY DEF HomeInv, HomeTypeOK, CurrentInv
  <2>3. req[o].stale \in BOOLEAN
    BY <2>2 DEF Asked
  <2> QED
    BY <2>1, <2>2, <2>3 DEF Current, Home!Running
<1>3. ASSUME NEW o \in HomeRequest, Home!PollBody(o) PROVE ~req[r].stale
  <2>1. wire[o] = "held" /\ Home!BodyAllowed(req[o]) /\ r = o
    BY <1>3 DEF Home!PollBody
  <2> QED
    BY <2>1, Permitted
<1>4. /\ Home!Publish \/ Home!SessionConnected \/ Home!BackoffEnds \/ Home!ObserveSwitch
         \/ Home!SeeConnection \/ Home!Exit => FALSE
      /\ \A denied \in BOOLEAN : Home!SessionEnds(denied) => FALSE
      /\ \A state \in {"locked", "unlocked", "jammed"} : Home!ObserveLock(state) => FALSE
      /\ \A bounds \in Home!Observation : Home!ObserveNumber(bounds) => FALSE
      /\ UNCHANGED Home!vars => FALSE
  BY DEF Home!Publish, Home!SessionConnected, Home!BackoffEnds, Home!ObserveSwitch, Home!SeeConnection,
         Home!Exit, Home!SessionEnds, Home!ObserveLock, Home!ObserveNumber, Home!vars
<1>5. ASSUME NEW o \in HomeRequest
      PROVE  /\ \A kind \in Home!Kind : Home!Click(o, kind) => FALSE
             /\ Home!Receive(o) \/ Home!Expire(o) \/ Home!Timeout(o) \/ Home!Confirm(o) \/ Home!Cancel(o) => FALSE
             /\ \A denied \in BOOLEAN : Home!ReadFails(o, denied) => FALSE
             /\ \A result \in {"ok", "fail", "denied"} : Home!Responds(o, result) => FALSE
  BY DEF Home!Click, Home!Receive, Home!Expire, Home!Timeout, Home!Confirm, Home!Cancel, Home!ReadFails,
         Home!Responds, Home!Finish, Home!FinishDenied
<1> QED
  BY <1>1, <1>2, <1>3, <1>4, <1>5 DEF Home!Next, Home!Handle

-----------------------------------------------------------------------------
(* The composition.                                                        *)

\* Seen through its own variables, it is an MqttClient (mqtt.rs).
LEMMA ClientSpec == LinksSpec => Spec
<1>1. LinksInit => Init
  BY DEF LinksInit
<1>2. [LinksNext]_<<focus, vars, linkVars, pathVars, homeVars>> => [Next]_vars
  BY DEF LinksNext
<1> QED
  BY <1>1, <1>2, PTL DEF LinksSpec, Spec

\* Of the composition too: no delivery after stop(), and the newest snapshot of a burst is
\* shown (mqtt.rs).
THEOREM LinksStream == LinksSpec => []StreamIsTrue
  BY ClientSpec, StreamTruth, PTL

\* Seen through its own variables, the composition is a TransportLink (useConnection.ts, lib.rs).
LEMMA LinkSpec == LinksSpec => Link!Spec
<1>1. LinksInit => Link!Init
  BY DEF LinksInit
<1>2. UNCHANGED linkVars => UNCHANGED Link!vars
  BY DEF linkVars, Link!worldVars, Link!cfgVars, Link!sessVars, Link!viewVars, Link!timerVars,
         Link!taskVars, Link!opVars, Link!nativeVars, Link!vars
<1>3. [LinksNext]_<<focus, vars, linkVars, pathVars, homeVars>> => [Link!Next]_(Link!vars)
  BY <1>2 DEF LinksNext
<1> QED
  BY <1>1, <1>3, PTL DEF LinksSpec, Link!Spec

\* Seen through its own variables, it is an ActionPath (runtime.rs, write_frames and supervise).
LEMMA PathSpec == LinksSpec => Path!Spec
<1>1. LinksInit => Path!Init
  BY DEF LinksInit
<1>2. UNCHANGED pathVars => UNCHANGED Path!vars
  BY DEF pathVars, Path!entryVars, Path!supVars, Path!offerVars, Path!pipeVars, Path!askVars,
         Path!callVars, Path!vars
<1>3. [LinksNext]_<<focus, vars, linkVars, pathVars, homeVars>> => [Path!Next]_(Path!vars)
  BY <1>2 DEF LinksNext
<1> QED
  BY <1>1, <1>3, PTL DEF LinksSpec, Path!Spec

\* No two clients feed the installation, and when no command is under way the front end
\* shows the transport that runs (useConnection.ts, the start and stop commands of lib.rs).
THEOREM LinksFeedOnce == LinksSpec => []OneTransport
  BY LinkSpec, LinksAssumption, Link!OneTransportAtATime, PTL DEF OneTransport

\* No event of a client that was replaced switches the light on (useConnection.ts, Receive).
THEOREM LinksLightIsLive == LinksSpec => ConnectedIsLive
  BY LinkSpec, LinksAssumption, Link!LightIsLive, PTL DEF ConnectedIsLive

\* No process reads a request made for its predecessor's dashboard, and nothing follows a
\* torn frame on its pipe (runtime.rs, write_frames and supervise).
THEOREM LinksPipesAreClean == LinksSpec => []PipesAreClean
  BY PathSpec, LinksAssumption, Path!CleanPipes, PTL DEF PipesAreClean

\* The first byte of a request goes out only with authority and a current lease
\* (runtime.rs, the check write_frames makes before it writes).
THEOREM LinksFirstByte == LinksSpec => FirstByteAuthorized
  BY PathSpec, LinksAssumption, Path!AuthorizedFirstBytes, PTL DEF FirstByteAuthorized

\* Seen through its own variables, the composition is HomeAssistantActions.
LEMMA HomeSpec == LinksSpec => Home!Spec
<1>1. LinksInit => Home!Init
  BY DEF LinksInit
<1>2. UNCHANGED homeVars => UNCHANGED Home!vars
  BY DEF homeVars, Home!vars
<1>3. [LinksNext]_<<focus, vars, linkVars, pathVars, homeVars>> => [Home!Next]_(Home!vars)
  BY <1>2 DEF LinksNext
<1> QED
  BY <1>1, <1>3, PTL DEF LinksSpec, Home!Spec

\* A service call is released only on a grant nothing has touched since the user saw it
\* (actions.rs, admission and guarded_lock_body).
THEOREM LinksWritesAreCurrent == LinksSpec => WritesAreCurrent
<1>1. HomeInv /\ [Home!Next]_(Home!vars) => [\A r \in wrote' \ wrote : ~req[r].stale]_(Home!vars)
  BY Releases
<1> QED
  BY <1>1, HomeSpec, HomeInvariance, PTL DEF Home!Spec, WritesAreCurrent, Home!WritesAreCurrent

\* A request is answered once, and truly when it says that nothing was submitted
\* (actions.rs, service: the permit is revoked before the answer).
THEOREM LinksAnswersAreTrue == LinksSpec => []AnswersAreTrue
<1>1. HomeInv => AnswersAreTrue
  BY DEF HomeInv, HonestInv, Honest, AnswersAreTrue, Home!AnswersAreTrue
<1> QED
  BY <1>1, HomeSpec, HomeInvariance, PTL

\* A rejected token is not tried again (network.rs, run: the rejection is polled first).
THEOREM LinksRejectionIsTerminal == LinksSpec => RejectionIsTerminal
<1>1. ASSUME HomeInv, [Home!Next]_(Home!vars), link.phase = "rejected" PROVE link'.phase = "rejected"
  <2>1. ASSUME NEW reqs, Home!Connection("rejected", reqs) PROVE link'.phase = "rejected"
    BY <2>1 DEF Home!Connection
  <2>2. CASE \/ Home!Publish \/ Home!ObserveSwitch \/ Home!SeeConnection \/ Home!Exit
             \/ \E state \in {"locked", "unlocked", "jammed"} : Home!ObserveLock(state)
             \/ \E bounds \in Home!Observation : Home!ObserveNumber(bounds)
    BY <1>1, <2>2 DEF Home!Publish, Home!ObserveSwitch, Home!SeeConnection, Home!Exit, Home!ObserveLock,
                      Home!ObserveNumber
  <2>3. CASE Home!SessionConnected \/ Home!BackoffEnds \/ \E denied \in BOOLEAN : Home!SessionEnds(denied)
    BY <1>1, <2>1, <2>3 DEF Home!SessionConnected, Home!BackoffEnds, Home!SessionEnds
  <2>4. ASSUME NEW r \in HomeRequest,
               \/ \E kind \in Home!Kind : Home!Click(r, kind)
               \/ Home!Receive(r) \/ Home!Expire(r) \/ Home!PollBody(r) \/ Home!Cancel(r)
               \/ Home!Admit(r) \/ Home!Timeout(r) \/ Home!Confirm(r)
        PROVE  link'.phase = "rejected"
    BY <1>1, <2>4 DEF Home!Click, Home!Receive, Home!Expire, Home!PollBody, Home!Cancel, Home!Admit, Home!Timeout,
                      Home!Confirm, Home!Finish
  <2>5. ASSUME NEW r \in HomeRequest,
               \/ \E state \in {"locked", "unlocked", "jammed"} : Home!ReadState(r, state)
               \/ \E denied \in BOOLEAN : Home!ReadFails(r, denied)
               \/ \E result \in {"ok", "fail", "denied"} : Home!Responds(r, result)
        PROVE  link'.phase = "rejected"
    BY <1>1, <2>1, <2>5 DEF Home!ReadState, Home!ReadFails, Home!Responds, Home!Finish, Home!FinishDenied
  <2>6. CASE UNCHANGED Home!vars
    BY <1>1, <2>6 DEF Home!vars
  <2> QED
    BY <1>1, <2>2, <2>3, <2>4, <2>5, <2>6 DEF Home!Next, Home!Handle
<1>2. HomeInv /\ [Home!Next]_(Home!vars) => [link.phase = "rejected" => link'.phase = "rejected"]_(Home!vars)
  BY <1>1
<1> QED
  BY <1>2, HomeSpec, HomeInvariance, PTL DEF Home!Spec, RejectionIsTerminal, Home!RejectionIsTerminal
=============================================================================
