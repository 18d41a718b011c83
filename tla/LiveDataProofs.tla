--------------------------- MODULE LiveDataProofs ---------------------------
(***************************************************************************)
(* Proofs about the live data of MCLiveData, for every value of its        *)
(* constants: the tiles of the dashboard (VictronState), the outcome told  *)
(* of a command (InverterCommands), the controls of the gateway            *)
(* (GatewaySnapshot), the banners of the alarms (VictronBanners), the      *)
(* entities of the home and the lists of choices made of them              *)
(* (HomeAssistantBook), and what workers may put in front of the user      *)
(* (WorkerNotices).                                                        *)
(*                                                                         *)
(* The parts share no variable, so the composition, seen through the       *)
(* variables of one of them, is that part: each proof is one about the     *)
(* part's own next-state relation.                                         *)
(***************************************************************************)
EXTENDS MCLiveData, TLAPS, FiniteSetTheorems, SequenceTheorems, WellFoundedInduction

-----------------------------------------------------------------------------
(* The commands of the inverter (InverterCommands) *)

\* Seen through its own variables, the composition is an InverterCommands.
LEMMA CommandSpec == Spec => Commands!Spec
<1>1. Init => Commands!Init
  BY DEF Init
<1>2. UNCHANGED commandVars <=> UNCHANGED Commands!vars
  BY DEF commandVars, Commands!vars
<1>3. [Next]_<<focus, stateVars, bannerVars, commandVars, gatewayVars, bookVars, noticeVars>>
      => [Commands!Next]_(Commands!vars)
  BY <1>2 DEF Next
<1> QED
  BY <1>1, <1>3, PTL DEF Spec, Commands!Spec

Places == {"idle", "start", "write", "confirm", "ok", "failed", "refused"}
Commanded == [at : Places, via : {"mqtt", "gateway", "none"}, session : Nat, kind : Commands!Kind, value : Commands!Value]
Message == [id : Request, kind : Commands!Kind, value : Commands!Value, via : {"mqtt", "gateway", "none"}]
Status == [value : Commands!Value, id : SUBSET (Request \cup {Other}), error : BOOLEAN]
CommandTypeOK ==
    /\ transport \in {"mqtt", "gateway", "none"} /\ session \in Nat
    /\ ctrl \in [up : BOOLEAN, flag : Commands!Value, status : Status]
    /\ inbox \in Seq(Message)
    /\ view \in [flag : SUBSET Commands!Value, status : SUBSET Status, ess : {"unknown", "live", "old", "retained"}]
    /\ req \in [Request -> Commanded]
    /\ writes \in [Request -> Nat]

\* A request is written in one step, from one place it does not come back to.
WriteInv ==
    \A r \in Request :
        /\ writes[r] <= 1
        /\ req[r].at \in {"idle", "start", "write", "refused"} => writes[r] = 0

\* What is on its way says what its request says.
OnItsWay(m) ==
    /\ writes[m.id] = 1 /\ m.kind = req[m.id].kind
    /\ m.kind = "override" => m.value = req[m.id].value
InboxInv == \A i \in 1 .. Len(inbox) : OnItsWay(inbox[i])

\* An answer to one of our requests is about the write of this request.
Truthful(s) ==
    \A r \in Request :
        s.id = {r} /\ ~s.error =>
            <<r, s.value>> \in applied /\ writes[r] = 1 /\ s.value = req[r].value
AnswerInv == Truthful(ctrl.status) /\ \A s \in view.status : Truthful(s)

CommandInv == CommandTypeOK /\ WriteInv /\ InboxInv /\ AnswerInv /\ Commands!ConfirmedMeansApplied

\* Goto changes the place of one request.
LEMMA Goes ==
    ASSUME req \in [Request -> Commanded], NEW r \in Request, NEW at \in Places, Commands!Goto(r, at)
    PROVE  /\ req' \in [Request -> Commanded]
           /\ \A s \in Request : /\ req'[s].kind = req[s].kind /\ req'[s].value = req[s].value
                                 /\ req'[s].at = IF s = r THEN at ELSE req[s].at
BY DEF Commands!Goto, Commanded, Places

\* A request begins at a guard of its entry point: refused, or to be prepared.
LEMMA Began ==
    ASSUME CommandTypeOK, NEW r \in Request, NEW kind \in Commands!Kind, NEW v \in Commands!Value,
           Commands!Begin(r, kind, v)
    PROVE  /\ req' \in [Request -> Commanded]
           /\ \A s \in Request : s # r => req'[s] = req[s]
           /\ req[r].at = "idle" /\ req'[r].at \in {"start", "refused"}
<1>1. req \in [Request -> Commanded] /\ transport \in {"mqtt", "gateway", "none"} /\ session \in Nat
  BY DEF CommandTypeOK
<1> QED
  BY <1>1 DEF Commands!Begin, Commanded, Places

\* The gateway's snapshot of the flag decides what a flip writes.
LEMMA Read ==
    ASSUME CommandTypeOK, NEW r \in Request, Commands!Snapshot(r)
    PROVE  /\ req' \in [Request -> Commanded]
           /\ \A s \in Request : s # r => req'[s] = req[s]
           /\ req[r].at = "start" /\ req'[r].at \in {"write", "refused"}
           /\ req'[r].kind = req[r].kind
<1>1. req \in [Request -> Commanded] /\ ctrl.flag \in Commands!Value
  BY DEF CommandTypeOK
<1>2. 1 - ctrl.flag \in Commands!Value
  BY <1>1 DEF Commands!Value
<1> QED
  BY <1>1, <1>2 DEF Commands!Snapshot, Commands!Goto, Commanded, Places

\* A write appends one message that says what the request says.
Wrote(r, v) ==
    /\ inbox' \in Seq(Message) /\ Len(inbox') = Len(inbox) + 1 /\ Len(inbox) \in Nat
    /\ \A i \in 1 .. Len(inbox) : inbox'[i] = inbox[i]
    /\ LET m == inbox'[Len(inbox')] IN m.id = r /\ m.kind = req[r].kind /\ m.value = v
    /\ writes' \in [Request -> Nat]
    /\ \A s \in Request : writes'[s] = IF s = r THEN writes[s] + 1 ELSE writes[s]
\* Queueing a write appends one message, and counts it for its request only.
LEMMA Writes ==
    ASSUME CommandTypeOK, NEW r \in Request, NEW v \in Commands!Value, Commands!Queued(r, v)
    PROVE  Wrote(r, v)
<1>1. req[r] \in Commanded /\ inbox \in Seq(Message) /\ writes \in [Request -> Nat]
  BY DEF CommandTypeOK
<1>2. [id |-> r, kind |-> req[r].kind, value |-> v, via |-> req[r].via] \in Message
  BY <1>1 DEF Commanded, Message
<1> QED
  BY <1>1, <1>2 DEF Commands!Queued, Wrote

\* Every step of a command keeps the types.
LEMMA CommandTypes == CommandTypeOK /\ [Commands!Next]_(Commands!vars) => CommandTypeOK'
<1> SUFFICES ASSUME CommandTypeOK, [Commands!Next]_(Commands!vars) PROVE CommandTypeOK'
  OBVIOUS
<1>0. /\ req \in [Request -> Commanded]
      /\ \A r \in Request : Commands!AfterWrite(r) \in Places
      /\ \A r \in Request : req[r].value \in Commands!Value /\ Commands!Published(r) \in Commands!Value
      /\ {"write", "refused", "failed", "ok", "confirm"} \subseteq Places
  BY DEF CommandTypeOK, Commanded, Places, Commands!AfterWrite, Commands!Published, Commands!Value
<1>1. ASSUME NEW r \in Request, NEW kind \in Commands!Kind, NEW v \in Commands!Value, Commands!Begin(r, kind, v)
      PROVE  CommandTypeOK'
  BY <1>1, Began DEF Commands!Begin, CommandTypeOK
<1>2. ASSUME NEW r \in Request, Commands!Snapshot(r) PROVE CommandTypeOK'
  BY <1>2, Read DEF Commands!Snapshot, CommandTypeOK
<1>3. ASSUME NEW r \in Request, Commands!NoSnapshot(r) PROVE CommandTypeOK'
  BY <1>3, <1>0, Goes DEF Commands!NoSnapshot, CommandTypeOK
<1>4. ASSUME NEW r \in Request, Commands!Post(r) PROVE CommandTypeOK'
  <2>1. req' \in [Request -> Commanded]
    BY <1>4, <1>0, Goes DEF Commands!Post
  <2>2. inbox' \in Seq(Message) /\ writes' \in [Request -> Nat]
    BY <1>4, <1>0, Writes DEF Wrote, Commands!Post, CommandTypeOK
  <2> QED
    BY <1>4, <2>1, <2>2 DEF Commands!Post, CommandTypeOK
<1>5. ASSUME NEW r \in Request, Commands!Confirm(r) PROVE CommandTypeOK'
  <2>1. Commands!Verdict(r, ctrl.status) \in Places
    BY DEF Commands!Verdict, Places
  <2>2. req' \in [Request -> Commanded]
    BY <1>5, <1>0, <2>1, Goes DEF Commands!Confirm
  <2> QED
    BY <1>5, <2>2 DEF Commands!Confirm, CommandTypeOK
<1>6. ASSUME NEW r \in Request, Commands!Deadline(r) PROVE CommandTypeOK'
  BY <1>6, <1>0, Goes DEF Commands!Deadline, CommandTypeOK
<1>7. ASSUME NEW r \in Request, Commands!Publish(r) PROVE CommandTypeOK'
  <2>1. req' \in [Request -> Commanded]
    BY <1>7, <1>0, Goes DEF Commands!Publish
  <2>2. inbox' \in Seq(Message) /\ writes' \in [Request -> Nat]
    BY <1>7, <1>0, Writes DEF Wrote, Commands!Publish, CommandTypeOK
  <2> QED
    BY <1>7, <2>1, <2>2 DEF Commands!Publish, CommandTypeOK
<1>8. ASSUME NEW r \in Request, Commands!ConfirmMqtt(r) PROVE CommandTypeOK'
  <2>2. req' \in [Request -> Commanded]
    BY <1>8, <1>0, Goes DEF Commands!ConfirmMqtt
  <2> QED
    BY <1>8, <2>2 DEF Commands!ConfirmMqtt, CommandTypeOK
<1>17. \A v \in Commands!Value, i \in Request \cup {Other}, e \in BOOLEAN :
          [value |-> v, id |-> {i}, error |-> e] \in Status
  BY DEF Status
<1>18. ctrl \in [up : BOOLEAN, flag : Commands!Value, status : Status] /\ ctrl.status.value \in Commands!Value
  BY DEF CommandTypeOK, Status
<1>9. CASE Commands!Execute
  <2>1. Head(inbox) \in Message /\ Tail(inbox) \in Seq(Message)
    BY <1>9 DEF Commands!Execute, CommandTypeOK
  <2>2. ctrl' \in [up : BOOLEAN, flag : Commands!Value, status : Status]
    <3> DEFINE c == Head(inbox)
    <3>1. PICK error \in BOOLEAN :
             ctrl' = CASE c.kind = "override" ->
                            [ctrl EXCEPT !.status = [value |-> IF error THEN @.value ELSE c.value,
                                                     id |-> {c.id}, error |-> error]]
                       [] c.kind \in {"toggle", "flip"} -> [ctrl EXCEPT !.flag = c.value]
                       [] OTHER -> ctrl
      BY <1>9 DEF Commands!Execute
    <3>2. c.id \in Request /\ c.value \in Commands!Value
      BY <2>1 DEF Message
    <3>3. CASE c.kind = "override"
      <4>1. [value |-> IF error THEN ctrl.status.value ELSE c.value, id |-> {c.id}, error |-> error] \in Status
        BY <1>17, <1>18, <3>2
      <4> QED
        BY <1>18, <3>1, <3>3, <4>1
    <3>4. CASE c.kind \in {"toggle", "flip"}
      BY <1>18, <3>1, <3>2, <3>4
    <3>5. CASE c.kind \notin {"override", "toggle", "flip"}
      BY <1>18, <3>1, <3>5
    <3> QED
      BY <3>3, <3>4, <3>5
  <2> QED
    BY <1>9, <2>1, <2>2 DEF Commands!Execute, CommandTypeOK
<1>10. CASE Commands!Lose
  BY <1>10 DEF Commands!Lose, CommandTypeOK
<1>11. CASE Commands!OtherClient
  <2>1. ctrl' \in [up : BOOLEAN, flag : Commands!Value, status : Status]
    BY <1>11, <1>17, <1>18 DEF Commands!OtherClient
  <2> QED
    BY <1>11, <2>1 DEF Commands!OtherClient, CommandTypeOK
<1>12. CASE Commands!Telemetry
  BY <1>12 DEF Commands!Telemetry, CommandTypeOK
<1>13. CASE Commands!EssExpires
  BY <1>13 DEF Commands!EssExpires, CommandTypeOK
<1>14. CASE Commands!PollOk \/ Commands!PollFails
  BY <1>14 DEF Commands!PollOk, Commands!PollFails, CommandTypeOK
<1>15. CASE Commands!Reconnect
  BY <1>15 DEF Commands!Reconnect, Commands!None, CommandTypeOK
<1>16. CASE UNCHANGED Commands!vars
  BY <1>16 DEF Commands!vars, CommandTypeOK
<1> QED
  BY <1>1, <1>2, <1>3, <1>4, <1>5, <1>6, <1>7, <1>8, <1>9, <1>10, <1>11, <1>12, <1>13, <1>14, <1>15, <1>16
     DEF Commands!Next

\* What the steps do to a request and its write.
Written ==
    \A r \in Request :
        /\ writes[r] <= writes'[r] /\ applied \subseteq applied'
        /\ writes[r] = 1 => /\ writes'[r] = 1
                            /\ req'[r].kind = req[r].kind /\ req'[r].value = req[r].value
        /\ req[r].at = "ok" => req'[r].at = "ok" /\ req'[r].kind = req[r].kind /\ req'[r].value = req[r].value

\* Every step writes a request at most once, in the step that leaves "start" or "write", and
\* what was written is never changed.
LEMMA WriteStep ==
    ASSUME CommandTypeOK, WriteInv, [Commands!Next]_(Commands!vars)
    PROVE  WriteInv' /\ Written
<1>0. /\ req \in [Request -> Commanded] /\ writes \in [Request -> Nat]
      /\ \A r \in Request : Commands!AfterWrite(r) \in {"confirm", "ok"}
      /\ {"write", "refused", "failed", "ok", "confirm"} \subseteq Places
      /\ \A r \in Request : req[r].value \in Commands!Value /\ Commands!Published(r) \in Commands!Value
  BY DEF CommandTypeOK, Commanded, Places, Commands!AfterWrite, Commands!Published, Commands!Value
<1> USE DEF WriteInv, Written
<1>1. ASSUME NEW r \in Request, NEW kind \in Commands!Kind, NEW v \in Commands!Value, Commands!Begin(r, kind, v)
      PROVE  WriteInv' /\ Written
  BY <1>0, <1>1, Began DEF Commands!Begin
<1>2. ASSUME NEW r \in Request, Commands!Snapshot(r) PROVE WriteInv' /\ Written
  BY <1>0, <1>2, Read DEF Commands!Snapshot
<1>3. ASSUME NEW r \in Request, Commands!NoSnapshot(r) PROVE WriteInv' /\ Written
  BY <1>0, <1>3, Goes DEF Commands!NoSnapshot
<1>11. ASSUME NEW r \in Request, NEW v \in Commands!Value, NEW at \in {"confirm", "ok", "failed"},
             Commands!Queued(r, v), Commands!Goto(r, at), req[r].at \in {"start", "write"}, applied' = applied
      PROVE  WriteInv' /\ Written
  <2>1. at \in Places
    BY DEF Places
  <2>2. \A s \in Request : /\ req'[s].kind = req[s].kind /\ req'[s].value = req[s].value
                          /\ req'[s].at = IF s = r THEN at ELSE req[s].at
    BY <1>0, <1>11, <2>1, Goes
  <2>3. /\ writes' \in [Request -> Nat] /\ writes[r] = 0
        /\ \A s \in Request : writes'[s] = IF s = r THEN writes[s] + 1 ELSE writes[s]
    BY <1>11, Writes DEF Wrote
  <2> QED
    BY <1>0, <1>11, <2>2, <2>3
<1>4. ASSUME NEW r \in Request, Commands!Post(r) PROVE WriteInv' /\ Written
  <2>1. req[r].at = "write" /\ applied' = applied
    BY <1>4 DEF Commands!Post
  <2>2. CASE Commands!Goto(r, "refused") /\ UNCHANGED <<inbox, writes>>
    BY <1>0, <2>1, <2>2, Goes
  <2>3. CASE Commands!Queued(r, req[r].value) /\ Commands!Goto(r, Commands!AfterWrite(r))
    BY <1>0, <1>11, <2>1, <2>3
  <2>4. CASE Commands!Queued(r, req[r].value) /\ Commands!Goto(r, "failed")
    BY <1>0, <1>11, <2>1, <2>4
  <2>5. CASE Commands!Goto(r, "failed") /\ UNCHANGED <<inbox, writes>>
    BY <1>0, <2>1, <2>5, Goes
  <2> QED
    BY <1>4, <2>2, <2>3, <2>4, <2>5 DEF Commands!Post
<1>5. ASSUME NEW r \in Request, Commands!Confirm(r) PROVE WriteInv' /\ Written
  <2>1. PICK at \in {"ok", "failed"} : Commands!Goto(r, at)
    BY <1>5 DEF Commands!Confirm, Commands!Verdict
  <2> QED
    BY <1>0, <1>5, <2>1, Goes DEF Commands!Confirm
<1>6. ASSUME NEW r \in Request, Commands!Deadline(r) PROVE WriteInv' /\ Written
  BY <1>0, <1>6, Goes DEF Commands!Deadline
<1>7. ASSUME NEW r \in Request, Commands!Publish(r) PROVE WriteInv' /\ Written
  <2>1. req[r].at = "start" /\ applied' = applied
    BY <1>7 DEF Commands!Publish
  <2>2. CASE Commands!Goto(r, "refused") /\ UNCHANGED <<inbox, writes>>
    BY <1>0, <2>1, <2>2, Goes
  <2>3. CASE Commands!Queued(r, Commands!Published(r)) /\ Commands!Goto(r, Commands!AfterWrite(r))
    BY <1>0, <1>11, <2>1, <2>3
  <2> QED
    BY <1>7, <2>2, <2>3 DEF Commands!Publish
<1>8. ASSUME NEW r \in Request, Commands!ConfirmMqtt(r) PROVE WriteInv' /\ Written
  <2>1. PICK at \in {"ok", "failed"} : Commands!Goto(r, at)
    BY <1>8 DEF Commands!ConfirmMqtt
  <2> QED
    BY <1>0, <1>8, <2>1, Goes DEF Commands!ConfirmMqtt
<1>9. CASE Commands!Execute
  BY <1>0, <1>9 DEF Commands!Execute
<1>10. CASE UNCHANGED <<req, writes, applied>>
  BY <1>0, <1>10
<1> QED
  BY <1>1, <1>2, <1>3, <1>4, <1>5, <1>6, <1>7, <1>8, <1>9, <1>10
     DEF Commands!Next, Commands!vars, Commands!Lose, Commands!OtherClient, Commands!Telemetry,
         Commands!EssExpires, Commands!PollOk, Commands!PollFails, Commands!Reconnect

\* What arrives at the controller, and what was written before, is what the request says.
LEMMA InboxStep ==
    ASSUME CommandTypeOK, WriteInv, InboxInv, [Commands!Next]_(Commands!vars)
    PROVE  InboxInv'
<1>0. /\ req \in [Request -> Commanded] /\ writes \in [Request -> Nat] /\ inbox \in Seq(Message)
      /\ CommandTypeOK' /\ WriteInv' /\ Written
  BY CommandTypes, WriteStep DEF CommandTypeOK
<1>1. ASSUME NEW m \in Message, OnItsWay(m) PROVE OnItsWay(m)'
  BY <1>0, <1>1 DEF OnItsWay, Written, Message
<1>2. ASSUME UNCHANGED inbox PROVE InboxInv'
  <2>1. \A i \in 1 .. Len(inbox) : inbox[i] \in Message
    BY <1>0
  <2> QED
    BY <1>1, <1>2, <2>1 DEF InboxInv
<1>3. ASSUME inbox # <<>>, inbox' = Tail(inbox) PROVE InboxInv'
  <2>1. Len(inbox') = Len(inbox) - 1 /\ \A i \in 1 .. Len(inbox') : inbox'[i] = inbox[i + 1]
    BY <1>0, <1>3
  <2>2. \A i \in 1 .. Len(inbox') : i + 1 \in 1 .. Len(inbox)
    BY <1>0, <2>1
  <2>3. \A i \in 1 .. Len(inbox) : inbox[i] \in Message /\ OnItsWay(inbox[i])
    BY <1>0 DEF InboxInv
  <2> QED
    BY <1>1, <2>1, <2>2, <2>3 DEF InboxInv
<1>4. ASSUME NEW r \in Request, NEW v \in Commands!Value, NEW at \in {"ok", "confirm", "failed"}, Commands!Queued(r, v),
             Commands!Goto(r, at), writes[r] = 0, req[r].kind = "override" => v = req[r].value
      PROVE  InboxInv'
  <2>1. at \in Places
    BY DEF Places
  <2>2. PICK m : m = inbox'[Len(inbox')]
    OBVIOUS
  <2>8. Wrote(r, v)
    BY <1>4, Writes
  <2>5. m.id = r /\ m.kind = req[r].kind /\ m.value = v
    BY <2>2, <2>8 DEF Wrote
  <2>6. req'[r].kind = req[r].kind /\ req'[r].value = req[r].value /\ writes'[r] = 1
    <3>1. req'[r].kind = req[r].kind /\ req'[r].value = req[r].value
      BY <1>0, <1>4, <2>1, Goes
    <3>2. writes'[r] = 1
      BY <1>4, <2>8 DEF Wrote
    <3> QED
      BY <3>1, <3>2
  <2>7. OnItsWay(m)'
    BY <1>4, <2>5, <2>6 DEF OnItsWay
  <2>3. \A i \in 1 .. Len(inbox) : inbox[i] \in Message /\ OnItsWay(inbox[i]) /\ inbox'[i] = inbox[i]
    BY <1>0, <2>8 DEF InboxInv, Wrote
  <2>4. Len(inbox') = Len(inbox) + 1 /\ Len(inbox) \in Nat
    BY <2>8 DEF Wrote
  <2> QED
    BY <1>1, <2>2, <2>3, <2>4, <2>7 DEF InboxInv
<1>5. ASSUME NEW r \in Request, Commands!Post(r) PROVE InboxInv'
  BY <1>0, <1>2, <1>4, <1>5 DEF Commands!Post, Commands!AfterWrite, WriteInv, Commanded
<1>6. ASSUME NEW r \in Request, Commands!Publish(r) PROVE InboxInv'
  <2>1. Commands!Published(r) \in Commands!Value /\ (req[r].kind = "override" => Commands!Published(r) = req[r].value)
    BY <1>0 DEF Commands!Published, Commands!Value, Commanded
  <2> QED
    BY <1>0, <1>2, <1>4, <1>6, <2>1 DEF Commands!Publish, Commands!AfterWrite, WriteInv
<1> QED
  BY <1>2, <1>3, <1>5, <1>6
     DEF Commands!Next, Commands!vars, Commands!Begin, Commands!Snapshot, Commands!NoSnapshot, Commands!Confirm,
         Commands!Deadline, Commands!ConfirmMqtt, Commands!Execute, Commands!Lose, Commands!OtherClient,
         Commands!Telemetry, Commands!EssExpires, Commands!PollOk, Commands!PollFails, Commands!Reconnect

\* An answer is the controller's: to the write it has carried out, or to another client.
LEMMA AnswerStep ==
    ASSUME CommandTypeOK, WriteInv, InboxInv, AnswerInv, [Commands!Next]_(Commands!vars)
    PROVE  AnswerInv'
<1>0. Written /\ req \in [Request -> Commanded] /\ writes \in [Request -> Nat] /\ inbox \in Seq(Message)
      /\ ctrl \in [up : BOOLEAN, flag : Commands!Value, status : Status]
  BY WriteStep DEF CommandTypeOK
<1>1. ASSUME NEW s, Truthful(s) PROVE Truthful(s)'
  <2> SUFFICES ASSUME NEW r \in Request, s.id = {r}, ~s.error
               PROVE  <<r, s.value>> \in applied' /\ writes'[r] = 1 /\ s.value = req'[r].value
    BY DEF Truthful
  <2>1. <<r, s.value>> \in applied /\ writes[r] = 1 /\ s.value = req[r].value
    BY <1>1 DEF Truthful
  <2>2. applied \subseteq applied' /\ writes'[r] = 1 /\ req'[r].value = req[r].value
    BY <1>0, <2>1 DEF Written
  <2> QED
    BY <2>1, <2>2
<1>3. ASSUME ctrl'.status = ctrl.status, view' = view PROVE AnswerInv'
  BY <1>1, <1>3 DEF AnswerInv
<1>4. CASE Commands!Execute
  <2> DEFINE c == Head(inbox)
  <2>1. PICK error \in BOOLEAN :
           /\ ctrl' = CASE c.kind = "override" ->
                            [ctrl EXCEPT !.status = [value |-> IF error THEN @.value ELSE c.value,
                                                     id |-> {c.id}, error |-> error]]
                       [] c.kind \in {"toggle", "flip"} -> [ctrl EXCEPT !.flag = c.value]
                       [] OTHER -> ctrl
           /\ applied' = applied \cup (IF c.kind = "override" /\ ~error THEN {<<c.id, c.value>>} ELSE {})
    BY <1>4 DEF Commands!Execute
  <2>2. view' = view /\ req' = req /\ writes' = writes /\ inbox # <<>>
    BY <1>4 DEF Commands!Execute
  <2>3. CASE c.kind # "override"
    <3>1. ctrl'.status = ctrl.status
      BY <1>0, <2>1, <2>3
    <3> QED
      BY <1>3, <2>2, <3>1
  <2>4. CASE c.kind = "override"
    <3>1. c = inbox[1] /\ 1 \in 1 .. Len(inbox) /\ c \in Message
      BY <1>0, <2>2
    <3>2. OnItsWay(c)
      BY <3>1 DEF InboxInv
    <3>3. ctrl'.status.id = {c.id} /\ ctrl'.status.error = error /\ (~error => ctrl'.status.value = c.value)
      BY <1>0, <2>1, <2>4
    <3>4. \A r \in Request : ctrl'.status.id = {r} => r = c.id
      BY <3>3
    <3>5. ~error => <<c.id, c.value>> \in applied'
      BY <2>1, <2>4
    <3>6. writes'[c.id] = 1 /\ req'[c.id].value = c.value
      BY <2>2, <2>4, <3>2 DEF OnItsWay
    <3>7. \A r \in Request : ctrl'.status.id = {r} /\ ~ctrl'.status.error =>
              <<r, ctrl'.status.value>> \in applied' /\ writes'[r] = 1 /\ ctrl'.status.value = req'[r].value
      BY <3>3, <3>4, <3>5, <3>6
    <3>8. \A s \in view.status : Truthful(s)'
      BY <1>1 DEF AnswerInv
    <3> QED
      BY <2>2, <3>7, <3>8 DEF AnswerInv, Truthful
  <2> QED
    BY <2>3, <2>4
<1>5. CASE Commands!OtherClient
  <2>1. view' = view
    BY <1>5 DEF Commands!OtherClient
  <2>2. CASE ctrl'.status = ctrl.status
    BY <1>3, <2>1, <2>2
  <2>3. CASE ctrl'.status.id = {Other}
    <3>1. \A r \in Request : ctrl'.status.id # {r}
      BY <2>3, CommandAssumption
    <3>2. \A s \in view.status : Truthful(s)'
      BY <1>1 DEF AnswerInv
    <3> QED
      BY <2>1, <3>1, <3>2 DEF AnswerInv, Truthful
  <2>4. ctrl'.status = ctrl.status \/ ctrl'.status.id = {Other}
    BY <1>0, <1>5 DEF Commands!OtherClient
  <2> QED
    BY <2>2, <2>3, <2>4
<1>6. CASE Commands!Telemetry
  <2>1. view'.status \in {view.status, {ctrl.status}} /\ ctrl' = ctrl
    BY <1>6 DEF Commands!Telemetry, CommandTypeOK
  <2>2. \A s \in view'.status : Truthful(s)'
    BY <1>1, <2>1 DEF AnswerInv
  <2>3. Truthful(ctrl.status)'
    BY <1>1, <2>1 DEF AnswerInv
  <2> QED
    BY <2>1, <2>2, <2>3 DEF AnswerInv
<1>7. CASE Commands!EssExpires
  <2>1. view'.status = view.status /\ ctrl' = ctrl
    BY <1>7 DEF Commands!EssExpires, CommandTypeOK
  <2> QED
    BY <1>1, <2>1 DEF AnswerInv
<1>8. CASE Commands!Reconnect
  <2>1. view'.status = {} /\ ctrl' = ctrl
    BY <1>8 DEF Commands!Reconnect, Commands!None
  <2> QED
    BY <1>1, <2>1 DEF AnswerInv
<1> QED
  BY <1>3, <1>4, <1>5, <1>6, <1>7, <1>8
     DEF Commands!Next, Commands!vars, Commands!Begin, Commands!Snapshot, Commands!NoSnapshot, Commands!Post,
         Commands!Confirm, Commands!Deadline, Commands!Publish, Commands!ConfirmMqtt, Commands!Lose,
         Commands!PollOk, Commands!PollFails

\* Only an answer to the request confirms an override.
LEMMA ConfirmedStep ==
    ASSUME CommandInv, [Commands!Next]_(Commands!vars)
    PROVE  Commands!ConfirmedMeansApplied'
<1>0. Written /\ req \in [Request -> Commanded] /\ writes \in [Request -> Nat]
  BY WriteStep DEF CommandInv, CommandTypeOK
<1>1. ASSUME \A r \in Request : req'[r].at = "ok" => req[r].at = "ok" PROVE Commands!ConfirmedMeansApplied'
  BY <1>0, <1>1 DEF CommandInv, Commands!ConfirmedMeansApplied, Written
<1>2. ASSUME NEW r \in Request, NEW at \in Places, Commands!Goto(r, at),
             at = "ok" /\ req[r].kind = "override" => <<r, req[r].value>> \in applied
      PROVE  Commands!ConfirmedMeansApplied'
  <2>1. \A s \in Request : /\ req'[s].kind = req[s].kind /\ req'[s].value = req[s].value
                           /\ req'[s].at = IF s = r THEN at ELSE req[s].at
    BY <1>0, <1>2, Goes
  <2>2. applied \subseteq applied'
    BY <1>0 DEF Written
  <2> QED
    BY <1>2, <2>1, <2>2 DEF CommandInv, Commands!ConfirmedMeansApplied
<1>3. \A r \in Request : Commands!AfterWrite(r) \in Places /\ (Commands!AfterWrite(r) = "ok" => req[r].kind # "override")
  BY DEF Commands!AfterWrite, Places
<1>4. {"write", "refused", "failed", "ok", "confirm"} \subseteq Places
  BY DEF Places
<1>5. ASSUME NEW r \in Request, NEW kind \in Commands!Kind, NEW v \in Commands!Value, Commands!Begin(r, kind, v)
      PROVE  Commands!ConfirmedMeansApplied'
  BY <1>0, <1>1, <1>5, Began DEF CommandInv
<1>6. ASSUME NEW r \in Request, Commands!Snapshot(r) PROVE Commands!ConfirmedMeansApplied'
  BY <1>0, <1>1, <1>6, Read DEF CommandInv
<1>7. ASSUME NEW r \in Request, Commands!NoSnapshot(r) PROVE Commands!ConfirmedMeansApplied'
  BY <1>2, <1>4, <1>7 DEF Commands!NoSnapshot
<1>8. ASSUME NEW r \in Request, Commands!Post(r) PROVE Commands!ConfirmedMeansApplied'
  BY <1>2, <1>3, <1>4, <1>8 DEF Commands!Post
<1>9. ASSUME NEW r \in Request, Commands!Confirm(r) PROVE Commands!ConfirmedMeansApplied'
  <2>1. CASE Commands!Goto(r, "failed")
    BY <1>2, <1>4, <2>1
  <2>2. CASE ctrl.status.id = {r} /\ Commands!Goto(r, Commands!Verdict(r, ctrl.status))
    <3>1. Truthful(ctrl.status)
      BY DEF CommandInv, AnswerInv
    <3>2. Commands!Verdict(r, ctrl.status) \in {"ok", "failed"}
      BY DEF Commands!Verdict
    <3>3. Commands!Verdict(r, ctrl.status) = "ok" => <<r, req[r].value>> \in applied
      BY <2>2, <3>1 DEF Commands!Verdict, Truthful
    <3> QED
      BY <1>2, <1>4, <2>2, <3>2, <3>3
  <2> QED
    BY <1>9, <2>1, <2>2 DEF Commands!Confirm
<1>10. ASSUME NEW r \in Request, Commands!Deadline(r) PROVE Commands!ConfirmedMeansApplied'
  BY <1>2, <1>4, <1>10 DEF Commands!Deadline
<1>11. ASSUME NEW r \in Request, Commands!Publish(r) PROVE Commands!ConfirmedMeansApplied'
  BY <1>2, <1>3, <1>4, <1>11 DEF Commands!Publish
<1>12. ASSUME NEW r \in Request, Commands!ConfirmMqtt(r) PROVE Commands!ConfirmedMeansApplied'
  <2>1. PICK s \in view.status : s.id = {r} /\ Commands!Goto(r, IF s.error THEN "failed" ELSE "ok")
    BY <1>12 DEF Commands!ConfirmMqtt
  <2>2. ~s.error => <<r, req[r].value>> \in applied
    BY <2>1 DEF CommandInv, AnswerInv, Truthful
  <2> QED
    BY <1>2, <1>4, <2>1, <2>2
<1>13. ASSUME req' = req PROVE Commands!ConfirmedMeansApplied'
  BY <1>1, <1>13
<1> QED
  BY <1>5, <1>6, <1>7, <1>8, <1>9, <1>10, <1>11, <1>12, <1>13
     DEF Commands!Next, Commands!vars, Commands!Execute, Commands!Lose, Commands!OtherClient, Commands!Telemetry,
         Commands!EssExpires, Commands!PollOk, Commands!PollFails, Commands!Reconnect

\* Nothing is requested at the start.
LEMMA CommandStarts == Commands!Init => CommandInv
<1> SUFFICES ASSUME Commands!Init PROVE CommandInv
  OBVIOUS
<1>1. Commands!NoStatus \in Status /\ Commands!Fresh \in Commanded
  BY DEF Commands!NoStatus, Status, Commands!Fresh, Commanded, Places, Commands!Value, Commands!Kind, Commands!None
<1>2. ctrl \in [up : BOOLEAN, flag : Commands!Value, status : Status]
  BY <1>1 DEF Commands!Init, Commands!Value
<1>3. CommandTypeOK
  BY <1>1, <1>2 DEF Commands!Init, CommandTypeOK, Commands!None
<1>4. WriteInv /\ InboxInv /\ Commands!ConfirmedMeansApplied
  BY DEF Commands!Init, WriteInv, InboxInv, Commands!ConfirmedMeansApplied, Commands!Fresh
<1>5. AnswerInv
  BY DEF Commands!Init, AnswerInv, Truthful, Commands!NoStatus, Commands!None
<1> QED
  BY <1>3, <1>4, <1>5 DEF CommandInv

\* What is on its way, what the controller reports and what the window was told of it all speak
\* of the one write of the request they name, through reconnections, losses, other clients and
\* late answers (inverter_control.rs, gateway_actions.rs, mqtt.rs).
THEOREM CommandInvariance == Spec => []CommandInv
<1>1. CommandInv /\ [Commands!Next]_(Commands!vars) => CommandInv'
  BY CommandTypes, WriteStep, InboxStep, AnswerStep, ConfirmedStep DEF CommandInv
<1> QED
  BY <1>1, CommandStarts, CommandSpec, PTL DEF Commands!Spec

\* A request is written at most once, and one told confirmed was applied with its value: the
\* outcome the user reads of a command is what happened to it (CommandsAreTrue).
THEOREM TheOutcomeIsTrue == Spec => []CommandsAreTrue
<1>1. CommandInv => CommandsAreTrue
  BY DEF CommandInv, CommandsAreTrue, Commands!CommandsAreTrue, Commands!WrittenAtMostOnce, WriteInv
<1> QED
  BY <1>1, CommandInvariance, PTL
-----------------------------------------------------------------------------
(* The gateway's snapshots (GatewaySnapshot) *)

\* Seen through its own variables, the composition is a GatewaySnapshot.
LEMMA GatewaySpec == Spec => Gateway!Spec
<1>1. Init => Gateway!Init
  BY DEF Init
<1>2. UNCHANGED gatewayVars <=> UNCHANGED Gateway!vars
  BY DEF gatewayVars, Gateway!vars
<1>3. [Next]_<<focus, stateVars, bannerVars, commandVars, gatewayVars, bookVars, noticeVars>>
      => [Gateway!Next]_(Gateway!vars)
  BY <1>2 DEF Next
<1> QED
  BY <1>1, <1>3, PTL DEF Spec, Gateway!Spec

\* The fields of what the window shows.
IsShown(s) ==
    s \in [grid : {s.grid}, setpoint : {s.setpoint}, solar : {s.solar}, batteries : {s.batteries},
           bank : {s.bank}, loads : {s.loads}, water : {s.water}, controls : {s.controls}, cached : {s.cached}]

\* The controls of a state come from the answers in snaps.
Backed(s, snaps) ==
    /\ s.controls.flags # {} \/ s.controls.ess # {} \/ s.controls.override # {} =>
          \E a \in snaps : a.controller # {}
    /\ s.water.pump.mode # {} \/ s.water.valve.mode # {} =>
          \E a \in snaps : /\ "water_mode" \in a.caps
                           /\ \E i \in DOMAIN a.pump : a.pump[i].on \in {{}, {1}}
    /\ Configured["pump"] # {} /\ s.water.pump.mode # {} =>
          \E a \in snaps : Configured["pump"] \subseteq DOMAIN a.pump

GatewayInv ==
    /\ IsShown(state) /\ Backed(state, answer)
    /\ polling => override = state.controls.override /\ online = (answer # {})

\* A switch that is shown is a connected pump the answer lists, at the instance asked for.
LEMMA SwitchIsListed ==
    ASSUME NEW snap, NEW id, Gateway!SwitchOf(snap, id).mode # {}
    PROVE  "water_mode" \in snap.caps /\ \E i \in id \cap DOMAIN snap.pump : snap.pump[i].on \in {{}, {1}}
<1>1. PICK d \in Gateway!Chosen(snap.pump, id) : "water_mode" \in snap.caps
  BY DEF Gateway!SwitchOf
<1> QED
  BY <1>1 DEF Gateway!Chosen, Gateway!Connected, Gateway!None

\* What an answer shows is backed by it.
LEMMA AnswerBacks ==
    ASSUME NEW snap, NEW s, s.controls = Gateway!ControllerOf(snap), s.water = Gateway!WaterEvOf(snap)
    PROVE  Backed(s, {snap})
<1>1. s.controls.flags # {} \/ s.controls.ess # {} \/ s.controls.override # {} => snap.controller # {}
  BY DEF Gateway!ControllerOf, Gateway!SnapshotOverrideStatus, Gateway!None
<1> DEFINE id == Gateway!SnapshotInstances(snap)
<1>2. s.water.pump = Gateway!SwitchOf(snap, id["pump"]) /\ s.water.valve = Gateway!SwitchOf(snap, id["valve"])
  BY DEF Gateway!WaterEvOf
<1>3. s.water.pump.mode # {} \/ s.water.valve.mode # {} =>
          "water_mode" \in snap.caps /\ \E i \in DOMAIN snap.pump : snap.pump[i].on \in {{}, {1}}
  <2> HIDE DEF id
  <2>1. ASSUME NEW x, Gateway!SwitchOf(snap, x).mode # {}
        PROVE  "water_mode" \in snap.caps /\ \E i \in DOMAIN snap.pump : snap.pump[i].on \in {{}, {1}}
    BY <2>1, SwitchIsListed
  <2> QED
    BY <1>2, <2>1
<1>4. ASSUME Configured["pump"] # {}, s.water.pump.mode # {}
      PROVE  Configured["pump"] \subseteq DOMAIN snap.pump
  <2>1. id["pump"] = Configured["pump"]
    BY <1>4 DEF Gateway!SnapshotInstances, Gateway!Or, Gateway!None, Gateway!Role
  <2>2. PICK i \in Configured["pump"] : i \in DOMAIN snap.pump
    BY <1>2, <1>4, <2>1, SwitchIsListed
  <2>3. \A j \in Configured["pump"] : j = i
    BY ChoiceAssumption DEF Gateway!Role
  <2> QED
    BY <2>2, <2>3
<1> QED
  BY <1>1, <1>3, <1>4 DEF Backed

\* A failed poll leaves nothing that a command could act on.
LEMMA NothingLeft ==
    ASSUME NEW s, IsShown(s)
    PROVE  LET t == Gateway!InvalidateGatewayControls(s) IN
           IsShown(t) /\ Backed(t, {}) /\ t.controls.override = {}
<1> DEFINE t == Gateway!InvalidateGatewayControls(s)
<1>1. IsShown(t) /\ t.controls = Gateway!ControllerOf(Gateway!Empty) /\ t.water = Gateway!WaterEvOf(Gateway!Empty)
  BY DEF IsShown, Gateway!InvalidateGatewayControls
<1>2. Gateway!Empty.controller = {} /\ Gateway!Empty.caps = {}
  BY DEF Gateway!Empty, Gateway!None
<1>3. t.controls.flags = {} /\ t.controls.ess = {} /\ t.controls.override = {}
  BY <1>1, <1>2 DEF Gateway!ControllerOf, Gateway!SnapshotOverrideStatus, Gateway!None
<1>4. t.water.pump.mode = {} /\ t.water.valve.mode = {}
  BY <1>1, <1>2, SwitchIsListed DEF Gateway!WaterEvOf
<1> QED
  BY <1>1, <1>3, <1>4 DEF Backed

\* Merging the time-to-go of the state before touches the batteries only.
LEMMA OnlyBatteries ==
    ASSUME NEW prev, NEW s, IsShown(s)
    PROVE  LET t == Gateway!PreserveBatteryTimeToGo(prev, s) IN
           IsShown(t) /\ t.controls = s.controls /\ t.water = s.water
BY DEF IsShown, Gateway!PreserveBatteryTimeToGo

\* A poll, a failed poll, a dismissal and the end of polling keep what is shown backed.
LEMMA GatewaySteps == GatewayInv /\ [Gateway!Next]_(Gateway!vars) => GatewayInv'
<1> SUFFICES ASSUME GatewayInv, [Gateway!Next]_(Gateway!vars) PROVE GatewayInv'
  OBVIOUS
<1>1. ASSUME NEW snap \in Polled, Gateway!PollOk(snap) PROVE GatewayInv'
  <2> DEFINE s == Gateway!SnapshotToState(snap)
  <2>1. IsShown(s) /\ s.controls = Gateway!ControllerOf(snap) /\ s.water = Gateway!WaterEvOf(snap)
    BY DEF IsShown, Gateway!SnapshotToState
  <2>2. /\ answer' = {snap} /\ state' = Gateway!PreserveBatteryTimeToGo(state, s)
        /\ online' = TRUE /\ override' = state'.controls.override
    BY <1>1 DEF Gateway!PollOk
  <2> HIDE DEF s
  <2>3. IsShown(state') /\ state'.controls = s.controls /\ state'.water = s.water
    BY <2>1, <2>2, OnlyBatteries
  <2>4. Backed(state', {snap})
    BY <2>1, <2>3, AnswerBacks
  <2> QED
    BY <2>2, <2>3, <2>4 DEF GatewayInv
<1>2. CASE Gateway!PollFails
  <2>1. /\ answer' = {} /\ override' = {} /\ online' = FALSE
        /\ state' = Gateway!InvalidateGatewayControls(state)
    BY <1>2 DEF Gateway!PollFails, Gateway!None
  <2>2. IsShown(state') /\ Backed(state', {}) /\ state'.controls.override = {}
    BY <2>1, NothingLeft DEF GatewayInv
  <2> QED
    BY <2>1, <2>2 DEF GatewayInv
<1>3. CASE Gateway!DismissInWindow \/ UNCHANGED Gateway!vars
  BY <1>3 DEF Gateway!DismissInWindow, Gateway!vars, GatewayInv
<1>4. CASE Gateway!Stop
  BY <1>4 DEF Gateway!Stop, GatewayInv
<1> QED
  BY <1>1, <1>2, <1>3, <1>4 DEF Gateway!Next

\* Before the first poll nothing is shown that a command could act on.
LEMMA GatewayStarts == Gateway!Init => GatewayInv
<1> SUFFICES ASSUME Gateway!Init PROVE GatewayInv
  OBVIOUS
<1>1. IsShown(state) /\ state.controls = Gateway!ControllerOf(Gateway!Empty) /\ state.water = Gateway!WaterEvOf(Gateway!Empty)
  BY DEF Gateway!Init, Gateway!SnapshotToState, IsShown
<1>2. Gateway!Empty.controller = {} /\ Gateway!Empty.caps = {}
  BY DEF Gateway!Empty, Gateway!None
<1>3. state.controls.flags = {} /\ state.controls.ess = {} /\ state.controls.override = {}
  BY <1>1, <1>2 DEF Gateway!ControllerOf, Gateway!SnapshotOverrideStatus, Gateway!None
<1>4. state.water.pump.mode = {} /\ state.water.valve.mode = {}
  BY <1>1, <1>2, SwitchIsListed DEF Gateway!WaterEvOf
<1> QED
  BY <1>1, <1>3, <1>4 DEF Gateway!Init, Gateway!None, GatewayInv, Backed

\* The controls, the override and the water switches of the window come from the answer to the
\* latest poll, none of them from an earlier one (gateway.rs, snapshot_to_state and
\* invalidate_gateway_controls).
THEOREM GatewayInvariance == Spec => []GatewayInv
  BY GatewaySteps, GatewayStarts, GatewaySpec, PTL DEF Gateway!Spec

\* A control is offered only on the answer to the latest poll (ControlsAreLive).
THEOREM ControlsOnlyWhenLive == Spec => []ControlsAreLive
<1>1. GatewayInv => ControlsAreLive
  BY DEF GatewayInv, Backed, ControlsAreLive, Gateway!ControlsAreLive, Gateway!None
<1> QED
  BY <1>1, GatewayInvariance, PTL
-----------------------------------------------------------------------------
(* The banners of the alarms (VictronBanners) *)

\* Seen through its own variables, the composition is a VictronBanners.
LEMMA BannerSpec == Spec => Banners!Spec
<1>1. Init => Banners!Init
  BY DEF Init
<1>2. UNCHANGED bannerVars <=> UNCHANGED Banners!vars
  BY DEF bannerVars, Banners!vars
<1>3. [Next]_<<focus, stateVars, bannerVars, commandVars, gatewayVars, bookVars, noticeVars>>
      => [Banners!Next]_(Banners!vars)
  BY <1>2 DEF Next
<1> QED
  BY <1>1, <1>3, PTL DEF Spec, Banners!Spec

\* A copy of slots that is about to be rendered.
CopyTypes ==
    /\ handler = [at |-> handler.at, copy |-> handler.copy]
    /\ handler.at \in {"emit", "reemit"} => /\ DOMAIN handler.copy \subseteq Slot
                                            /\ \A s \in DOMAIN handler.copy : handler.copy[s] \in Banners!Fields
    /\ handler.at = "reemit" => DOMAIN handler.copy = Slot
    /\ dismissing \in [at : {"idle", "suppress", "clear", "publish"}, slot : SUBSET Slot]

\* The slot whose message is being handled.
Rendering(s) == handler.at = "emit" /\ s \in DOMAIN handler.copy

\* Without a race what is rendered is the slot as it is, and a dismissal has it to itself.
CopyInv ==
    ~raced =>
        /\ handler.at \in {"emit", "reemit"} =>
              /\ dismissing.at \notin {"suppress", "clear"}
              /\ \A s \in DOMAIN handler.copy : handler.copy[s] = slots[s]
        /\ dismissing.at = "suppress" => \A s \in dismissing.slot : ui[s] = "absent"
        /\ dismissing.at = "clear" => \A s \in dismissing.slot : slots[s].dismissed

\* Also between the steps of a message the other slots are on the screen as they are to be.
SlotInv ==
    ~raced =>
        \A s \in Slot :
            /\ ~Rendering(s) /\ ~(dismissing.at = "suppress" /\ s \in dismissing.slot) =>
                  (ui[s] = "absent") = ~Banners!ShouldShow(slots[s])
            /\ handler.at \notin {"copy", "reemit"} /\ ~Rendering(s) /\ slots[s].desc = {"voltage"} /\ cell =>
                  ui[s] # "plain"

\* The same of the raw alarms, which are a fallback.
RawInv ==
    ~seen =>
        \A t \in Topic :
            /\ (raw[t] = "absent") = (alarms[t] = 0)
            /\ handler.at \notin {"copy", "reemit", "alarms"} /\ Banners!VoltageAlarm(t) /\ cell => raw[t] # "plain"

BannerInv == Banners!TypeOK /\ CopyTypes /\ CopyInv /\ SlotInv /\ RawInv

\* A message about a slot changes one of its fields (apply_field).
LEMMA FieldTypes == ASSUME NEW s \in Banners!Fields PROVE Banners!ApplyField(s) \subseteq Banners!Fields
<1> SUFFICES ASSUME NEW t \in Banners!ApplyField(s) PROVE t \in Banners!Fields
  OBVIOUS
<1>1. ASSUME NEW v \in {{}, {"voltage"}, {"other"}}, t = [s EXCEPT !.desc = v] PROVE t \in Banners!Fields
  BY <1>1 DEF Banners!Fields, Banners!None
<1>2. ASSUME NEW v \in {{}, {1}, {2}}, NEW b \in BOOLEAN, t = [s EXCEPT !.time = v, !.dismissed = b]
      PROVE  t \in Banners!Fields
  BY <1>2 DEF Banners!Fields, Banners!None
<1>3. ASSUME NEW v \in {{TRUE}, {FALSE}}, NEW b \in BOOLEAN, t = [s EXCEPT !.active = v, !.dismissed = b]
      PROVE  t \in Banners!Fields
  BY <1>3 DEF Banners!Fields, Banners!None
<1>4. ASSUME NEW v \in {{TRUE}, {FALSE}}, t = [s EXCEPT !.acknowledged = v] PROVE t \in Banners!Fields
  BY <1>4 DEF Banners!Fields, Banners!None
<1> QED
  BY <1>1, <1>2, <1>3, <1>4 DEF Banners!ApplyField, Banners!None

\* What a slot renders to: absent unless it is to be shown, and with the cells when they are known.
LEMMA Renders ==
    ASSUME NEW s \in Banners!Fields, cell \in BOOLEAN
    PROVE  /\ Banners!Render(s) \in {"absent", "plain", "detailed"}
           /\ (Banners!Render(s) = "absent") = ~Banners!ShouldShow(s)
           /\ s.desc = {"voltage"} /\ cell => Banners!Render(s) # "plain"
BY DEF Banners!Render, Banners!Body

\* Every step of a message, a dismissal or the expiry of the cells keeps the types.
LEMMA BannerTypes == BannerInv /\ [Banners!Next]_(Banners!vars) => Banners!TypeOK' /\ CopyTypes'
<1> SUFFICES ASSUME Banners!TypeOK, CopyTypes, [Banners!Next]_(Banners!vars) PROVE Banners!TypeOK' /\ CopyTypes'
  BY DEF BannerInv
<1> USE DEF Banners!TypeOK, CopyTypes
<1>1. ASSUME NEW s \in Slot, Banners!PlatformMessage(s) PROVE Banners!TypeOK' /\ CopyTypes'
  <2>1. slots' \in [Slot -> Banners!Fields]
    BY <1>1, FieldTypes DEF Banners!PlatformMessage
  <2> QED
    BY <1>1, <2>1, BannerAssumption DEF Banners!PlatformMessage, Banners!Receive
<1>2. CASE Banners!BadPlatformMessage
  BY <1>2, BannerAssumption DEF Banners!BadPlatformMessage, Banners!Receive
<1>3. CASE Banners!EmitBanner
  <2>1. \A s \in DOMAIN handler.copy : Banners!Render(handler.copy[s]) \in {"absent", "plain", "detailed"}
    BY <1>3, Renders DEF Banners!EmitBanner
  <2> QED
    BY <1>3, <2>1 DEF Banners!EmitBanner, Banners!Idle
<1>4. ASSUME NEW t \in Topic, NEW v \in 0 .. 2, Banners!AlarmMessage(t, v) PROVE Banners!TypeOK' /\ CopyTypes'
  BY <1>4, BannerAssumption DEF Banners!AlarmMessage, Banners!Receive, Banners!Body
<1>5. ASSUME NEW known \in BOOLEAN, Banners!CellMessage(known) PROVE Banners!TypeOK' /\ CopyTypes'
  BY <1>5, BannerAssumption DEF Banners!CellMessage, Banners!Receive
<1>6. CASE Banners!CopySlots
  BY <1>6 DEF Banners!CopySlots
<1>7. CASE Banners!ReemitPlatform
  <2>1. \A s \in DOMAIN handler.copy : Banners!Render(handler.copy[s]) \in {"absent", "plain", "detailed"}
    BY <1>7, Renders DEF Banners!ReemitPlatform
  <2> QED
    BY <1>7, <2>1 DEF Banners!ReemitPlatform
<1>8. CASE Banners!ReemitAlarms
  BY <1>8 DEF Banners!ReemitAlarms, Banners!Body, Banners!Idle
<1>9. CASE Banners!CellExpires
  BY <1>9 DEF Banners!CellExpires
<1>10. ASSUME NEW s \in Slot, Banners!Dismiss(s) PROVE Banners!TypeOK' /\ CopyTypes'
  BY <1>10 DEF Banners!Dismiss
<1>11. CASE Banners!Suppress
  <2>1. ASSUME NEW t \in Banners!Fields
        PROVE  [t EXCEPT !.dismissed = TRUE, !.acknowledged = {TRUE}] \in Banners!Fields
    BY <2>1 DEF Banners!Fields, Banners!None
  <2>2. slots' \in [Slot -> Banners!Fields]
    BY <1>11, <2>1 DEF Banners!Suppress
  <2> QED
    BY <1>11, <2>2 DEF Banners!Suppress
<1>12. CASE Banners!EmitClear
  BY <1>12 DEF Banners!EmitClear
<1>13. CASE Banners!PublishAcknowledge
  BY <1>13 DEF Banners!PublishAcknowledge, Banners!NoDismissal, Banners!None
<1>14. CASE UNCHANGED Banners!vars
  BY <1>14 DEF Banners!vars
<1> QED
  BY <1>1, <1>2, <1>3, <1>4, <1>5, <1>6, <1>7, <1>8, <1>9, <1>10, <1>11, <1>12, <1>13, <1>14 DEF Banners!Next

\* A copy that is rendered is true to its slot, unless a dismissal came between.
LEMMA CopyStep == BannerInv /\ [Banners!Next]_(Banners!vars) => CopyInv'
<1> SUFFICES ASSUME Banners!TypeOK, CopyTypes, CopyInv, [Banners!Next]_(Banners!vars) PROVE CopyInv'
  BY DEF BannerInv
<1> USE DEF CopyTypes, CopyInv
<1>1. ASSUME NEW s \in Slot, Banners!PlatformMessage(s) PROVE CopyInv'
  BY <1>1 DEF Banners!PlatformMessage, Banners!Overlaps
<1>2. CASE Banners!BadPlatformMessage
  BY <1>2 DEF Banners!BadPlatformMessage
<1>3. CASE Banners!EmitBanner
  BY <1>3 DEF Banners!EmitBanner, Banners!Idle
<1>4. ASSUME NEW t \in Topic, NEW v \in 0 .. 2, Banners!AlarmMessage(t, v) PROVE CopyInv'
  BY <1>4 DEF Banners!AlarmMessage
<1>5. ASSUME NEW known \in BOOLEAN, Banners!CellMessage(known) PROVE CopyInv'
  BY <1>5 DEF Banners!CellMessage
<1>6. CASE Banners!CopySlots
  BY <1>6 DEF Banners!CopySlots, Banners!Overlaps
<1>7. CASE Banners!ReemitPlatform
  BY <1>7 DEF Banners!ReemitPlatform
<1>8. CASE Banners!ReemitAlarms
  BY <1>8 DEF Banners!ReemitAlarms, Banners!Idle
<1>9. CASE Banners!CellExpires
  BY <1>9 DEF Banners!CellExpires
<1>10. ASSUME NEW s \in Slot, Banners!Dismiss(s) PROVE CopyInv'
  BY <1>10 DEF Banners!Dismiss, Banners!TypeOK
<1>11. CASE Banners!Suppress
  <2>1. \A s \in Slot \cap dismissing.slot : slots'[s].dismissed
    <3>1. ASSUME NEW t \in Banners!Fields
          PROVE  [t EXCEPT !.dismissed = TRUE, !.acknowledged = {TRUE}].dismissed
      BY <3>1 DEF Banners!Fields
    <3> QED
      BY <1>11, <3>1 DEF Banners!Suppress, Banners!TypeOK
  <2> QED
    BY <1>11, <2>1 DEF Banners!Suppress
<1>12. CASE Banners!EmitClear
  BY <1>12 DEF Banners!EmitClear
<1>13. CASE Banners!PublishAcknowledge
  BY <1>13 DEF Banners!PublishAcknowledge, Banners!NoDismissal
<1>14. CASE UNCHANGED Banners!vars
  BY <1>14 DEF Banners!vars
<1> QED
  BY <1>1, <1>2, <1>3, <1>4, <1>5, <1>6, <1>7, <1>8, <1>9, <1>10, <1>11, <1>12, <1>13, <1>14 DEF Banners!Next

\* The screen follows the slots.
LEMMA SlotStep == BannerInv /\ [Banners!Next]_(Banners!vars) => SlotInv'
<1> SUFFICES ASSUME Banners!TypeOK, CopyTypes, CopyInv, SlotInv, [Banners!Next]_(Banners!vars) PROVE SlotInv'
  BY DEF BannerInv
<1> USE DEF CopyTypes, SlotInv, Rendering
<1>1. ASSUME NEW s \in Slot, Banners!PlatformMessage(s) PROVE SlotInv'
  BY <1>1 DEF Banners!PlatformMessage, Banners!Receive, Banners!TypeOK
<1>2. CASE Banners!BadPlatformMessage
  BY <1>2 DEF Banners!BadPlatformMessage
<1>3. CASE Banners!EmitBanner
  <2> SUFFICES ASSUME ~raced', NEW s \in Slot
               PROVE  /\ ~(dismissing.at = "suppress" /\ s \in dismissing.slot) =>
                            (ui'[s] = "absent") = ~Banners!ShouldShow(slots[s])
                      /\ slots[s].desc = {"voltage"} /\ cell => ui'[s] # "plain"
    BY <1>3 DEF Banners!EmitBanner, Banners!Idle
  <2>1. CASE s \in DOMAIN handler.copy
    BY <1>3, <2>1, Renders DEF Banners!EmitBanner, CopyInv, Banners!TypeOK
  <2>2. CASE s \notin DOMAIN handler.copy
    BY <1>3, <2>2 DEF Banners!EmitBanner
  <2> QED
    BY <2>1, <2>2
<1>4. ASSUME NEW t \in Topic, NEW v \in 0 .. 2, Banners!AlarmMessage(t, v) PROVE SlotInv'
  BY <1>4 DEF Banners!AlarmMessage
<1>5. ASSUME NEW known \in BOOLEAN, Banners!CellMessage(known) PROVE SlotInv'
  BY <1>5 DEF Banners!CellMessage, Banners!Receive
<1>6. CASE Banners!CopySlots
  BY <1>6 DEF Banners!CopySlots
<1>7. CASE Banners!ReemitPlatform
  <2> SUFFICES ASSUME ~raced', NEW s \in Slot
               PROVE  /\ (ui'[s] = "absent") = ~Banners!ShouldShow(slots[s])
                      /\ slots[s].desc = {"voltage"} /\ cell => ui'[s] # "plain"
    BY <1>7 DEF Banners!ReemitPlatform
  <2>1. /\ handler.copy[s] = slots[s] /\ dismissing.at # "suppress"
        /\ ui'[s] = IF Banners!ShouldShow(slots[s]) THEN Banners!Render(slots[s]) ELSE ui[s]
        /\ slots[s] \in Banners!Fields /\ cell \in BOOLEAN
    BY <1>7 DEF Banners!ReemitPlatform, CopyInv, Banners!TypeOK
  <2>2. (ui[s] = "absent") = ~Banners!ShouldShow(slots[s])
    BY <1>7, <2>1 DEF Banners!ReemitPlatform
  <2> QED
    BY <2>1, <2>2, Renders
<1>8. CASE Banners!ReemitAlarms
  BY <1>8 DEF Banners!ReemitAlarms, Banners!Idle
<1>9. CASE Banners!CellExpires
  BY <1>9 DEF Banners!CellExpires
<1>10. ASSUME NEW s \in Slot, Banners!Dismiss(s) PROVE SlotInv'
  BY <1>10 DEF Banners!Dismiss, Banners!TypeOK
<1>11. CASE Banners!Suppress
  <2>1. ASSUME NEW s \in Slot, s \notin dismissing.slot PROVE slots'[s] = slots[s]
    BY <1>11, <2>1 DEF Banners!Suppress
  <2>2. ASSUME NEW s \in Slot, s \in dismissing.slot
        PROVE  ~Banners!ShouldShow(slots'[s]) /\ slots'[s].desc = slots[s].desc
    <3>1. ASSUME NEW t \in Banners!Fields
          PROVE  LET u == [t EXCEPT !.dismissed = TRUE, !.acknowledged = {TRUE}] IN u.dismissed /\ u.desc = t.desc
      BY <3>1 DEF Banners!Fields
    <3> QED
      BY <1>11, <2>2, <3>1 DEF Banners!Suppress, Banners!TypeOK, Banners!ShouldShow
  <2>3. ~raced' => \A s \in dismissing.slot : ui[s] = "absent"
    BY <1>11 DEF Banners!Suppress, CopyInv
  <2> QED
    BY <1>11, <2>1, <2>2, <2>3 DEF Banners!Suppress
<1>12. CASE Banners!EmitClear
  BY <1>12 DEF Banners!EmitClear, CopyInv, Banners!ShouldShow
<1>13. CASE Banners!PublishAcknowledge
  BY <1>13 DEF Banners!PublishAcknowledge, Banners!NoDismissal
<1>14. CASE UNCHANGED Banners!vars
  BY <1>14 DEF Banners!vars
<1> QED
  BY <1>1, <1>2, <1>3, <1>4, <1>5, <1>6, <1>7, <1>8, <1>9, <1>10, <1>11, <1>12, <1>13, <1>14 DEF Banners!Next

\* So do the raw alarms, while they are the fallback.
LEMMA RawStep == BannerInv /\ [Banners!Next]_(Banners!vars) => RawInv'
<1> SUFFICES ASSUME Banners!TypeOK, CopyTypes, RawInv, [Banners!Next]_(Banners!vars) PROVE RawInv'
  BY DEF BannerInv
<1> USE DEF RawInv
<1>1. CASE seen'
  BY <1>1
<1>2. ASSUME NEW t \in Topic, NEW v \in 0 .. 2, Banners!AlarmMessage(t, v), ~seen' PROVE RawInv'
  BY <1>2 DEF Banners!AlarmMessage, Banners!Receive, Banners!Body, Banners!TypeOK
<1>3. ASSUME NEW known \in BOOLEAN, Banners!CellMessage(known) PROVE RawInv'
  BY <1>3 DEF Banners!CellMessage
<1>4. CASE Banners!CopySlots \/ Banners!ReemitPlatform
  BY <1>4 DEF Banners!CopySlots, Banners!ReemitPlatform
<1>5. CASE Banners!ReemitAlarms
  BY <1>5 DEF Banners!ReemitAlarms, Banners!Body, Banners!Idle, Banners!TypeOK
<1>6. CASE Banners!CellExpires
  BY <1>6 DEF Banners!CellExpires
<1>7. CASE Banners!EmitBanner /\ ~seen'
  BY <1>7 DEF Banners!EmitBanner, Banners!Idle
<1>8. CASE UNCHANGED <<seen, alarms, cell, handler, raw>>
  BY <1>8
<1> QED
  BY <1>1, <1>2, <1>3, <1>4, <1>5, <1>6, <1>7, <1>8
     DEF Banners!Next, Banners!vars, Banners!PlatformMessage, Banners!BadPlatformMessage, Banners!Dismiss,
         Banners!Suppress, Banners!EmitClear, Banners!PublishAcknowledge

\* There is no alarm at the start.
LEMMA BannersStart == Banners!Init => BannerInv
<1> SUFFICES ASSUME Banners!Init PROVE BannerInv
  OBVIOUS
<1>1. Banners!EmptySlot \in Banners!Fields /\ ~Banners!ShouldShow(Banners!EmptySlot)
  BY DEF Banners!EmptySlot, Banners!Fields, Banners!None, Banners!ShouldShow
<1>2. Banners!TypeOK
  <2>1. slots \in [Slot -> Banners!Fields]
    BY <1>1 DEF Banners!Init
  <2>2. handler.at = "idle" /\ dismissing.at = "idle"
    BY DEF Banners!Init, Banners!Idle, Banners!NoDismissal
  <2>3. notices \in 0 .. MaxNotices /\ alarms \in [Topic -> 0 .. 2]
    BY BannerAssumption DEF Banners!Init
  <2> QED
    BY <2>1, <2>2, <2>3 DEF Banners!Init, Banners!TypeOK
<1>3. CopyTypes /\ CopyInv
  BY DEF Banners!Init, Banners!Idle, Banners!NoDismissal, Banners!None, CopyTypes, CopyInv
<1>4. SlotInv /\ RawInv
  BY <1>1 DEF Banners!Init, SlotInv, RawInv
<1> QED
  BY <1>2, <1>3, <1>4 DEF BannerInv

\* Between the steps in which a message is handled and an alarm dismissed, each with its own lock
\* of the slots, what is not being rendered is on the screen as its slot asks (mqtt.rs).
THEOREM BannerInvariance == Spec => []BannerInv
<1>1. BannerInv /\ [Banners!Next]_(Banners!vars) => BannerInv'
  BY BannerTypes, CopyStep, SlotStep, RawStep DEF BannerInv
<1> QED
  BY <1>1, BannersStart, BannerSpec, PTL DEF Banners!Spec

\* When nothing is being handled and no dismissal came between a message and its rendering, the
\* window shows the banners the slots ask for, with the cells that are known (BannersFollowSlots).
THEOREM TheScreenFollowsTheSlots == Spec => []BannersFollowSlots
<1>1. BannerInv => BannersFollowSlots
  BY DEF BannerInv, SlotInv, RawInv, Rendering, BannersFollowSlots, Banners!BannersFollowSlots
<1> QED
  BY <1>1, BannerInvariance, PTL
-----------------------------------------------------------------------------
(* The entities of the home (HomeAssistantBook) *)

Condition == {"absent", "bad", "on", "off"}
Event == [entity : Book!Entity, state : Condition]
BookTypeOK ==
    /\ remote \in [Book!Entity -> Condition]
    /\ homeSession \in {"down", "auth", "subscribed", "up"}
    /\ feed \in Seq(Event)
    /\ read \in [Explicit -> {"none", "sent", "done"} \cup Condition]
    /\ bulk.at \in {"none", "sent", "answered", "done"}
    /\ bulk.at = "answered" => bulk.states \in [Book!Entity -> Condition]
    /\ row \in [Explicit -> [value : {"waiting", "unavailable"} \cup Condition, live : BOOLEAN]]
    /\ probe \in [at : {"none", "sent", "answered"}, same : BOOLEAN, value : Condition]
    /\ found = [phase |-> found.phase, buffer |-> found.buffer, cards |-> found.cards, limited |-> found.limited]
    /\ found.phase \in {"dormant", "bootstrap", "live", "failed"}
    /\ DOMAIN found.buffer \subseteq Found

\* Nothing is under way for a session that is not up; a session begins with nothing known.
SessionInv ==
    /\ homeSession \in {"down", "auth"} => feed = << >>
    /\ homeSession # "up" => /\ \A e \in Explicit : read[e] = "none"
                             /\ bulk.at = "none" /\ probe.at = "none"
    /\ homeSession = "auth" => /\ \A e \in Explicit : ~row[e].live /\ row[e].value = "waiting"
                               /\ DOMAIN found.buffer = {}
    /\ found.phase = "live" => homeSession = "up"

\* An event of e is on its way.
Pending(e) == \E i \in 1 .. Len(feed) : feed[i].entity = e

\* The last event of an entity says what its state is.
FeedInv ==
    \A i \in 1 .. Len(feed) :
        (\A j \in i + 1 .. Len(feed) : feed[j].entity # feed[i].entity) => feed[i].state = remote[feed[i].entity]

Connected == homeSession \in {"subscribed", "up"}

\* Without an event on its way, what the row shows is the state, and so is what the row
\* is going to be given.
RowInv ==
    Connected =>
        \A e \in Explicit :
            /\ ~Pending(e) => /\ row[e].live \/ read[e] = "done" => row[e].value = remote[e]
                              /\ ~row[e].live /\ read[e] \in Condition => read[e] = remote[e]
            /\ row[e].live \/ read[e] = "done" \/ row[e].value \in {"waiting", "unavailable"}

\* A lock command reads the lock once its row is known. The answer it waits for is in the
\* row, or an event on its way says the same.
ProbeInv ==
    /\ probe.at # "none" => row[Book!Lock].value \notin {"waiting", "unavailable"}
    /\ probe.at = "answered" /\ probe.same /\ probe.value = Book!Held =>
          \/ row[Book!Lock].value = Book!Held
          \/ \E i \in 1 .. Len(feed) : feed[i] = [entity |-> Book!Lock, state |-> Book!Held]

\* Without an event on its way, what discovery keeps is the state, and so is the answer to
\* the bulk read where discovery keeps nothing.
FoundInv ==
    Connected =>
        \A f \in Found : ~Pending(f) =>
            /\ found.phase = "bootstrap" =>
                  IF f \in DOMAIN found.buffer THEN found.buffer[f] = Book!Project(remote[f])
                  ELSE bulk.at = "answered" => bulk.states[f] = remote[f]
            /\ found.phase = "live" =>
                  IF f \in DOMAIN found.cards THEN found.cards[f] = remote[f]
                  ELSE Book!Project(remote[f]) = Book!Absent \/ found.limited

BookInv == BookTypeOK /\ SessionInv /\ FeedInv /\ RowInv /\ ProbeInv /\ FoundInv

\* Seen through its own variables, the composition is a HomeAssistantBook.
LEMMA BookSpec == Spec => Book!Spec
<1>1. Init => Book!Init
  BY DEF Init
<1>2. UNCHANGED bookVars <=> UNCHANGED Book!vars
  BY DEF bookVars, Book!vars, Book!bookVars, Book!listVars
<1>3. [Next]_<<focus, stateVars, bannerVars, commandVars, gatewayVars, bookVars, noticeVars>>
      => [Book!Next]_(Book!vars)
  BY <1>2 DEF Next
<1> QED
  BY <1>1, <1>3, PTL DEF Spec, Book!Spec

\* A set of numbers has a least element.
LEMMA Least ==
    ASSUME NEW T \in SUBSET Nat, T # {}
    PROVE  \E x \in T : \A y \in T : x <= y
<1> DEFINE R == OpToRel(<, Nat)
<1>1. \E x \in T : \A y \in T : ~ (<<y, x>> \in R)
  <2>1. IsWellFoundedOn(R, Nat)
    BY NatLessThanWellFounded, Zenon
  <2> HIDE DEF R
  <2> QED
    BY <2>1, WFMin
<1>2. \A x, y \in Nat : <<y, x>> \in R <=> y < x
  BY Zenon DEF OpToRel
<1> HIDE DEF R
<1>3. PICK x \in T : \A y \in T : ~ (<<y, x>> \in R)
  BY <1>1
<1>4. \A y \in T : ~(y < x)
  BY <1>2, <1>3, Zenon
<1> QED
  BY <1>4

\* The lock is one of the configured entities.
LEMMA LockIsConfigured == Book!Lock \in Explicit
<1>1. \E x \in Explicit : \A y \in Explicit : x <= y
  BY Least, EntityAssumption
<1> QED
  BY <1>1 DEF Book!Lock

\* What has an event on its way has a last one.
LEMMA LastEvent ==
    ASSUME feed \in Seq(Event), NEW e, Pending(e)
    PROVE  \E i \in 1 .. Len(feed) : /\ feed[i].entity = e
                                    /\ \A j \in i + 1 .. Len(feed) : feed[j].entity # e
<1> DEFINE T == {k \in 0 .. Len(feed) - 1 : feed[Len(feed) - k].entity = e}
<1>0. Len(feed) \in Nat
  OBVIOUS
<1>1. T \in SUBSET Nat
  BY <1>0
<1>2. T # {}
  <2>1. PICK i \in 1 .. Len(feed) : feed[i].entity = e
    BY DEF Pending
  <2>2. Len(feed) - i \in 0 .. Len(feed) - 1 /\ Len(feed) - (Len(feed) - i) = i
    BY <1>0
  <2> QED
    BY <2>1, <2>2
<1>3. PICK k \in T : \A y \in T : k <= y
  <2> HIDE DEF T
  <2> QED
    BY <1>1, <1>2, Least
<1> DEFINE i == Len(feed) - k
<1>4. i \in 1 .. Len(feed) /\ feed[i].entity = e
  BY <1>0, <1>3
<1>5. ASSUME NEW j \in i + 1 .. Len(feed), feed[j].entity = e PROVE FALSE
  <2>1. /\ Len(feed) - j \in 0 .. Len(feed) - 1 /\ Len(feed) - (Len(feed) - j) = j
        /\ ~(k <= Len(feed) - j)
    BY <1>0, <1>3, <1>5
  <2>2. Len(feed) - j \in T
    BY <1>5, <2>1
  <2> QED
    BY <1>3, <2>1, <2>2
<1> QED
  BY <1>4, <1>5

\* A change is the last event of its entity.
LEMMA Told ==
    ASSUME BookTypeOK, FeedInv, NEW e \in Book!Entity, NEW v \in Condition,
           remote' = [remote EXCEPT ![e] = v], feed' = Append(feed, [entity |-> e, state |-> v])
    PROVE  /\ FeedInv' /\ feed' \in Seq(Event)
           /\ \A x : Pending(x)' <=> Pending(x) \/ x = e
           /\ \A i \in 1 .. Len(feed) : i \in 1 .. Len(feed') /\ feed'[i] = feed[i]
<1> DEFINE new == [entity |-> e, state |-> v]
<1>1. /\ new \in Event /\ new.entity = e /\ new.state = v /\ remote \in [Book!Entity -> Condition]
      /\ feed \in Seq(Event) /\ Len(feed) \in Nat
  BY DEF Event, BookTypeOK
<1> HIDE DEF new
<1>2. feed' = Append(feed, new)
  BY DEF new
<1>3. /\ feed' \in Seq(Event) /\ Len(feed') = Len(feed) + 1 /\ feed'[Len(feed) + 1] = new
      /\ \A i \in 1 .. Len(feed) : feed'[i] = feed[i] /\ feed[i] \in Event
  BY <1>1, <1>2
<1>4. \A x : Pending(x)' <=> Pending(x) \/ x = e
  BY <1>1, <1>3 DEF Pending
<1>5. FeedInv'
  <2> SUFFICES ASSUME NEW i \in 1 .. Len(feed'), \A j \in i + 1 .. Len(feed') : feed'[j].entity # feed'[i].entity
               PROVE  feed'[i].state = remote'[feed'[i].entity]
    BY DEF FeedInv
  <2>1. CASE i = Len(feed) + 1
    BY <1>1, <1>3, <2>1
  <2>2. CASE i \in 1 .. Len(feed)
    <3>1. feed[i].entity # e
      BY <1>1, <1>3, <2>2
    <3>2. \A j \in i + 1 .. Len(feed) : feed[j].entity # feed[i].entity
      BY <1>1, <1>3, <2>2
    <3>3. feed[i].state = remote[feed[i].entity] /\ feed[i].entity \in Book!Entity
      BY <1>3, <2>2, <3>2 DEF FeedInv, Event
    <3> QED
      BY <1>1, <1>3, <2>2, <3>1, <3>3
  <2> QED
    BY <1>1, <1>3, <2>1, <2>2
<1> QED
  BY <1>1, <1>3, <1>4, <1>5

\* When the event at the head is applied and no other one of its entity is on its way, it
\* says what the state is.
LEMMA Applied ==
    ASSUME BookTypeOK, FeedInv, feed # << >>, remote' = remote, feed' = Tail(feed)
    PROVE  LET ev == Head(feed) IN
           /\ ev \in Event /\ FeedInv' /\ feed' \in Seq(Event)
           /\ \A x : Pending(x)' => Pending(x)
           /\ \A x : Pending(x) => Pending(x)' \/ x = ev.entity
           /\ \A x : x = ev.entity /\ ~Pending(x)' => ev.state = remote[x]
           /\ \A i \in 1 .. Len(feed) : feed[i] # ev => \E k \in 1 .. Len(feed') : feed'[k] = feed[i]
<1> DEFINE ev == Head(feed)
<1>1. /\ feed \in Seq(Event) /\ Len(feed) \in Nat /\ Len(feed) >= 1
      /\ ev = feed[1] /\ ev \in Event
  BY DEF BookTypeOK
<1>2. /\ feed' \in Seq(Event) /\ Len(feed') = Len(feed) - 1
      /\ \A i \in 1 .. Len(feed') : feed'[i] = feed[i + 1]
      /\ \A i \in 2 .. Len(feed) : feed[i] = feed'[i - 1]
  BY <1>1
<1> HIDE DEF ev
<1>3. \A i \in 1 .. Len(feed) : feed[i] # ev => \E k \in 1 .. Len(feed') : feed'[k] = feed[i]
  <2> SUFFICES ASSUME NEW i \in 1 .. Len(feed), feed[i] # ev
               PROVE  \E k \in 1 .. Len(feed') : feed'[k] = feed[i]
    OBVIOUS
  <2>1. i \in 2 .. Len(feed)
    BY <1>1
  <2>2. i - 1 \in 1 .. Len(feed') /\ feed'[i - 1] = feed[i]
    BY <1>1, <1>2, <2>1
  <2> QED
    BY <2>2
<1>4. \A x : Pending(x)' => Pending(x)
  <2> SUFFICES ASSUME NEW i \in 1 .. Len(feed') PROVE \E k \in 1 .. Len(feed) : feed[k] = feed'[i]
    BY DEF Pending
  <2>1. i + 1 \in 1 .. Len(feed)
    BY <1>1, <1>2
  <2> QED
    BY <1>2, <2>1
<1>5. \A x : Pending(x) => Pending(x)' \/ x = ev.entity
  BY <1>3 DEF Pending
<1>6. FeedInv'
  <2> SUFFICES ASSUME NEW i \in 1 .. Len(feed'), \A j \in i + 1 .. Len(feed') : feed'[j].entity # feed'[i].entity
               PROVE  feed'[i].state = remote[feed'[i].entity]
    BY DEF FeedInv
  <2>1. i + 1 \in 1 .. Len(feed) /\ feed'[i] = feed[i + 1]
    BY <1>1, <1>2
  <2>2. ASSUME NEW j \in i + 2 .. Len(feed) PROVE feed[j].entity # feed[i + 1].entity
    <3>1. j - 1 \in i + 1 .. Len(feed') /\ feed'[j - 1] = feed[j]
      BY <1>1, <1>2, <2>1
    <3> QED
      BY <2>1, <3>1
  <2>3. i + 1 + 1 = i + 2
    OBVIOUS
  <2> QED
    BY <2>1, <2>2, <2>3 DEF FeedInv
<1>7. ASSUME NEW x, x = ev.entity, ~Pending(x)' PROVE ev.state = remote[x]
  <2>1. ASSUME NEW j \in 2 .. Len(feed) PROVE feed[j].entity # x
    <3>1. j - 1 \in 1 .. Len(feed') /\ feed'[j - 1] = feed[j]
      BY <1>1, <1>2
    <3> QED
      BY <1>7, <3>1 DEF Pending
  <2>2. 1 \in 1 .. Len(feed) /\ 1 + 1 = 2
    BY <1>1
  <2> QED
    BY <1>1, <1>7, <2>1, <2>2 DEF FeedInv
<1> QED
  BY <1>1, <1>2, <1>3, <1>4, <1>5, <1>6, <1>7 DEF ev

\* What an observation does to the row it is about, and to the command that waits.
LEMMA Updated ==
    ASSUME BookTypeOK, NEW e \in Explicit, NEW v \in Condition, NEW live \in BOOLEAN, Book!Update(e, v, live)
    PROVE  /\ row' \in [Explicit -> [value : {"waiting", "unavailable"} \cup Condition, live : BOOLEAN]]
           /\ probe' \in [at : {"none", "sent", "answered"}, same : BOOLEAN, value : Condition]
           /\ \A o \in Explicit : o # e => row'[o] = row[o]
           /\ probe'.at = probe.at /\ probe'.value = probe.value /\ (probe'.same => probe.same)
           /\ IF ~live /\ row[e].live THEN row'[e] = row[e]
              ELSE /\ row'[e].value = v /\ row'[e].live = (row[e].live \/ live)
                   /\ e = Book!Lock /\ probe'.same => Book!Observed(row[e].value) = v
<1> DEFINE Row == [value : {"waiting", "unavailable"} \cup Condition, live : BOOLEAN]
           Probed == [at : {"none", "sent", "answered"}, same : BOOLEAN, value : Condition]
<1>1. row \in [Explicit -> Row] /\ row[e] \in Row /\ row[e].live \in BOOLEAN
  BY DEF BookTypeOK
<1>2. CASE ~live /\ row[e].live
  BY <1>2 DEF Book!Update, BookTypeOK
<1>3. CASE ~(~live /\ row[e].live)
  <2>1. /\ row' = [row EXCEPT ![e] = [value |-> v, live |-> row[e].live \/ live]]
        /\ probe' = [probe EXCEPT !.same = Book!Invalidated(e, v)]
    BY <1>3 DEF Book!Update
  <2>2. [value |-> v, live |-> row[e].live \/ live] \in Row
    BY <1>1
  <2>3. row' \in [Explicit -> Row] /\ \A o \in Explicit : o # e => row'[o] = row[o]
    BY <1>1, <2>1, <2>2
  <2>4. row'[e].value = v /\ row'[e].live = (row[e].live \/ live)
    BY <1>1, <2>1
  <2>5. probe \in Probed /\ Book!Invalidated(e, v) \in BOOLEAN
    BY DEF BookTypeOK, Book!Invalidated
  <2>6. /\ probe' \in Probed /\ probe'.at = probe.at /\ probe'.value = probe.value
        /\ probe'.same = Book!Invalidated(e, v)
    BY <2>1, <2>5
  <2> QED
    BY <1>3, <2>3, <2>4, <2>6 DEF Book!Invalidated
<1> QED
  BY <1>2, <1>3

\* The instance counts as FiniteSets does.
LEMMA Counts == \A S : Book!Cardinality(S) = Cardinality(S)
  BY DEF Book!Cardinality, Cardinality

\* What an event does to discovery: while the bulk read is awaited it is kept, then it is
\* shown, if there is room.
LEMMA Discovers ==
    ASSUME NEW d, NEW f \in Found, NEW v \in Condition, DOMAIN d.buffer \subseteq Found,
           d = [phase |-> d.phase, buffer |-> d.buffer, cards |-> d.cards, limited |-> d.limited],
           d.phase \in {"dormant", "bootstrap", "live", "failed"}
    PROVE  LET n == Book!DiscoverLive(d, f, v) IN
           /\ n = [phase |-> n.phase, buffer |-> n.buffer, cards |-> n.cards, limited |-> n.limited]
           /\ n.phase \in {d.phase, "failed"} /\ DOMAIN n.buffer \subseteq Found
           /\ n.phase = "bootstrap" =>
                 /\ f \in DOMAIN n.buffer /\ n.buffer[f] = Book!Project(v)
                 /\ \A g \in Found \ {f} : /\ g \in DOMAIN n.buffer <=> g \in DOMAIN d.buffer
                                           /\ g \in DOMAIN d.buffer => n.buffer[g] = d.buffer[g]
           /\ n.phase = "live" =>
                 /\ IF f \in DOMAIN n.cards THEN n.cards[f] = v ELSE Book!Project(v) = Book!Absent \/ n.limited
                 /\ \A g \in Found \ {f} : /\ g \in DOMAIN n.cards <=> g \in DOMAIN d.cards
                                           /\ g \in DOMAIN d.cards => n.cards[g] = d.cards[g]
                 /\ d.limited => n.limited
<1> DEFINE n == Book!DiscoverLive(d, f, v)
           fits == f \in DOMAIN d.buffer \/ Cardinality(DOMAIN d.buffer) < MaxBuffer
<1>1. Cardinality(DOMAIN d.buffer) \in Nat
  BY EntityAssumption, FS_Subset, FS_CardinalityType
<1>2. CASE d.phase = "bootstrap" /\ ~fits
  <2>1. f \notin DOMAIN d.buffer /\ Cardinality(DOMAIN d.buffer) >= MaxBuffer
    BY <1>1, <1>2, EntityAssumption
  <2>2. n = Book!Discovery("failed")
    BY <1>2, <2>1, Counts DEF Book!DiscoverLive
  <2> QED
    BY <2>2 DEF Book!Discovery
<1>3. CASE d.phase = "bootstrap" /\ fits
  <2>1. ~(f \notin DOMAIN d.buffer /\ Cardinality(DOMAIN d.buffer) >= MaxBuffer)
    BY <1>1, <1>3, EntityAssumption
  <2>2. n = [d EXCEPT !.buffer = Book!With(d.buffer, f, Book!Project(v))]
    BY <1>3, <2>1, Counts DEF Book!DiscoverLive
  <2>3. n = [phase |-> d.phase, buffer |-> Book!With(d.buffer, f, Book!Project(v)),
             cards |-> d.cards, limited |-> d.limited]
    BY <2>2
  <2> QED
    BY <1>3, <2>3 DEF Book!With
<1>4. CASE d.phase = "live" /\ Book!Project(v) = Book!Absent
  <2>1. n = [d EXCEPT !.cards = Book!Without(d.cards, f)]
    BY <1>4 DEF Book!DiscoverLive
  <2>2. n = [phase |-> d.phase, buffer |-> d.buffer, cards |-> Book!Without(d.cards, f), limited |-> d.limited]
    BY <2>1
  <2> QED
    BY <1>4, <2>2 DEF Book!Without
<1>5. CASE d.phase = "live" /\ Book!Project(v) # Book!Absent
  <2>1. n = IF f \notin DOMAIN d.cards /\ Cardinality(DOMAIN d.cards) = Capacity
            THEN [d EXCEPT !.limited = TRUE] ELSE [d EXCEPT !.cards = Book!With(d.cards, f, Book!Project(v))]
    BY <1>5, Counts DEF Book!DiscoverLive
  <2>2. CASE f \notin DOMAIN d.cards /\ n = [d EXCEPT !.limited = TRUE]
    <3>1. n = [phase |-> d.phase, buffer |-> d.buffer, cards |-> d.cards, limited |-> TRUE]
      BY <2>2
    <3> QED
      BY <1>5, <2>2, <3>1
  <2>3. CASE n = [d EXCEPT !.cards = Book!With(d.cards, f, Book!Project(v))]
    <3>1. n = [phase |-> d.phase, buffer |-> d.buffer, cards |-> Book!With(d.cards, f, Book!Project(v)),
               limited |-> d.limited]
      BY <2>3
    <3>2. Book!Project(v) = v
      BY <1>5 DEF Book!Project
    <3> QED
      BY <1>5, <3>1, <3>2 DEF Book!With
  <2> QED
    BY <2>1, <2>2, <2>3
<1>6. CASE d.phase \notin {"bootstrap", "live"}
  BY <1>6 DEF Book!DiscoverLive
<1> QED
  BY <1>2, <1>3, <1>4, <1>5, <1>6

\* What the bulk read does to discovery: an entity it leaves out does not exist, or the
\* limit hides it.
LEMMA Selects ==
    ASSUME NEW d, NEW states, NEW f \in Found
    PROVE  LET n == Book!Select(d, states) IN
           /\ n = [phase |-> "live", buffer |-> << >>, cards |-> n.cards, limited |-> n.limited]
           /\ IF f \in DOMAIN n.cards THEN /\ n.cards[f] = Book!Merged(d, states)[f]
                                           /\ Book!Merged(d, states)[f] # Book!Absent
              ELSE Book!Merged(d, states)[f] = Book!Absent \/ n.limited
<1> DEFINE m == Book!Merged(d, states)
           all == {g \in Found : m[g] # Book!Absent}
           before == {g \in all : g < f}
           n == Book!Select(d, states)
<1>1. n = [phase |-> "live", buffer |-> << >>, cards |-> [g \in Book!First(all) |-> m[g]],
           limited |-> Cardinality(all) > Capacity]
  BY Counts DEF Book!Select
<1>2. Book!First(all) = {g \in all : Cardinality({h \in all : h < g}) < Capacity}
  BY Counts DEF Book!First
<1>3. ASSUME f \in all, f \notin Book!First(all) PROVE Cardinality(all) > Capacity
  <2> HIDE DEF m
  <2>1. ~(Cardinality(before) < Capacity)
    BY <1>2, <1>3
  <2>2. IsFiniteSet(all) /\ Cardinality(all) \in Nat
    BY EntityAssumption, FS_Subset, FS_CardinalityType
  <2>3. before \subseteq all \ {f}
    BY EntityAssumption
  <2>4. IsFiniteSet(all \ {f}) /\ Cardinality(all \ {f}) = Cardinality(all) - 1
    BY <1>3, <2>2, FS_RemoveElement
  <2>5. Cardinality(before) <= Cardinality(all) - 1 /\ Cardinality(before) \in Nat
    BY <2>3, <2>4, FS_Subset, FS_CardinalityType
  <2> QED
    BY <2>1, <2>2, <2>5, EntityAssumption
<1> HIDE DEF m
<1>4. Book!First(all) \subseteq all
  BY <1>2
<1> HIDE DEF all, n
<1>5. CASE f \in Book!First(all)
  <2>1. f \in all
    BY <1>4, <1>5
  <2>2. m[f] # Book!Absent
    BY <2>1 DEF all
  <2> QED
    BY <1>1, <1>5, <2>2 DEF m, n
<1>6. CASE f \notin Book!First(all)
  <2>1. f \in all => n.limited
    BY <1>1, <1>3, <1>6
  <2>2. f \notin all => m[f] = Book!Absent
    BY DEF all
  <2> QED
    BY <1>1, <1>6, <2>1, <2>2 DEF m, n
<1> QED
  BY <1>5, <1>6

\* The event at the head is applied.
LEMMA Delivers == BookInv /\ Book!Deliver /\ ~Book!Drop => BookInv'
<1> SUFFICES ASSUME BookInv, Book!Deliver, ~Book!Drop PROVE BookInv'
  OBVIOUS
<1> DEFINE ev == Head(feed)
<1>1. /\ feed # << >> /\ feed' = Tail(feed)
      /\ UNCHANGED <<remote, homeSession, read, bulk, Book!listVars, homeChanges, sessions>>
      /\ \/ /\ ev.entity \in Explicit /\ Book!Update(ev.entity, ev.state, TRUE) /\ UNCHANGED found
         \/ /\ ev.entity \notin Explicit /\ UNCHANGED <<row, probe>>
            /\ found' = Book!DiscoverLive(found, ev.entity, ev.state)
  BY DEF Book!Deliver
<1>2. /\ ev \in Event /\ FeedInv' /\ feed' \in Seq(Event)
      /\ \A x : Pending(x)' => Pending(x)
      /\ \A x : Pending(x) => Pending(x)' \/ x = ev.entity
      /\ \A x : x = ev.entity /\ ~Pending(x)' => ev.state = remote[x]
      /\ \A i \in 1 .. Len(feed) : feed[i] # ev => \E k \in 1 .. Len(feed') : feed'[k] = feed[i]
  BY <1>1, Applied DEF BookInv
<1> HIDE DEF ev
<1>3. PICK e \in Book!Entity, v \in Condition : ev = [entity |-> e, state |-> v]
  BY <1>2 DEF Event
<1>4. ev.entity = e /\ ev.state = v
  BY <1>3
<1>5. Connected /\ Connected'
  BY <1>1 DEF Connected, BookInv, BookTypeOK, SessionInv
<1>6. CASE e \in Explicit
  <2>1. Book!Update(e, v, TRUE) /\ found' = found
    BY <1>1, <1>4, <1>6
  <2>2. /\ row' \in [Explicit -> [value : {"waiting", "unavailable"} \cup Condition, live : BOOLEAN]]
        /\ probe' \in [at : {"none", "sent", "answered"}, same : BOOLEAN, value : Condition]
        /\ \A o \in Explicit : o # e => row'[o] = row[o]
        /\ probe'.at = probe.at /\ probe'.value = probe.value /\ (probe'.same => probe.same)
        /\ row'[e].value = v /\ row'[e].live
        /\ e = Book!Lock /\ probe'.same => Book!Observed(row[e].value) = v
    BY <1>6, <2>1, Updated DEF BookInv
  <2>3. BookTypeOK'
    BY <1>1, <1>2, <2>1, <2>2 DEF BookInv, BookTypeOK
  <2>4. SessionInv'
    BY <1>1, <1>5, <2>1, <2>2 DEF BookInv, SessionInv, Connected
  <2>5. RowInv'
    <3> SUFFICES ASSUME NEW o \in Explicit
                 PROVE  /\ ~Pending(o)' => /\ row'[o].live \/ read[o] = "done" => row'[o].value = remote[o]
                                           /\ ~row'[o].live /\ read[o] \in Condition => read[o] = remote[o]
                        /\ row'[o].live \/ read[o] = "done" \/ row'[o].value \in {"waiting", "unavailable"}
      BY <1>1 DEF RowInv
    <3>1. CASE o = e
      BY <1>2, <1>4, <2>2, <3>1
    <3>2. CASE o # e
      BY <1>2, <1>4, <1>5, <2>2, <3>2 DEF BookInv, RowInv
    <3> QED
      BY <3>1, <3>2
  <2>6. ProbeInv'
    <3>4. probe'.at # "none" => row'[Book!Lock].value \notin {"waiting", "unavailable"}
      BY <2>2, LockIsConfigured DEF BookInv, ProbeInv, Condition
    <3> SUFFICES ASSUME probe'.at = "answered", probe'.same, probe'.value = Book!Held, row'[Book!Lock].value # Book!Held
                 PROVE  \E k \in 1 .. Len(feed') : feed'[k] = [entity |-> Book!Lock, state |-> Book!Held]
      BY <3>4 DEF ProbeInv
    <3>1. row[Book!Lock].value # Book!Held
      BY <2>2, LockIsConfigured DEF Book!Observed, Book!Held
    <3>2. PICK i \in 1 .. Len(feed) : feed[i] = [entity |-> Book!Lock, state |-> Book!Held]
      BY <2>2, <3>1 DEF BookInv, ProbeInv
    <3>3. ASSUME feed[i] = ev PROVE FALSE
      <4>1. e = Book!Lock /\ v = Book!Held
        BY <1>4, <3>2, <3>3
      <4> QED
        BY <2>2, <4>1
    <3> QED
      BY <1>2, <3>2, <3>3
  <2>7. FoundInv'
    <3>1. \A f \in Found : f # e
      BY <1>6, EntityAssumption
    <3> QED
      BY <1>1, <1>2, <1>4, <1>5, <2>1, <3>1 DEF BookInv, FoundInv
  <2> QED
    BY <1>2, <2>3, <2>4, <2>5, <2>6, <2>7 DEF BookInv
<1>7. CASE e \notin Explicit
  <2>1. e \in Found /\ row' = row /\ probe' = probe /\ found' = Book!DiscoverLive(found, e, v)
    BY <1>1, <1>4, <1>7 DEF Book!Entity
  <2>2. /\ found' = [phase |-> found'.phase, buffer |-> found'.buffer, cards |-> found'.cards, limited |-> found'.limited]
        /\ found'.phase \in {found.phase, "failed"} /\ DOMAIN found'.buffer \subseteq Found
        /\ found'.phase = "bootstrap" =>
              /\ e \in DOMAIN found'.buffer /\ found'.buffer[e] = Book!Project(v)
              /\ \A g \in Found \ {e} : /\ g \in DOMAIN found'.buffer <=> g \in DOMAIN found.buffer
                                        /\ g \in DOMAIN found.buffer => found'.buffer[g] = found.buffer[g]
        /\ found'.phase = "live" =>
              /\ IF e \in DOMAIN found'.cards THEN found'.cards[e] = v
                 ELSE Book!Project(v) = Book!Absent \/ found'.limited
              /\ \A g \in Found \ {e} : /\ g \in DOMAIN found'.cards <=> g \in DOMAIN found.cards
                                        /\ g \in DOMAIN found.cards => found'.cards[g] = found.cards[g]
              /\ found.limited => found'.limited
    <3>1. /\ DOMAIN found.buffer \subseteq Found /\ found.phase \in {"dormant", "bootstrap", "live", "failed"}
          /\ found = [phase |-> found.phase, buffer |-> found.buffer, cards |-> found.cards, limited |-> found.limited]
      BY DEF BookInv, BookTypeOK
    <3> QED
      BY <2>1, <3>1, Discovers
  <2>3. BookTypeOK'
    BY <1>1, <1>2, <2>1, <2>2 DEF BookInv, BookTypeOK
  <2>4. SessionInv'
    BY <1>1, <1>5, <2>1, <2>2 DEF BookInv, SessionInv, Connected
  <2>5. RowInv'
    BY <1>1, <1>2, <1>4, <1>5, <1>7, <2>1 DEF BookInv, RowInv
  <2>6. ProbeInv'
    BY <1>2, <1>4, <1>7, <2>1, LockIsConfigured DEF BookInv, ProbeInv
  <2>7. FoundInv'
    <3> SUFFICES ASSUME NEW f \in Found, ~Pending(f)'
                 PROVE  /\ found'.phase = "bootstrap" =>
                              IF f \in DOMAIN found'.buffer THEN found'.buffer[f] = Book!Project(remote[f])
                              ELSE bulk.at = "answered" => bulk.states[f] = remote[f]
                        /\ found'.phase = "live" =>
                              IF f \in DOMAIN found'.cards THEN found'.cards[f] = remote[f]
                              ELSE Book!Project(remote[f]) = Book!Absent \/ found'.limited
      BY <1>1 DEF FoundInv
    <3>1. CASE f = e
      <4>1. v = remote[f]
        BY <1>2, <1>4, <3>1
      <4> QED
        BY <2>2, <3>1, <4>1
    <3>2. CASE f # e
      <4>1. ~Pending(f)
        BY <1>2, <1>4, <3>2
      <4>2. CASE found'.phase = "bootstrap"
        <5>1. found.phase = "bootstrap"
          BY <2>2, <4>2
        <5>2. IF f \in DOMAIN found.buffer THEN found.buffer[f] = Book!Project(remote[f])
              ELSE bulk.at = "answered" => bulk.states[f] = remote[f]
          BY <1>5, <4>1, <5>1 DEF BookInv, FoundInv
        <5>3. /\ f \in DOMAIN found'.buffer <=> f \in DOMAIN found.buffer
              /\ f \in DOMAIN found.buffer => found'.buffer[f] = found.buffer[f]
          BY <2>2, <3>2, <4>2
        <5> QED
          BY <4>2, <5>2, <5>3
      <4>3. CASE found'.phase = "live"
        <5>1. found.phase = "live"
          BY <2>2, <4>3
        <5>2. IF f \in DOMAIN found.cards THEN found.cards[f] = remote[f]
              ELSE Book!Project(remote[f]) = Book!Absent \/ found.limited
          BY <1>5, <4>1, <5>1 DEF BookInv, FoundInv
        <5>3. /\ f \in DOMAIN found'.cards <=> f \in DOMAIN found.cards
              /\ f \in DOMAIN found.cards => found'.cards[f] = found.cards[f]
              /\ found.limited => found'.limited
          BY <2>2, <3>2, <4>3
        <5> QED
          BY <4>3, <5>2, <5>3
      <4> QED
        BY <4>2, <4>3
    <3> QED
      BY <3>1, <3>2
  <2> QED
    BY <1>2, <2>3, <2>4, <2>5, <2>6, <2>7 DEF BookInv
<1> QED
  BY <1>6, <1>7

\* An initial read arrives.
LEMMA ReadsArrive ==
    ASSUME BookInv, NEW e \in Explicit, Book!ReadArrives(e), ~Book!Drop
    PROVE  BookInv'
<1>1. /\ read[e] \in Condition /\ Book!Update(e, read[e], FALSE)
      /\ read' = [read EXCEPT ![e] = "done"]
      /\ UNCHANGED <<remote, homeSession, feed, bulk, found, Book!listVars, homeChanges, sessions>>
  BY DEF Book!ReadArrives, BookInv, BookTypeOK
<1>2. /\ row' \in [Explicit -> [value : {"waiting", "unavailable"} \cup Condition, live : BOOLEAN]]
      /\ probe' \in [at : {"none", "sent", "answered"}, same : BOOLEAN, value : Condition]
      /\ \A o \in Explicit : o # e => row'[o] = row[o]
      /\ probe'.at = probe.at /\ probe'.value = probe.value /\ (probe'.same => probe.same)
      /\ IF row[e].live THEN row'[e] = row[e]
         ELSE /\ row'[e].value = read[e] /\ ~row'[e].live
              /\ e = Book!Lock /\ probe'.same => Book!Observed(row[e].value) = read[e]
  BY <1>1, Updated DEF BookInv
<1>3. /\ read' \in [Explicit -> {"none", "sent", "done"} \cup Condition] /\ read'[e] = "done"
      /\ \A o \in Explicit : o # e => read'[o] = read[o]
  BY <1>1 DEF BookInv, BookTypeOK
<1>4. homeSession = "up" /\ homeSession' = "up"
  BY <1>1 DEF BookInv, BookTypeOK, SessionInv, Condition
<1>5. BookTypeOK'
  BY <1>1, <1>2, <1>3 DEF BookInv, BookTypeOK
<1>6. SessionInv' /\ FeedInv' /\ FoundInv'
  BY <1>1, <1>4 DEF BookInv, SessionInv, FeedInv, FoundInv, Pending, Connected
<1>7. \A x : Pending(x)' <=> Pending(x)
  BY <1>1 DEF Pending
<1>8. RowInv'
  <2> SUFFICES ASSUME NEW o \in Explicit
               PROVE  /\ ~Pending(o) => /\ row'[o].live \/ read'[o] = "done" => row'[o].value = remote[o]
                                        /\ ~row'[o].live /\ read'[o] \in Condition => read'[o] = remote[o]
                      /\ row'[o].live \/ read'[o] = "done" \/ row'[o].value \in {"waiting", "unavailable"}
    BY <1>1, <1>7 DEF RowInv
  <2>1. CASE o = e
    BY <1>1, <1>2, <1>3, <1>4, <2>1 DEF BookInv, RowInv, Connected, Condition
  <2>2. CASE o # e
    BY <1>2, <1>3, <1>4, <2>2 DEF BookInv, RowInv, Connected
  <2> QED
    BY <2>1, <2>2
<1>9. ProbeInv'
  BY <1>1, <1>2, LockIsConfigured DEF BookInv, ProbeInv, Book!Observed, Book!Held, Condition
<1> QED
  BY <1>5, <1>6, <1>8, <1>9 DEF BookInv

\* The bulk read arrives.
LEMMA BulkArrives ==
    ASSUME BookInv, NEW twice \in BOOLEAN, Book!BulkArrives(twice)
    PROVE  BookInv'
<1>1. /\ bulk.at = "answered" /\ bulk'.at = "done" /\ found' = Book!DiscoverAll(found, bulk.states, twice)
      /\ UNCHANGED <<remote, homeSession, feed, read, row, probe>>
  BY DEF Book!BulkArrives, Book!NoBulk
<1>2. homeSession = "up" /\ Connected /\ Connected' /\ bulk.states \in [Book!Entity -> Condition]
  BY <1>1 DEF BookInv, SessionInv, BookTypeOK, Connected
<1>3. \A x : Pending(x)' <=> Pending(x)
  BY <1>1 DEF Pending
<1>4. FeedInv' /\ RowInv' /\ ProbeInv'
  BY <1>1, <1>2, <1>3 DEF BookInv, FeedInv, RowInv, ProbeInv
<1>5. CASE found.phase # "bootstrap" /\ found' = found
  <2>1. BookTypeOK' /\ SessionInv'
    BY <1>1, <1>2, <1>5 DEF BookInv, BookTypeOK, SessionInv
  <2>2. FoundInv'
    BY <1>1, <1>2, <1>3, <1>5 DEF BookInv, FoundInv
  <2> QED
    BY <1>4, <2>1, <2>2 DEF BookInv
<1>6. CASE found' = Book!Discovery("failed")
  <2>1. BookTypeOK' /\ SessionInv' /\ FoundInv'
    BY <1>1, <1>2, <1>6 DEF BookInv, BookTypeOK, SessionInv, FoundInv, Book!Discovery
  <2> QED
    BY <1>4, <2>1 DEF BookInv
<1>7. CASE found.phase = "bootstrap" /\ found' = Book!Select(found, bulk.states) /\ \A f \in Found : bulk.states[f] # Book!Bad
  <2> DEFINE m == Book!Merged(found, bulk.states)
  <2>1. /\ found' = [phase |-> "live", buffer |-> << >>, cards |-> found'.cards, limited |-> found'.limited]
        /\ \A f \in Found : IF f \in DOMAIN found'.cards THEN found'.cards[f] = m[f] /\ m[f] # Book!Absent
                           ELSE m[f] = Book!Absent \/ found'.limited
    <3>1. CASE Found = {}
      BY <1>7, <3>1 DEF Book!Select
    <3>2. CASE Found # {}
      BY <1>7, <3>2, Selects
    <3> QED
      BY <3>1, <3>2
  <2>2. found'.phase = "live" /\ DOMAIN found'.buffer = {}
    BY <2>1
  <2>3. BookTypeOK' /\ SessionInv'
    BY <1>1, <1>2, <2>1, <2>2 DEF BookInv, BookTypeOK, SessionInv
  <2>4. ASSUME NEW f \in Found, ~Pending(f) PROVE m[f] = Book!Project(remote[f])
    <3>1. m[f] = IF f \in DOMAIN found.buffer THEN found.buffer[f] ELSE bulk.states[f]
      BY DEF Book!Merged
    <3>2. IF f \in DOMAIN found.buffer THEN found.buffer[f] = Book!Project(remote[f])
          ELSE bulk.states[f] = remote[f]
      BY <1>1, <1>2, <1>7, <2>4 DEF BookInv, FoundInv
    <3> QED
      BY <1>7, <3>1, <3>2 DEF Book!Project
  <2> HIDE DEF m
  <2>5. FoundInv'
    <3> SUFFICES ASSUME NEW f \in Found, ~Pending(f)
                 PROVE  IF f \in DOMAIN found'.cards THEN found'.cards[f] = remote[f]
                        ELSE Book!Project(remote[f]) = Book!Absent \/ found'.limited
      BY <1>1, <1>3, <2>2 DEF FoundInv
    <3>1. m[f] = Book!Project(remote[f])
      BY <2>4
    <3>2. m[f] # Book!Absent => m[f] = remote[f]
      BY <3>1 DEF Book!Project
    <3> QED
      BY <2>1, <3>1, <3>2
  <2> QED
    BY <1>4, <2>3, <2>5 DEF BookInv
<1> QED
  BY <1>1, <1>5, <1>6, <1>7 DEF Book!DiscoverAll

\* When the session ends, or the worker is another process, nothing is known any more.
LEMMA Forgets ==
    ASSUME BookInv, remote' = remote, homeSession' = "down", feed' = << >>, read' = Book!NoRead, bulk' = Book!NoBulk,
           row' \in [Explicit -> [value : {"waiting", "unavailable"} \cup Condition, live : BOOLEAN]],
           probe' = Book!NoProbe, found' = Book!Discovery("dormant")
    PROVE  BookInv'
<1>1. bulk'.at = "none" /\ probe'.at = "none"
  BY DEF Book!NoBulk, Book!NoProbe
<1>2. /\ read' \in [Explicit -> {"none", "sent", "done"} \cup Condition] /\ \A e \in Explicit : read'[e] = "none"
      /\ probe' \in [at : {"none", "sent", "answered"}, same : BOOLEAN, value : Condition]
  BY DEF Book!NoRead, Book!NoProbe, Book!Absent, Condition
<1>3. found' = [phase |-> "dormant", buffer |-> << >>, cards |-> << >>, limited |-> FALSE]
  BY DEF Book!Discovery
<1>4. BookTypeOK'
  BY <1>1, <1>2, <1>3 DEF BookInv, BookTypeOK
<1>5. SessionInv' /\ FeedInv' /\ RowInv' /\ ProbeInv' /\ FoundInv'
  BY <1>1, <1>2, <1>3 DEF SessionInv, FeedInv, RowInv, ProbeInv, FoundInv, Connected
<1> QED
  BY <1>4, <1>5 DEF BookInv

\* Every step of the session, of Home Assistant and of the book keeps what is shown current.
LEMMA BookSteps == BookInv /\ [Book!Next]_(Book!vars) => BookInv'
<1> SUFFICES ASSUME BookInv, [Book!Next]_(Book!vars) PROVE BookInv'
  OBVIOUS
<1>1. ASSUME NEW e \in Book!Entity, NEW v \in {Book!Absent, Book!Bad, "on", Book!Held}, Book!Change(e, v)
      PROVE  BookInv'
  <2>0. v \in Condition
    BY <1>1 DEF Book!Absent, Book!Bad, Book!Held, Condition
  <2>1. /\ remote' = [remote EXCEPT ![e] = v] /\ remote \in [Book!Entity -> Condition]
        /\ UNCHANGED <<homeSession, read, bulk, row, probe, found>>
    BY <1>1 DEF Book!Change, Book!bookVars, BookInv, BookTypeOK
  <2>2. CASE Connected /\ feed' = Append(feed, [entity |-> e, state |-> v])
    <3>1. /\ FeedInv' /\ feed' \in Seq(Event)
          /\ \A x : Pending(x)' <=> Pending(x) \/ x = e
          /\ \A i \in 1 .. Len(feed) : i \in 1 .. Len(feed') /\ feed'[i] = feed[i]
      BY <2>0, <2>1, <2>2, Told DEF BookInv
    <3>2. BookTypeOK'
      BY <2>0, <2>1, <3>1 DEF BookInv, BookTypeOK
    <3>3. SessionInv' /\ ProbeInv'
      BY <2>1, <2>2, <3>1 DEF BookInv, SessionInv, ProbeInv, Connected
    <3>4. \A x \in Book!Entity : ~Pending(x)' => ~Pending(x) /\ remote'[x] = remote[x]
      BY <2>1, <3>1
    <3>5. RowInv' /\ FoundInv'
      BY <2>1, <2>2, <3>4 DEF BookInv, RowInv, FoundInv, Connected, Book!Entity
    <3> QED
      BY <3>1, <3>2, <3>3, <3>5 DEF BookInv
  <2>3. CASE ~Connected /\ feed' = feed
    <3>1. feed = << >>
      BY <2>3 DEF BookInv, BookTypeOK, SessionInv, Connected
    <3>2. BookTypeOK'
      BY <2>0, <2>1, <2>3 DEF BookInv, BookTypeOK
    <3>3. SessionInv' /\ ProbeInv' /\ FeedInv' /\ RowInv' /\ FoundInv'
      BY <2>1, <2>3, <3>1 DEF BookInv, SessionInv, ProbeInv, FeedInv, RowInv, FoundInv, Connected
    <3> QED
      BY <3>2, <3>3 DEF BookInv
  <2> QED
    BY <1>1, <2>2, <2>3 DEF Book!Change, Connected
<1>2. CASE Book!Subscribed
  <2>1. /\ homeSession = "auth" /\ homeSession' = "subscribed"
        /\ UNCHANGED <<remote, feed, read, bulk, row, probe, found>>
    BY <1>2 DEF Book!Subscribed, Book!bookVars
  <2>2. feed = << >> /\ found.phase # "live" /\ DOMAIN found.buffer = {}
        /\ bulk.at = "none" /\ probe.at = "none" /\ \A e \in Explicit : ~row[e].live /\ read[e] = "none"
    BY <2>1 DEF BookInv, SessionInv
  <2>3. BookTypeOK' /\ SessionInv' /\ FeedInv' /\ ProbeInv'
    BY <2>1, <2>2 DEF BookInv, BookTypeOK, SessionInv, FeedInv, ProbeInv
  <2>4. \A e \in Explicit : row[e].value = "waiting"
    BY <2>1 DEF BookInv, SessionInv
  <2>5. RowInv' /\ FoundInv'
    BY <2>1, <2>2, <2>4 DEF RowInv, FoundInv, Condition
  <2> QED
    BY <2>3, <2>5 DEF BookInv
<1>3. ASSUME NEW e \in Explicit, Book!AnswerRead(e) PROVE BookInv'
  <2>1. /\ read[e] = "sent" /\ read' = [read EXCEPT ![e] = remote[e]]
        /\ UNCHANGED <<remote, homeSession, feed, bulk, row, probe, found>>
    BY <1>3 DEF Book!AnswerRead, Book!bookVars
  <2>2. remote[e] \in Condition
    BY DEF BookInv, BookTypeOK, Book!Entity
  <2>3. /\ read' \in [Explicit -> {"none", "sent", "done"} \cup Condition] /\ read'[e] = remote[e]
        /\ \A o \in Explicit : o # e => read'[o] = read[o]
    BY <2>1, <2>2 DEF BookInv, BookTypeOK
  <2>4. homeSession = "up"
    BY <2>1 DEF BookInv, SessionInv
  <2>5. BookTypeOK' /\ SessionInv'
    BY <2>1, <2>3, <2>4 DEF BookInv, BookTypeOK, SessionInv
  <2>6. FeedInv' /\ ProbeInv' /\ FoundInv' /\ \A x : Pending(x)' <=> Pending(x)
    BY <2>1 DEF BookInv, FeedInv, ProbeInv, FoundInv, Pending, Connected
  <2>7. RowInv'
    BY <2>1, <2>2, <2>3, <2>4, <2>6 DEF BookInv, RowInv, Connected, Condition
  <2> QED
    BY <2>5, <2>6, <2>7 DEF BookInv
<1>4. CASE Book!AnswerBulk
  <2>1. /\ bulk.at = "sent" /\ bulk' = [at |-> "answered", states |-> remote]
        /\ UNCHANGED <<remote, homeSession, feed, read, row, probe, found>>
    BY <1>4 DEF Book!AnswerBulk, Book!bookVars
  <2>2. homeSession = "up" /\ bulk'.at = "answered" /\ bulk'.states = remote
    BY <2>1 DEF BookInv, SessionInv
  <2>3. BookTypeOK' /\ SessionInv'
    BY <2>1, <2>2 DEF BookInv, BookTypeOK, SessionInv
  <2>4. FeedInv' /\ ProbeInv' /\ RowInv' /\ \A x : Pending(x)' <=> Pending(x)
    BY <2>1 DEF BookInv, FeedInv, ProbeInv, RowInv, Pending, Connected
  <2>5. FoundInv'
    BY <2>1, <2>2, <2>4 DEF BookInv, FoundInv, Connected
  <2> QED
    BY <2>3, <2>4, <2>5 DEF BookInv
<1>5. CASE Book!AnswerProbe
  <2>1. /\ probe.at = "sent" /\ probe' = [probe EXCEPT !.at = "answered", !.value = remote[Book!Lock]]
        /\ UNCHANGED <<remote, homeSession, feed, read, bulk, row, found>>
    BY <1>5 DEF Book!AnswerProbe
  <2>2. remote[Book!Lock] \in Condition /\ homeSession = "up"
    BY <2>1, LockIsConfigured DEF BookInv, BookTypeOK, SessionInv, Book!Entity
  <2>3. probe' \in [at : {"answered"}, same : BOOLEAN, value : {remote[Book!Lock]}]
    BY <2>1 DEF BookInv, BookTypeOK
  <2>4. BookTypeOK' /\ SessionInv'
    BY <2>1, <2>2, <2>3 DEF BookInv, BookTypeOK, SessionInv
  <2>5. FeedInv' /\ RowInv' /\ FoundInv'
    BY <2>1 DEF BookInv, FeedInv, RowInv, FoundInv, Pending, Connected
  <2>6. ProbeInv'
    <3> SUFFICES ASSUME remote[Book!Lock] = Book!Held, row[Book!Lock].value # Book!Held
                 PROVE  \E i \in 1 .. Len(feed) : feed[i] = [entity |-> Book!Lock, state |-> Book!Held]
      BY <2>1, <2>3 DEF BookInv, ProbeInv
    <3>1. Pending(Book!Lock)
      <4>1. row[Book!Lock].live \/ read[Book!Lock] = "done"
        BY <2>1, <2>2, LockIsConfigured DEF BookInv, ProbeInv, RowInv, Connected
      <4> QED
        BY <2>2, <4>1, LockIsConfigured DEF BookInv, RowInv, Connected
    <3>2. PICK i \in 1 .. Len(feed) : /\ feed[i].entity = Book!Lock
                                     /\ \A j \in i + 1 .. Len(feed) : feed[j].entity # Book!Lock
      BY <3>1, LastEvent DEF BookInv, BookTypeOK
    <3>3. feed[i].state = Book!Held
      BY <3>2 DEF BookInv, FeedInv
    <3>4. feed[i] \in Event
      BY DEF BookInv, BookTypeOK
    <3> QED
      BY <3>2, <3>3, <3>4 DEF Event
  <2> QED
    BY <2>4, <2>5, <2>6 DEF BookInv
<1>6. CASE Book!BeginSession
  <2>1. /\ homeSession = "down" /\ homeSession' = "auth"
        /\ row' = Book!Rows("waiting") /\ found' = Book!Discovery("bootstrap")
        /\ UNCHANGED <<remote, feed, read, bulk, probe>>
    BY <1>6 DEF Book!BeginSession
  <2>2. /\ row' \in [Explicit -> [value : {"waiting", "unavailable"} \cup Condition, live : BOOLEAN]]
        /\ \A e \in Explicit : row'[e].value = "waiting" /\ ~row'[e].live
    BY <2>1 DEF Book!Rows
  <2>3. found' = [phase |-> "bootstrap", buffer |-> << >>, cards |-> << >>, limited |-> FALSE]
    BY <2>1 DEF Book!Discovery
  <2>4. BookTypeOK'
    BY <2>1, <2>2, <2>3 DEF BookInv, BookTypeOK
  <2>5. SessionInv'
    BY <2>1, <2>2, <2>3 DEF BookInv, SessionInv
  <2>6. FeedInv' /\ RowInv' /\ ProbeInv' /\ FoundInv'
    BY <2>1 DEF BookInv, SessionInv, FeedInv, RowInv, ProbeInv, FoundInv, Connected
  <2> QED
    BY <2>4, <2>5, <2>6 DEF BookInv
<1>7. CASE Book!Up
  <2>1. /\ homeSession = "subscribed" /\ homeSession' = "up"
        /\ read' = [e \in Explicit |-> "sent"] /\ bulk' = [Book!NoBulk EXCEPT !.at = "sent"]
        /\ UNCHANGED <<remote, feed, row, probe, found>>
    BY <1>7 DEF Book!Up, Book!bookVars
  <2>2. bulk'.at = "sent"
    BY <2>1 DEF Book!NoBulk
  <2>3. BookTypeOK' /\ SessionInv'
    BY <2>1, <2>2 DEF BookInv, BookTypeOK, SessionInv
  <2>4. FeedInv' /\ ProbeInv' /\ \A x : Pending(x)' <=> Pending(x)
    BY <2>1 DEF BookInv, FeedInv, ProbeInv, Pending
  <2>5. RowInv'
    BY <2>1, <2>4 DEF BookInv, RowInv, SessionInv, Connected, Condition
  <2>6. FoundInv'
    BY <2>1, <2>2, <2>4 DEF BookInv, FoundInv, Connected
  <2> QED
    BY <2>3, <2>4, <2>5, <2>6 DEF BookInv
<1>8. CASE Book!Drop
  <2>1. /\ homeSession' = "down" /\ feed' = << >> /\ read' = Book!NoRead /\ bulk' = Book!NoBulk
        /\ row' = [e \in Explicit |-> [row[e] EXCEPT !.value = "unavailable"]]
        /\ probe' = Book!NoProbe /\ found' = Book!Discovery("dormant") /\ remote' = remote
    BY <1>8 DEF Book!Drop
  <2>2. row' \in [Explicit -> [value : {"waiting", "unavailable"} \cup Condition, live : BOOLEAN]]
    BY <2>1 DEF BookInv, BookTypeOK
  <2> QED
    BY <2>1, <2>2, Forgets
<1>9. CASE Book!RestartWorker
  <2>1. /\ homeSession' = "down" /\ feed' = << >> /\ read' = Book!NoRead /\ bulk' = Book!NoBulk
        /\ row' = Book!Rows("waiting")
        /\ probe' = Book!NoProbe /\ found' = Book!Discovery("dormant") /\ remote' = remote
    BY <1>9 DEF Book!RestartWorker
  <2>2. row' \in [Explicit -> [value : {"waiting", "unavailable"} \cup Condition, live : BOOLEAN]]
    BY <2>1 DEF Book!Rows
  <2> QED
    BY <2>1, <2>2, Forgets
<1>10. CASE Book!BulkFails
  <2>1. /\ bulk.at # "none" /\ bulk' = [Book!NoBulk EXCEPT !.at = "done"]
        /\ UNCHANGED <<remote, homeSession, feed, read, row, probe>>
        /\ \/ found' = found /\ found.phase \in {"dormant", "failed"}
           \/ found' = Book!Discovery("failed")
    BY <1>10 DEF Book!BulkFails
  <2>2. bulk'.at = "done" /\ homeSession = "up"
    BY <2>1 DEF Book!NoBulk, BookInv, SessionInv
  <2>3. BookTypeOK' /\ SessionInv'
    BY <2>1, <2>2 DEF BookInv, BookTypeOK, SessionInv, Book!Discovery
  <2>4. FeedInv' /\ RowInv' /\ ProbeInv' /\ FoundInv'
    BY <2>1, <2>2 DEF BookInv, FeedInv, RowInv, ProbeInv, FoundInv, Pending, Connected, Book!Discovery
  <2> QED
    BY <2>3, <2>4 DEF BookInv
<1>11. CASE Book!Probe
  <2>1. /\ homeSession = "up" /\ probe' = [Book!NoProbe EXCEPT !.at = "sent"]
        /\ UNCHANGED <<remote, homeSession, feed, read, bulk, row, found>>
    BY <1>11 DEF Book!Probe
  <2>2. probe' \in [at : {"sent"}, same : {TRUE}, value : {"absent"}]
    BY <2>1 DEF Book!NoProbe, Book!Absent
  <2>3. BookTypeOK' /\ SessionInv'
    BY <2>1, <2>2 DEF BookInv, BookTypeOK, SessionInv, Condition
  <2>4. FeedInv' /\ RowInv' /\ FoundInv'
    BY <2>1, <2>2 DEF BookInv, FeedInv, RowInv, FoundInv, Pending, Connected
  <2>5. ProbeInv'
    BY <1>11, <2>1, <2>2 DEF Book!Probe, ProbeInv
  <2> QED
    BY <2>3, <2>4, <2>5 DEF BookInv
<1>12. CASE Book!ProbeArrives
  <2>1. /\ probe.at = "answered" /\ probe' = Book!NoProbe
        /\ IF probe.same /\ probe.value = Book!Held
           THEN row' = [row EXCEPT ![Book!Lock] = [value |-> Book!Held, live |-> TRUE]] ELSE row' = row
        /\ UNCHANGED <<remote, homeSession, feed, read, bulk, found>>
    BY <1>12 DEF Book!ProbeArrives
  <2>2. /\ probe'.at = "none"
        /\ probe' \in [at : {"none", "sent", "answered"}, same : BOOLEAN, value : Condition]
    BY <2>1 DEF Book!NoProbe, Book!Absent, Condition
  <2>3. homeSession = "up" /\ Connected
    BY <2>1 DEF BookInv, SessionInv, Connected
  <2>4. /\ row' \in [Explicit -> [value : {"waiting", "unavailable"} \cup Condition, live : BOOLEAN]]
        /\ \A e \in Explicit : e # Book!Lock => row'[e] = row[e]
        /\ IF probe.same /\ probe.value = Book!Held
           THEN row'[Book!Lock].value = Book!Held /\ row'[Book!Lock].live ELSE row'[Book!Lock] = row[Book!Lock]
    <3> DEFINE Row == [value : {"waiting", "unavailable"} \cup Condition, live : BOOLEAN]
               new == [value |-> Book!Held, live |-> TRUE]
    <3>1. new \in Row /\ new.value = Book!Held /\ new.live
      BY DEF Book!Held, Condition
    <3>2. row \in [Explicit -> Row] /\ Book!Lock \in Explicit
      BY LockIsConfigured DEF BookInv, BookTypeOK
    <3>3. IF probe.same /\ probe.value = Book!Held THEN row' = [row EXCEPT ![Book!Lock] = new] ELSE row' = row
      BY <2>1
    <3> HIDE DEF Row, new
    <3>4. row' \in [Explicit -> Row]
      BY <3>1, <3>2, <3>3
    <3> QED
      BY <3>1, <3>2, <3>3, <3>4 DEF Row
  <2>5. BookTypeOK' /\ SessionInv'
    BY <2>1, <2>2, <2>3, <2>4 DEF BookInv, BookTypeOK, SessionInv
  <2>6. FeedInv' /\ FoundInv' /\ ProbeInv' /\ \A x : Pending(x)' <=> Pending(x)
    BY <2>1, <2>2 DEF BookInv, FeedInv, FoundInv, ProbeInv, Pending, Connected
  <2>7. ASSUME probe.same, probe.value = Book!Held, ~Pending(Book!Lock) PROVE remote[Book!Lock] = Book!Held
    <3>1. ASSUME NEW i \in 1 .. Len(feed), feed[i] = [entity |-> Book!Lock, state |-> Book!Held] PROVE FALSE
      BY <2>7, <3>1 DEF Pending
    <3>2. row[Book!Lock].value = Book!Held
      BY <2>1, <2>7, <3>1 DEF BookInv, ProbeInv
    <3> QED
      BY <2>3, <2>7, <3>2, LockIsConfigured DEF BookInv, RowInv, Book!Held
  <2>8. RowInv'
    <3> SUFFICES ASSUME NEW e \in Explicit
                 PROVE  /\ ~Pending(e) => /\ row'[e].live \/ read[e] = "done" => row'[e].value = remote[e]
                                          /\ ~row'[e].live /\ read[e] \in Condition => read[e] = remote[e]
                        /\ row'[e].live \/ read[e] = "done" \/ row'[e].value \in {"waiting", "unavailable"}
      BY <2>1, <2>6 DEF RowInv
    <3>1. CASE e = Book!Lock /\ probe.same /\ probe.value = Book!Held
      BY <2>4, <2>7, <3>1
    <3>2. CASE ~(e = Book!Lock /\ probe.same /\ probe.value = Book!Held)
      BY <2>3, <2>4, <3>2 DEF BookInv, RowInv
    <3> QED
      BY <3>1, <3>2
  <2> QED
    BY <2>5, <2>6, <2>8 DEF BookInv
<1>13. CASE UNCHANGED <<remote, homeSession, feed, read, bulk, row, probe, found>>
  BY <1>13 DEF BookInv, BookTypeOK, SessionInv, FeedInv, RowInv, ProbeInv, FoundInv, Pending, Connected
<1> QED
  BY <1>1, <1>2, <1>3, <1>4, <1>5, <1>6, <1>7, <1>8, <1>9, <1>10, <1>11, <1>12, <1>13,
     Delivers, ReadsArrive, BulkArrives
     DEF Book!Next, Book!vars, Book!bookVars, Book!Disconnect, Book!PublishPage

\* Nothing is shown at the start.
LEMMA BookStarts == Book!Init => BookInv
<1> SUFFICES ASSUME Book!Init PROVE BookInv
  OBVIOUS
<1>1. /\ remote \in [Book!Entity -> {Book!Absent, "on"}]
      /\ homeSession = "down" /\ feed = << >> /\ read = Book!NoRead /\ bulk = Book!NoBulk
      /\ row = Book!Rows("waiting") /\ probe = Book!NoProbe /\ found = Book!Discovery("dormant")
  BY DEF Book!Init
<1>2. bulk.at = "none" /\ probe.at = "none"
  BY <1>1 DEF Book!NoBulk, Book!NoProbe
<1>3. /\ read \in [Explicit -> {"none", "sent", "done"} \cup Condition] /\ \A e \in Explicit : read[e] = "none"
      /\ probe \in [at : {"none", "sent", "answered"}, same : BOOLEAN, value : Condition]
      /\ row \in [Explicit -> [value : {"waiting", "unavailable"} \cup Condition, live : BOOLEAN]]
      /\ remote \in [Book!Entity -> Condition]
  BY <1>1 DEF Book!NoRead, Book!NoProbe, Book!Absent, Book!Rows, Condition
<1>4. found = [phase |-> "dormant", buffer |-> << >>, cards |-> << >>, limited |-> FALSE]
  BY <1>1 DEF Book!Discovery
<1>5. BookTypeOK
  BY <1>1, <1>2, <1>3, <1>4 DEF BookTypeOK
<1>6. SessionInv /\ FeedInv /\ RowInv /\ ProbeInv /\ FoundInv
  BY <1>1, <1>2, <1>3, <1>4 DEF SessionInv, FeedInv, RowInv, ProbeInv, FoundInv, Connected
<1> QED
  BY <1>5, <1>6 DEF BookInv

\* An entity without an event on its way is shown, or buffered for discovery, as it is: a read
\* answered at one moment and applied at a later one never undoes what an event told in between
\* (state.rs, Book::update; discovery.rs, Discovery::live and select).
THEOREM BookInvariance == Spec => []BookInv
  BY BookSteps, BookStarts, BookSpec, PTL DEF Book!Spec

\* Once every event is applied each row shows the current state, and discovery hides only what
\* does not exist or what the limit leaves out (ShownIsCurrent).
THEOREM WhatIsShownIsCurrent == Spec => []ShownIsCurrent
<1>1. BookInv => ShownIsCurrent
  <2> SUFFICES ASSUME BookInv, homeSession = "up", feed = << >>
               PROVE  /\ \A e \in Explicit : row[e].live \/ read[e] = "done" => row[e].value = remote[e]
                      /\ found.phase = "live" =>
                            \A f \in Found :
                               IF f \in DOMAIN found.cards THEN found.cards[f] = remote[f]
                               ELSE Book!Project(remote[f]) = Book!Absent \/ found.limited
    BY DEF ShownIsCurrent, Book!ShownIsCurrent
  <2>1. \A x : ~Pending(x)
    BY DEF Pending
  <2> QED
    BY <2>1 DEF BookInv, RowInv, FoundInv, Connected
<1> QED
  BY <1>1, BookInvariance, PTL
-----------------------------------------------------------------------------
(* The lists of choices the home's worker offers (HomeAssistantBook) *)

\* Sequences of entities in which none occurs twice.
Lists == {s \in Seq(Book!Entity) : Book!IsInjective(s)}

\* A proper part of a finite set is smaller.
LEMMA Smaller ==
    ASSUME NEW S, IsFiniteSet(S), NEW T \in SUBSET S, T # S
    PROVE  Cardinality(T) < Cardinality(S)
<1>1. /\ Cardinality(T) <= Cardinality(S) /\ Cardinality(T) # Cardinality(S) /\ IsFiniteSet(T)
  BY FS_Subset
<1>2. Cardinality(S) \in Nat /\ Cardinality(T) \in Nat
  BY <1>1, FS_CardinalityType
<1> QED
  BY <1>1, <1>2

\* A finite set of numbers can be listed in order: the place of a number is how many precede it.
LEMMA Ordered ==
    ASSUME NEW S \in SUBSET Nat, IsFiniteSet(S)
    PROVE  \E s \in [1 .. Cardinality(S) -> S] : \A i, j \in DOMAIN s : i < j => s[i] < s[j]
<1> DEFINE n == Cardinality(S)
           before(x) == {y \in S : y < x}
           place == [x \in S |-> Cardinality(before(x)) + 1]
<1>1. n \in Nat
  BY FS_CardinalityType
<1>2. \A x \in S : IsFiniteSet(before(x)) /\ Cardinality(before(x)) \in Nat
  BY FS_Subset, FS_CardinalityType
<1>3. ASSUME NEW x \in S PROVE Cardinality(before(x)) < n
  <2>1. before(x) \in SUBSET S /\ before(x) # S
    OBVIOUS
  <2> QED
    BY <2>1, Smaller
<1>4. ASSUME NEW x \in S, NEW y \in S, x < y PROVE place[x] < place[y]
  <2>1. before(x) \in SUBSET before(y) /\ x \in before(y) /\ x \notin before(x)
    <3>1. \A z \in S : z < x => z < y
      BY <1>4
    <3>2. x \in Nat
      OBVIOUS
    <3>3. before(x) \in SUBSET before(y)
      BY <3>1
    <3>4. x \in before(y)
      BY <1>4
    <3>5. x \notin before(x)
      BY <3>2
    <3> QED
      BY <3>3, <3>4, <3>5
  <2>2. Cardinality(before(x)) < Cardinality(before(y))
    BY <1>2, <2>1, Smaller
  <2> QED
    BY <1>2, <2>2
<1>5. place \in [S -> 1 .. n]
  BY <1>1, <1>2, <1>3
<1> HIDE DEF place, n
<1>6. place \in Injection(S, 1 .. n)
  <2>1. \A x, y \in S : place[x] = place[y] => x = y
    BY <1>4, <1>5
  <2> QED
    BY <1>5, <2>1 DEF Injection, IsInjective
<1>7. IsFiniteSet(1 .. n) /\ Cardinality(1 .. n) = Cardinality(S)
  BY <1>1, FS_Interval DEF n
<1>8. place \in Surjection(S, 1 .. n)
  BY <1>6, <1>7, FS_Injection
<1>9. \A i \in 1 .. n : \E x \in S : place[x] = i
  BY <1>8 DEF Surjection
<1> DEFINE s == [i \in 1 .. n |-> CHOOSE x \in S : place[x] = i]
<1>10. s \in [1 .. n -> S] /\ \A i \in 1 .. n : place[s[i]] = i
  BY <1>9
<1>11. ASSUME NEW i \in 1 .. n, NEW j \in 1 .. n, i < j PROVE s[i] < s[j]
  <2>1. s[i] \in Nat /\ s[j] \in Nat /\ s[i] \in S /\ s[j] \in S /\ place[s[i]] = i /\ place[s[j]] = j
    BY <1>10
  <2> HIDE DEF s
  <2>2. ~(s[j] < s[i]) /\ s[i] # s[j]
    BY <1>1, <1>4, <1>11, <2>1
  <2> QED
    BY <2>1, <2>2
<1> HIDE DEF s
<1> QED
  BY <1>10, <1>11 DEF n

\* The options of a list name each entity that exists once.
LEMMA OptionsAreAList == ASSUME NEW states PROVE Book!Options(states) \in Lists
<1> DEFINE exist == {e \in Book!Entity : states[e] # Book!Absent}
           s == Book!Options(states)
<1>1. exist \in SUBSET Book!Entity /\ Book!Entity \in SUBSET Nat /\ IsFiniteSet(Book!Entity)
  BY EntityAssumption, FS_Union DEF Book!Entity
<1>2. IsFiniteSet(exist) /\ exist \in SUBSET Nat /\ Cardinality(exist) \in Nat
  BY <1>1, FS_Subset, FS_CardinalityType
<1>3. s \in [1 .. Cardinality(exist) -> exist] /\ \A i, j \in DOMAIN s : i < j => s[i] < s[j]
  <2>1. s = CHOOSE t \in [1 .. Cardinality(exist) -> exist] : \A i, j \in DOMAIN t : i < j => t[i] < t[j]
    BY Counts DEF Book!Options
  <2> HIDE DEF exist, s
  <2>2. \E t \in [1 .. Cardinality(exist) -> exist] : \A i, j \in DOMAIN t : i < j => t[i] < t[j]
    BY <1>2, Ordered
  <2> QED
    BY <2>1, <2>2
<1> HIDE DEF exist, s
<1> DEFINE n == Cardinality(exist)
<1> HIDE DEF n
<1>6. s \in [1 .. n -> Book!Entity] /\ n \in Nat /\ exist \subseteq Nat /\ DOMAIN s = 1 .. n /\ s \in [1 .. n -> exist]
  BY <1>1, <1>2, <1>3 DEF n
<1>4. s \in Seq(Book!Entity)
  BY <1>6
<1>5. ASSUME NEW i \in DOMAIN s, NEW j \in DOMAIN s, s[i] = s[j] PROVE i = j
  <2>1. i \in Nat /\ j \in Nat /\ s[i] \in Nat /\ s[j] \in Nat
    <3>1. i \in 1 .. n /\ j \in 1 .. n
      BY <1>5, <1>6
    <3>2. s[i] \in exist /\ s[j] \in exist
      BY <1>6, <3>1
    <3>3. i \in Nat /\ j \in Nat
      BY <1>6, <3>1
    <3>4. s[i] \in Nat /\ s[j] \in Nat
      BY <1>6, <3>2
    <3> QED
      BY <3>3, <3>4
  <2>2. ~(i < j) /\ ~(j < i)
    BY <1>3, <1>5, <2>1
  <2> QED
    BY <2>1, <2>2
<1> QED
  BY <1>4, <1>5 DEF Lists, Book!IsInjective, s

\* A list in pages, of which all but the last are full.
Page(list, rev, last, i) ==
    [rev |-> rev, offset |-> (i - 1) * PageSize, complete |-> i = last,
     options |-> SubSeq(list, (i - 1) * PageSize + 1, IF i = last THEN Len(list) ELSE i * PageSize)]
IsPaged(list, last) ==
    /\ last \in Nat \ {0}
    /\ \A i \in 1 .. last : (i - 1) * PageSize \in 0 .. Len(list) /\ ((i - 1) * PageSize = 0 <=> i = 1)

\* The pages of a list (catalog_snapshot) are numbered from one, and only the first begins at 0.
LEMMA Paged ==
    ASSUME NEW list \in Seq(Book!Entity), NEW rev
    PROVE  \E last \in Nat : /\ IsPaged(list, last)
                             /\ Book!Pages(list, rev) = [i \in 1 .. last |-> Page(list, rev, last, i)]
<1> DEFINE L == Len(list)
           n == IF list = << >> THEN 1 ELSE (L + PageSize - 1) \div PageSize
<1>1. L \in Nat /\ PageSize \in Nat \ {0} /\ (list # << >> => L >= 1)
  BY EntityAssumption
<1>2. n \in Nat /\ n >= 1 /\ (list = << >> => n = 1) /\ (list # << >> => (n - 1) * PageSize < L)
  <2>1. CASE list = << >>
    BY <2>1
  <2>2. CASE list # << >>
    <3> HIDE DEF L
    <3>1. n \in Int /\ n * PageSize <= L + PageSize - 1 /\ L + PageSize - 1 < (n + 1) * PageSize
      BY <1>1, <2>2
    <3> HIDE DEF n
    <3>2. (n + 1) * PageSize = n * PageSize + PageSize /\ (n - 1) * PageSize = n * PageSize - PageSize
      BY <1>1, <3>1
    <3>3. (n - 1) * PageSize < L /\ L <= n * PageSize
      BY <1>1, <3>1, <3>2
    <3>4. n >= 1
      BY <1>1, <2>2, <3>1, <3>3, Z3
    <3> QED
      BY <2>2, <3>1, <3>3, <3>4
  <2> QED
    BY <2>1, <2>2
<1>3. Book!Pages(list, rev) = [i \in 1 .. n |-> Page(list, rev, n, i)]
  BY DEF Book!Pages, Page
<1> HIDE DEF n, L
<1>4. ASSUME NEW i \in 1 .. n PROVE (i - 1) * PageSize \in 0 .. L
  <2>1. CASE list = << >>
    <3>1. i - 1 = 0 /\ 0 * PageSize = 0
      BY <1>1, <1>2, <2>1
    <3> QED
      BY <1>1, <3>1
  <2>2. CASE list # << >>
    <3>1. i - 1 \in Nat /\ n - 1 \in Nat /\ i - 1 <= n - 1
      BY <1>2
    <3>2. (i - 1) * PageSize <= (n - 1) * PageSize
      BY <1>1, <3>1
    <3>3. (i - 1) * PageSize \in Nat /\ (n - 1) * PageSize \in Nat
      BY <1>1, <3>1
    <3> QED
      BY <1>1, <1>2, <2>2, <3>2, <3>3
  <2> QED
    BY <2>1, <2>2
<1>5. ASSUME NEW i \in 1 .. n PROVE (i - 1) * PageSize = 0 <=> i = 1
  <2>1. i - 1 \in Nat /\ (i - 1 = 0 <=> i = 1)
    BY <1>2
  <2>2. (i - 1) * PageSize = 0 <=> i - 1 = 0
    BY <1>1, <2>1
  <2> QED
    BY <2>1, <2>2
<1>6. IsPaged(list, n)
  BY <1>2, <1>4, <1>5 DEF IsPaged, L
<1> QED
  BY <1>2, <1>3, <1>6

\* Where a page begins and ends in its list.
Last(list, last, i) == IF i = last THEN Len(list) ELSE i * PageSize
\* A page lies within its list, and ends where the next begins.
LEMMA PageBounds ==
    ASSUME NEW list \in Seq(Book!Entity), NEW last, IsPaged(list, last), NEW i \in 1 .. last
    PROVE  /\ (i - 1) * PageSize \in 0 .. Len(list)
           /\ Last(list, last, i) \in (i - 1) * PageSize .. Len(list)
           /\ i # last => i + 1 \in 1 .. last /\ (i + 1 - 1) * PageSize = Last(list, last, i)
<1>1. (i - 1) * PageSize \in 0 .. Len(list) /\ last \in Nat /\ Len(list) \in Nat
  BY DEF IsPaged
<1>2. CASE i = last
  BY <1>1, <1>2 DEF Last
<1>3. CASE i # last
  <2>1. i + 1 \in 1 .. last /\ i + 1 - 1 = i /\ i \in Nat
    BY <1>1, <1>3
  <2>2. i * PageSize \in 0 .. Len(list)
    <3>1. (i + 1 - 1) * PageSize \in 0 .. Len(list)
      <4> DEFINE j == i + 1
      <4>1. j \in 1 .. last
        BY <2>1
      <4> HIDE DEF j
      <4>2. (j - 1) * PageSize \in 0 .. Len(list)
        BY <4>1 DEF IsPaged
      <4> QED
        BY <4>2 DEF j
    <3> QED
      BY <2>1, <3>1
  <2>3. PageSize \in Nat
    BY EntityAssumption
  <2>4. (i - 1) * PageSize + PageSize = i * PageSize
    BY <2>1, <2>3
  <2> QED
    BY <1>1, <1>3, <2>1, <2>2, <2>3, <2>4 DEF Last
<1> QED
  BY <1>2, <1>3

\* A page follows what came before it, and with it this is a beginning of the list.
LEMMA Joined ==
    ASSUME NEW list \in Lists, NEW last, IsPaged(list, last), NEW i \in 1 .. last, NEW rev
    PROVE  LET got == SubSeq(list, 1, (i - 1) * PageSize)
               page == Page(list, rev, last, i) IN
           /\ got \in Seq(Book!Entity) /\ Len(got) = page.offset
           /\ page.options \in Seq(Book!Entity)
           /\ got \o page.options = SubSeq(list, 1, Last(list, last, i))
           /\ SubSeq(list, 1, Last(list, last, i)) \in Lists
<1> DEFINE a == (i - 1) * PageSize
           b == Last(list, last, i)
<1>1. list \in Seq(Book!Entity) /\ Book!IsInjective(list)
  BY DEF Lists
<1>2. a \in 0 .. Len(list) /\ b \in a .. Len(list) /\ Len(list) \in Nat
  BY <1>1, PageBounds
<1>3. /\ Page(list, rev, last, i).offset = a
      /\ Page(list, rev, last, i).options = SubSeq(list, a + 1, b)
  BY DEF Page, Last
<1> HIDE DEF a, b
<1>4. /\ SubSeq(list, 1, a) \in Seq(Book!Entity) /\ Len(SubSeq(list, 1, a)) = a
      /\ SubSeq(list, a + 1, b) \in Seq(Book!Entity)
  <2>1. a \in Int /\ b \in Int /\ a + 1 \in Int /\ 1 \in Int
    BY <1>2
  <2>2. \A j \in 1 .. Len(list) : list[j] \in Book!Entity
    BY <1>1
  <2>3. (\A j \in 1 .. a : list[j] \in Book!Entity) /\ (\A j \in a + 1 .. b : list[j] \in Book!Entity)
    BY <1>2, <2>2
  <2>4. SubSeq(list, 1, a) \in Seq(Book!Entity) /\ Len(SubSeq(list, 1, a)) = IF 1 <= a THEN a - 1 + 1 ELSE 0
    BY <2>1, <2>3, SubSeqProperties
  <2>5. SubSeq(list, a + 1, b) \in Seq(Book!Entity)
    BY <2>1, <2>3, SubSeqProperties
  <2> QED
    BY <1>2, <2>4, <2>5
<1>5. SubSeq(list, 1, a) \o SubSeq(list, a + 1, b) = SubSeq(list, 1, b)
  <2>1. 1 \in 1 .. Len(list) + 1 /\ a \in 1 - 1 .. Len(list) /\ b \in a .. Len(list)
    BY <1>2
  <2> QED
    BY <1>1, <2>1, ConcatAdjacentSubSeq
<1>6. SubSeq(list, 1, b) \in Lists
  <2>1. b \in Int /\ b \in Nat /\ 1 \in Int /\ \A j \in 1 .. b : list[j] \in Book!Entity
    BY <1>1, <1>2
  <2>2. /\ SubSeq(list, 1, b) \in Seq(Book!Entity) /\ Len(SubSeq(list, 1, b)) = IF 1 <= b THEN b - 1 + 1 ELSE 0
        /\ \A j \in 1 .. b - 1 + 1 : SubSeq(list, 1, b)[j] = list[1 + j - 1]
    BY <2>1, SubSeqProperties
  <2>3. DOMAIN SubSeq(list, 1, b) = 1 .. b /\ \A j \in 1 .. b : SubSeq(list, 1, b)[j] = list[j]
    BY <2>1, <2>2
  <2>4. 1 .. b \subseteq DOMAIN list
    BY <1>1, <1>2
  <2>5. Book!IsInjective(SubSeq(list, 1, b))
    BY <1>1, <2>3, <2>4 DEF Book!IsInjective
  <2> QED
    BY <2>2, <2>5 DEF Lists
<1> QED
  BY <1>3, <1>4, <1>5, <1>6 DEF a, b

PageType == [rev : Nat, offset : Nat, complete : BOOLEAN, options : Seq(Book!Entity)]
HostType == [rev : Nat, got : Seq(Book!Entity), shownRev : Nat, shown : Seq(Book!Entity), refused : BOOLEAN]
ListTypeOK == lists \in Seq(Lists) /\ catalog \in Seq(PageType) /\ host \in HostType

\* What is still to be sent are the last pages of the newest list, and what was sent of it is
\* what the host has got.
SendInv ==
    catalog # << >> =>
        LET rev == Len(lists)
            list == lists[rev] IN
        /\ rev # 0
        /\ \E last \in Nat : \E k \in 1 .. last :
              /\ IsPaged(list, last) /\ Len(catalog) = last - k + 1
              /\ \A i \in 1 .. Len(catalog) : catalog[i] = Page(list, rev, last, k + i - 1)
              /\ k = 1 \/ (host.rev = rev /\ host.got = SubSeq(list, 1, (k - 1) * PageSize))

ListInv == ListTypeOK /\ SendInv /\ ChoicesAreWhole

\* A list that is sent from its first page.
LEMMA ListBegins ==
    ASSUME ListInv, NEW list \in Lists, lists' = Append(lists, list), host' = host,
           catalog' = << >> \/ catalog' = Book!Pages(list, Len(lists) + 1)
    PROVE  ListInv'
<1>1. /\ lists \in Seq(Lists) /\ lists' \in Seq(Lists) /\ Len(lists) \in Nat /\ Len(lists') = Len(lists) + 1
      /\ lists'[Len(lists) + 1] = list /\ \A i \in 1 .. Len(lists) : lists'[i] = lists[i]
      /\ list \in Seq(Book!Entity)
  BY DEF ListInv, ListTypeOK, Lists
<1>2. ChoicesAreWhole'
  BY <1>1 DEF ListInv, ListTypeOK, HostType, ChoicesAreWhole, Book!ChoicesAreWhole
<1>3. CASE catalog' = << >>
  BY <1>1, <1>2, <1>3 DEF ListInv, ListTypeOK, SendInv
<1>4. CASE catalog' = Book!Pages(list, Len(lists) + 1)
  <2> DEFINE rev == Len(lists) + 1
  <2>1. PICK last \in Nat : IsPaged(list, last) /\ catalog' = [i \in 1 .. last |-> Page(list, rev, last, i)]
    BY <1>1, <1>4, Paged
  <2>2. last \in Nat \ {0}
    BY <2>1 DEF IsPaged
  <2>3. ASSUME NEW i \in 1 .. last PROVE Page(list, rev, last, i) \in PageType
    <3>1. (i - 1) * PageSize \in Nat
      BY <2>1 DEF IsPaged
    <3>2. Page(list, rev, last, i).options \in Seq(Book!Entity)
      BY <2>1, Joined
    <3> QED
      BY <1>1, <3>1, <3>2 DEF Page, PageType
  <2>4. catalog' \in Seq(PageType) /\ Len(catalog') = last /\ \A i \in 1 .. last : catalog'[i] = Page(list, rev, last, i)
    <3> DEFINE P == [i \in 1 .. last |-> Page(list, rev, last, i)]
    <3>1. P \in [1 .. last -> PageType]
      BY <2>3
    <3>2. \A i \in 1 .. last : P[i] = Page(list, rev, last, i)
      OBVIOUS
    <3> HIDE DEF P
    <3>3. catalog' = P
      BY <2>1 DEF P
    <3> QED
      BY <2>2, <3>1, <3>2, <3>3
  <2>5. ListTypeOK'
    BY <1>1, <2>4 DEF ListInv, ListTypeOK
  <2>6. SendInv'
    <3>1. \A i \in 1 .. last : 1 + i - 1 = i
      OBVIOUS
    <3>2. last - 1 + 1 = last /\ 1 \in 1 .. last
      BY <2>2
    <3> QED
      BY <1>1, <2>1, <2>4, <3>1, <3>2 DEF SendInv
  <2> QED
    BY <1>2, <2>5, <2>6 DEF ListInv
<1> QED
  BY <1>3, <1>4

\* What the host makes of a page it takes.
LEMMA Accepts ==
    ASSUME NEW h, NEW page, NEW given,
           given = IF page.offset = 0 THEN [h EXCEPT !.rev = page.rev, !.got = << >>] ELSE h,
           given.rev = page.rev, Len(given.got) = page.offset, Book!IsInjective(given.got \o page.options)
    PROVE  Book!Accepted(h, page) =
              IF page.complete
              THEN [given EXCEPT !.rev = 0, !.got = << >>, !.shownRev = page.rev, !.shown = given.got \o page.options]
              ELSE [given EXCEPT !.got = given.got \o page.options]
  BY DEF Book!Accepted

\* A page is sent.
LEMMA ListGoesOn == ListInv /\ Book!PublishPage => ListInv'
<1> SUFFICES ASSUME ListInv, Book!PublishPage PROVE ListInv'
  OBVIOUS
<1> DEFINE rev == Len(lists)
           list == lists[rev]
           page == Head(catalog)
<1>1. /\ catalog # << >> /\ host' = Book!Accepted(host, page) /\ catalog' = Tail(catalog) /\ lists' = lists
  BY DEF Book!PublishPage
<1>2. rev \in Nat \ {0} /\ list \in Lists /\ list \in Seq(Book!Entity) /\ catalog \in Seq(PageType) /\ host \in HostType
  <2>1. rev \in Nat \ {0} /\ rev \in 1 .. Len(lists)
    BY <1>1 DEF ListInv, ListTypeOK, SendInv
  <2> QED
    BY <2>1 DEF ListInv, ListTypeOK, Lists
<1>0. PICK last \in Nat : \E k \in 1 .. last :
         /\ IsPaged(list, last) /\ Len(catalog) = last - k + 1
         /\ \A i \in 1 .. Len(catalog) : catalog[i] = Page(list, rev, last, k + i - 1)
         /\ k = 1 \/ (host.rev = rev /\ host.got = SubSeq(list, 1, (k - 1) * PageSize))
  BY <1>1 DEF ListInv, SendInv
<1>3. PICK k \in 1 .. last :
         /\ IsPaged(list, last) /\ Len(catalog) = last - k + 1
         /\ \A i \in 1 .. Len(catalog) : catalog[i] = Page(list, rev, last, k + i - 1)
         /\ k = 1 \/ (host.rev = rev /\ host.got = SubSeq(list, 1, (k - 1) * PageSize))
  BY <1>0
<1> HIDE DEF rev, list
<1> DEFINE so_far == SubSeq(list, 1, (k - 1) * PageSize)
           now == SubSeq(list, 1, Last(list, last, k))
           given == [host EXCEPT !.rev = rev, !.got = << >>]
<1>4. page = Page(list, rev, last, k) /\ page.rev = rev /\ page.offset = (k - 1) * PageSize /\ page.complete = (k = last)
  <2>1. 1 \in 1 .. Len(catalog) /\ k + 1 - 1 = k /\ page = catalog[1]
    BY <1>1, <1>2, <1>3
  <2>2. page = Page(list, rev, last, k)
    BY <1>3, <2>1
  <2> QED
    BY <2>2 DEF Page
<1> HIDE DEF page
<1>5. /\ so_far \in Seq(Book!Entity) /\ Len(so_far) = page.offset /\ page.options \in Seq(Book!Entity)
      /\ so_far \o page.options = now /\ now \in Lists
  BY <1>2, <1>3, <1>4, Joined
<1>6. page.offset = 0 <=> k = 1
  BY <1>3, <1>4 DEF IsPaged
<1>7. k = 1 => so_far = << >>
  <2>1. k = 1 => (k - 1) * PageSize = 0
    BY <1>4, <1>6
  <2> QED
    BY <2>1, SubSeqEmpty
<1> HIDE DEF so_far, now
<1>8. /\ ~host'.refused /\ host' \in HostType
      /\ IF k = last THEN host'.shownRev = rev /\ host'.shown = now
         ELSE /\ host'.rev = rev /\ host'.got = now
              /\ host'.shownRev = host.shownRev /\ host'.shown = host.shown
  <2>1. now \in Seq(Book!Entity) /\ Book!IsInjective(now) /\ ~host.refused
    BY <1>5 DEF Lists, ListInv, ChoicesAreWhole, Book!ChoicesAreWhole
  <2>2. ASSUME NEW h \in HostType, h.rev = rev, h.got = so_far, h.shownRev = host.shownRev, h.shown = host.shown,
               ~h.refused,
               host' = IF page.complete
                       THEN [h EXCEPT !.rev = 0, !.got = << >>, !.shownRev = page.rev, !.shown = now]
                       ELSE [h EXCEPT !.got = now]
        PROVE  /\ ~host'.refused /\ host' \in HostType
               /\ IF k = last THEN host'.shownRev = rev /\ host'.shown = now
                  ELSE /\ host'.rev = rev /\ host'.got = now
                       /\ host'.shownRev = host.shownRev /\ host'.shown = host.shown
    <3>1. << >> \in Seq(Book!Entity)
      OBVIOUS
    <3> QED
      BY <1>2, <1>4, <2>1, <2>2, <3>1 DEF HostType
  <2>3. CASE k = 1
    <3>1. given \in HostType /\ given.rev = rev /\ given.got = << >> /\ given.shownRev = host.shownRev
          /\ given.shown = host.shown /\ ~given.refused
      <4> DEFINE Names == Seq(Book!Entity)
      <4>1. << >> \in Names /\ host \in [rev : Nat, got : Names, shownRev : Nat, shown : Names, refused : BOOLEAN]
        BY <1>2 DEF HostType
      <4> HIDE DEF Names
      <4>2. given \in [rev : Nat, got : Names, shownRev : Nat, shown : Names, refused : BOOLEAN]
        BY <1>2, <4>1
      <4>3. given.rev = rev /\ given.got = << >> /\ given.shownRev = host.shownRev /\ given.shown = host.shown
            /\ given.refused = host.refused
        BY <4>1
      <4> QED
        BY <2>1, <4>2, <4>3 DEF HostType, Names
    <3>2. host' = IF page.complete
                  THEN [given EXCEPT !.rev = 0, !.got = << >>, !.shownRev = page.rev, !.shown = now]
                  ELSE [given EXCEPT !.got = now]
      <4>1. [host EXCEPT !.rev = page.rev, !.got = << >>] = given
        BY <1>4
      <4>2. given.got \o page.options = now /\ Len(given.got) = page.offset
        BY <1>5, <1>7, <2>3, <3>1
      <4>3. given = IF page.offset = 0 THEN [host EXCEPT !.rev = page.rev, !.got = << >>] ELSE host
        BY <1>6, <2>3, <4>1
      <4>4. given.rev = page.rev /\ Book!IsInjective(given.got \o page.options)
        BY <1>4, <2>1, <3>1, <4>2
      <4> HIDE DEF given
      <4>5. Book!Accepted(host, page) =
               IF page.complete
               THEN [given EXCEPT !.rev = 0, !.got = << >>, !.shownRev = page.rev, !.shown = given.got \o page.options]
               ELSE [given EXCEPT !.got = given.got \o page.options]
        BY <4>2, <4>3, <4>4, Accepts
      <4> QED
        BY <1>1, <4>2, <4>5
    <3> QED
      BY <1>7, <2>2, <2>3, <3>1, <3>2
  <2>4. CASE k # 1
    <3>1. host.rev = rev /\ host.got = so_far
      BY <1>3, <2>4 DEF so_far
    <3>2. host' = IF page.complete
                  THEN [host EXCEPT !.rev = 0, !.got = << >>, !.shownRev = page.rev, !.shown = now]
                  ELSE [host EXCEPT !.got = now]
      BY <1>1, <1>4, <1>5, <1>6, <2>1, <2>4, <3>1 DEF Book!Accepted
    <3> QED
      BY <1>2, <2>1, <2>2, <3>1, <3>2
  <2> QED
    BY <2>3, <2>4
<1>9. catalog' \in Seq(PageType) /\ Len(catalog') = Len(catalog) - 1
      /\ \A i \in 1 .. Len(catalog') : catalog'[i] = catalog[i + 1]
  BY <1>1, <1>2
<1>10. ListTypeOK'
  BY <1>1, <1>8, <1>9 DEF ListInv, ListTypeOK
<1>11. ChoicesAreWhole'
  <2>1. k = last => now = list
    <3>1. Last(list, last, last) = Len(list)
      BY DEF Last
    <3> QED
      BY <1>2, <3>1, SubSeqFull DEF now
  <2>2. lists[rev] = list /\ rev <= Len(lists) /\ rev \in Nat
    BY <1>2 DEF list, rev
  <2> QED
    BY <1>1, <1>8, <2>1, <2>2 DEF ListInv, ChoicesAreWhole, Book!ChoicesAreWhole
<1>12. SendInv'
  <2> SUFFICES ASSUME catalog' # << >> PROVE SendInv'
    BY DEF SendInv
  <2>1. Len(catalog') >= 1 /\ Len(catalog') \in Nat
    BY <1>9
  <2>2. k # last /\ k + 1 \in 1 .. last /\ Len(catalog') = last - (k + 1) + 1
    BY <1>3, <1>9, <2>1
  <2>3. \A i \in 1 .. Len(catalog') : catalog'[i] = Page(list, rev, last, (k + 1) + i - 1)
    <3> SUFFICES ASSUME NEW i \in 1 .. Len(catalog') PROVE catalog'[i] = Page(list, rev, last, (k + 1) + i - 1)
      OBVIOUS
    <3>1. i + 1 \in 1 .. Len(catalog) /\ k + (i + 1) - 1 = (k + 1) + i - 1
      BY <1>3, <1>9, <2>1
    <3> QED
      BY <1>3, <1>9, <3>1
  <2>4. host'.rev = rev /\ host'.got = SubSeq(list, 1, (k + 1 - 1) * PageSize)
    <3>1. (k + 1 - 1) * PageSize = Last(list, last, k)
      BY <1>2, <1>3, <2>2, PageBounds
    <3> QED
      BY <1>8, <2>2, <3>1 DEF now
  <2>5. rev # 0 /\ rev = Len(lists') /\ list = lists'[Len(lists')]
    BY <1>1, <1>2 DEF rev, list
  <2>6. \E l \in Nat : \E j \in 1 .. l :
           /\ IsPaged(list, l) /\ Len(catalog') = l - j + 1
           /\ \A i \in 1 .. Len(catalog') : catalog'[i] = Page(list, rev, l, j + i - 1)
           /\ j = 1 \/ (host'.rev = rev /\ host'.got = SubSeq(list, 1, (j - 1) * PageSize))
    <3> DEFINE next == k + 1
    <3>1. /\ next \in 1 .. last /\ Len(catalog') = last - next + 1
          /\ \A i \in 1 .. Len(catalog') : catalog'[i] = Page(list, rev, last, next + i - 1)
          /\ host'.rev = rev /\ host'.got = SubSeq(list, 1, (next - 1) * PageSize)
      BY <2>2, <2>3, <2>4
    <3> HIDE DEF next
    <3> QED
      BY <1>3, <3>1
  <2> QED
    BY <2>5, <2>6 DEF SendInv
<1> QED
  BY <1>10, <1>11, <1>12 DEF ListInv

\* A bulk read makes a list, a page is sent, or what is under way is dropped.
LEMMA ListSteps == ListInv /\ [Book!Next]_(Book!vars) => ListInv'
<1> SUFFICES ASSUME ListInv, [Book!Next]_(Book!vars) PROVE ListInv'
  OBVIOUS
<1>1. ASSUME NEW twice \in BOOLEAN, Book!BulkArrives(twice) PROVE ListInv'
  <2>1. /\ lists' = Append(lists, Book!Options(bulk.states)) /\ host' = host
        /\ catalog' = << >> \/ catalog' = Book!Pages(Book!Options(bulk.states), Len(lists) + 1)
    BY <1>1 DEF Book!BulkArrives
  <2> QED
    BY <2>1, OptionsAreAList, ListBegins
<1>2. CASE Book!PublishPage
  BY <1>2, ListGoesOn
<1>3. CASE Book!RestartWorker
  <2>1. catalog' = << >> /\ lists' = << >> /\ host' = Book!NoHostList
    BY <1>3 DEF Book!RestartWorker, Book!RestartedHost
  <2> QED
    BY <2>1 DEF ListInv, ListTypeOK, HostType, SendInv, ChoicesAreWhole, Book!ChoicesAreWhole, Book!NoHostList
<1>4. CASE catalog' = << >> /\ UNCHANGED <<lists, host>>
  BY <1>4 DEF ListInv, ListTypeOK, SendInv, ChoicesAreWhole, Book!ChoicesAreWhole
<1>5. CASE UNCHANGED <<catalog, lists, host>>
  BY <1>5 DEF ListInv, ListTypeOK, SendInv, ChoicesAreWhole, Book!ChoicesAreWhole
<1> QED
  BY <1>1, <1>2, <1>3, <1>4, <1>5
     DEF Book!Next, Book!vars, Book!listVars, Book!Change, Book!Subscribed, Book!AnswerRead, Book!AnswerBulk,
         Book!AnswerProbe, Book!BeginSession, Book!Up, Book!Disconnect, Book!Drop, Book!Deliver, Book!ReadArrives,
         Book!BulkFails, Book!Probe, Book!ProbeArrives

\* No list is made at the start.
LEMMA ListStarts == Book!Init => ListInv
  BY DEF Book!Init, Book!NoHostList, ListInv, ListTypeOK, HostType, SendInv, ChoicesAreWhole, Book!ChoicesAreWhole

\* What is still to be sent of a list continues what the host has of it: a new bulk read, a lost
\* session or another process never leaves the host with the pages of two lists (state.rs,
\* catalog_snapshot; settings_choices.rs, Catalog::accept).
THEOREM ListInvariance == Spec => []ListInv
  BY ListSteps, ListStarts, BookSpec, PTL DEF Book!Spec

\* The host shows a list only whole and as the running worker made it, and refuses no page
\* (ChoicesAreWhole).
THEOREM ChoicesStayWhole == Spec => []ChoicesAreWhole
<1>1. ListInv => ChoicesAreWhole
  BY DEF ListInv
<1> QED
  BY <1>1, ListInvariance, PTL
-----------------------------------------------------------------------------
(* What workers notify (WorkerNotices) *)

\* The instance counts as FiniteSets does.
LEMMA NoticesCount == \A S : Notices!Cardinality(S) = Cardinality(S)
  BY DEF Notices!Cardinality, Cardinality

\* What is retained keeps its order: nothing is further from the end than before.
LEMMA Retained ==
    ASSUME NEW E, NEW s \in Seq(E), NEW kept \in SUBSET DOMAIN s
    PROVE  LET t == Notices!Retain(s, kept) IN
           /\ t \in Seq(E)
           /\ \A k \in DOMAIN t : \E j \in kept : t[k] = s[j] /\ Len(t) - k <= Len(s) - j
           /\ \A j \in kept : \E k \in DOMAIN t : t[k] = s[j]
<1> DEFINE n == Cardinality(kept)
           upTo(j) == {i \in kept : i <= j}
           place == [j \in kept |-> Cardinality(upTo(j))]
<1>1. Len(s) \in Nat /\ DOMAIN s = 1 .. Len(s) /\ IsFiniteSet(kept) /\ n \in Nat /\ kept \subseteq Nat
  <2>1. Len(s) \in Nat /\ DOMAIN s = 1 .. Len(s)
    OBVIOUS
  <2>2. IsFiniteSet(1 .. Len(s))
    BY <2>1, FS_Interval
  <2>3. IsFiniteSet(kept)
    BY <2>1, <2>2, FS_Subset
  <2> QED
    BY <2>1, <2>3, FS_CardinalityType
<1>2. ASSUME NEW j \in kept
      PROVE  IsFiniteSet(upTo(j)) /\ Cardinality(upTo(j)) \in 1 .. n
  <2>1. upTo(j) \in SUBSET kept /\ j \in upTo(j)
    BY <1>1
  <2>2. IsFiniteSet(upTo(j)) /\ Cardinality(upTo(j)) <= n
    BY <1>1, <2>1, FS_Subset
  <2>3. Cardinality(upTo(j)) \in Nat /\ Cardinality(upTo(j)) # 0
    BY <2>1, <2>2, FS_CardinalityType, FS_EmptySet
  <2> QED
    BY <1>1, <2>2, <2>3
<1>3. ASSUME NEW i \in kept, NEW j \in kept, i < j PROVE place[i] < place[j]
  <2>1. upTo(i) \in SUBSET upTo(j) /\ j \in upTo(j) /\ j \notin upTo(i)
    BY <1>1, <1>3
  <2>2. Cardinality(upTo(i)) < Cardinality(upTo(j))
    BY <1>2, <2>1, Smaller
  <2> QED
    BY <2>2
<1>4. place \in [kept -> 1 .. n]
  BY <1>2
<1>5. \A i \in 1 .. n : \E j \in kept : place[j] = i
  <2> HIDE DEF place, n
  <2>1. \A i, j \in kept : place[i] = place[j] => i = j
    BY <1>1, <1>3, <1>4
  <2>2. place \in Injection(kept, 1 .. n)
    BY <1>4, <2>1 DEF Injection, IsInjective
  <2>3. IsFiniteSet(1 .. n) /\ Cardinality(1 .. n) = Cardinality(kept)
    BY <1>1, FS_Interval DEF n
  <2>4. place \in Surjection(kept, 1 .. n)
    BY <2>2, <2>3, FS_Injection
  <2> QED
    BY <2>4 DEF Surjection
<1> DEFINE g == [k \in 1 .. n |-> CHOOSE j \in kept : place[j] = k]
           t == [k \in 1 .. n |-> s[g[k]]]
<1>6. g \in [1 .. n -> kept] /\ \A k \in 1 .. n : place[g[k]] = k
  <2> HIDE DEF place, n
  <2> QED
    BY <1>5
<1>7. Notices!Retain(s, kept) = t
  <2>1. \A k : (CHOOSE j \in kept : Notices!Cardinality({i \in kept : i <= j}) = k)
               = (CHOOSE j \in kept : place[j] = k)
    <3>1. \A k : \A j \in kept : Notices!Cardinality({i \in kept : i <= j}) = k <=> place[j] = k
      BY NoticesCount
    <3> HIDE DEF place
    <3> QED
      BY <3>1
  <2>2. Notices!Retain(s, kept)
        = [k \in 1 .. n |-> s[CHOOSE j \in kept : Notices!Cardinality({i \in kept : i <= j}) = k]]
    BY NoticesCount DEF Notices!Retain
  <2>3. \A k \in 1 .. n : g[k] = CHOOSE j \in kept : place[j] = k
    <3> HIDE DEF place, n
    <3> QED
      OBVIOUS
  <2> HIDE DEF place, n, g
  <2>4. \A k \in 1 .. n : (CHOOSE j \in kept : Notices!Cardinality({i \in kept : i <= j}) = k) = g[k]
    BY <2>1, <2>3
  <2> QED
    BY <2>2, <2>4
<1> HIDE DEF g
<1>8. t \in Seq(E) /\ Len(t) = n /\ DOMAIN t = 1 .. n
  <2> HIDE DEF n
  <2>1. t \in [1 .. n -> E]
    BY <1>1, <1>6
  <2> HIDE DEF t
  <2> QED
    BY <1>1, <2>1
<1>9. ASSUME NEW k \in 1 .. n PROVE n - k <= Len(s) - g[k]
  <2> DEFINE l == g[k]
             before == upTo(l)
             after == kept \ before
             rest == (l + 1) .. Len(s)
  <2>1. l \in kept /\ place[l] = k
    BY <1>6
  <2> HIDE DEF l
  <2>2. l \in Nat /\ l <= Len(s) /\ IsFiniteSet(before) /\ Cardinality(before) = k
    BY <1>1, <1>2, <2>1
  <2>3. after \in SUBSET rest
    BY <1>1, <2>2
  <2>4. IsFiniteSet(rest) /\ Cardinality(rest) = Len(s) - l
    <3>1. l + 1 \in Int /\ Len(s) \in Int
      BY <1>1, <2>2
    <3>2. IsFiniteSet(rest) /\ Cardinality(rest) = IF l + 1 > Len(s) THEN 0 ELSE Len(s) - (l + 1) + 1
      BY <3>1, FS_Interval
    <3>3. l \in Nat /\ Len(s) \in Nat /\ l <= Len(s)
      BY <1>1, <2>2
    <3>4. (IF l + 1 > Len(s) THEN 0 ELSE Len(s) - (l + 1) + 1) = Len(s) - l
      BY <3>3
    <3> HIDE DEF rest
    <3> QED
      BY <3>2, <3>4
  <2>5. kept \cap before = before
    OBVIOUS
  <2> HIDE DEF before, rest
  <2>6. Cardinality(after) = n - k
    BY <1>1, <2>2, <2>5, FS_Difference
  <2> HIDE DEF after
  <2>7. Cardinality(after) <= Cardinality(rest)
    BY <2>3, <2>4, FS_Subset
  <2> QED
    BY <2>4, <2>6, <2>7 DEF l
<1>10. \A k \in DOMAIN t : \E j \in kept : t[k] = s[j] /\ Len(t) - k <= Len(s) - j
  <2>1. \A k \in 1 .. n : t[k] = s[g[k]] /\ g[k] \in kept
    BY <1>6
  <2> HIDE DEF t, n, place
  <2> QED
    BY <1>8, <1>9, <2>1
<1>11. \A j \in kept : \E k \in DOMAIN t : t[k] = s[j]
  <2>1. ASSUME NEW j \in kept PROVE \E k \in 1 .. n : t[k] = s[j]
    <3>1. place[j] \in 1 .. n
      BY <1>4
    <3>2. PICK k \in 1 .. n : k = place[j]
      BY <3>1
    <3>3. g[k] \in kept /\ place[g[k]] = place[j]
      BY <1>6, <3>2
    <3> HIDE DEF place, n
    <3>4. g[k] = j
      BY <1>1, <1>3, <1>4, <3>1, <3>3
    <3> QED
      BY <3>2, <3>4
  <2> HIDE DEF t
  <2> QED
    BY <1>8, <2>1
<1> HIDE DEF t
<1> QED
  BY <1>7, <1>8, <1>10, <1>11

\* The memory of what was admitted: of keys, with their ages.
Past(keys) == [key : keys, age : Nat]
Memory(keys) == Seq(Past(keys))
LEMMA Entries ==
    ASSUME NEW keys, NEW s \in Memory(keys)
    PROVE  /\ DOMAIN s = 1 .. Len(s) /\ Len(s) \in Nat
           /\ \A k \in DOMAIN s : s[k] \in Past(keys) /\ s[k].key \in keys /\ s[k].age \in Nat
<1>1. DOMAIN s = 1 .. Len(s) /\ Len(s) \in Nat /\ \A k \in DOMAIN s : s[k] \in Past(keys)
  BY DEF Memory
<1>2. \A e \in Past(keys) : e.key \in keys /\ e.age \in Nat
  BY DEF Past
<1> QED
  BY <1>1, <1>2

\* Every key that was admitted less than its time ago is still remembered.
Remembers(s, ages, ttl) ==
    \A i \in DOMAIN ages : ages[i] < ttl => \E k \in DOMAIN s : s[k].key = i /\ s[k].age <= ages[i]

\* The limits of the instance.
LEMMA Limits ==
    /\ SeenCapacity \in Nat /\ PerMinute \in Nat /\ Clip \subseteq Id
    /\ Minute \in Nat /\ Minute > 0 /\ DedupTTL \in Nat /\ DedupTTL > 0
    /\ Notices!Longest \in Nat
    /\ \A kind \in Notices!Kind : Notices!Cooldown(kind) \in Nat /\ Notices!Cooldown(kind) <= Notices!Longest
  BY NoticesAssumption DEF Notices!NoticeLimits, Notices!Longest, Notices!Cooldown

\* Forgetting what is too old forgets nothing that must be remembered.
LEMMA SweepRemembers ==
    ASSUME NEW keys, NEW s \in Memory(keys), NEW ages, \A i \in DOMAIN ages : ages[i] \in Nat, NEW ttl \in Nat,
           Remembers(s, ages, ttl)
    PROVE  LET t == Notices!Younger(s, ttl) IN
           /\ t \in Memory(keys) /\ Remembers(t, ages, ttl) /\ \A k \in DOMAIN t : t[k].age < ttl
           /\ \A i \in DOMAIN ages : ~Notices!Holds(t, i) => ~(ages[i] < ttl)
<1> DEFINE kept == {k \in DOMAIN s : s[k].age < ttl}
           t == Notices!Younger(s, ttl)
<1>1. /\ t \in Memory(keys)
      /\ \A k \in DOMAIN t : \E j \in kept : t[k] = s[j]
      /\ \A j \in kept : \E k \in DOMAIN t : t[k] = s[j]
  <2>1. kept \in SUBSET DOMAIN s /\ t = Notices!Retain(s, kept) /\ s \in Seq(Past(keys))
    BY DEF Memory, Notices!Younger
  <2> HIDE DEF kept, t
  <2> QED
    BY <2>1, Retained DEF Memory
<1>2. \A k \in DOMAIN s : s[k].age \in Nat
  BY Entries
<1> HIDE DEF t
<1>3. ASSUME NEW i \in DOMAIN ages, ages[i] < ttl
      PROVE  \E k \in DOMAIN t : t[k].key = i /\ t[k].age <= ages[i]
  <2>1. PICK j \in DOMAIN s : s[j].key = i /\ s[j].age <= ages[i]
    BY <1>3 DEF Remembers
  <2>2. j \in kept
    BY <1>2, <1>3, <2>1
  <2> QED
    BY <1>1, <2>1, <2>2
<1>4. \A k \in DOMAIN t : t[k].age < ttl
  BY <1>1
<1> HIDE DEF kept
<1> QED
  BY <1>1, <1>3, <1>4 DEF t, Remembers, Notices!Holds

\* Admission remembers the key.
LEMMA AdmitRemembers ==
    ASSUME NEW keys, NEW s \in Memory(keys), NEW ages \in [keys -> Nat], NEW ttl \in Nat, Remembers(s, ages, ttl),
           NEW i \in keys
    PROVE  LET t == Append(s, [key |-> i, age |-> 0]) IN
           t \in Memory(keys) /\ Remembers(t, [ages EXCEPT ![i] = 0], ttl)
<1> DEFINE e == [key |-> i, age |-> 0]
           t == Append(s, e)
<1>1. e \in Past(keys) /\ e.key = i /\ e.age = 0
  BY DEF Past
<1> HIDE DEF e
<1>2. /\ t \in Memory(keys) /\ DOMAIN s = 1 .. Len(s) /\ Len(s) \in Nat /\ DOMAIN t = 1 .. Len(s) + 1
      /\ t[Len(s) + 1] = e /\ \A k \in DOMAIN s : t[k] = s[k] /\ k \in DOMAIN t
  BY <1>1 DEF Memory
<1> HIDE DEF t
<1>3. ASSUME NEW o \in keys, [ages EXCEPT ![i] = 0][o] < ttl
      PROVE  \E k \in DOMAIN t : t[k].key = o /\ t[k].age <= [ages EXCEPT ![i] = 0][o]
  <2>1. CASE o = i
    <3>1. Len(s) + 1 \in DOMAIN t /\ t[Len(s) + 1].key = o /\ t[Len(s) + 1].age <= [ages EXCEPT ![i] = 0][o]
      BY <1>1, <1>2, <2>1
    <3> QED
      BY <3>1
  <2>2. CASE o # i
    <3>1. [ages EXCEPT ![i] = 0][o] = ages[o]
      BY <2>2
    <3>2. PICK k \in DOMAIN s : s[k].key = o /\ s[k].age <= ages[o]
      BY <1>3, <3>1 DEF Remembers
    <3>3. k \in DOMAIN t /\ t[k] = s[k]
      BY <1>2
    <3> QED
      BY <3>1, <3>2, <3>3
  <2> QED
    BY <2>1, <2>2
<1> QED
  BY <1>2, <1>3 DEF t, e, Remembers

\* Time passes for both alike.
LEMMA TimeRemembers ==
    ASSUME NEW keys, NEW s \in Memory(keys), NEW ages \in [keys -> Nat], NEW ttl \in Nat, Remembers(s, ages, ttl)
    PROVE  LET t == Notices!Older(s, ttl)
               a == Notices!OlderAll(ages, ttl) IN
           /\ t \in Memory(keys) /\ a \in [keys -> Nat] /\ Remembers(t, a, ttl)
           /\ Len(t) = Len(s) /\ \A k \in DOMAIN t : t[k].age = IF s[k].age < ttl THEN s[k].age + 1 ELSE s[k].age
<1> DEFINE t == Notices!Older(s, ttl)
           a == Notices!OlderAll(ages, ttl)
           E == Past(keys)
<1>1. DOMAIN s = 1 .. Len(s) /\ Len(s) \in Nat /\ \A k \in DOMAIN s : s[k] \in E /\ s[k].age \in Nat
  BY Entries
<1>2. ASSUME NEW k \in DOMAIN s
      PROVE  /\ t[k] \in E /\ t[k].key = s[k].key
             /\ t[k].age = IF s[k].age < ttl THEN s[k].age + 1 ELSE s[k].age
  <2>1. t[k] = [s[k] EXCEPT !.age = IF @ < ttl THEN @ + 1 ELSE @]
    BY DEF Notices!Older
  <2> HIDE DEF t
  <2> QED
    BY <1>1, <2>1 DEF Past
<1>3. DOMAIN t = 1 .. Len(s) /\ t \in [1 .. Len(s) -> E]
  <2>1. DOMAIN t = DOMAIN s
    BY DEF Notices!Older
  <2>2. t = [k \in DOMAIN t |-> t[k]]
    BY DEF Notices!Older
  <2> HIDE DEF t, E
  <2> QED
    BY <1>1, <1>2, <2>1, <2>2
<1>4. a \in [keys -> Nat] /\ \A i \in keys : a[i] = IF ages[i] < ttl THEN ages[i] + 1 ELSE ages[i]
  BY DEF Notices!OlderAll
<1> HIDE DEF t, a
<1>5. t \in Memory(keys) /\ Len(t) = Len(s)
  <2> HIDE DEF E
  <2>1. t \in Seq(E) /\ Len(t) = Len(s)
    BY <1>1, <1>3
  <2> QED
    BY <2>1 DEF Memory, E
<1>6. ASSUME NEW i \in keys, a[i] < ttl PROVE \E k \in DOMAIN t : t[k].key = i /\ t[k].age <= a[i]
  <2>1. ages[i] < ttl /\ a[i] = ages[i] + 1 /\ ages[i] \in Nat
    BY <1>4, <1>6
  <2>2. PICK k \in DOMAIN s : s[k].key = i /\ s[k].age <= ages[i]
    BY <2>1 DEF Remembers
  <2>3. s[k].age \in Nat /\ t[k].key = i /\ t[k].age = IF s[k].age < ttl THEN s[k].age + 1 ELSE s[k].age
    BY <1>1, <1>2, <2>2
  <2>4. t[k].age <= a[i] /\ k \in DOMAIN t
    BY <1>1, <1>3, <2>1, <2>2, <2>3
  <2> QED
    BY <2>3, <2>4
<1> HIDE DEF E
<1> QED
  BY <1>1, <1>2, <1>3, <1>4, <1>5, <1>6 DEF t, a, Remembers

\* The rate spaces the memory: count of its last keys are of this window, and as many windows back
\* as a key has PerMinute others behind it, so many minutes ago it was admitted.
Spaced(s, age, count) ==
    /\ age = Minute => \A k \in DOMAIN s : s[k].age >= 1
    /\ \A m \in Nat : \A k \in DOMAIN s :
          Len(s) - k >= count + m * PerMinute => s[k].age >= DedupTTL \/ s[k].age >= age + 1 + m * Minute

LEMMA SweepSpaced ==
    ASSUME NEW keys, NEW s \in Memory(keys), NEW age \in Nat, NEW count \in Nat, Spaced(s, age, count), NEW ttl \in Nat
    PROVE  Spaced(Notices!Younger(s, ttl), age, count)
<1> DEFINE kept == {k \in DOMAIN s : s[k].age < ttl}
           t == Notices!Younger(s, ttl)
<1>1. t \in Memory(keys) /\ \A k \in DOMAIN t : \E j \in kept : t[k] = s[j] /\ Len(t) - k <= Len(s) - j
  <2>1. kept \in SUBSET DOMAIN s /\ t = Notices!Retain(s, kept) /\ s \in Seq(Past(keys))
    BY DEF Memory, Notices!Younger
  <2> HIDE DEF kept, t
  <2> QED
    BY <2>1, Retained DEF Memory
<1>2. DOMAIN s = 1 .. Len(s) /\ Len(s) \in Nat /\ \A k \in DOMAIN s : s[k].age \in Nat
  BY Entries
<1>3. DOMAIN t = 1 .. Len(t) /\ Len(t) \in Nat
  BY <1>1, Entries
<1>4. kept \subseteq DOMAIN s
  OBVIOUS
<1> HIDE DEF t, kept
<1>5. ASSUME age = Minute, NEW k \in DOMAIN t PROVE t[k].age >= 1
  BY <1>1, <1>4, <1>5 DEF Spaced
<1>6. ASSUME NEW m \in Nat, NEW k \in DOMAIN t, Len(t) - k >= count + m * PerMinute
      PROVE  t[k].age >= DedupTTL \/ t[k].age >= age + 1 + m * Minute
  <2>1. PICK j \in DOMAIN s : t[k] = s[j] /\ Len(t) - k <= Len(s) - j
    BY <1>1, <1>4
  <2> DEFINE q == m * PerMinute
  <2>2. q \in Nat
    BY Limits
  <2> HIDE DEF q
  <2>3. Len(s) - j >= count + q
    BY <1>2, <1>3, <1>6, <2>1, <2>2 DEF q
  <2>4. s[j].age >= DedupTTL \/ s[j].age >= age + 1 + m * Minute
    BY <2>3 DEF q, Spaced
  <2> QED
    BY <2>1, <2>4
<1> QED
  BY <1>5, <1>6 DEF t, Spaced

\* A new window begins with nothing of it admitted.
LEMMA RefreshSpaced ==
    ASSUME NEW keys, NEW s \in Memory(keys), NEW rate \in [age : 0 .. Minute, count : 0 .. PerMinute],
           Spaced(s, rate.age, rate.count)
    PROVE  LET r == Notices!Refresh(rate) IN
           r \in [age : 0 .. Minute, count : 0 .. PerMinute] /\ r.age < Minute /\ Spaced(s, r.age, r.count)
<1>1. /\ rate.age \in 0 .. Minute /\ rate.count \in 0 .. PerMinute /\ Minute \in Nat /\ Minute > 0
      /\ PerMinute \in Nat
  BY Limits
<1>2. CASE rate.age >= Minute
  <2>1. Notices!Refresh(rate) = [age |-> 0, count |-> 0] /\ rate.age = Minute
    BY <1>1, <1>2 DEF Notices!Refresh, Notices!Fresh
  <2>2. DOMAIN s = 1 .. Len(s) /\ Len(s) \in Nat /\ \A k \in DOMAIN s : s[k].age \in Nat
    BY Entries
  <2>3. ASSUME NEW m \in Nat, NEW k \in DOMAIN s, Len(s) - k >= 0 + m * PerMinute
        PROVE  s[k].age >= DedupTTL \/ s[k].age >= 0 + 1 + m * Minute
    <3>1. CASE m = 0
      <4>1. s[k].age >= 1
        BY <2>1 DEF Spaced
      <4>2. m * Minute = 0
        BY <1>1, <3>1
      <4> QED
        BY <2>2, <4>1, <4>2
    <3>2. CASE m # 0
      <4> DEFINE b == m - 1
      <4>1. b \in Nat /\ m = b + 1
        BY <3>2
      <4> HIDE DEF b
      <4>2. m * PerMinute = b * PerMinute + PerMinute /\ m * Minute = b * Minute + Minute
        BY <1>1, <4>1
      <4>3. b * PerMinute \in Nat /\ b * Minute \in Nat
        BY <1>1, <4>1
      <4>4. Len(s) - k >= rate.count + b * PerMinute
        BY <1>1, <2>2, <2>3, <4>2, <4>3
      <4>5. s[k].age >= DedupTTL \/ s[k].age >= rate.age + 1 + b * Minute
        BY <4>1, <4>4 DEF Spaced
      <4> QED
        BY <1>1, <2>1, <2>2, <4>2, <4>3, <4>5
    <3> QED
      BY <3>1, <3>2
  <2>4. Spaced(s, 0, 0)
    BY <1>1, <2>3 DEF Spaced
  <2> QED
    BY <1>1, <2>1, <2>4
<1>3. CASE ~(rate.age >= Minute)
  BY <1>1, <1>3 DEF Notices!Refresh
<1> QED
  BY <1>2, <1>3

\* What is admitted counts.
LEMMA AdmitSpaced ==
    ASSUME NEW keys, NEW s \in Memory(keys), NEW age \in Nat, NEW count \in Nat, Spaced(s, age, count), age < Minute,
           NEW i \in keys
    PROVE  Spaced(Append(s, [key |-> i, age |-> 0]), age, count + 1)
<1> DEFINE e == [key |-> i, age |-> 0]
           t == Append(s, e)
<1>1. e \in Past(keys)
  BY DEF Past
<1> HIDE DEF e
<1>2. /\ DOMAIN s = 1 .. Len(s) /\ Len(s) \in Nat /\ DOMAIN t = 1 .. Len(s) + 1
      /\ Len(t) = Len(s) + 1 /\ \A k \in DOMAIN s : t[k] = s[k]
  BY <1>1 DEF Memory
<1> HIDE DEF t
<1>3. ASSUME NEW m \in Nat, NEW k \in DOMAIN t, Len(t) - k >= count + 1 + m * PerMinute
      PROVE  t[k].age >= DedupTTL \/ t[k].age >= age + 1 + m * Minute
  <2> DEFINE q == m * PerMinute
  <2>1. q \in Nat
    BY Limits
  <2> HIDE DEF q
  <2>2. Len(t) - k >= count + 1 + q
    BY <1>3 DEF q
  <2>3. k \in DOMAIN s /\ Len(s) - k >= count + q
    BY <1>2, <2>1, <2>2
  <2>4. s[k].age >= DedupTTL \/ s[k].age >= age + 1 + m * Minute
    BY <2>3 DEF q, Spaced
  <2> QED
    BY <1>2, <2>3, <2>4
<1>4. age # Minute
  BY Limits
<1> QED
  BY <1>3, <1>4 DEF t, e, Spaced

\* Time passes for the rate and the memory alike.
LEMMA TimeSpaced ==
    ASSUME NEW keys, NEW s \in Memory(keys), NEW rate \in [age : 0 .. Minute, count : 0 .. PerMinute],
           Spaced(s, rate.age, rate.count)
    PROVE  LET t == Notices!Older(s, DedupTTL)
               r == Notices!OlderRate(rate) IN
           r \in [age : 0 .. Minute, count : 0 .. PerMinute] /\ Spaced(t, r.age, r.count)
<1> DEFINE t == Notices!Older(s, DedupTTL)
           r == Notices!OlderRate(rate)
<1>1. /\ rate.age \in 0 .. Minute /\ rate.count \in 0 .. PerMinute /\ Minute \in Nat /\ Minute > 0
      /\ PerMinute \in Nat /\ DedupTTL \in Nat /\ DedupTTL > 0
  BY Limits
<1>2. DOMAIN s = 1 .. Len(s) /\ Len(s) \in Nat /\ \A k \in DOMAIN s : s[k].age \in Nat
  BY Entries
<1>3. /\ DOMAIN t = DOMAIN s /\ Len(t) = Len(s)
      /\ \A k \in DOMAIN t : t[k].age = IF s[k].age < DedupTTL THEN s[k].age + 1 ELSE s[k].age
  <2> DEFINE ages == [i \in keys |-> DedupTTL]
  <2>1. ages \in [keys -> Nat] /\ Remembers(s, ages, DedupTTL)
    BY <1>1 DEF Remembers
  <2> HIDE DEF ages
  <2>2. Len(t) = Len(s) /\ \A k \in DOMAIN t : t[k].age = IF s[k].age < DedupTTL THEN s[k].age + 1 ELSE s[k].age
    BY <1>1, <2>1, TimeRemembers
  <2>3. DOMAIN t = DOMAIN s
    BY DEF Notices!Older
  <2> QED
    BY <2>2, <2>3
<1>4. /\ r \in [age : 0 .. Minute, count : 0 .. PerMinute] /\ r.count = rate.count
      /\ r.age = IF rate.age < Minute THEN rate.age + 1 ELSE rate.age
  BY <1>1 DEF Notices!OlderRate
<1> HIDE DEF t, r
<1>5. \A k \in DOMAIN t : t[k].age >= 1
  BY <1>1, <1>2, <1>3
<1>6. ASSUME NEW m \in Nat, NEW k \in DOMAIN t, Len(t) - k >= r.count + m * PerMinute
      PROVE  t[k].age >= DedupTTL \/ t[k].age >= r.age + 1 + m * Minute
  <2>1. s[k].age >= DedupTTL \/ s[k].age >= rate.age + 1 + m * Minute
    BY <1>3, <1>4, <1>6 DEF Spaced
  <2> DEFINE q == m * Minute
  <2>2. q \in Nat
    BY <1>1
  <2> HIDE DEF q
  <2>3. t[k].age >= DedupTTL \/ t[k].age >= r.age + 1 + q
    BY <1>1, <1>2, <1>3, <1>4, <2>1, <2>2 DEF q
  <2> QED
    BY <2>3 DEF q
<1> QED
  BY <1>4, <1>5, <1>6 DEF t, r, Spaced

\* So a memory of younger keys has room when the rate admits another.
LEMMA Room ==
    ASSUME NEW keys, NEW s \in Memory(keys), NEW age \in Nat, NEW count \in Nat, Spaced(s, age, count),
           count < PerMinute, \A k \in DOMAIN s : s[k].age < DedupTTL
    PROVE  Len(s) < SeenCapacity
<1> DEFINE m == (DedupTTL + Minute - 2) \div Minute
<1>1. /\ Minute \in Nat /\ Minute > 0 /\ PerMinute \in Nat /\ DedupTTL \in Nat /\ DedupTTL > 0 /\ SeenCapacity \in Nat
  BY Limits
<1>2. m \in Nat /\ m * Minute >= DedupTTL - 1
  BY <1>1
<1>3. SeenCapacity >= PerMinute * (m + 1)
  BY NoticesAssumption DEF Notices!SeenHolds
<1> HIDE DEF m
<1>4. m * PerMinute \in Nat /\ SeenCapacity >= m * PerMinute + PerMinute
  BY <1>1, <1>2, <1>3
<1>5. DOMAIN s = 1 .. Len(s) /\ Len(s) \in Nat /\ \A k \in DOMAIN s : s[k].age \in Nat
  BY Entries
<1>6. SUFFICES ASSUME Len(s) >= SeenCapacity PROVE FALSE
  BY <1>1, <1>5
<1>7. 1 \in DOMAIN s /\ Len(s) - 1 >= count + m * PerMinute
  BY <1>1, <1>4, <1>5, <1>6
<1>8. s[1].age >= DedupTTL \/ s[1].age >= age + 1 + m * Minute
  BY <1>2, <1>7 DEF Spaced
<1> DEFINE q == m * Minute
<1>9. q \in Nat /\ q >= DedupTTL - 1 /\ (s[1].age >= DedupTTL \/ s[1].age >= age + 1 + q)
  BY <1>1, <1>2, <1>8
<1> HIDE DEF q
<1>10. s[1].age >= DedupTTL
  BY <1>1, <1>5, <1>7, <1>9
<1> QED
  BY <1>1, <1>5, <1>7, <1>10

Rate == [age : 0 .. Minute, count : 0 .. PerMinute]
LEMMA RateType ==
    ASSUME NEW rate \in Rate
    PROVE  /\ Notices!Refresh(rate) \in Rate /\ Notices!Refresh(rate).age < Minute
           /\ Notices!OlderRate(rate) \in Rate
           /\ rate.count < PerMinute => /\ Notices!Counted(rate) \in Rate
                                        /\ Notices!Counted(rate).age = rate.age
                                        /\ Notices!Counted(rate).count = rate.count + 1
<1>1. Minute \in Nat /\ Minute > 0 /\ PerMinute \in Nat /\ rate.age \in 0 .. Minute /\ rate.count \in 0 .. PerMinute
  BY Limits DEF Rate
<1>2. Notices!Refresh(rate) \in Rate /\ Notices!Refresh(rate).age < Minute
  BY <1>1 DEF Rate, Notices!Refresh, Notices!Fresh
<1>3. Notices!OlderRate(rate) \in Rate
  BY <1>1 DEF Rate, Notices!OlderRate
<1>4. ASSUME rate.count < PerMinute
      PROVE  /\ Notices!Counted(rate) \in Rate /\ Notices!Counted(rate).age = rate.age
             /\ Notices!Counted(rate).count = rate.count + 1
  BY <1>1, <1>4 DEF Rate, Notices!Counted
<1> QED
  BY <1>2, <1>3, <1>4

PendingNote == [key : Id, gen : {0, 1}, age : Nat]
PendingVideo == [key : Clip, camera : Camera, gen : {0, 1}, preview : BOOLEAN, age : Nat]
NotesType == [pending : Seq(PendingNote), seen : Memory(Id), rate : Rate]
VideosType == [pending : Seq(PendingVideo), seen : Memory(Clip), cooldowns : Memory(Camera), rate : Rate]

\* What is admitted is remembered for its time, in a memory the rate spaces.
NotesInv(n, ages) ==
    /\ n \in NotesType /\ Remembers(n.seen, ages, DedupTTL)
    /\ Spaced(n.seen, n.rate.age, n.rate.count)
VideosInv(v, clips, cameras) ==
    /\ v \in VideosType /\ Remembers(v.seen, clips, DedupTTL) /\ Remembers(v.cooldowns, cameras, Notices!Longest)
\* A camera that a shorter cooldown swept away is as if none had been admitted.
Unswept(ages, swept) == [c \in Camera |-> IF c \in swept THEN Notices!Longest ELSE ages[c]]
SinceType == [n : [Id -> Nat], v : [Clip -> Nat], c : [Camera -> Nat], swept : SUBSET Camera]
NoticeInv ==
    /\ running \in {"starting", "running", "stopping"} /\ lease \in BOOLEAN /\ gen \in {0, 1}
    /\ since \in SinceType
    /\ NotesInv(notes, since.n) /\ VideosInv(videos, since.v, Unswept(since.c, since.swept))
    /\ repeated = FALSE /\ Notices!PendingIsCurrent

LEMMA NoteParts ==
    /\ \A n \in NotesType : n.pending \in Seq(PendingNote) /\ n.seen \in Memory(Id) /\ n.rate \in Rate
    /\ \A p \in Seq(PendingNote), s \in Memory(Id), r \in Rate :
          [pending |-> p, seen |-> s, rate |-> r] \in NotesType
    /\ \A n \in NotesType : /\ [n EXCEPT !.pending = <<>>] \in NotesType
                            /\ [n EXCEPT !.pending = <<>>].pending = <<>>
                            /\ [n EXCEPT !.pending = <<>>].seen = n.seen
                            /\ [n EXCEPT !.pending = <<>>].rate = n.rate
<1> DEFINE P == Seq(PendingNote)
<1>1. <<>> \in P
  OBVIOUS
<1> HIDE DEF P
<1> QED
  BY <1>1 DEF NotesType, P

LEMMA VideoParts ==
    /\ \A v \in VideosType : /\ v.pending \in Seq(PendingVideo) /\ v.seen \in Memory(Clip)
                             /\ v.cooldowns \in Memory(Camera) /\ v.rate \in Rate
    /\ \A p \in Seq(PendingVideo), s \in Memory(Clip), c \in Memory(Camera), r \in Rate :
          [pending |-> p, seen |-> s, cooldowns |-> c, rate |-> r] \in VideosType
    /\ \A v \in VideosType : /\ [v EXCEPT !.pending = <<>>] \in VideosType
                             /\ [v EXCEPT !.pending = <<>>].pending = <<>>
                             /\ [v EXCEPT !.pending = <<>>].seen = v.seen
                             /\ [v EXCEPT !.pending = <<>>].cooldowns = v.cooldowns
<1> DEFINE P == Seq(PendingVideo)
<1>1. <<>> \in P
  OBVIOUS
<1> HIDE DEF P
<1> QED
  BY <1>1 DEF VideosType, P

\* A sweep keeps what the invariant needs, and what it does not find may be admitted.
LEMMA NotesSwept ==
    ASSUME NotesInv(notes, since.n), since.n \in [Id -> Nat]
    PROVE  LET n == Notices!Swept IN
           /\ NotesInv(n, since.n) /\ n.rate.age < Minute
           /\ \A k \in DOMAIN n.seen : n.seen[k].age < DedupTTL
           /\ \A k \in DOMAIN n.pending : \E j \in DOMAIN notes.pending : n.pending[k] = notes.pending[j]
           /\ \A i \in Id : ~Notices!Holds(n.seen, i) => ~(since.n[i] < DedupTTL)
<1> DEFINE p == Notices!Younger(notes.pending, DeliveryTTL)
           s == Notices!Younger(notes.seen, DedupTTL)
           r == Notices!Refresh(notes.rate)
           n == Notices!Swept
<1>1. /\ notes \in NotesType /\ Remembers(notes.seen, since.n, DedupTTL)
      /\ Spaced(notes.seen, notes.rate.age, notes.rate.count)
      /\ notes.pending \in Seq(PendingNote) /\ notes.seen \in Memory(Id) /\ notes.rate \in Rate
  BY NoteParts DEF NotesInv
<1>2. notes.rate.age \in Nat /\ notes.rate.count \in Nat /\ DOMAIN since.n = Id /\ \A i \in Id : since.n[i] \in Nat
  BY <1>1, Limits DEF Rate
<1>3. n = [pending |-> p, seen |-> s, rate |-> r]
  BY DEF Notices!Swept
<1>4. p \in Seq(PendingNote) /\ \A k \in DOMAIN p : \E j \in DOMAIN notes.pending : p[k] = notes.pending[j]
  <2> DEFINE kept == {k \in DOMAIN notes.pending : notes.pending[k].age < DeliveryTTL}
  <2>1. kept \in SUBSET DOMAIN notes.pending /\ p = Notices!Retain(notes.pending, kept)
    BY DEF Notices!Younger
  <2> HIDE DEF kept, p
  <2> QED
    BY <1>1, <2>1, Retained
<1>5. /\ s \in Memory(Id) /\ Remembers(s, since.n, DedupTTL) /\ \A k \in DOMAIN s : s[k].age < DedupTTL
      /\ \A i \in Id : ~Notices!Holds(s, i) => ~(since.n[i] < DedupTTL)
  BY <1>1, <1>2, Limits, SweepRemembers
<1>6. Spaced(s, notes.rate.age, notes.rate.count)
  BY <1>1, <1>2, Limits, SweepSpaced
<1> HIDE DEF s
<1>7. r \in Rate /\ r.age < Minute /\ Spaced(s, r.age, r.count)
  BY <1>1, <1>5, <1>6, RefreshSpaced DEF Rate
<1> HIDE DEF p, r, n
<1>8. n \in NotesType /\ n.pending = p /\ n.seen = s /\ n.rate = r
  BY <1>3, <1>4, <1>5, <1>7, NoteParts
<1> QED
  BY <1>4, <1>5, <1>7, <1>8 DEF NotesInv, n

\* queue_notification admits what was not admitted within its time, and never forgets for room.
LEMMA NoteQueued ==
    ASSUME NotesInv(notes, since.n), since.n \in [Id -> Nat], gen \in {0, 1},
           \A k \in DOMAIN notes.pending : notes.pending[k].gen = gen /\ running = "running",
           NEW i \in Id, Notices!QueueNotification(i)
    PROVE  /\ NotesInv(notes', IF Notices!NoteAdmitted(i) THEN [since.n EXCEPT ![i] = 0] ELSE since.n)
           /\ Notices!NoteAdmitted(i) => ~(since.n[i] < DedupTTL)
           /\ \A k \in DOMAIN notes'.pending : notes'.pending[k].gen = gen /\ running = "running"
<1> DEFINE n == Notices!Swept
           p == Append(n.pending, [key |-> i, gen |-> gen, age |-> 0])
           s == Append(n.seen, [key |-> i, age |-> 0])
           r == Notices!Counted(n.rate)
<1>1. /\ NotesInv(n, since.n) /\ n.rate.age < Minute
      /\ \A k \in DOMAIN n.seen : n.seen[k].age < DedupTTL
      /\ \A k \in DOMAIN n.pending : \E j \in DOMAIN notes.pending : n.pending[k] = notes.pending[j]
      /\ \A o \in Id : ~Notices!Holds(n.seen, o) => ~(since.n[o] < DedupTTL)
  BY NotesSwept
<1> HIDE DEF n
<1>2. /\ n \in NotesType /\ Remembers(n.seen, since.n, DedupTTL) /\ Spaced(n.seen, n.rate.age, n.rate.count)
      /\ n.pending \in Seq(PendingNote) /\ n.seen \in Memory(Id) /\ n.rate \in Rate
      /\ n.rate.age \in Nat /\ n.rate.count \in Nat
  <2>1. n \in NotesType /\ Remembers(n.seen, since.n, DedupTTL) /\ Spaced(n.seen, n.rate.age, n.rate.count)
    BY <1>1 DEF NotesInv
  <2>2. n.pending \in Seq(PendingNote) /\ n.seen \in Memory(Id) /\ n.rate \in Rate
    BY <2>1, NoteParts
  <2> QED
    BY <2>1, <2>2, Limits DEF Rate
<1>3. \A k \in DOMAIN n.pending : n.pending[k].gen = gen /\ running = "running"
  BY <1>1
<1>4. CASE running # "running"
  <2>1. notes' = notes /\ ~Notices!NoteAdmitted(i)
    BY <1>4 DEF Notices!QueueNotification, Notices!NoteAdmitted
  <2> QED
    BY <2>1
<1>5. CASE running = "running" /\ ~Notices!NoteAdmitted(i)
  <2>1. notes' = n
    BY <1>5 DEF Notices!QueueNotification, n
  <2> QED
    BY <1>1, <1>3, <1>5, <2>1
<1>6. CASE Notices!NoteAdmitted(i)
  <2>1. running = "running" /\ ~Notices!Holds(n.seen, i) /\ n.rate.count < PerMinute
    BY <1>6 DEF Notices!NoteAdmitted, Notices!NoteFits, n
  <2>2. Len(n.seen) < SeenCapacity
    BY <1>1, <1>2, <2>1, Room
  <2>3. Notices!Evicted(n.seen) = n.seen
    <3>1. Len(n.seen) \in Nat /\ SeenCapacity \in Nat
      BY <1>2, Limits, Entries
    <3> QED
      BY <2>2, <3>1 DEF Notices!Evicted
  <2>4. notes' = [pending |-> p, seen |-> s, rate |-> r]
    BY <1>6, <2>1, <2>3 DEF Notices!QueueNotification, n
  <2>5. s \in Memory(Id) /\ Remembers(s, [since.n EXCEPT ![i] = 0], DedupTTL)
    BY <1>2, Limits, AdmitRemembers
  <2>6. Spaced(s, n.rate.age, n.rate.count + 1)
    BY <1>1, <1>2, AdmitSpaced
  <2>7. r \in Rate /\ r.age = n.rate.age /\ r.count = n.rate.count + 1
    BY <1>2, <2>1, RateType
  <2>8. /\ p \in Seq(PendingNote) /\ \A k \in DOMAIN p : p[k].gen = gen
    <3> DEFINE e == [key |-> i, gen |-> gen, age |-> 0]
               E == PendingNote
    <3>1. e \in E /\ e.gen = gen
      BY DEF PendingNote
    <3> HIDE DEF e, E
    <3>2. n.pending \in Seq(E)
      BY <1>2 DEF E
    <3>3. /\ Append(n.pending, e) \in Seq(E)
          /\ \A k \in DOMAIN Append(n.pending, e) :
                Append(n.pending, e)[k] = e \/ (k \in DOMAIN n.pending /\ Append(n.pending, e)[k] = n.pending[k])
      BY <3>1, <3>2
    <3>4. p = Append(n.pending, e)
      BY DEF e
    <3> HIDE DEF p
    <3>5. \A k \in DOMAIN p : p[k].gen = gen
      BY <1>3, <3>1, <3>3, <3>4
    <3> QED
      BY <3>3, <3>4, <3>5 DEF E
  <2> HIDE DEF p, s, r
  <2>9. notes' \in NotesType /\ notes'.pending = p /\ notes'.seen = s /\ notes'.rate = r
    BY <2>4, <2>5, <2>7, <2>8, NoteParts
  <2>10. NotesInv(notes', [since.n EXCEPT ![i] = 0])
    BY <2>5, <2>6, <2>7, <2>9 DEF NotesInv
  <2> QED
    BY <1>1, <1>6, <2>1, <2>8, <2>9, <2>10
<1> QED
  BY <1>4, <1>5, <1>6

\* queue_http_video admits what was not admitted within its time, and refuses for room.
LEMMA VideoQueued ==
    ASSUME VideosInv(videos, since.v, Unswept(since.c, since.swept)), since \in SinceType,
           gen \in {0, 1}, \A k \in DOMAIN videos.pending : videos.pending[k].gen = gen /\ lease,
           NEW i \in Clip, NEW c \in Camera, NEW kind \in Notices!Kind, Notices!QueueHttpVideo(i, c, kind)
    PROVE  LET left == Notices!Outlived(kind) IN
           /\ left \in SUBSET Camera
           /\ Notices!VideoAdmitted(i, c, kind) =>
                /\ VideosInv(videos', [since.v EXCEPT ![i] = 0], Unswept([since.c EXCEPT ![c] = 0], left \ {c}))
                /\ ~(since.v[i] < DedupTTL) /\ c \in left
           /\ ~Notices!VideoAdmitted(i, c, kind) =>
                VideosInv(videos', since.v, Unswept(since.c, IF Notices!MayQueueVideo THEN left ELSE since.swept))
           /\ \A k \in DOMAIN videos'.pending : videos'.pending[k].gen = gen /\ lease
<1> DEFINE kept == {k \in DOMAIN videos.pending : videos.pending[k].age < Notices!Deadline(videos.pending[k])}
           ttl == Notices!Cooldown(kind)
           left == Notices!Outlived(kind)
           held == Unswept(since.c, since.swept)
           rest == Unswept(since.c, left)
           v == Notices!SweptVideos(kind)
           p == Notices!Retain(videos.pending, kept)
           s == Notices!Younger(videos.seen, DedupTTL)
           d == Notices!Younger(videos.cooldowns, ttl)
           r == Notices!Refresh(videos.rate)
<1>0. /\ since.v \in [Clip -> Nat] /\ since.c \in [Camera -> Nat] /\ since.swept \in SUBSET Camera
      /\ ttl \in Nat /\ Notices!Longest \in Nat /\ ttl <= Notices!Longest
  BY Limits DEF SinceType
<1>12. /\ left \in SUBSET Camera /\ since.swept \subseteq left
       /\ \A o \in Camera : o \in left <=> (o \in since.swept \/ ~(since.c[o] < ttl))
  BY <1>0 DEF Notices!Outlived
<1>13. /\ held \in [Camera -> Nat] /\ rest \in [Camera -> Nat]
       /\ \A o \in Camera : held[o] = IF o \in since.swept THEN Notices!Longest ELSE since.c[o]
       /\ \A o \in Camera : rest[o] = IF o \in left THEN Notices!Longest ELSE since.c[o]
  BY <1>0 DEF Unswept
<1> HIDE DEF left, held, rest, ttl
<1>1. /\ videos \in VideosType /\ Remembers(videos.seen, since.v, DedupTTL)
      /\ Remembers(videos.cooldowns, held, Notices!Longest)
      /\ videos.pending \in Seq(PendingVideo) /\ videos.seen \in Memory(Clip) /\ videos.cooldowns \in Memory(Camera)
      /\ videos.rate \in Rate
  BY VideoParts DEF VideosInv, held
<1>2. v = [pending |-> p, seen |-> s, cooldowns |-> d, rate |-> r]
  BY DEF Notices!SweptVideos, ttl
<1>3. p \in Seq(PendingVideo) /\ \A k \in DOMAIN p : p[k].gen = gen /\ lease
  <2>1. kept \in SUBSET DOMAIN videos.pending
    OBVIOUS
  <2>2. p \in Seq(PendingVideo) /\ \A k \in DOMAIN p : \E j \in kept : p[k] = videos.pending[j]
    <3> HIDE DEF kept
    <3> QED
      BY <1>1, <2>1, Retained
  <2> HIDE DEF kept, p
  <2> QED
    BY <2>1, <2>2
<1>4. /\ s \in Memory(Clip) /\ Remembers(s, since.v, DedupTTL)
      /\ \A o \in Clip : ~Notices!Holds(s, o) => ~(since.v[o] < DedupTTL)
  <2>1. DOMAIN since.v = Clip /\ \A o \in Clip : since.v[o] \in Nat
    BY <1>0
  <2> QED
    BY <1>1, <2>1, Limits, SweepRemembers
<1>5. /\ d \in Memory(Camera) /\ Remembers(d, rest, Notices!Longest)
      /\ \A o \in Camera : ~Notices!Holds(d, o) => o \in left
  <2>1. DOMAIN held = Camera /\ DOMAIN rest = Camera /\ \A o \in Camera : held[o] \in Nat
    BY <1>13
  <2>2. Remembers(videos.cooldowns, held, ttl)
    BY <1>0, <1>1, <2>1 DEF Remembers
  <2>3. /\ d \in Memory(Camera) /\ Remembers(d, held, ttl)
        /\ \A o \in Camera : ~Notices!Holds(d, o) => ~(held[o] < ttl)
    BY <1>0, <1>1, <2>1, <2>2, SweepRemembers
  <2> HIDE DEF d
  <2>4. \A o \in Camera : rest[o] < Notices!Longest => rest[o] = held[o] /\ held[o] < ttl
    BY <1>0, <1>12, <1>13
  <2>5. \A o \in Camera : ~(held[o] < ttl) => o \in left
    BY <1>0, <1>12, <1>13
  <2>6. Remembers(d, rest, Notices!Longest)
    BY <2>1, <2>3, <2>4 DEF Remembers
  <2> QED
    BY <2>3, <2>5, <2>6
<1>6. r \in Rate
  BY <1>1, RateType
<1> HIDE DEF kept, p, s, d, r
<1>7. v \in VideosType /\ v.pending = p /\ v.seen = s /\ v.cooldowns = d /\ v.rate = r
  <2> HIDE DEF v
  <2> QED
    BY <1>2, <1>3, <1>4, <1>5, <1>6, VideoParts
<1> HIDE DEF v
<1>8. VideosInv(v, since.v, rest)
  BY <1>4, <1>5, <1>7 DEF VideosInv
<1>9. CASE ~Notices!MayQueueVideo
  <2>1. videos' = videos /\ ~Notices!VideoAdmitted(i, c, kind)
    BY <1>9 DEF Notices!QueueHttpVideo, Notices!VideoAdmitted
  <2> QED
    BY <1>9, <1>12, <2>1 DEF left
<1>10. CASE Notices!MayQueueVideo /\ ~Notices!VideoAdmitted(i, c, kind)
  <2>1. videos' = v
    BY <1>10 DEF Notices!QueueHttpVideo, Notices!VideoAdmitted, v
  <2> QED
    BY <1>3, <1>7, <1>8, <1>10, <1>12, <2>1 DEF rest, left
<1>11. CASE Notices!VideoAdmitted(i, c, kind)
  <2> DEFINE preview == kind # "clip"
             e == [key |-> i, camera |-> c, gen |-> gen, preview |-> preview, age |-> 0]
             p1 == Append(v.pending, e)
             s1 == Append(v.seen, [key |-> i, age |-> 0])
             d1 == Append(v.cooldowns, [key |-> c, age |-> 0])
             r1 == Notices!Counted(v.rate)
  <2>1. videos' = [pending |-> p1, seen |-> s1, cooldowns |-> d1, rate |-> r1]
    BY <1>11 DEF Notices!QueueHttpVideo, Notices!VideoAdmitted, v
  <2>10. preview \in BOOLEAN
    <3>1. CASE kind = "clip"
      BY <3>1
    <3>2. CASE kind # "clip"
      BY <3>2
    <3> QED
      BY <3>1, <3>2
  <2> HIDE DEF preview
  <2>2. ~Notices!Holds(v.seen, i) /\ ~Notices!Holds(v.cooldowns, c) /\ v.rate.count < PerMinute /\ lease
    BY <1>11 DEF Notices!VideoAdmitted, Notices!VideoFits, Notices!MayQueueVideo, v
  <2>3. s1 \in Memory(Clip) /\ Remembers(s1, [since.v EXCEPT ![i] = 0], DedupTTL)
    BY <1>0, <1>4, <1>7, Limits, AdmitRemembers
  <2>4. d1 \in Memory(Camera) /\ Remembers(d1, Unswept([since.c EXCEPT ![c] = 0], left \ {c}), Notices!Longest)
    <3>1. d1 \in Memory(Camera) /\ Remembers(d1, [rest EXCEPT ![c] = 0], Notices!Longest)
      BY <1>0, <1>5, <1>7, <1>13, AdmitRemembers
    <3>2. [rest EXCEPT ![c] = 0] = Unswept([since.c EXCEPT ![c] = 0], left \ {c})
      <4>1. \A o \in Camera : [rest EXCEPT ![c] = 0][o]
                                = IF o \in left \ {c} THEN Notices!Longest ELSE [since.c EXCEPT ![c] = 0][o]
        BY <1>0, <1>12, <1>13
      <4>2. [rest EXCEPT ![c] = 0] = [o \in Camera |-> [rest EXCEPT ![c] = 0][o]]
        BY <1>13
      <4> QED
        BY <4>1, <4>2 DEF Unswept
    <3> QED
      BY <3>1, <3>2
  <2>5. r1 \in Rate
    BY <1>6, <1>7, <2>2, RateType
  <2>6. p1 \in Seq(PendingVideo) /\ \A k \in DOMAIN p1 : p1[k].gen = gen
    <3> DEFINE E == PendingVideo
    <3>1. e \in E /\ e.gen = gen
      BY <2>10 DEF PendingVideo
    <3> HIDE DEF e, E
    <3>2. v.pending \in Seq(E)
      BY <1>3, <1>7 DEF E
    <3>3. /\ p1 \in Seq(E)
          /\ \A k \in DOMAIN p1 : p1[k] = e \/ (k \in DOMAIN v.pending /\ p1[k] = v.pending[k])
      BY <3>1, <3>2
    <3> HIDE DEF p1
    <3>4. \A k \in DOMAIN p1 : p1[k].gen = gen
      BY <1>3, <1>7, <3>1, <3>3
    <3> QED
      BY <3>3, <3>4 DEF E
  <2> HIDE DEF p1, s1, d1, r1
  <2>7. /\ videos' \in VideosType /\ videos'.pending = p1 /\ videos'.seen = s1 /\ videos'.cooldowns = d1
    BY <2>1, <2>3, <2>4, <2>5, <2>6, VideoParts
  <2>8. VideosInv(videos', [since.v EXCEPT ![i] = 0], Unswept([since.c EXCEPT ![c] = 0], left \ {c}))
    BY <2>3, <2>4, <2>7 DEF VideosInv
  <2> QED
    BY <1>4, <1>5, <1>7, <1>11, <1>12, <2>2, <2>6, <2>7, <2>8 DEF left
<1> QED
  BY <1>9, <1>10, <1>11

\* Time passes.
Aged(e, a) == [e EXCEPT !.age = a]
LEMMA PendingOlder ==
    ASSUME NEW E, \A e \in E : e.age \in Nat,
           \A e \in E, a \in Nat : Aged(e, a) \in E /\ Aged(e, a).gen = e.gen,
           NEW s \in Seq(E), NEW limit \in Nat
    PROVE  LET t == Notices!Older(s, limit) IN
           /\ t \in Seq(E) /\ DOMAIN t = DOMAIN s
           /\ \A k \in DOMAIN t : t[k].gen = s[k].gen
<1> DEFINE t == Notices!Older(s, limit)
           later(a) == IF a < limit THEN a + 1 ELSE a
<1>1. DOMAIN s = 1 .. Len(s) /\ Len(s) \in Nat /\ \A k \in DOMAIN s : s[k] \in E
  OBVIOUS
<1>2. DOMAIN t = DOMAIN s /\ t = [k \in DOMAIN s |-> Aged(s[k], later(s[k].age))]
  BY DEF Notices!Older, Aged
<1>3. \A a \in Nat : later(a) \in Nat
  OBVIOUS
<1> HIDE DEF later
<1>4. \A k \in DOMAIN s : t[k] = Aged(s[k], later(s[k].age)) /\ later(s[k].age) \in Nat
  BY <1>1, <1>2, <1>3
<1>6. t = [k \in DOMAIN t |-> t[k]]
  BY <1>2
<1> HIDE DEF t
<1>5. ASSUME NEW k \in DOMAIN s PROVE t[k] \in E /\ t[k].gen = s[k].gen
  <2>1. s[k] \in E /\ later(s[k].age) \in Nat
    BY <1>1, <1>4
  <2>2. Aged(s[k], later(s[k].age)) \in E /\ Aged(s[k], later(s[k].age)).gen = s[k].gen
    BY <2>1
  <2> QED
    BY <1>4, <2>2
<1>7. t \in [1 .. Len(s) -> E]
  BY <1>1, <1>2, <1>5, <1>6
<1>8. t \in Seq(E)
  <2>1. \A n \in Nat : \A f \in [1 .. n -> E] : f \in Seq(E)
    OBVIOUS
  <2> QED
    BY <1>1, <1>7, <2>1
<1> QED
  BY <1>2, <1>5, <1>8 DEF t

LEMMA Emptied ==
    ASSUME NoticeInv
    PROVE  /\ LET n == [notes EXCEPT !.pending = <<>>] IN
              NotesInv(n, since.n) /\ DOMAIN n.pending = {}
           /\ LET v == [videos EXCEPT !.pending = <<>>] IN
              VideosInv(v, since.v, Unswept(since.c, since.swept)) /\ DOMAIN v.pending = {}
<1>1. NotesInv(notes, since.n) /\ VideosInv(videos, since.v, Unswept(since.c, since.swept))
  BY DEF NoticeInv
<1>2. DOMAIN <<>> = {}
  OBVIOUS
<1>3. LET n == [notes EXCEPT !.pending = <<>>] IN NotesInv(n, since.n) /\ DOMAIN n.pending = {}
  BY <1>1, <1>2, NoteParts DEF NotesInv
<1>4. LET v == [videos EXCEPT !.pending = <<>>] IN
      VideosInv(v, since.v, Unswept(since.c, since.swept)) /\ DOMAIN v.pending = {}
  BY <1>1, <1>2, VideoParts DEF VideosInv
<1> QED
  BY <1>3, <1>4

LEMMA SinceParts ==
    \A t \in SinceType :
       /\ t.n \in [Id -> Nat] /\ t.v \in [Clip -> Nat] /\ t.c \in [Camera -> Nat] /\ t.swept \in SUBSET Camera
       /\ t = [n |-> t.n, v |-> t.v, c |-> t.c, swept |-> t.swept]
  BY DEF SinceType

LEMMA NotificationSteps ==
    ASSUME NoticeInv, NEW i \in Id, Notices!Notification(i) PROVE NoticeInv'
<1> USE DEF NoticeInv
<1> DEFINE admitted == Notices!NoteAdmitted(i)
<1>1. /\ Notices!QueueNotification(i) /\ UNCHANGED <<running, lease, gen, videos>>
      /\ Notices!Remember(admitted, i)
  BY DEF Notices!Notification
<1>2. /\ since.n \in [Id -> Nat] /\ since.v \in [Clip -> Nat] /\ since.c \in [Camera -> Nat]
      /\ since.swept \in SUBSET Camera
  BY SinceParts
<1>3. \A k \in DOMAIN notes.pending : notes.pending[k].gen = gen /\ running = "running"
  BY DEF Notices!PendingIsCurrent
<1>4. /\ NotesInv(notes', IF admitted THEN [since.n EXCEPT ![i] = 0] ELSE since.n)
      /\ admitted => ~(since.n[i] < DedupTTL)
      /\ \A k \in DOMAIN notes'.pending : notes'.pending[k].gen = gen /\ running = "running"
  BY <1>1, <1>2, <1>3, NoteQueued
<1> HIDE DEF admitted
<1>5. /\ since'.n = IF admitted THEN [since.n EXCEPT ![i] = 0] ELSE since.n
      /\ since'.v = since.v /\ since'.c = since.c /\ since'.swept = since.swept
      /\ since' \in SinceType
      /\ repeated' = (repeated \/ (admitted /\ since.n[i] < DedupTTL))
  <2>1. CASE admitted
    <3>1. since' = [n |-> [since.n EXCEPT ![i] = 0], v |-> since.v, c |-> since.c, swept |-> since.swept]
      BY <1>1, <2>1 DEF Notices!Remember, SinceType
    <3>2. [since.n EXCEPT ![i] = 0] \in [Id -> Nat]
      BY <1>2
    <3> QED
      BY <1>1, <1>2, <2>1, <3>1, <3>2 DEF Notices!Remember, SinceType
  <2>2. CASE ~admitted
    BY <1>1, <2>2 DEF Notices!Remember
  <2> QED
    BY <2>1, <2>2
<1>7. repeated' = FALSE
  BY <1>4, <1>5
<1>8. NotesInv(notes', since'.n) /\ VideosInv(videos', since'.v, Unswept(since'.c, since'.swept))
  BY <1>1, <1>4, <1>5
<1>9. Notices!PendingIsCurrent'
  BY <1>1, <1>4 DEF Notices!PendingIsCurrent
<1> QED
  BY <1>1, <1>5, <1>7, <1>8, <1>9

LEMMA MediaSteps ==
    ASSUME NoticeInv, NEW i \in Clip, NEW c \in Camera, NEW kind \in Notices!Kind, Notices!Media(i, c, kind)
    PROVE  NoticeInv'
<1> USE DEF NoticeInv
<1> DEFINE video == Notices!VideoAdmitted(i, c, kind)
           announce == kind = "clip" /\ video
           note == announce /\ Notices!NoteAdmitted(i)
           left == Notices!Outlived(kind)
           swept == IF video THEN left \ {c} ELSE IF Notices!MayQueueVideo THEN left ELSE since.swept
           cameras == IF video THEN [since.c EXCEPT ![c] = 0] ELSE since.c
<1>1. /\ Notices!QueueHttpVideo(i, c, kind) /\ UNCHANGED <<running, lease, gen>>
      /\ IF announce THEN Notices!QueueNotification(i) ELSE UNCHANGED <<notes, global>>
      /\ Notices!RememberVideo(note, video, i, c, kind)
  BY DEF Notices!Media
<1>2. /\ since.n \in [Id -> Nat] /\ since.v \in [Clip -> Nat] /\ since.c \in [Camera -> Nat] /\ i \in Id
      /\ since.swept \in SUBSET Camera
  BY Limits, SinceParts
<1>3. /\ \A k \in DOMAIN notes.pending : notes.pending[k].gen = gen /\ running = "running"
      /\ \A k \in DOMAIN videos.pending : videos.pending[k].gen = gen /\ lease
  BY DEF Notices!PendingIsCurrent
<1>4. /\ VideosInv(videos', IF video THEN [since.v EXCEPT ![i] = 0] ELSE since.v, Unswept(cameras, swept))
      /\ video => ~(since.v[i] < DedupTTL) /\ c \in left
      /\ left \in SUBSET Camera
      /\ \A k \in DOMAIN videos'.pending : videos'.pending[k].gen = gen /\ lease
  BY <1>1, <1>3, VideoQueued
<1>5. /\ NotesInv(notes', IF note THEN [since.n EXCEPT ![i] = 0] ELSE since.n)
      /\ note => ~(since.n[i] < DedupTTL)
      /\ \A k \in DOMAIN notes'.pending : notes'.pending[k].gen = gen /\ running = "running"
  <2>1. CASE announce
    <3>1. Notices!QueueNotification(i) /\ (note <=> Notices!NoteAdmitted(i))
      BY <1>1, <2>1
    <3>2. /\ NotesInv(notes', IF Notices!NoteAdmitted(i) THEN [since.n EXCEPT ![i] = 0] ELSE since.n)
          /\ Notices!NoteAdmitted(i) => ~(since.n[i] < DedupTTL)
          /\ \A k \in DOMAIN notes'.pending : notes'.pending[k].gen = gen /\ running = "running"
      BY <1>2, <1>3, <3>1, NoteQueued
    <3> HIDE DEF note
    <3> QED
      BY <3>1, <3>2
  <2>2. CASE ~announce
    <3>1. notes' = notes /\ ~note
      BY <1>1, <2>2
    <3> HIDE DEF note
    <3> QED
      BY <1>3, <3>1
  <2> QED
    BY <2>1, <2>2
<1>6. /\ since' = [n |-> IF note THEN [since.n EXCEPT ![i] = 0] ELSE since.n,
                   v |-> IF video THEN [since.v EXCEPT ![i] = 0] ELSE since.v, c |-> cameras, swept |-> swept]
      /\ repeated' = (\/ repeated
                      \/ (note /\ since.n[i] < DedupTTL)
                      \/ (video /\ (since.v[i] < DedupTTL \/ c \notin left)))
  BY <1>1 DEF Notices!RememberVideo
<1>7. since' \in SinceType
  <2>1. /\ (IF note THEN [since.n EXCEPT ![i] = 0] ELSE since.n) \in [Id -> Nat]
        /\ (IF video THEN [since.v EXCEPT ![i] = 0] ELSE since.v) \in [Clip -> Nat]
        /\ cameras \in [Camera -> Nat] /\ swept \in SUBSET Camera
    BY <1>2, <1>4
  <2> HIDE DEF cameras, swept
  <2> QED
    BY <1>6, <2>1 DEF SinceType
<1> HIDE DEF video, note, announce, cameras, swept, left
<1>8. repeated' = FALSE
  BY <1>4, <1>5, <1>6
<1>9. NotesInv(notes', since'.n) /\ VideosInv(videos', since'.v, Unswept(since'.c, since'.swept))
  BY <1>4, <1>5, <1>6
<1>10. Notices!PendingIsCurrent'
  BY <1>1, <1>4, <1>5 DEF Notices!PendingIsCurrent
<1> QED
  BY <1>1, <1>7, <1>8, <1>9, <1>10

LEMMA TickSteps ==
    ASSUME NoticeInv, Notices!Tick PROVE NoticeInv'
<1> USE DEF NoticeInv
<1> DEFINE p == Notices!Older(notes.pending, DeliveryTTL)
           s == Notices!Older(notes.seen, DedupTTL)
           r == Notices!OlderRate(notes.rate)
           vp == Notices!Older(videos.pending, DeliveryTTL)
           vs == Notices!Older(videos.seen, DedupTTL)
           held == Unswept(since.c, since.swept)
           vd == Notices!Older(videos.cooldowns, Notices!Longest)
           vr == Notices!OlderRate(videos.rate)
           an == Notices!OlderAll(since.n, DedupTTL)
           av == Notices!OlderAll(since.v, DedupTTL)
           ac == Notices!OlderAll(since.c, Notices!Longest)
<1>1. /\ notes' = [pending |-> p, seen |-> s, rate |-> r]
      /\ videos' = [pending |-> vp, seen |-> vs, cooldowns |-> vd, rate |-> vr]
      /\ since' = [since EXCEPT !.n = an, !.v = av, !.c = ac]
      /\ UNCHANGED <<running, lease, gen, wake, repeated>>
  BY DEF Notices!Tick
<1>2. /\ notes \in NotesType /\ notes.pending \in Seq(PendingNote) /\ notes.seen \in Memory(Id) /\ notes.rate \in Rate
      /\ Remembers(notes.seen, since.n, DedupTTL) /\ Spaced(notes.seen, notes.rate.age, notes.rate.count)
  BY NoteParts DEF NotesInv
<1>3. /\ videos.pending \in Seq(PendingVideo) /\ videos.seen \in Memory(Clip) /\ videos.cooldowns \in Memory(Camera)
      /\ videos.rate \in Rate
      /\ Remembers(videos.seen, since.v, DedupTTL) /\ Remembers(videos.cooldowns, held, Notices!Longest)
  BY VideoParts DEF VideosInv
<1>4. /\ since.n \in [Id -> Nat] /\ since.v \in [Clip -> Nat] /\ since.c \in [Camera -> Nat]
      /\ since.swept \in SUBSET Camera
      /\ DeliveryTTL \in Nat /\ DedupTTL \in Nat /\ Notices!Longest \in Nat
  BY NoticesAssumption, Limits, SinceParts DEF Notices!NoticeLimits
<1>5. /\ p \in Seq(PendingNote) /\ DOMAIN p = DOMAIN notes.pending
      /\ \A k \in DOMAIN p : p[k].gen = notes.pending[k].gen
  <2> DEFINE E == PendingNote
  <2>1. /\ \A e \in E : e.age \in Nat
        /\ \A e \in E, a \in Nat : Aged(e, a) \in E /\ Aged(e, a).gen = e.gen
    BY DEF PendingNote, Aged
  <2> HIDE DEF E
  <2>2. notes.pending \in Seq(E)
    BY <1>2 DEF E
  <2>3. p \in Seq(E) /\ DOMAIN p = DOMAIN notes.pending /\ \A k \in DOMAIN p : p[k].gen = notes.pending[k].gen
    BY <1>4, <2>1, <2>2, PendingOlder
  <2> QED
    BY <2>3 DEF E
<1>6. /\ vp \in Seq(PendingVideo) /\ DOMAIN vp = DOMAIN videos.pending
      /\ \A k \in DOMAIN vp : vp[k].gen = videos.pending[k].gen
  <2> DEFINE E == PendingVideo
  <2>1. /\ \A e \in E : e.age \in Nat
        /\ \A e \in E, a \in Nat : Aged(e, a) \in E /\ Aged(e, a).gen = e.gen
    BY DEF PendingVideo, Aged
  <2> HIDE DEF E
  <2>2. videos.pending \in Seq(E)
    BY <1>3 DEF E
  <2>3. vp \in Seq(E) /\ DOMAIN vp = DOMAIN videos.pending /\ \A k \in DOMAIN vp : vp[k].gen = videos.pending[k].gen
    BY <1>4, <2>1, <2>2, PendingOlder
  <2> QED
    BY <2>3 DEF E
<1>7. s \in Memory(Id) /\ an \in [Id -> Nat] /\ Remembers(s, an, DedupTTL)
  BY <1>2, <1>4, TimeRemembers
<1>8. r \in Rate /\ Spaced(s, r.age, r.count)
  BY <1>2, TimeSpaced DEF Rate
<1>9. vs \in Memory(Clip) /\ av \in [Clip -> Nat] /\ Remembers(vs, av, DedupTTL)
  BY <1>3, <1>4, TimeRemembers
<1>10. /\ vd \in Memory(Camera) /\ ac \in [Camera -> Nat]
       /\ Remembers(vd, Unswept(ac, since.swept), Notices!Longest)
  <2> DEFINE later == Notices!OlderAll(held, Notices!Longest)
  <2>1. held \in [Camera -> Nat] /\ \A o \in Camera : held[o] = IF o \in since.swept THEN Notices!Longest ELSE since.c[o]
    BY <1>4 DEF Unswept
  <2>2. vd \in Memory(Camera) /\ Remembers(vd, later, Notices!Longest)
    <3> HIDE DEF held
    <3> QED
      BY <1>3, <1>4, <2>1, TimeRemembers
  <2>3. ac \in [Camera -> Nat] /\ \A o \in Camera : ac[o] = IF since.c[o] < Notices!Longest THEN since.c[o] + 1 ELSE since.c[o]
    BY <1>4 DEF Notices!OlderAll
  <2>4. later = [o \in Camera |-> IF held[o] < Notices!Longest THEN held[o] + 1 ELSE held[o]]
    BY <2>1 DEF Notices!OlderAll
  <2> HIDE DEF held, ac, later
  <2>5. \A o \in Camera : (IF held[o] < Notices!Longest THEN held[o] + 1 ELSE held[o])
                            = IF o \in since.swept THEN Notices!Longest ELSE ac[o]
    BY <1>4, <2>1, <2>3
  <2>6. later = Unswept(ac, since.swept)
    BY <2>4, <2>5 DEF Unswept
  <2> QED
    BY <2>2, <2>3, <2>6
<1>11. vr \in Rate
  BY <1>3, RateType
<1> HIDE DEF p, s, r, vp, vs, vd, vr, an, av, ac, held
<1>12. since'.n = an /\ since'.v = av /\ since'.c = ac /\ since'.swept = since.swept /\ since' \in SinceType
  BY <1>1, <1>7, <1>9, <1>10 DEF SinceType
<1>13. notes' \in NotesType /\ notes'.pending = p /\ notes'.seen = s /\ notes'.rate = r
  BY <1>1, <1>5, <1>7, <1>8, NoteParts
<1>14. videos' \in VideosType /\ videos'.pending = vp /\ videos'.seen = vs /\ videos'.cooldowns = vd
  BY <1>1, <1>6, <1>9, <1>10, <1>11, VideoParts
<1>15. NotesInv(notes', since'.n) /\ VideosInv(videos', since'.v, Unswept(since'.c, since'.swept))
  BY <1>7, <1>8, <1>9, <1>10, <1>12, <1>13, <1>14 DEF NotesInv, VideosInv
<1>16. Notices!PendingIsCurrent'
  BY <1>1, <1>5, <1>6, <1>13, <1>14 DEF Notices!PendingIsCurrent
<1> QED
  BY <1>1, <1>12, <1>15, <1>16

\* What else a worker, its host, or the dispatcher does.
LEMMA OtherSteps ==
    ASSUME NoticeInv, Notices!HostStep
    PROVE  NoticeInv'
<1> USE DEF NoticeInv
<1>1. /\ LET n == [notes EXCEPT !.pending = <<>>] IN NotesInv(n, since.n) /\ DOMAIN n.pending = {}
      /\ LET v == [videos EXCEPT !.pending = <<>>] IN
         VideosInv(v, since.v, Unswept(since.c, since.swept)) /\ DOMAIN v.pending = {}
  BY Emptied
<1> DEFINE n0 == [notes EXCEPT !.pending = <<>>]
           v0 == [videos EXCEPT !.pending = <<>>]
<1>2. /\ NotesInv(n0, since.n) /\ DOMAIN n0.pending = {}
      /\ VideosInv(v0, since.v, Unswept(since.c, since.swept)) /\ DOMAIN v0.pending = {}
  BY <1>1
<1> HIDE DEF n0, v0
<1>3. CASE Notices!Revoke
  <2>1. videos' = v0 /\ lease' = FALSE /\ UNCHANGED <<running, gen, notes, since, repeated>>
    BY <1>3 DEF Notices!Revoke, v0
  <2> QED
    BY <1>2, <2>1 DEF Notices!PendingIsCurrent
<1>4. CASE Notices!End
  <2>1. ~lease /\ notes' = n0 /\ running' = "stopping" /\ UNCHANGED <<lease, gen, videos, since, repeated>>
    BY <1>4 DEF Notices!End, Notices!Update, n0
  <2> QED
    BY <1>2, <2>1 DEF Notices!PendingIsCurrent
<1>5. CASE Notices!Restart
  <2>1. /\ ~lease /\ notes' = n0 /\ running' = "starting" /\ gen' = 1 - gen /\ lease' = TRUE
        /\ UNCHANGED <<videos, since, repeated>>
    BY <1>5 DEF Notices!Restart, Notices!Update, n0
  <2>2. gen' \in {0, 1}
    BY <2>1
  <2> QED
    BY <1>2, <2>1, <2>2 DEF Notices!PendingIsCurrent
<1>6. CASE Notices!Ready
  <2>1. running = "starting" /\ notes' = notes /\ running' = "running" /\ UNCHANGED <<lease, gen, videos, since, repeated>>
    BY <1>6 DEF Notices!Ready, Notices!Update
  <2> QED
    BY <2>1 DEF Notices!PendingIsCurrent
<1>7. CASE Notices!Forward
  <2>1. videos' = v0 /\ UNCHANGED <<running, lease, gen, notes, since, repeated>>
    BY <1>7 DEF Notices!Forward, Notices!TakeVideos, v0
  <2> QED
    BY <1>2, <2>1 DEF Notices!PendingIsCurrent
<1>8. CASE Notices!BeginDispatch \/ Notices!OthersNotify
  <2>1. UNCHANGED <<running, lease, gen, notes, videos, since, repeated>>
    BY <1>8 DEF Notices!BeginDispatch, Notices!OthersNotify
  <2> QED
    BY <2>1 DEF Notices!PendingIsCurrent
<1>9. CASE Notices!Dispatch
  <2>1. UNCHANGED <<running, lease, gen, videos, since, repeated>>
    BY <1>9 DEF Notices!Dispatch
  <2>2. CASE videos.pending # <<>> \/ notes.pending = <<>>
    <3>1. notes' = notes
      BY <1>9, <2>2 DEF Notices!Dispatch
    <3> QED
      BY <2>1, <3>1 DEF Notices!PendingIsCurrent
  <2>3. CASE ~(videos.pending # <<>> \/ notes.pending = <<>>)
    <3> DEFINE p == Tail(notes.pending)
    <3>1. /\ notes \in NotesType /\ notes.pending \in Seq(PendingNote) /\ notes.seen \in Memory(Id)
          /\ notes.rate \in Rate /\ notes.pending # <<>>
      BY <2>3, NoteParts DEF NotesInv
    <3>2. p \in Seq(PendingNote) /\ \A k \in DOMAIN p : p[k].gen = gen /\ running = "running"
      <4> DEFINE E == PendingNote
      <4> HIDE DEF E
      <4>1. notes.pending \in Seq(E) /\ notes.pending # <<>>
        BY <3>1 DEF E
      <4>2. p \in Seq(E) /\ \A k \in DOMAIN p : k + 1 \in DOMAIN notes.pending /\ p[k] = notes.pending[k + 1]
        BY <4>1
      <4> HIDE DEF p
      <4> QED
        BY <4>2 DEF E, Notices!PendingIsCurrent
    <3>3. notes' = [notes EXCEPT !.pending = p]
      BY <1>9, <2>3 DEF Notices!Dispatch
    <3> HIDE DEF p
    <3>4. notes'.pending = p /\ notes'.seen = notes.seen /\ notes'.rate = notes.rate /\ notes' \in NotesType
      <4> DEFINE P == Seq(PendingNote)
      <4> HIDE DEF P
      <4>1. p \in P /\ notes \in [pending : P, seen : Memory(Id), rate : Rate]
        BY <3>1, <3>2 DEF P, NotesType
      <4> QED
        BY <3>3, <4>1 DEF P, NotesType
    <3>5. NotesInv(notes', since.n)
      BY <3>4 DEF NotesInv
    <3> QED
      BY <2>1, <3>2, <3>4, <3>5 DEF Notices!PendingIsCurrent
  <2> QED
    BY <2>2, <2>3
<1> QED
  BY <1>3, <1>4, <1>5, <1>6, <1>7, <1>8, <1>9 DEF Notices!HostStep

LEMMA NoticeSteps == NoticeInv /\ [Notices!Next]_(Notices!vars) => NoticeInv'
<1> SUFFICES ASSUME NoticeInv, [Notices!Next]_(Notices!vars) PROVE NoticeInv'
  OBVIOUS
<1>1. CASE UNCHANGED Notices!vars
  BY <1>1 DEF Notices!vars, NoticeInv, Notices!PendingIsCurrent
<1>2. CASE Notices!Tick
  BY <1>2, TickSteps
<1>3. ASSUME NEW i \in Id, Notices!Notification(i) PROVE NoticeInv'
  BY <1>3, NotificationSteps
<1>4. ASSUME NEW i \in Clip, NEW c \in Camera, NEW kind \in Notices!Kind, Notices!Media(i, c, kind) PROVE NoticeInv'
  BY <1>4, MediaSteps
<1>5. CASE Notices!HostStep
  BY <1>5, OtherSteps
<1> QED
  BY <1>1, <1>2, <1>3, <1>4, <1>5 DEF Notices!Next

LEMMA NoticeStarts == Notices!Init => NoticeInv
<1> SUFFICES ASSUME Notices!Init PROVE NoticeInv
  OBVIOUS
<1> DEFINE r0 == [age |-> 0, count |-> 0]
<1>1. /\ running = "starting" /\ lease = TRUE /\ gen = 0 /\ repeated = FALSE
      /\ notes = [pending |-> <<>>, seen |-> <<>>, rate |-> r0]
      /\ videos = [pending |-> <<>>, seen |-> <<>>, cooldowns |-> <<>>, rate |-> r0]
      /\ since = [n |-> [i \in Id |-> DedupTTL], v |-> [i \in Clip |-> DedupTTL],
                  c |-> [c \in Camera |-> Notices!Longest], swept |-> {}]
  BY DEF Notices!Init, Notices!Fresh
<1>2. r0 \in Rate /\ r0.age = 0 /\ r0.count = 0 /\ 0 # Minute
  BY Limits DEF Rate
<1> HIDE DEF r0
<1>3. <<>> \in Seq(PendingNote) /\ <<>> \in Seq(PendingVideo) /\ \A keys : <<>> \in Memory(keys)
  BY DEF Memory
<1>4. /\ notes \in NotesType /\ notes.pending = <<>> /\ notes.seen = <<>> /\ notes.rate = r0
      /\ videos \in VideosType /\ videos.pending = <<>> /\ videos.seen = <<>> /\ videos.cooldowns = <<>>
  BY <1>1, <1>2, <1>3, NoteParts, VideoParts
<1>5. /\ since \in SinceType
      /\ since.n = [i \in Id |-> DedupTTL] /\ since.v = [i \in Clip |-> DedupTTL]
      /\ since.c = [c \in Camera |-> Notices!Longest] /\ since.swept = {}
  BY <1>1, Limits DEF SinceType
<1>6. /\ Remembers(<<>>, since.n, DedupTTL) /\ Remembers(<<>>, since.v, DedupTTL)
      /\ Remembers(<<>>, Unswept(since.c, since.swept), Notices!Longest)
  BY <1>5, Limits DEF Remembers, Unswept
<1>7. Spaced(<<>>, r0.age, r0.count)
  BY <1>2 DEF Spaced
<1>8. NotesInv(notes, since.n) /\ VideosInv(videos, since.v, Unswept(since.c, since.swept))
  BY <1>4, <1>6, <1>7 DEF NotesInv, VideosInv
<1> QED
  BY <1>1, <1>4, <1>5, <1>8 DEF NoticeInv, Notices!PendingIsCurrent

\* Seen through its own variables, the composition is a WorkerNotices.
LEMMA NoticeSpec == Spec => Notices!Spec
<1>1. Init => Notices!Init
  BY DEF Init
<1>2. UNCHANGED noticeVars <=> UNCHANGED Notices!vars
  BY DEF noticeVars, Notices!vars
<1>3. [Next]_<<focus, stateVars, bannerVars, commandVars, gatewayVars, bookVars, noticeVars>>
      => [Notices!Next]_(Notices!vars)
  BY <1>2 DEF Next
<1> QED
  BY <1>1, <1>3, PTL DEF Spec, Notices!Spec

\* The memories hold what was admitted within its time, spaced by the rate, under every number of
\* identities, rates and times for which SeenHolds. A camera's entry is held for the longest cooldown
\* until a request sweeps it whose own cooldown it has outlived.
THEOREM NoticesInvariance == Spec => []NoticeInv
<1>1. Notices!Spec => []NoticeInv
  BY NoticeStarts, NoticeSteps, PTL DEF Notices!Spec
<1> QED
  BY <1>1, NoticeSpec, PTL

\* No identity is admitted twice within its time, by a memory that drops its oldest entry when it is
\* full; a camera is admitted only when it has outlived the cooldown of the request, or of one that
\* swept it out of the memory; and what is pending is of the generation that runs (NoRepeats).
THEOREM NothingIsRepeated == Spec => []NoRepeats
<1>1. NoticeInv => NoRepeats
  BY DEF NoticeInv, NoRepeats, Notices!NoRepeats
<1> QED
  BY <1>1, NoticesInvariance, PTL
-----------------------------------------------------------------------------
(* The tiles (VictronState) *)

\* Seen through its own variables, the composition is a VictronState.
LEMMA StateSpec == Spec => State!Spec
<1>1. Init => State!Init
  BY DEF Init
<1>2. UNCHANGED stateVars <=> UNCHANGED State!vars
  BY DEF stateVars, State!vars
<1>3. [Next]_<<focus, stateVars, bannerVars, commandVars, gatewayVars, bookVars, noticeVars>>
      => [State!Next]_(State!vars)
  BY <1>2 DEF Next
<1> QED
  BY <1>1, <1>3, PTL DEF Spec, State!Spec

\* A state has its tiles, and a phase that was declared invalid is blank.
Tile == {"volt", "amps", "batteries", "mppt", "mpptParts", "chargers", "pv", "pvParts", "solar", "g",
         "avail", "gt", "t", "tt", "setpoint", "loads", "names", "found", "water", "pump", "valve",
         "soc", "charging", "present"}
HasTiles(s) == DOMAIN s = Tile
BlankIfInvalid(s) == \A p \in State!Phase : s.avail[p] = {FALSE} => s.g[p] = State!None

StateInv == HasTiles(st) /\ BlankIfInvalid(st)

LEMMA Tiles ==
    /\ "volt" \in Tile /\ "amps" \in Tile /\ "batteries" \in Tile /\ "mppt" \in Tile /\ "mpptParts" \in Tile
    /\ "chargers" \in Tile /\ "pv" \in Tile /\ "pvParts" \in Tile /\ "solar" \in Tile /\ "g" \in Tile
    /\ "avail" \in Tile /\ "gt" \in Tile /\ "t" \in Tile /\ "tt" \in Tile /\ "setpoint" \in Tile
    /\ "loads" \in Tile /\ "names" \in Tile /\ "found" \in Tile /\ "water" \in Tile /\ "pump" \in Tile
    /\ "valve" \in Tile /\ "soc" \in Tile /\ "charging" \in Tile /\ "present" \in Tile
  BY DEF Tile

\* What the overlays below leave alone.
SameGrid(s, r) == r.g = s.g /\ r.avail = s.avail
ShuntIsShown(d, s) ==
    State!HasShunt(d) /\ d["battery"][State!Min(State!Shunts(d))].volt # State!None
        => s.volt = d["battery"][State!Min(State!Shunts(d))].volt
SolarIsShown(d, s) ==
    State!OwnsChargers(d) /\ State!OwnsPv(d)
        => s.solar = {State!Total(d, "solarcharger") + State!Total(d, "pvinverter")}

LEMMA BankIsOverlaid ==
    ASSUME NEW d, NEW s, HasTiles(s)
    PROVE  LET r == State!OverlayBank(d, s) IN HasTiles(r) /\ SameGrid(s, r) /\ ShuntIsShown(d, r)
  BY Tiles DEF HasTiles, SameGrid, ShuntIsShown, State!OverlayBank, State!Or

LEMMA SolarIsOverlaid ==
    ASSUME NEW d, NEW s, HasTiles(s), ShuntIsShown(d, s)
    PROVE  LET r == State!OverlaySolar(d, s) IN
           HasTiles(r) /\ SameGrid(s, r) /\ ShuntIsShown(d, r) /\ SolarIsShown(d, r)
<1> DEFINE r == State!OverlaySolar(d, s)
           mppt == IF State!OwnsChargers(d) THEN {State!Total(d, "solarcharger")} ELSE State!Or(s.mppt, s.mpptParts)
           pv == IF State!OwnsPv(d) THEN {State!Total(d, "pvinverter")} ELSE State!Or(s.pv, s.pvParts)
<1>1. HasTiles(r) /\ SameGrid(s, r) /\ r.volt = s.volt
  BY Tiles DEF HasTiles, SameGrid, State!OverlaySolar
<1>2. State!OwnsSolar(d) => r.solar = {State!OrZero(mppt) + State!OrZero(pv)}
  BY Tiles DEF HasTiles, State!OverlaySolar
<1>3. ASSUME State!OwnsChargers(d), State!OwnsPv(d)
      PROVE  State!OrZero(mppt) = State!Total(d, "solarcharger") /\ State!OrZero(pv) = State!Total(d, "pvinverter")
  BY <1>3 DEF State!OrZero, State!The, State!None
<1> QED
  BY <1>1, <1>2, <1>3 DEF ShuntIsShown, SolarIsShown, State!OwnsSolar

\* systemcalc's phases are shown as published; a phase without a value is then invalid.
SystemIsShown(d, s) ==
    State!Live(d, "system") # {} =>
        \A p \in State!Phase : p \in State!First(d, "system").seen =>
            /\ s.g[p] = State!First(d, "system").g[p]
            /\ s.g[p] = State!None => s.avail[p] = {FALSE}

LEMMA SystemIsOverlaid ==
    ASSUME NEW d, NEW s, HasTiles(s), BlankIfInvalid(s), ShuntIsShown(d, s), SolarIsShown(d, s)
    PROVE  LET r == State!OverlaySystem(d, s) IN
           /\ HasTiles(r) /\ BlankIfInvalid(r)
           /\ ShuntIsShown(d, r) /\ SolarIsShown(d, r) /\ SystemIsShown(d, r)
<1> DEFINE r == State!OverlaySystem(d, s)
           sys == State!First(d, "system")
<1>1. CASE State!Live(d, "system") = {}
  BY <1>1 DEF State!OverlaySystem, SystemIsShown
<1>2. CASE State!Live(d, "system") # {}
  <2>1. /\ r.g = [p \in State!Phase |-> IF p \in sys.seen THEN sys.g[p] ELSE s.g[p]]
        /\ r.avail = [p \in State!Phase |-> IF p \in sys.seen THEN {sys.g[p] # State!None} ELSE s.avail[p]]
        /\ HasTiles(r) /\ r.volt = s.volt /\ r.solar = s.solar
    BY <1>2, Tiles DEF HasTiles, State!OverlaySystem
  <2>2. ASSUME NEW p \in State!Phase, p \in sys.seen
        PROVE  r.g[p] = sys.g[p] /\ (r.avail[p] = {FALSE} <=> sys.g[p] = State!None)
    <3>1. r.g[p] = sys.g[p] /\ r.avail[p] = {sys.g[p] # State!None}
      BY <2>1, <2>2
    <3>2. CASE sys.g[p] = State!None
      BY <3>1, <3>2
    <3>3. CASE sys.g[p] # State!None
      <4>1. (sys.g[p] # State!None) = TRUE
        BY <3>3
      <4>2. r.avail[p] = {TRUE}
        BY <3>1, <4>1
      <4> QED
        BY <3>1, <3>3, <4>2
    <3> QED
      BY <3>2, <3>3
  <2>3. ASSUME NEW p \in State!Phase, p \notin sys.seen PROVE r.g[p] = s.g[p] /\ r.avail[p] = s.avail[p]
    BY <2>1, <2>3
  <2> QED
    BY <2>1, <2>2, <2>3 DEF BlankIfInvalid, ShuntIsShown, SolarIsShown, SystemIsShown
<1> QED
  BY <1>1, <1>2

SetpointIsShown(d, s) ==
    State!Live(d, "vebus") # {} /\ State!First(d, "vebus").setpoint # State!None
        => s.setpoint = State!First(d, "vebus").setpoint

\* The VE.Bus reading stands in only for a phase nothing is known of.
LEMMA VebusIsOverlaid ==
    ASSUME NEW d, NEW s, HasTiles(s), BlankIfInvalid(s),
           ShuntIsShown(d, s), SolarIsShown(d, s), SystemIsShown(d, s)
    PROVE  LET r == State!OverlayVebus(d, s) IN
           /\ HasTiles(r) /\ BlankIfInvalid(r)
           /\ ShuntIsShown(d, r) /\ SolarIsShown(d, r) /\ SystemIsShown(d, r) /\ SetpointIsShown(d, r)
<1> DEFINE r == State!OverlayVebus(d, s)
           v == State!First(d, "vebus")
<1>1. CASE State!Live(d, "vebus") = {}
  BY <1>1 DEF State!OverlayVebus, SetpointIsShown
<1>2. CASE State!Live(d, "vebus") # {}
  <2>1. /\ r.g = [p \in State!Phase |-> IF State!Fallback(s, v, p) THEN v.l[p] ELSE s.g[p]]
        /\ r.avail = [p \in State!Phase |-> IF State!Fallback(s, v, p) THEN {TRUE} ELSE s.avail[p]]
        /\ HasTiles(r) /\ r.volt = s.volt /\ r.solar = s.solar /\ r.setpoint = State!Or(v.setpoint, s.setpoint)
    BY <1>2, Tiles DEF HasTiles, State!OverlayVebus
  <2>2. ASSUME NEW p \in State!Phase
        PROVE  /\ State!Fallback(s, v, p) => s.g[p] = State!None /\ s.avail[p] # {FALSE} /\ r.avail[p] # {FALSE}
               /\ ~State!Fallback(s, v, p) => r.g[p] = s.g[p] /\ r.avail[p] = s.avail[p]
    <3>1. {TRUE} # {FALSE}
      OBVIOUS
    <3> QED
      BY <2>1, <3>1 DEF State!Fallback
  <2>3. BlankIfInvalid(r) /\ SystemIsShown(d, r)
    BY <2>2 DEF BlankIfInvalid, SystemIsShown
  <2> QED
    BY <2>1, <2>3 DEF ShuntIsShown, SolarIsShown, SetpointIsShown, State!Or
<1> QED
  BY <1>1, <1>2

TotalIsHonest(s) ==
    (\E p \in State!Phase : s.avail[p] # State!None) => s.gt = State!SumOf(s.g)

LEMMA TotalIsOverlaid ==
    ASSUME NEW d, NEW s, HasTiles(s), BlankIfInvalid(s),
           ShuntIsShown(d, s), SolarIsShown(d, s), SystemIsShown(d, s), SetpointIsShown(d, s)
    PROVE  LET r == State!OverlayTotal(s) IN
           /\ HasTiles(r) /\ BlankIfInvalid(r) /\ TotalIsHonest(r)
           /\ ShuntIsShown(d, r) /\ SolarIsShown(d, r) /\ SystemIsShown(d, r) /\ SetpointIsShown(d, r)
<1> DEFINE r == State!OverlayTotal(s)
<1>1. CASE \A p \in State!Phase : s.avail[p] = State!None
  BY <1>1 DEF State!OverlayTotal, TotalIsHonest
<1>2. CASE ~\A p \in State!Phase : s.avail[p] = State!None
  <2>1. /\ HasTiles(r) /\ r.volt = s.volt /\ r.solar = s.solar /\ r.setpoint = s.setpoint
        /\ r.g = s.g /\ r.avail = s.avail /\ r.gt = State!SumOf(s.g)
    BY <1>2, Tiles DEF HasTiles, State!OverlayTotal
  <2> HIDE DEF r
  <2>2. /\ HasTiles(r) /\ BlankIfInvalid(r) /\ TotalIsHonest(r)
        /\ ShuntIsShown(d, r) /\ SolarIsShown(d, r) /\ SystemIsShown(d, r) /\ SetpointIsShown(d, r)
    BY <2>1 DEF BlankIfInvalid, TotalIsHonest, ShuntIsShown, SolarIsShown, SystemIsShown, SetpointIsShown
  <2> QED
    BY <2>2 DEF r
<1> QED
  BY <1>1, <1>2

\* The loads and the inventory touch nothing else, so all of it stands in the end.
LEMMA CerboIsOverlaid ==
    ASSUME NEW d, NEW s, HasTiles(s), BlankIfInvalid(s)
    PROVE  LET r == State!ApplyCerboToState(d, s) IN
           HasTiles(r) /\ BlankIfInvalid(r) /\ State!NoDaemonBleed(d, r) /\ State!GridIsHonest(d, r)
<1> DEFINE s1 == State!OverlayBank(d, s)
           s2 == State!OverlaySolar(d, s1)
           s3 == State!OverlaySystem(d, s2)
           s4 == State!OverlayVebus(d, s3)
           s5 == State!OverlayTotal(s4)
           s6 == State!OverlayLoads(d, s5)
           s7 == State!OverlayFound(d, s6)
<1>1. State!ApplyCerboToState(d, s) = s7
  BY DEF State!ApplyCerboToState
<1>2. HasTiles(s1) /\ SameGrid(s, s1) /\ ShuntIsShown(d, s1)
  BY BankIsOverlaid
<1> HIDE DEF s1
<1>3. HasTiles(s2) /\ SameGrid(s1, s2) /\ ShuntIsShown(d, s2) /\ SolarIsShown(d, s2)
  BY <1>2, SolarIsOverlaid
<1> HIDE DEF s2
<1>0. BlankIfInvalid(s2)
  BY <1>2, <1>3 DEF BlankIfInvalid, SameGrid
<1>4. /\ HasTiles(s3) /\ BlankIfInvalid(s3)
      /\ ShuntIsShown(d, s3) /\ SolarIsShown(d, s3) /\ SystemIsShown(d, s3)
  BY <1>0, <1>3, SystemIsOverlaid
<1> HIDE DEF s3
<1>5. /\ HasTiles(s4) /\ BlankIfInvalid(s4)
      /\ ShuntIsShown(d, s4) /\ SolarIsShown(d, s4) /\ SystemIsShown(d, s4) /\ SetpointIsShown(d, s4)
  BY <1>4, VebusIsOverlaid
<1> HIDE DEF s4
<1>6. /\ HasTiles(s5) /\ BlankIfInvalid(s5) /\ TotalIsHonest(s5)
      /\ ShuntIsShown(d, s5) /\ SolarIsShown(d, s5) /\ SystemIsShown(d, s5) /\ SetpointIsShown(d, s5)
  BY <1>5, TotalIsOverlaid
<1> HIDE DEF s5
<1>7. /\ HasTiles(s6) /\ s6.volt = s5.volt /\ s6.solar = s5.solar /\ s6.setpoint = s5.setpoint
      /\ s6.g = s5.g /\ s6.avail = s5.avail /\ s6.gt = s5.gt
      /\ State!Live(d, "acload") # {} => s6.loads = {State!LoadPowers(d)}
  <2>1. CASE State!Live(d, "acload") = {}
    BY <1>6, <2>1 DEF State!OverlayLoads, State!Live
  <2>2. CASE State!Live(d, "acload") # {}
    <3>1. DOMAIN d["acload"] # {}
      BY <2>2 DEF State!Live
    <3> QED
      BY <1>6, <3>1, Tiles DEF HasTiles, State!OverlayLoads
  <2> QED
    BY <2>1, <2>2
<1> HIDE DEF s6
<1>8. /\ HasTiles(s7) /\ s7.volt = s6.volt /\ s7.solar = s6.solar /\ s7.setpoint = s6.setpoint
      /\ s7.g = s6.g /\ s7.avail = s6.avail /\ s7.gt = s6.gt /\ s7.loads = s6.loads
  BY <1>7, Tiles DEF HasTiles, State!OverlayFound
<1> HIDE DEF s7
<1>9. BlankIfInvalid(s7) /\ State!NoDaemonBleed(d, s7)
  BY <1>6, <1>7, <1>8 DEF BlankIfInvalid, ShuntIsShown, SolarIsShown, SetpointIsShown, State!NoDaemonBleed
<1>10. State!GridIsHonest(d, s7)
  <2>1. s7.g = s5.g /\ s7.avail = s5.avail /\ s7.gt = s5.gt
    BY <1>7, <1>8
  <2>2. ASSUME State!Live(d, "system") # {}, NEW p \in State!Phase, p \in State!First(d, "system").seen
        PROVE  s7.g[p] = State!First(d, "system").g[p]
    BY <1>6, <2>1, <2>2 DEF SystemIsShown
  <2>3. (\E p \in State!Phase : s7.avail[p] # State!None) => s7.gt = State!SumOf(s7.g)
    BY <1>6, <2>1 DEF TotalIsHonest
  <2>4. \A p \in State!Phase : s7.avail[p] = {FALSE} => s7.g[p] = State!None
    BY <1>6, <2>1 DEF BlankIfInvalid
  <2> QED
    BY <2>2, <2>3, <2>4 DEF State!GridIsHonest
<1> QED
  BY <1>1, <1>8, <1>9, <1>10

\* The daemon's snapshot changes neither the grid nor whether its phases are valid.
LEMMA DaemonIsMerged ==
    ASSUME NEW fields, NEW d, StateInv
    PROVE  LET r == State!MergeDaemon(fields, d, st) IN HasTiles(r) /\ BlankIfInvalid(r)
<1> DEFINE r == State!MergeDaemon(fields, d, st)
<1>1. HasTiles(r) /\ SameGrid(st, r)
  BY Tiles DEF StateInv, HasTiles, SameGrid, State!MergeDaemon
<1> HIDE DEF r
<1>2. BlankIfInvalid(r)
  BY <1>1 DEF StateInv, SameGrid, BlankIfInvalid
<1> QED
  BY <1>1, <1>2 DEF r

\* A message that is about one instance makes or replaces its entry.
LEMMA EntryIsReplaced ==
    ASSUME NEW k \in State!Service, NEW i, devices' = State!WithEntry(State!SweepStale(devices), k, i, State!Entry(State!SweepStale(devices), k, i))
    PROVE  ~State!News
<1> DEFINE swept == State!SweepStale(devices)
           e == State!Entry(swept, k, i)
<1>1. DOMAIN swept = State!Service
  BY DEF State!SweepStale
<1> HIDE DEF swept
<1>2. e = IF i \in DOMAIN swept[k] THEN swept[k][i] ELSE State!Blank[k]
  BY DEF State!Entry, State!Live
<1>3. devices' = [swept EXCEPT ![k] = [j \in DOMAIN swept[k] \cup {i} |-> IF j = i THEN e ELSE swept[k][j]]]
  BY DEF swept, State!WithEntry, State!Live
<1> HIDE DEF e
<1>4. ASSUME NEW n \in State!Service, NEW j \in DOMAIN devices'[n]
      PROVE  devices'[n][j] = State!Entry(swept, n, j)
  <2>1. CASE n = k
    <3>1. devices'[k] = [x \in DOMAIN swept[k] \cup {i} |-> IF x = i THEN e ELSE swept[k][x]]
      BY <1>1, <1>3
    <3>2. j \in DOMAIN swept[k] \cup {i} /\ devices'[n][j] = IF j = i THEN e ELSE swept[k][j]
      BY <2>1, <3>1
    <3> QED
      BY <1>2, <2>1, <3>2 DEF State!Entry, State!Live
  <2>2. CASE n # k
    <3>1. devices'[n] = swept[n]
      BY <1>1, <1>3, <2>2
    <3> QED
      BY <3>1 DEF State!Entry, State!Live
  <2> QED
    BY <2>1, <2>2
<1> QED
  BY <1>4 DEF State!News, State!Live, swept

\* What a step has to leave behind, when it has news or changes the tiles.
Shown(d, s) == State!NoDaemonBleed(d, s) /\ State!GridIsHonest(d, s)
LEMMA StateStep ==
    StateInv /\ [State!Next]_(State!vars)
        => StateInv' /\ (State!News \/ st' # st => Shown(devices', st'))
<1> SUFFICES ASSUME StateInv, [State!Next]_(State!vars)
             PROVE  StateInv' /\ (State!News \/ st' # st => Shown(devices', st'))
  OBVIOUS
<1>1. HasTiles(st) /\ BlankIfInvalid(st)
  BY DEF StateInv
<1> DEFINE Overlaid == \E s : HasTiles(s) /\ BlankIfInvalid(s) /\ st' = State!ApplyCerboToState(devices', s)
           Quiet == st' = st /\ ~State!News
<1>2. Overlaid => StateInv' /\ Shown(devices', st')
  BY CerboIsOverlaid DEF StateInv, Shown
<1>3. Quiet => StateInv' /\ ~(State!News \/ st' # st)
  BY DEF StateInv
<1>4. devices' = devices => ~State!News
  BY DEF State!News
<1>5. ASSUME NEW k \in State!GxDevices, NEW i \in Instances[k], State!DeviceMessage(k, i) PROVE Overlaid
  BY <1>1, <1>5 DEF State!DeviceMessage
<1>6. ASSUME NEW k \in State!GxDevices, NEW i \in Instances[k], State!UnknownPath(k, i) PROVE Quiet
  <2>1. k \in State!Service
    BY DEF State!Service
  <2> QED
    BY <1>6, <2>1, EntryIsReplaced DEF State!UnknownPath
<1>7. ASSUME NEW i \in Instances["acload"], State!AcloadMessage(i) PROVE Overlaid
  BY <1>1, <1>7 DEF State!AcloadMessage
<1>8. ASSUME NEW k \in {"tank", "pump"}, NEW i \in Instances[k], State!WaterMessage(k, i) PROVE Overlaid
  <2>1. CASE st' = State!ApplyCerboToState(devices', st)
    BY <1>1, <2>1
  <2>2. ASSUME NEW tile, NEW v, tile # "none",
               tile \in {"water", "pump", "valve", "none"},
               st' = State!ApplyCerboToState(devices', [st EXCEPT ![tile] = {v}])
        PROVE  Overlaid
    <3>1. HasTiles([st EXCEPT ![tile] = {v}])
      BY <1>1 DEF HasTiles
    <3>2. [st EXCEPT ![tile] = {v}].g = st.g /\ [st EXCEPT ![tile] = {v}].avail = st.avail
      BY <1>1, <2>2, Tiles DEF HasTiles
    <3> QED
      BY <1>1, <2>2, <3>1, <3>2 DEF BlankIfInvalid
  <2>3. State!WaterTile(devices', k, i) \in {"water", "pump", "valve", "none"}
    BY DEF State!WaterTile
  <2> QED
    BY <1>8, <2>1, <2>2, <2>3 DEF State!WaterMessage
<1>9. ASSUME NEW k \in {"ev", "evcharger"}, NEW i \in Instances[k], State!EvMessage(k, i) PROVE Overlaid
  <2>1. CASE st' = State!ApplyCerboToState(devices', st)
    BY <1>1, <2>1
  <2>2. ASSUME NEW field \in {"soc", "charging"}, NEW v, State!ApplyEvMessage(k, field, v) PROVE Overlaid
    <3> DEFINE s == [st EXCEPT ![field] = cache'[field]]
    <3>1. HasTiles(s) /\ s.g = st.g /\ s.avail = st.avail
      BY <1>1, Tiles DEF HasTiles
    <3>2. st' = State!ApplyCerboToState(devices', s)
      BY <2>2 DEF State!ApplyEvMessage
    <3> HIDE DEF s
    <3> QED
      BY <1>1, <3>1, <3>2 DEF BlankIfInvalid
  <2> QED
    BY <1>9, <2>1, <2>2 DEF State!EvMessage
<1>10. ASSUME NEW fields, State!ProcessStateUpdate(fields)
       PROVE  StateInv' /\ Shown(devices', st')
  <2> DEFINE merged == State!ApplyCerboToState(devices, State!MergeDaemon(fields, devices, st))
  <2>1. HasTiles(merged) /\ BlankIfInvalid(merged) /\ Shown(devices, merged)
    BY DaemonIsMerged, CerboIsOverlaid DEF Shown
  <2>2. devices' = devices /\ st' = State!RestoreInto(cache, merged)
    BY <1>10 DEF State!ProcessStateUpdate
  <2> HIDE DEF merged
  <2>3. /\ HasTiles(st') /\ st'.volt = merged.volt /\ st'.solar = merged.solar /\ st'.setpoint = merged.setpoint
        /\ st'.g = merged.g /\ st'.avail = merged.avail /\ st'.gt = merged.gt /\ st'.loads = merged.loads
    BY <2>1, <2>2, Tiles DEF HasTiles, State!RestoreInto
  <2> QED
    BY <2>1, <2>2, <2>3 DEF StateInv, BlankIfInvalid, Shown, State!NoDaemonBleed, State!GridIsHonest
<1>11. State!Elapse \/ State!SetWindowHidden \/ UNCHANGED State!vars => Quiet
  BY <1>4 DEF State!Elapse, State!SetWindowHidden, State!vars
<1> HIDE DEF Overlaid, Quiet
<1> QED
  BY <1>2, <1>3, <1>5, <1>6, <1>7, <1>8, <1>9, <1>10, <1>11 DEF State!Next

LEMMA StateStarts == State!Init => StateInv
<1> SUFFICES ASSUME State!Init PROVE StateInv
  OBVIOUS
<1>1. st = State!NoTiles
  BY DEF State!Init
<1>2. HasTiles(State!NoTiles)
  BY DEF HasTiles, Tile, State!NoTiles
<1>3. ASSUME NEW p \in State!Phase PROVE State!NoTiles.g[p] = State!None
  BY DEF State!NoTiles
<1> QED
  BY <1>1, <1>2, <1>3 DEF StateInv, BlankIfInvalid

\* A phase that was declared invalid is blank, whatever the messages.
THEOREM StateInvariance == Spec => []StateInv
<1>1. State!Spec => []StateInv
  BY StateStarts, StateStep, PTL DEF State!Spec
<1> QED
  BY <1>1, StateSpec, PTL

\* The tiles show what the live devices report, after every step that has news of a device or
\* changes a tile, for every number of instances and messages (ReadingsAreOwn).
THEOREM TilesShowTheirDevices == Spec => ReadingsAreOwn
<1>1. StateInv /\ [State!Next]_(State!vars)
      => [State!News \/ st' # st => State!NoDaemonBleed(devices', st') /\ State!GridIsHonest(devices', st')]_(State!vars)
  BY StateStep DEF Shown
<1>2. State!Spec => [][State!Next]_(State!vars)
  BY PTL DEF State!Spec
<1> QED
  BY <1>1, <1>2, StateSpec, StateInvariance, PTL DEF ReadingsAreOwn, State!ReadingsAreOwn
=============================================================================
