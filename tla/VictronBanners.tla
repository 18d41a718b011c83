--------------------------- MODULE VictronBanners ---------------------------
(***************************************************************************)
(* The alarm banners of the MQTT transport (src-tauri/src/mqtt.rs): the    *)
(* notification slots of the Venus platform arrive field by field, raw     *)
(* alarms are the fallback, cell readings of a battery are added to the    *)
(* text, and the user dismisses a banner on another thread than the one    *)
(* that handles messages. Events reach the window in the order they are   *)
(* emitted; a slot is rendered from a copy taken under the lock.           *)
(***************************************************************************)
EXTENDS Naturals

CONSTANTS
    Slot,           \* notification slots in use
    Topic,          \* raw alarm topics in use
    VoltageTopics,  \* those of battery voltage alarms
    MaxNotices      \* bound on the messages handled

VARIABLES
    slots,      \* platform_notifs
    seen,       \* platform_notifs_seen
    alarms,     \* the raw alarms by topic: 0 off, 1 warning, 2 alarm
    cell,       \* the battery's cell reading is known
    handler,    \* the message being handled, and the copy of the slots it renders
    dismissing, \* the dismissal under way: its step and its slot
    ui,         \* the banner the window shows for a slot
    raw,        \* the banner the window shows for a raw alarm
    raced,      \* a dismissal overlapped a rendering
    notices     \* messages handled

vars == <<slots, seen, alarms, cell, handler, dismissing, ui, raw, raced, notices>>
-----------------------------------------------------------------------------
None == {}
Idle == [at |-> "idle", copy |-> <<>>]
NoDismissal == [at |-> "idle", slot |-> None]

\* Title None: no description yet. Only a high or low voltage title is enriched.
Fields == [desc : {None, {"voltage"}, {"other"}}, time : {None, {1}, {2}},
           active : {None, {TRUE}, {FALSE}}, acknowledged : {None, {TRUE}, {FALSE}},
           dismissed : BOOLEAN]
EmptySlot == [desc |-> None, time |-> None, active |-> None, acknowledged |-> None,
              dismissed |-> FALSE]

Init ==
    /\ slots = [s \in Slot |-> EmptySlot]
    /\ seen = FALSE
    /\ alarms = [t \in Topic |-> 0]
    /\ cell = FALSE
    /\ handler = Idle
    /\ dismissing = NoDismissal
    /\ ui = [s \in Slot |-> "absent"]
    /\ raw = [t \in Topic |-> "absent"]
    /\ raced = FALSE
    /\ notices = 0

ShouldShow(slot) == ~slot.dismissed /\ slot.acknowledged # {TRUE} /\ slot.desc # None

\* One field of a slot. A new DateTime is a new event in a recycled slot; Active=false
\* ends the condition: either lifts the dismissal.
ApplyField(slot) ==
    {[slot EXCEPT !.desc = v] : v \in {None, {"voltage"}, {"other"}}}
    \cup {[slot EXCEPT !.time = v, !.dismissed = @ /\ (v = None \/ v = slot.time)]
             : v \in {None, {1}, {2}}}
    \cup {[slot EXCEPT !.active = v, !.dismissed = @ /\ v # {FALSE}] : v \in {{TRUE}, {FALSE}}}
    \cup {[slot EXCEPT !.acknowledged = v] : v \in {{TRUE}, {FALSE}}}

\* Only alarms of a battery's voltage are enriched.
VoltageAlarm(t) == t \in VoltageTopics

\* The text carries the cell reading when there is one for this kind of alarm.
Body(voltage, known) == IF voltage /\ known THEN "detailed" ELSE "plain"
Render(slot) ==
    IF ShouldShow(slot) THEN Body(slot.desc = {"voltage"}, cell) ELSE "absent"
-----------------------------------------------------------------------------
(* The message loop: one message at a time. *)
Receive == notices < MaxNotices /\ notices' = notices + 1 /\ handler.at = "idle"
Overlaps == dismissing.at \in {"suppress", "clear"}

PlatformMessage(s) ==
    /\ Receive
    /\ seen' = TRUE
    /\ \E slot \in ApplyField(slots[s]) : slots' = [slots EXCEPT ![s] = slot]
    /\ handler' = [at |-> "emit", copy |-> [x \in {s} |-> slots'[x]]]
    /\ raced' = (raced \/ Overlaps)
    /\ UNCHANGED <<alarms, cell, dismissing, ui, raw>>

\* The payload does not parse: the fallback is switched off all the same.
BadPlatformMessage ==
    /\ Receive
    /\ seen' = TRUE
    /\ UNCHANGED <<slots, alarms, cell, handler, dismissing, ui, raw, raced>>

\* Mutant: a slot that is no longer to be shown is left on the screen.
EmitBannerOnly ==
    /\ handler.at = "emit"
    /\ ui' = [s \in Slot |-> IF s \in DOMAIN handler.copy /\ ShouldShow(handler.copy[s])
                            THEN Render(handler.copy[s]) ELSE ui[s]]
    /\ handler' = Idle
    /\ UNCHANGED <<slots, seen, alarms, cell, dismissing, raw, raced, notices>>

EmitBanner ==
    /\ handler.at = "emit"
    /\ ui' = [s \in Slot |-> IF s \in DOMAIN handler.copy THEN Render(handler.copy[s]) ELSE ui[s]]
    /\ handler' = Idle
    /\ UNCHANGED <<slots, seen, alarms, cell, dismissing, raw, raced, notices>>

\* A raw alarm: ignored once platform notifications were seen, or when it did not change.
AlarmMessage(t, v) ==
    /\ Receive
    /\ UNCHANGED <<slots, seen, cell, handler, dismissing, ui, raced>>
    /\ IF seen \/ alarms[t] = v THEN UNCHANGED <<alarms, raw>>
       ELSE /\ alarms' = [alarms EXCEPT ![t] = v]
            /\ raw' = [raw EXCEPT ![t] = IF v \in {1, 2} THEN Body(VoltageAlarm(t), cell)
                                         ELSE "absent"]

\* A cell reading arrives (or is withdrawn): the visible banners are emitted again.
CellMessage(known) ==
    /\ Receive
    /\ cell' = known
    /\ handler' = [at |-> "copy", copy |-> <<>>]
    /\ UNCHANGED <<slots, seen, alarms, dismissing, ui, raw, raced>>

CopySlots ==
    /\ handler.at = "copy"
    /\ handler' = [at |-> "reemit", copy |-> slots]
    /\ raced' = (raced \/ Overlaps)
    /\ UNCHANGED <<slots, seen, alarms, cell, dismissing, ui, raw, notices>>

ReemitPlatform ==
    /\ handler.at = "reemit"
    /\ ui' = [s \in Slot |-> IF ShouldShow(handler.copy[s]) THEN Render(handler.copy[s]) ELSE ui[s]]
    /\ handler' = [at |-> "alarms", copy |-> <<>>]
    /\ UNCHANGED <<slots, seen, alarms, cell, dismissing, raw, raced, notices>>

ReemitAlarms ==
    /\ handler.at = "alarms"
    /\ raw' = [t \in Topic |-> IF ~seen /\ VoltageAlarm(t) /\ alarms[t] \in {1, 2}
                               THEN Body(TRUE, cell) ELSE raw[t]]
    /\ handler' = Idle
    /\ UNCHANGED <<slots, seen, alarms, cell, dismissing, ui, raced, notices>>

\* The battery's entry expires: nothing is emitted.
CellExpires ==
    /\ cell /\ handler.at = "idle"
    /\ cell' = FALSE
    /\ UNCHANGED <<slots, seen, alarms, handler, dismissing, ui, raw, raced, notices>>
-----------------------------------------------------------------------------
(* acknowledge_victron_notification, called for a banner that is shown: the window
   removes it, the slot is suppressed, the removal is emitted and Venus is told. *)
Dismiss(s) ==
    /\ dismissing.at = "idle" /\ ui[s] # "absent"
    /\ ui' = [ui EXCEPT ![s] = "absent"]
    /\ dismissing' = [at |-> "suppress", slot |-> {s}]
    /\ raced' = (raced \/ handler.at \in {"emit", "reemit"})
    /\ UNCHANGED <<slots, seen, alarms, cell, handler, raw, notices>>

Suppress ==
    /\ dismissing.at = "suppress"
    /\ slots' = [s \in Slot |-> IF s \in dismissing.slot
                    THEN [slots[s] EXCEPT !.dismissed = TRUE, !.acknowledged = {TRUE}]
                    ELSE slots[s]]
    /\ dismissing' = [dismissing EXCEPT !.at = "clear"]
    /\ UNCHANGED <<seen, alarms, cell, handler, ui, raw, raced, notices>>

EmitClear ==
    /\ dismissing.at = "clear"
    /\ ui' = [s \in Slot |-> IF s \in dismissing.slot THEN "absent" ELSE ui[s]]
    /\ dismissing' = [dismissing EXCEPT !.at = "publish"]
    /\ UNCHANGED <<slots, seen, alarms, cell, handler, raw, raced, notices>>

\* Without a portal or a client, or when Venus ignores it, only the local state remains.
PublishAcknowledge ==
    /\ dismissing.at = "publish"
    /\ dismissing' = NoDismissal
    /\ UNCHANGED <<slots, seen, alarms, cell, handler, ui, raw, raced, notices>>

Next ==
    \/ \E s \in Slot : PlatformMessage(s) \/ Dismiss(s)
    \/ BadPlatformMessage
    \/ EmitBanner
    \/ \E t \in Topic, v \in 0..2 : AlarmMessage(t, v)
    \/ \E known \in BOOLEAN : CellMessage(known)
    \/ CopySlots \/ ReemitPlatform \/ ReemitAlarms
    \/ CellExpires
    \/ Suppress \/ EmitClear \/ PublishAcknowledge

Spec == Init /\ [][Next]_vars
-----------------------------------------------------------------------------
TypeOK ==
    /\ slots \in [Slot -> Fields]
    /\ seen \in BOOLEAN /\ cell \in BOOLEAN /\ raced \in BOOLEAN
    /\ alarms \in [Topic -> 0..2]
    /\ handler.at \in {"idle", "emit", "copy", "reemit", "alarms"}
    /\ dismissing.at \in {"idle", "suppress", "clear", "publish"}
    /\ ui \in [Slot -> {"absent", "plain", "detailed"}]
    /\ raw \in [Topic -> {"absent", "plain", "detailed"}]
    /\ notices \in 0..MaxNotices

\* Between messages the window shows exactly the slots that are to be shown, whatever the
\* order in which their fields arrived, with the cell reading while there is one; and, as
\* long as the fallback is on, exactly the raw alarms that are raised.
BannersFollowSlots ==
    TypeOK /\ (handler.at = "idle" /\ dismissing.at = "idle" =>
        /\ ~raced => \A s \in Slot :
              /\ (ui[s] = "absent") = ~ShouldShow(slots[s])
              /\ slots[s].desc = {"voltage"} /\ cell => ui[s] # "plain"
        /\ ~seen => \A t \in Topic :
              /\ (raw[t] = "absent") = (alarms[t] = 0)
              /\ VoltageAlarm(t) /\ cell => raw[t] # "plain")

\* The comment on user_dismissed: the dismissal is sticky, so that re-publishes and
\* cell-detail re-emits cannot bring the banner back. A copy taken just before the
\* dismissal (raced) does bring it back: TLC refutes this, and no run checks it.
DismissedStaysClear ==
    handler.at = "idle" /\ dismissing.at = "idle" =>
        \A s \in Slot : slots[s].dismissed => ui[s] = "absent"

\* The comment on platform_notifs_seen: once a platform notification arrived, raw alarm
\* banners are suppressed to avoid duplicates. One that was raised before stays, as its
\* clearing is suppressed too: TLC refutes this, and no run checks it.
RawAlarmsSuppressed == seen => \A t \in Topic : raw[t] = "absent"
=============================================================================
