---------------------------- MODULE WorkerNotices ----------------------------
(***************************************************************************)
(* What a worker may put in front of the user (src-tauri/src/plugins/      *)
(* runtime.rs): notifications and media requests are admitted under rates, *)
(* queues and memories of recent identities, and handed out later under a  *)
(* second look at the worker that sent them.                               *)
(*                                                                         *)
(* Instants are ages in ticks, no older than anything looks at. The host's *)
(* lifecycle is WorkerHost's; here a generation starts, stops or restarts. *)
(***************************************************************************)
EXTENDS Naturals, Sequences, FiniteSets

CONSTANTS
    Id,             \* identities of notifications
    Clip,           \* those that name a clip or a preview too
    Camera,         \* what a cooldown is kept for: cameras, and titles of clips that name none
    Title,          \* the titles among them
    QueueCapacity, VideoCapacity, SeenCapacity,
    PerMinute, GlobalPerMinute,
    Minute, DedupTTL, DeliveryTTL, PreviewTTL,  \* in ticks
    VideoCooldown,  \* of the http_video grant: 20 to 300 seconds, as its manifest says
    MappedCooldown  \* of the grant for a mapped camera's preview: 15 seconds

\* What the limits of an instance are (the module that makes one assumes them).
NoticeLimits ==
    /\ {SeenCapacity, PerMinute, DeliveryTTL, PreviewTTL, VideoCooldown, MappedCooldown} \subseteq Nat
    /\ {Minute, DedupTTL} \subseteq Nat \ {0} /\ Clip \subseteq Id
\* 512 identities are kept: 30 of a minute, in the 11 minutes that ten minutes can touch.
SeenHolds == SeenCapacity >= PerMinute * (((DedupTTL + Minute - 2) \div Minute) + 1)

VARIABLES
    running,    \* "starting", "running", "stopping"
    lease,      \* the generation's lease is active
    gen,        \* which of two successive generations runs
    notes,      \* notifications: pending, seen, rate
    videos,     \* media: pending, seen, cooldowns, rate
    global,     \* the rate all workers share
    wake,       \* the forwarding: permit of changes, signal, the dispatcher's run
    since,      \* ghost: ages of the last admissions (n, v, c), and the cameras swept since (swept)
    repeated    \* ghost: one was admitted again too early

vars == <<running, lease, gen, notes, videos, global, wake, since, repeated>>
-----------------------------------------------------------------------------
\* A clip or snapshot (HttpVideo), a preview in the scope of the same grant (HttpLive), and one
\* of a camera the configuration maps (LiveView, MqttLive); a manifest may hold both grants.
Kind == {"clip", "live", "mapped"}
Cooldown(kind) == IF kind = "mapped" THEN MappedCooldown ELSE VideoCooldown
Longest == IF VideoCooldown >= MappedCooldown THEN VideoCooldown ELSE MappedCooldown

Fresh == [age |-> 0, count |-> 0]
Init ==
    /\ running = "starting" /\ lease = TRUE /\ gen = 0
    /\ notes = [pending |-> <<>>, seen |-> <<>>, rate |-> Fresh]
    /\ videos = [pending |-> <<>>, seen |-> <<>>, cooldowns |-> <<>>, rate |-> Fresh]
    /\ global = Fresh
    /\ wake = [changed |-> FALSE, signal |-> FALSE, left |-> 0]
    /\ since = [n |-> [i \in Id |-> DedupTTL], v |-> [i \in Clip |-> DedupTTL],
                c |-> [c \in Camera |-> Longest], swept |-> {}]
    /\ repeated = FALSE

\* VecDeque::retain: what is at these positions, in its order.
Retain(s, kept) ==
    [k \in 1 .. Cardinality(kept) |-> s[CHOOSE j \in kept : Cardinality({i \in kept : i <= j}) = k]]
Younger(s, ttl) == Retain(s, {k \in DOMAIN s : s[k].age < ttl})
Holds(s, key) == \E k \in DOMAIN s : s[k].key = key
\* NotificationRate::refresh: a window is renewed when it is next looked at.
Refresh(rate) == IF rate.age >= Minute THEN Fresh ELSE rate
Counted(rate) == [rate EXCEPT !.count = @ + 1]
Deadline(v) == IF v.preview THEN PreviewTTL ELSE DeliveryTTL

(* queue_notification: forgets what expired, then admits or refuses. *)
Swept == [pending |-> Younger(notes.pending, DeliveryTTL), seen |-> Younger(notes.seen, DedupTTL),
          rate |-> Refresh(notes.rate)]
NoteFits(i) ==
    /\ ~Holds(Swept.seen, i)
    /\ Len(Swept.pending) < QueueCapacity
    /\ Swept.rate.count < PerMinute
NoteAdmitted(i) == running = "running" /\ NoteFits(i) /\ Refresh(global).count < GlobalPerMinute
Evicted(seen) == IF Len(seen) >= SeenCapacity THEN Tail(seen) ELSE seen
QueueNotification(i) ==
    /\ global' = IF running # "running" \/ ~NoteFits(i) THEN global
                 ELSE IF NoteAdmitted(i) THEN Counted(Refresh(global)) ELSE Refresh(global)
    /\ notes' = IF running # "running" THEN notes
                ELSE IF ~NoteAdmitted(i) THEN Swept
                ELSE [pending |-> Append(Swept.pending, [key |-> i, gen |-> gen, age |-> 0]),
                      seen |-> Append(Evicted(Swept.seen), [key |-> i, age |-> 0]),
                      rate |-> Counted(Swept.rate)]

(* queue_http_video: a full memory refuses, and so does a camera in its cooldown or pending.
   The cooldown is the grant's of this request, for whatever the memory holds. *)
\* Mutant: the cooldowns are swept with the time of the identities.
SweptVideosTogether(kind) ==
    [pending |-> Retain(videos.pending,
                        {k \in DOMAIN videos.pending : videos.pending[k].age < Deadline(videos.pending[k])}),
     seen |-> Younger(videos.seen, DedupTTL), cooldowns |-> Younger(videos.cooldowns, DedupTTL),
     rate |-> Refresh(videos.rate)]
SweptVideos(kind) ==
    [pending |-> Retain(videos.pending,
                        {k \in DOMAIN videos.pending : videos.pending[k].age < Deadline(videos.pending[k])}),
     seen |-> Younger(videos.seen, DedupTTL), cooldowns |-> Younger(videos.cooldowns, Cooldown(kind)),
     rate |-> Refresh(videos.rate)]
VideoFits(i, c, kind) ==
    LET swept == SweptVideos(kind) IN
    /\ Len(swept.pending) < VideoCapacity /\ Len(swept.seen) < SeenCapacity
    /\ ~Holds(swept.seen, i) /\ ~Holds(swept.cooldowns, c)
    /\ c \in Title \/ \A k \in DOMAIN swept.pending : swept.pending[k].camera # c
    /\ swept.rate.count < PerMinute
MayQueueVideo == running = "running" /\ lease
VideoAdmitted(i, c, kind) == MayQueueVideo /\ VideoFits(i, c, kind)
QueueHttpVideo(i, c, kind) ==
    LET swept == SweptVideos(kind) IN
    videos' = IF ~MayQueueVideo THEN videos
              ELSE IF ~VideoFits(i, c, kind) THEN swept
              ELSE [pending |-> Append(swept.pending, [key |-> i, camera |-> c, gen |-> gen,
                                                       preview |-> kind # "clip", age |-> 0]),
                    seen |-> Append(swept.seen, [key |-> i, age |-> 0]),
                    cooldowns |-> Append(swept.cooldowns, [key |-> c, age |-> 0]),
                    rate |-> Counted(swept.rate)]

\* The ghosts: what was admitted, and whether it was too early.
Remember(note, i) ==
    /\ since' = IF note THEN [since EXCEPT !.n[i] = 0] ELSE since
    /\ repeated' = (repeated \/ (note /\ since.n[i] < DedupTTL))
\* The cameras admitted so long ago that a request like this one sweeps them out of the memory.
Outlived(kind) == since.swept \cup {x \in Camera : since.c[x] >= Cooldown(kind)}
RememberVideo(note, video, i, c, kind) ==
    /\ since' = [n |-> IF note THEN [since.n EXCEPT ![i] = 0] ELSE since.n,
                 v |-> IF video THEN [since.v EXCEPT ![i] = 0] ELSE since.v,
                 c |-> IF video THEN [since.c EXCEPT ![c] = 0] ELSE since.c,
                 swept |-> IF video THEN Outlived(kind) \ {c}
                           ELSE IF MayQueueVideo THEN Outlived(kind) ELSE since.swept]
    /\ repeated' = \/ repeated
                   \/ note /\ since.n[i] < DedupTTL
                   \/ video /\ (since.v[i] < DedupTTL \/ c \notin Outlived(kind))
-----------------------------------------------------------------------------
(* handle_frame, in a current epoch. *)
Changed(really) == wake' = [wake EXCEPT !.changed = @ \/ really]
Notification(i) ==
    /\ QueueNotification(i) /\ Changed(NoteAdmitted(i))
    /\ Remember(NoteAdmitted(i), i)
    /\ UNCHANGED <<running, lease, gen, videos>>

\* handle_frame queues under the grant of the message. An admitted clip is announced too, a
\* preview announces itself; only a clip may leave its camera unnamed.
Media(i, c, kind) ==
    LET announce == kind = "clip" /\ VideoAdmitted(i, c, kind)
    IN  /\ kind = "clip" \/ c \notin Title
        /\ QueueHttpVideo(i, c, kind) /\ Changed(VideoAdmitted(i, c, kind))
        /\ IF announce THEN QueueNotification(i) ELSE UNCHANGED <<notes, global>>
        /\ RememberVideo(announce /\ NoteAdmitted(i), VideoAdmitted(i, c, kind), i, c, kind)
        /\ UNCHANGED <<running, lease, gen>>

\* Another worker under the same global rate.
OthersNotify ==
    /\ Refresh(global).count < GlobalPerMinute
    /\ global' = Counted(Refresh(global))
    /\ UNCHANGED <<running, lease, gen, notes, videos, wake, since, repeated>>

\* revoke_generation, on a failure (an unauthorized message too), a stop or a closed session.
Revoke ==
    /\ lease /\ lease' = FALSE
    /\ videos' = [videos EXCEPT !.pending = <<>>]
    /\ UNCHANGED <<running, gen, notes, global, wake, since, repeated>>

\* update: a worker that does not run has nothing pending; its memory and rates stay.
Update(state) ==
    /\ running' = state
    /\ notes' = IF state = "running" THEN notes ELSE [notes EXCEPT !.pending = <<>>]
End ==
    /\ ~lease /\ running # "stopping"
    /\ Update("stopping") /\ Changed(TRUE)
    /\ UNCHANGED <<lease, gen, videos, global, since, repeated>>
Restart ==
    /\ ~lease /\ running = "stopping"
    /\ Update("starting") /\ Changed(TRUE) /\ gen' = 1 - gen /\ lease' = TRUE
    /\ UNCHANGED <<videos, global, since, repeated>>
Ready ==
    /\ running = "starting" /\ lease
    /\ Update("running") /\ Changed(TRUE)
    /\ UNCHANGED <<lease, gen, videos, global, since, repeated>>

\* take_http_video_requests: those still current go to the media service, the others are dropped.
TakeVideos == videos' = [videos EXCEPT !.pending = <<>>]
HasPendingNotifications == notes.pending # <<>>

\* Mutant: a permit that found media is taken not to be about notifications.
ForwardMediaFirst ==
    /\ wake.changed
    /\ TakeVideos
    /\ wake' = [wake EXCEPT !.changed = FALSE, !.signal = @ \/ (HasPendingNotifications /\ videos.pending = <<>>)]
    /\ UNCHANGED <<running, lease, gen, notes, global, since, repeated>>

(* forward_changes: one permit for any number of changes; the dispatcher gets at most one
   signal ahead of its run. *)
Forward ==
    /\ wake.changed
    /\ TakeVideos
    /\ wake' = [wake EXCEPT !.changed = FALSE, !.signal = @ \/ HasPendingNotifications]
    /\ UNCHANGED <<running, lease, gen, notes, global, since, repeated>>

\* forward_notifications: at most a queue's length of them.
BeginDispatch ==
    /\ wake.signal /\ wake.left = 0
    /\ wake' = [wake EXCEPT !.signal = FALSE, !.left = IF notes.pending = <<>> THEN 0 ELSE QueueCapacity]
    /\ UNCHANGED <<running, lease, gen, notes, videos, global, since, repeated>>

\* dispatch_notifications: one at a time, yielding to pending media; one is shown or, when
\* the second look finds it stale, dropped.
Dispatch ==
    /\ wake.left > 0
    /\ IF videos.pending # <<>> \/ notes.pending = <<>>
       THEN wake' = [wake EXCEPT !.left = 0] /\ UNCHANGED notes
       ELSE /\ wake' = [wake EXCEPT !.left = @ - 1]
            /\ notes' = [notes EXCEPT !.pending = Tail(@)]
    /\ UNCHANGED <<running, lease, gen, videos, global, since, repeated>>

Older(s, limit) == [k \in DOMAIN s |-> [s[k] EXCEPT !.age = IF @ < limit THEN @ + 1 ELSE @]]
OlderRate(rate) == [rate EXCEPT !.age = IF @ < Minute THEN @ + 1 ELSE @]
OlderAll(f, limit) == [i \in DOMAIN f |-> IF f[i] < limit THEN f[i] + 1 ELSE f[i]]
Tick ==
    /\ notes' = [pending |-> Older(notes.pending, DeliveryTTL), seen |-> Older(notes.seen, DedupTTL),
                 rate |-> OlderRate(notes.rate)]
    /\ videos' = [pending |-> Older(videos.pending, DeliveryTTL), seen |-> Older(videos.seen, DedupTTL),
                  cooldowns |-> Older(videos.cooldowns, Longest), rate |-> OlderRate(videos.rate)]
    /\ global' = OlderRate(global)
    /\ since' = [since EXCEPT !.n = OlderAll(@, DedupTTL), !.v = OlderAll(@, DedupTTL), !.c = OlderAll(@, Longest)]
    /\ UNCHANGED <<running, lease, gen, wake, repeated>>

HostStep == Revoke \/ End \/ Restart \/ Ready \/ Forward \/ BeginDispatch \/ Dispatch \/ OthersNotify
Next ==
    \/ HostStep \/ Tick
    \/ \E i \in Id : Notification(i)
    \/ \E i \in Clip, c \in Camera, kind \in Kind : Media(i, c, kind)

Spec == Init /\ [][Next]_vars
\* The two forwarding tasks are scheduled.
Fairness == WF_vars(Forward) /\ WF_vars(BeginDispatch \/ Dispatch)
FairSpec == Spec /\ Fairness
-----------------------------------------------------------------------------
\* What is pending was sent by the generation that runs: nothing of a worker that died is
\* shown as if its successor had sent it.
PendingIsCurrent ==
    /\ \A k \in DOMAIN notes.pending : notes.pending[k].gen = gen /\ running = "running"
    /\ \A k \in DOMAIN videos.pending : videos.pending[k].gen = gen /\ lease

\* No notification, clip or preview is admitted twice within its deduplication time, whatever
\* restarts lie between: the bounded memory never forgets an identity while its time runs,
\* since the rate bounds what it must hold. Nor is a camera within its request's cooldown,
\* unless a request with a shorter one swept it out of the memory meanwhile: never within the
\* shorter one. And what is admitted is pending only while the worker that sent it runs.
NoRepeats == ~repeated /\ PendingIsCurrent

\* A queued notification is shown or dropped as soon as no media comes between: neither
\* the coalesced wake-ups nor the yielding to media leaves one behind.
NoticesDrain ==
    <>[](videos.pending = <<>>) =>
        \A i \in Id : Holds(notes.pending, i) ~> ~Holds(notes.pending, i)
=============================================================================
