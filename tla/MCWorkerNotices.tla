--------------------------- MODULE MCWorkerNotices ---------------------------
(***************************************************************************)
(* The media cooldowns of a worker whose manifest has both grants, for     *)
(* TLC: a history variable tells whether a camera was ever admitted within *)
(* the cooldown that its own request asks for.                             *)
(***************************************************************************)
EXTENDS WorkerNotices

CONSTANT Mapped     \* cameras of the configuration's map; the others are in the scope of http_video
VARIABLE early

CooldownInit == Init /\ early = FALSE
CooldownNext ==
    \/ (HostStep \/ Tick \/ \E i \in Id : Notification(i)) /\ UNCHANGED early
    \/ \E i \in Clip, c \in Camera, kind \in Kind :
          /\ (kind = "mapped") = (c \in Mapped)
          /\ Media(i, c, kind)
          /\ early' = (early \/ (VideoAdmitted(i, c, kind) /\ since.c[c] < Cooldown(kind)))
CooldownSpec == CooldownInit /\ [][CooldownNext]_<<vars, early>>
-----------------------------------------------------------------------------
\* docs/plugin-worker-protocol.md: a camera has a cooldown, and different cameras remain
\* independent. So none is admitted again within the cooldown of the request, whatever the
\* worker sent of other cameras meanwhile.
CamerasAreIndependent == ~early
=============================================================================
