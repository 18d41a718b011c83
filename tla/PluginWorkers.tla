---------------------------- MODULE PluginWorkers ----------------------------
(***************************************************************************)
(* What the worker host promises those who use it: one worker per plugin,  *)
(* seen through its status, under one authority. Whoever registers, stops  *)
(* and removes workers sees these steps and no others, whatever tasks,     *)
(* processes and restarts are behind them.                                 *)
(***************************************************************************)
EXTENDS Naturals

CONSTANT Plugin

VARIABLES
    enabled, epoch,   \* the authority
    stopped,          \* the host was shut down
    worker            \* "none", "starting", "running", "over" (reaped, or about to be), "stuck"

vars == <<enabled, epoch, stopped, worker>>

Init ==
    /\ enabled \in BOOLEAN /\ epoch \in Nat /\ stopped = FALSE
    /\ worker = [p \in Plugin |-> "none"]

Live(p) == worker[p] \in {"starting", "running"}
Becomes(p, s) == worker' = [worker EXCEPT ![p] = s]

\* A worker is launched only under the authority, and never beside one that is left.
Launch(p) ==
    /\ enabled /\ ~stopped
    /\ worker[p] \in {"none", "over"}
    /\ Becomes(p, "starting")
    /\ UNCHANGED <<enabled, epoch, stopped>>

\* Handshake, restart and end of a worker; only its end can show that it cannot be reaped.
WorkerChanges(p) ==
    \/ worker[p] = "starting" /\ Becomes(p, "running")
    \/ worker[p] = "running" /\ Becomes(p, "starting")
    \/ Live(p) /\ \E s \in {"over", "stuck"} : Becomes(p, s)
    \/ worker[p] = "over" /\ Becomes(p, "stuck")

\* Removed once it is reaped.
Remove(p) ==
    /\ worker[p] = "over" /\ Becomes(p, "none")
    /\ UNCHANGED <<enabled, epoch, stopped>>

\* A revocation ends all workers with the epoch, in one step.
RevokeEpoch ==
    /\ enabled' = FALSE /\ epoch' = epoch + 1
    /\ worker' = [p \in Plugin |-> IF Live(p) THEN "over" ELSE worker[p]]
    /\ stopped' = stopped

Resume ==
    /\ ~stopped /\ stopped' = stopped
    /\ enabled' = TRUE
    /\ UNCHANGED <<epoch, worker>>

Shutdown == stopped' = TRUE /\ UNCHANGED <<enabled, epoch, worker>>

Next ==
    \/ \E p \in Plugin :
          \/ Launch(p) \/ Remove(p)
          \/ WorkerChanges(p) /\ UNCHANGED <<enabled, epoch, stopped>>
    \/ RevokeEpoch \/ Resume \/ Shutdown

Spec == Init /\ [][Next]_vars
=============================================================================
