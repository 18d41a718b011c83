---------------------------- MODULE MCActionPath ----------------------------
(***************************************************************************)
(* Both halves of an action request: the host's way to a worker            *)
(* (ActionPath), and what the Home Assistant worker does with it           *)
(* (HomeAssistantActions). A pipe is all they share: each behaviour runs   *)
(* one of them, the other rests.                                           *)
(***************************************************************************)
EXTENDS ActionPath

CONSTANTS r1, r2, HomeRequest, Settings, MaxActive, MaxEpoch, MaxSeen

VARIABLES focus,
          controls, net, link, lock, number, offered, dirty, granted, shown, seen, req, wire, wrote, fresh

homeVars == <<controls, net, link, lock, number, offered, dirty, granted, shown, seen, req, wire, wrote, fresh>>
Home == INSTANCE HomeAssistantActions WITH Request <- HomeRequest
EachControl == {{"lock"}, {"toggle"}, {"number"}}

BothInit ==
    /\ focus \in {"host", "home"}
    /\ Init /\ Home!Init
    /\ focus = "host" => controls = {"lock"}
BothNext ==
    /\ UNCHANGED focus
    /\ \/ focus = "host" /\ Next /\ UNCHANGED homeVars
       \/ focus = "home" /\ Home!Next /\ UNCHANGED vars

BothSpec ==
    /\ BothInit /\ [][BothNext]_<<focus, vars, homeVars>>
    /\ Fairness /\ Home!Fairness     \* of the one that rests nothing is ever enabled
-----------------------------------------------------------------------------
\* Every request taken from the host is answered.
RequestsAnswered == Home!RequestsAnswered
=============================================================================
