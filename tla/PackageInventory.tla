-------------------------- MODULE PackageInventory --------------------------
(***************************************************************************)
(* What the package store promises of its inventory: a record per plugin   *)
(* that changes atomically, one plugin at a time.  The operation that made *)
(* a change may take it back; once it is kept, it stays until another      *)
(* operation replaces it.                                                  *)
(***************************************************************************)
EXTENDS FiniteSets, Naturals

CONSTANTS Plugin, Version, NoVersion, NoRecord, MaxPlugins

VARIABLES
    inv,   \* the record of each plugin
    undo   \* the inventory before a change that is not decided yet, if any

Init == inv = [p \in Plugin |-> NoRecord] /\ undo = {}

Rec(active, rollback, enabled) ==
    [active |-> active, rollback |-> rollback, enabled |-> enabled]

\* First installation: nothing to roll back to.
FirstRecord(p) ==
    {r \in {Rec(v, NoVersion, b) : v \in Version, b \in BOOLEAN} :
        Cardinality({q \in Plugin : inv[q] # NoRecord}) < MaxPlugins}

\* Enabled, disabled or installed again; updated, which retains the replaced
\* version; rolled back, which exchanges the two; removed.
NextRecord(r) ==
    {Rec(r.active, r.rollback, b) : b \in BOOLEAN}
    \cup {Rec(v, r.active, b) : v \in Version \ {r.active}, b \in BOOLEAN}
    \cup {Rec(v, r.active, r.enabled) : v \in {r.rollback} \ {NoVersion}}
    \cup {NoRecord}

Change(p) ==
    /\ undo = {}
    /\ \E r \in IF inv[p] = NoRecord THEN FirstRecord(p) ELSE NextRecord(inv[p]) :
          inv' = [inv EXCEPT ![p] = r]
    /\ undo' = {inv}

Keep == undo # {} /\ undo' = {} /\ UNCHANGED inv

Undo == undo # {} /\ undo' = {} /\ inv' \in undo

Next == (\E p \in Plugin : Change(p)) \/ Keep \/ Undo

Spec == Init /\ [][Next]_<<inv, undo>>
=============================================================================
