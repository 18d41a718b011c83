-------------------------- MODULE HomeAssistantBook --------------------------
(***************************************************************************)
(* What the Home Assistant worker shows of Home Assistant                  *)
(* (desktop-plugins/home-assistant: state.rs, discovery.rs, the session of *)
(* network.rs) and the list of entities it offers to the settings editor   *)
(* (settings_choices.rs of the host).                                      *)
(*                                                                         *)
(* A session subscribes to changes, then reads every configured entity and *)
(* once all states for discovery. Events arrive in order; a read is        *)
(* answered with the state of some moment and arrives at any later one.    *)
(* Entities are numbers, in the lexical order discovery uses.              *)
(***************************************************************************)
EXTENDS Naturals, FiniteSets, Sequences, SequencesExt

CONSTANTS Explicit,      \* configured entities; the first of them is a lock
          Found,         \* entities the discovery prefixes match
          Capacity,      \* rows left for discovery
          MaxBuffer,     \* changes kept until the bulk read arrives
          PageSize, MaxChanges, MaxSessions

Entity == Explicit \cup Found
Absent == "absent"
Bad == "bad"             \* a state that is not what the API documents
Held == "off"            \* the target of the lock command
Lock == CHOOSE e \in Explicit : \A o \in Explicit : e <= o

VARIABLES
    remote,    \* the states of Home Assistant
    session,   \* "down", "auth", "subscribed" or "up"
    feed,      \* events on their way
    read,      \* each initial read: "none", "sent", "done", or the state it is answered with
    bulk,      \* the read of all states: [at, states]
    row,       \* each configured row: [value, live]
    probe,     \* a lock command's fresh read: [at, same, value]
    found,     \* discovery: [phase, buffer, cards, limited]
    catalog,   \* pages not yet published
    lists,     \* the lists of options of this process, by revision
    host,      \* the host's catalog: what it is given (rev, got), what it shows, and refused
    changes, sessions

bookVars == <<row, probe, found>>
listVars == <<catalog, lists, host>>
vars == <<remote, session, feed, read, bulk, bookVars, listVars, changes, sessions>>

NoProbe == [at |-> "none", same |-> TRUE, value |-> Absent]
NoRead == [e \in Explicit |-> "none"]
NoBulk == [at |-> "none", states |-> << >>]
NoHostList == [rev |-> 0, got |-> << >>, shownRev |-> 0, shown |-> << >>, refused |-> FALSE]
Discovery(phase) == [phase |-> phase, buffer |-> << >>, cards |-> << >>, limited |-> FALSE]
Rows(value) == [e \in Explicit |-> [value |-> value, live |-> FALSE]]

Init ==
    /\ remote \in [Entity -> {Absent, "on"}]
    /\ session = "down" /\ feed = << >> /\ read = NoRead /\ bulk = NoBulk
    /\ row = Rows("waiting") /\ probe = NoProbe /\ found = Discovery("dormant")
    /\ catalog = << >> /\ lists = << >> /\ host = NoHostList
    /\ changes = 0 /\ sessions = 0

With(f, k, v) == [x \in DOMAIN f \cup {k} |-> IF x = k THEN v ELSE f[x]]
Without(f, k) == [x \in DOMAIN f \ {k} |-> f[x]]
-----------------------------------------------------------------------------
(* Home Assistant: a state changes; who is subscribed is told. Requests see the state of a moment. *)

Change(e, v) ==
    /\ changes < MaxChanges /\ remote[e] # v
    /\ remote' = [remote EXCEPT ![e] = v] /\ changes' = changes + 1
    /\ feed' = IF session \in {"subscribed", "up"} THEN Append(feed, [entity |-> e, state |-> v]) ELSE feed
    /\ UNCHANGED <<session, read, bulk, bookVars, listVars, sessions>>
Subscribed ==
    /\ session = "auth" /\ session' = "subscribed"
    /\ UNCHANGED <<remote, feed, read, bulk, bookVars, listVars, changes, sessions>>
AnswerRead(e) ==
    /\ read[e] = "sent" /\ read' = [read EXCEPT ![e] = remote[e]]
    /\ UNCHANGED <<remote, session, feed, bulk, bookVars, listVars, changes, sessions>>
AnswerBulk ==
    /\ bulk.at = "sent" /\ bulk' = [at |-> "answered", states |-> remote]
    /\ UNCHANGED <<remote, session, feed, read, bookVars, listVars, changes, sessions>>
AnswerProbe ==
    /\ probe.at = "sent" /\ probe' = [probe EXCEPT !.at = "answered", !.value = remote[Lock]]
    /\ UNCHANGED <<remote, session, feed, read, bulk, row, found, listVars, changes, sessions>>
-----------------------------------------------------------------------------
(* The session (network.rs). *)

\* begin_session.
BeginSession ==
    /\ session = "down" /\ sessions < MaxSessions
    /\ session' = "auth" /\ sessions' = sessions + 1
    /\ row' = Rows("waiting") /\ found' = Discovery("bootstrap") /\ catalog' = << >>
    /\ UNCHANGED <<remote, feed, read, bulk, probe, lists, host, changes>>
\* The subscription is acknowledged: connected, and the reads begin.
Up ==
    /\ session = "subscribed" /\ session' = "up"
    /\ read' = [e \in Explicit |-> "sent"] /\ bulk' = [NoBulk EXCEPT !.at = "sent"]
    /\ UNCHANGED <<remote, feed, bookVars, listVars, changes, sessions>>
\* disconnected: nothing that was known is shown, and what is under way is dropped.
Drop ==
    /\ session' = "down" /\ feed' = << >> /\ read' = NoRead /\ bulk' = NoBulk
    /\ row' = [e \in Explicit |-> [row[e] EXCEPT !.value = "unavailable"]]
    /\ probe' = NoProbe /\ found' = Discovery("dormant") /\ catalog' = << >>
    /\ UNCHANGED <<remote, lists, host, changes, sessions>>
Disconnect == session # "down" /\ Drop
-----------------------------------------------------------------------------
(* The book (state.rs, discovery.rs). *)

\* Any other observation of the lock invalidates a command that is being read for.
Observed(value) == IF value \in {"waiting", "unavailable"} THEN Absent ELSE value
Invalidated(e, v) == probe.same /\ ~(e = Lock /\ Observed(row[e].value) # v)

\* Book::update of a configured entity: a late initial read never undoes an event.
\* Mutant: what arrives last is shown.
UpdateAlways(e, v, live) ==
    /\ row' = [row EXCEPT ![e] = [value |-> v, live |-> @.live \/ live]]
    /\ probe' = [probe EXCEPT !.same = Invalidated(e, v)]
Update(e, v, live) ==
    IF ~live /\ row[e].live THEN UNCHANGED <<row, probe>>
    ELSE /\ row' = [row EXCEPT ![e] = [value |-> v, live |-> @.live \/ live]]
         /\ probe' = [probe EXCEPT !.same = Invalidated(e, v)]

\* Discovery::project: a malformed state is a tombstone.
Project(v) == IF v = Bad THEN Absent ELSE v
\* Discovery::live.
DiscoverLive(d, f, v) ==
    CASE d.phase = "bootstrap" /\ f \notin DOMAIN d.buffer /\ Cardinality(DOMAIN d.buffer) >= MaxBuffer ->
            Discovery("failed")
      [] d.phase = "bootstrap" /\ (f \in DOMAIN d.buffer \/ Cardinality(DOMAIN d.buffer) < MaxBuffer) ->
            [d EXCEPT !.buffer = With(@, f, Project(v))]
      [] d.phase = "live" /\ Project(v) = Absent -> [d EXCEPT !.cards = Without(@, f)]
      [] d.phase = "live" /\ Project(v) # Absent ->
            IF f \notin DOMAIN d.cards /\ Cardinality(DOMAIN d.cards) = Capacity
            THEN [d EXCEPT !.limited = TRUE] ELSE [d EXCEPT !.cards = With(@, f, Project(v))]
      [] OTHER -> d
\* Discovery::select: events win over the older bulk read, tombstones included; the
\* lexically first rows fit.
Merged(d, states) == [f \in Found |-> IF f \in DOMAIN d.buffer THEN d.buffer[f] ELSE states[f]]
First(all) == {f \in all : Cardinality({g \in all : g < f}) < Capacity}
Select(d, states) ==
    LET m == Merged(d, states)
        all == {f \in Found : m[f] # Absent} IN
    [phase |-> "live", buffer |-> << >>, cards |-> [f \in First(all) |-> m[f]], limited |-> Cardinality(all) > Capacity]
\* Discovery::snapshot, once; a malformed row, or one that occurs twice, fails all.
DiscoverAll(d, states, twice) ==
    IF d.phase # "bootstrap" THEN d
    ELSE IF twice \/ \E f \in Found : states[f] = Bad THEN Discovery("failed")
    ELSE Select(d, states)

\* apply_event: a malformed state of a configured entity ends the session.
Deliver ==
    /\ feed # << >>
    /\ LET ev == Head(feed) IN
       IF ev.entity \in Explicit /\ ev.state = Bad THEN Drop
       ELSE /\ feed' = Tail(feed)
            /\ IF ev.entity \in Explicit THEN Update(ev.entity, ev.state, TRUE) /\ UNCHANGED found
               ELSE found' = DiscoverLive(found, ev.entity, ev.state) /\ UNCHANGED <<row, probe>>
            /\ UNCHANGED <<remote, session, read, bulk, listVars, changes, sessions>>
ReadArrives(e) ==
    /\ read[e] \notin {"none", "sent", "done"}
    /\ IF read[e] = Bad THEN Drop
       ELSE /\ Update(e, read[e], FALSE)
            /\ read' = [read EXCEPT ![e] = "done"]
            /\ UNCHANGED <<remote, session, feed, bulk, found, listVars, changes, sessions>>

\* catalog_snapshot: the pages of a new revision replace what was not yet sent.
Pages(options, revision) ==
    LET n == IF options = << >> THEN 1 ELSE (Len(options) + PageSize - 1) \div PageSize IN
    [i \in 1..n |-> [rev |-> revision, offset |-> (i - 1) * PageSize, complete |-> i = n,
                     options |-> SubSeq(options, (i - 1) * PageSize + 1, IF i = n THEN Len(options) ELSE i * PageSize)]]
\* The options are the entities that exist, in the order of a BTreeMap.
Options(states) ==
    LET exist == {e \in Entity : states[e] # Absent} IN
    CHOOSE s \in [1..Cardinality(exist) -> exist] : \A i, j \in DOMAIN s : i < j => s[i] < s[j]
\* discovery_snapshot, or discovery_failed.
BulkArrives(twice) ==
    /\ bulk.at = "answered" /\ bulk' = [NoBulk EXCEPT !.at = "done"]
    /\ LET options == Options(bulk.states) IN
       /\ lists' = Append(lists, options)
       /\ catalog' = IF twice THEN << >> ELSE Pages(options, Len(lists) + 1)
    /\ found' = DiscoverAll(found, bulk.states, twice)
    /\ UNCHANGED <<remote, session, feed, read, row, probe, host, changes, sessions>>
BulkFails ==
    /\ bulk.at \in {"sent", "answered"} /\ bulk' = [NoBulk EXCEPT !.at = "done"]
    /\ found' = IF found.phase \in {"dormant", "failed"} THEN found ELSE Discovery("failed")
    /\ UNCHANGED <<remote, session, feed, read, row, probe, listVars, changes, sessions>>

\* service(): a lock command is admitted on the row and reads the lock; when the target
\* holds already the book learns it, unless the row has changed since.
Probe ==
    /\ session = "up" /\ probe.at = "none" /\ row[Lock].value = "on"
    /\ probe' = [NoProbe EXCEPT !.at = "sent"]
    /\ UNCHANGED <<remote, session, feed, read, bulk, row, found, listVars, changes, sessions>>
ProbeArrives ==
    /\ probe.at = "answered"
    /\ IF probe.same /\ probe.value = Held
       THEN row' = [row EXCEPT ![Lock] = [value |-> Held, live |-> TRUE]] ELSE UNCHANGED row
    /\ probe' = NoProbe
    /\ UNCHANGED <<remote, session, feed, read, bulk, found, listVars, changes, sessions>>
-----------------------------------------------------------------------------
(* The settings choices: pages to the host (Catalog::accept). *)

Accepted(h, page) ==
    LET given == IF page.offset = 0 THEN [h EXCEPT !.rev = page.rev, !.got = << >>] ELSE h
        got == given.got \o page.options IN
    IF given.rev # page.rev \/ Len(given.got) # page.offset \/ ~IsInjective(got)
    THEN [h EXCEPT !.refused = TRUE]
    ELSE IF page.complete
    THEN [given EXCEPT !.rev = 0, !.got = << >>, !.shownRev = page.rev, !.shown = got]
    ELSE [given EXCEPT !.got = got]
PublishPage ==
    /\ catalog # << >>
    /\ host' = Accepted(host, Head(catalog)) /\ catalog' = Tail(catalog)
    /\ UNCHANGED <<remote, session, feed, read, bulk, bookVars, lists, changes, sessions>>
\* Another process of the worker: the host starts an empty catalog for each run.
RestartedHostKept == host
RestartedHost == NoHostList
RestartWorker ==
    /\ session' = "down" /\ feed' = << >> /\ read' = NoRead /\ bulk' = NoBulk
    /\ row' = Rows("waiting") /\ probe' = NoProbe /\ found' = Discovery("dormant")
    /\ catalog' = << >> /\ lists' = << >> /\ host' = RestartedHost
    /\ UNCHANGED <<remote, changes, sessions>>
-----------------------------------------------------------------------------
Next ==
    \/ \E e \in Entity, v \in {Absent, Bad, "on", Held} : Change(e, v)
    \/ Subscribed \/ AnswerBulk \/ AnswerProbe \/ BeginSession \/ Up \/ Disconnect \/ Deliver
    \/ \E e \in Explicit : AnswerRead(e) \/ ReadArrives(e)
    \/ \E twice \in BOOLEAN : BulkArrives(twice)
    \/ BulkFails \/ Probe \/ ProbeArrives \/ PublishPage \/ RestartWorker

Spec == Init /\ [][Next]_vars
-----------------------------------------------------------------------------
\* Once every event is applied, each row that shows a state shows the current one, whatever
\* the order in which events, initial reads, the bulk read and a command's own read arrived;
\* no removed entity is brought back by an older answer, and only the limit hides one.
ShownIsCurrent ==
    session = "up" /\ feed = << >> =>
        /\ \A e \in Explicit : row[e].live \/ read[e] = "done" => row[e].value = remote[e]
        /\ found.phase = "live" =>
              \A f \in Found :
                 IF f \in DOMAIN found.cards THEN found.cards[f] = remote[f]
                 ELSE Project(remote[f]) = Absent \/ found.limited

\* The host offers a list only whole and as the running worker made it, through reconnections
\* in the middle of its pages; and no page it is sent costs the worker its session.
ChoicesAreWhole ==
    /\ ~host.refused
    /\ host.shownRev # 0 => host.shownRev <= Len(lists) /\ host.shown = lists[host.shownRev]
=============================================================================
