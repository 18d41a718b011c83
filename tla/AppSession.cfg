\* Two command threads and the watcher, two policies with authentication, three overlapping commands, fair threads.
SPECIFICATION FairSpec
CONSTANTS
    t1 = t1 t2 = t2 w = w a = a b = b d1 = d1 d2 = d2
    Nobody = Nobody Off = Off Unreadable = Unreadable
    Thread = {t1, t2, w}
    Watcher = w
    Policy = {a, b}
    Declaration = {d1}
    MaxOps = 3
INVARIANTS AuthorityFollowsSession
PROPERTIES LockedWorkEnds
CHECK_DEADLOCK FALSE
