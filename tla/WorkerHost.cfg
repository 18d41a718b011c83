\* One plugin registered twice, one caller, a revocation between, fair tasks.
SPECIFICATION FairSpec
CONSTANTS
    p1 = p1 p2 = p2 e1 = e1 e2 = e2 c1 = c1 c2 = c2
    NoPlugin = NoPlugin NoEntry = NoEntry
    Plugin = {p1}
    Entry = {e1, e2}
    Caller = {c1}
    Configured = {p1}
    MaxWorkers = 1
    MaxRestarts = 1
    MaxEpoch = 1
INVARIANTS OneProcessPerPlugin AuthorityIsCurrent EndingsAreFinal
PROPERTIES KeepsContract CallersReturn StartupResolves
CHECK_DEADLOCK FALSE
