\* A login that overlaps a change of the declarations in the running epoch.
SPECIFICATION Spec
CONSTANTS
    t1 = t1 t2 = t2 w = w a = a b = b d1 = d1 d2 = d2
    Nobody = Nobody Off = Off Unreadable = Unreadable
    Thread = {t1, t2, w}
    Watcher = w
    Policy = {a}
    Declaration = {d1, d2}
    MaxOps = 3
INVARIANTS NoPreviousDeclarations
CHECK_DEADLOCK FALSE
