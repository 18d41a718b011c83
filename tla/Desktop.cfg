\* Four parts in turn: two settings schemas, four records of an earlier version and two writes; one
\* plugin, two releases; two passwords and hosts, four keys, three commits; two media items against
\* one place in every queue, two faults.
SPECIFICATION DesktopSpec
CONSTANTS
    Version = {1, 2}
    Public <- Fields
    Secret <- Secrets
    Required <- Needed
    Video = {}
    LayoutFields = {"watch"}
    Binding = {"url"}
    Account = {"user"}
    Reads = {"watch"}
    LegacyValues <- OldValues
    LegacySecrets <- OldSecrets
    Joined <- JoinedLists
    Full <- NoRoom
    Earlier <- Left
    Val = {"empty", "y"}
    MaxWrites = 3
    MaxPending = 1
    Plugin = {p}
    Offered = {1, 2}
    Group = {p}
    Password = {"p1", "p2"}
    Host = {"h1", "h2"}
    MaxKeys = 4
    MaxCommits = 3
    Item = {1, 2}
    Camera = {k}
    MaxQueued = 1
    MaxWindows = 1
    MaxTransfers = 1
    MaxReads = 1
    EventCapacity = 1
    MaxMediaBytes = 3
    ByteLimit <- Bytes
    MaxAttempts = 1
    MaxFaults = 2
INVARIANTS NothingLeftBehind LastSaveStands ListIsTrue KeyOpensData SecretsStand
PROPERTIES NoLostUpdate OnceSecretNeverPublic IntentWins
CHECK_DEADLOCK FALSE
