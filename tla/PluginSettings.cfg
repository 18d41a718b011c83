\* The settings of the host's own window in a backup, seeded into a plugin that is installed again.
SPECIFICATION Spec
CONSTANTS
    Version = {1, 2}
    Public <- Fields
    Secret <- Secrets
    Required <- Needed
    Video = {1}
    LayoutFields = {"watch"}
    Binding = {"url"}
    Account = {"user"}
    Reads = {"watch"}
    LegacyValues <- OldValues
    LegacySecrets <- OldSecrets
    Joined <- JoinedLists
    Full <- NoRoom
    Earlier <- Left
    Val = {"empty", "y"}
    MaxWrites = 3
    MaxPending = 1
INVARIANTS BackupSeedsAgain
CHECK_DEADLOCK FALSE
