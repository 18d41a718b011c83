\* In turn: both transports, no command fails, reachability changes twice, one wake-up; a client with two
\* messages and a window that is shown again; two identities of notices and one camera against queues of one; two
\* items of media against one place in every queue, one attempt, one fault.
SPECIFICATION RestSpec
CONSTANTS
    Configs <- Dual
    Failing = {}
    PromptBroker = TRUE
    MaxToken = 10
    MaxSaves = 0
    MaxWakes = 1
    MaxChanges = 2
    MaxEvents = 2
    MaxMessages = 2
    MaxShows = 1
    MaxKeepers = 1
    Id = {a, b}
    Clip = {a}
    Camera = {k}
    Title = {}
    QueueCapacity = 1
    VideoCapacity = 1
    SeenCapacity = 2
    PerMinute = 1
    GlobalPerMinute = 1
    Minute = 1
    DedupTTL = 2
    DeliveryTTL = 1
    PreviewTTL = 1
    VideoCooldown = 1
    MappedCooldown = 1
    Item = {1, 2}
    MaxQueued = 1
    MaxWindows = 1
    MaxTransfers = 1
    MaxReads = 1
    EventCapacity = 1
    MaxMediaBytes = 3
    ByteLimit <- Bytes
    MaxAttempts = 1
    MaxFaults = 1
PROPERTIES ConnectionSettles StoppedTasksEnd NoticesDrain RevokedWindowsClose
CHECK_DEADLOCK FALSE
