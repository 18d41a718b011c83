\* In turn: seven installations with three samples, four notices, one request with three changes of others,
\* the gateway's answers; one configured and two discovered entities, two changes, two sessions; three identities
\* of notices against a memory of two and a rate of one, a camera and a title, a long and a short cooldown.
SPECIFICATION Spec
CONSTANTS
    Installations <- Homes
    Instances <- Ids
    Sample = {0, 2}
    DaemonValue = 9
    HighPower = 1
    LowWater = 1
    Preferred <- Chosen
    MaxSamples = 3
    Slot = {0, 1}
    Topic = {2, 3}
    VoltageTopics = {2}
    MaxNotices = 4
    Request = {1}
    Other = 9
    MaxChanges = 3
    Polled <- Answers
    Configured <- NoneConfigured
    Explicit = {1}
    Found = {2, 3}
    Capacity = 1
    MaxBuffer = 1
    PageSize = 2
    HomeChanges = 2
    MaxSessions = 2
    Id = {a, b, c}
    Clip = {a}
    Camera = {front, title}
    Title = {title}
    QueueCapacity = 1
    VideoCapacity = 1
    SeenCapacity = 2
    PerMinute = 1
    GlobalPerMinute = 1
    Minute = 1
    DedupTTL = 2
    DeliveryTTL = 1
    PreviewTTL = 1
    VideoCooldown = 3
    MappedCooldown = 1
INVARIANTS ControlsAreLive BannersFollowSlots CommandsAreTrue ShownIsCurrent ChoicesAreWhole NoRepeats
PROPERTIES ReadingsAreOwn
CHECK_DEADLOCK FALSE
