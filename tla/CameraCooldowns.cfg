\* Two cameras, one of them mapped with the shorter cooldown; three identities, a rate of one a tick.
SPECIFICATION CooldownSpec
CONSTANTS
    Id = {a, b, c}
    Clip = {a, b, c}
    Camera = {front, rear}
    Title = {}
    Mapped = {rear}
    QueueCapacity = 1
    VideoCapacity = 1
    SeenCapacity = 3
    PerMinute = 1
    GlobalPerMinute = 1
    Minute = 1
    DedupTTL = 3
    DeliveryTTL = 1
    PreviewTTL = 1
    VideoCooldown = 3
    MappedCooldown = 1
INVARIANTS CamerasAreIndependent
CHECK_DEADLOCK FALSE
