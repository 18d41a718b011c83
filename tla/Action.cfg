\* Two requests competing for one place in the table and in each queue, one deadline each, fair;
\* one request to the Home Assistant worker on each control, a reconnection, three observations.
SPECIFICATION BothSpec
CONSTANTS
    r1 = r1 r2 = r2
    Control = Control NoAction = NoAction Static = Static
    Request = {r1, r2}
    MaxInFlight = 1
    ControlCap = 1
    PipeCap = 1
    MaxRestarts = 0
    MaxLeases = 0
    MaxDue = 1
    HomeRequest = {r1}
    Settings <- EachControl
    MaxActive = 1
    MaxEpoch = 5
    MaxSeen = 3
PROPERTIES RequestsLeave RequestsAnswered
CHECK_DEADLOCK FALSE
