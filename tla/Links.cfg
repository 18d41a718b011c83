\* In turn: a burst of three messages with the window shown again twice; both transports, one or none,
\* every call may fail, a slow broker, one save; one request, two processes, two number inputs;
\* one request to the Home Assistant worker on each control, a reconnection, three observations.
SPECIFICATION LinksSpec
CONSTANTS
    MaxMessages = 3
    MaxShows = 2
    MaxKeepers = 2
    Configs <- Saved
    Failing = {"config", "mqtt", "igw"}
    PromptBroker = FALSE
    MaxToken = 9
    MaxSaves = 1
    MaxWakes = 0
    MaxChanges = 1
    MaxEvents = 1
    Request = {r1}
    Control = Control NoAction = NoAction Static = Static
    MaxInFlight = 1
    ControlCap = 2
    PipeCap = 2
    MaxRestarts = 1
    MaxLeases = 2
    MaxDue = 2
    HomeRequest = {r1}
    Settings <- EachControl
    MaxActive = 1
    MaxEpoch = 5
    MaxSeen = 3
INVARIANTS StreamIsTrue OneTransport PipesAreClean AnswersAreTrue
PROPERTIES ConnectedIsLive FirstByteAuthorized WritesAreCurrent RejectionIsTerminal
CHECK_DEADLOCK FALSE
