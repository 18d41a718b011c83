\* The window is shown again while messages arrive.
SPECIFICATION Spec
CONSTANTS
    MaxMessages = 2
    MaxShows = 1
    MaxKeepers = 1
INVARIANTS NewestIsShown
CHECK_DEADLOCK FALSE
