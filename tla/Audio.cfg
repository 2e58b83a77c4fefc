\* A guest need not use its sound device, and a failed write can leave PulseAudio's
\* main loop locked for good.
SPECIFICATION FairSpec
CONSTANTS
    Functions = {"Output"}
    N = 2
    Slots = {1, 2}
    Frames = 2
    Requests = {1, 2}
    Ioc = {0}
    Settings = {{"faults", "holes", "resets"}, {"interrupts"}, {}}
    Room = 3
    buffer_size = 2
    Word = 16
    ServerFaults = TRUE
INVARIANTS BuffersInOrder IrqNotLost
PROPERTIES WaitsEnd
CHECK_DEADLOCK FALSE
