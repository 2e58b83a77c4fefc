\* The console's threads may have ended.
SPECIFICATION Spec
CONSTANTS
    Frames = 4
    Big = {1, 3}
    Capacities = {1, 2}
    MaxChains = 2
    TapFaults = TRUE
    MaxBuffers = 1
    MaxKeys = 5
    BufLen = 2
    MaxOut = 0
    FIFO_LEN = 2
    Bytes = {1, 2}
    MaxSent = 4
INVARIANTS FramesInOrder ConsoleExact
PROPERTIES FramesMove ConsoleServed
CHECK_DEADLOCK FALSE
