SPECIFICATION Spec
CONSTANTS
    Setups <- SizeSetups
    DefaultSize = 2
    MAX_QUEUE_SIZE = 4
    Areas = {"avail"}
    MaxStarts = 1
    MaxPosted = 1
    num_queues = 2
    MaxSize = 4
    ValidSizes = {2, 4}
    Longs = {1, 2}
    ConfigSize = 24
    Offsets = {0, 8, 12, 20, 22, 24, 28, 30, 32, 36, 40, 44, 48, 52, 56, 1024, 2048, 2068}
    Notifiers = {1, 2}
    MaxAccesses = 1
INVARIANT QueueSizeValid
