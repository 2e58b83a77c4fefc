SPECIFICATION Ac97Spec
CONSTANTS
    Functions = {"Output"}
    N = 2
    Slots = {1}
    Frames = 1
    Requests = {1}
    Ioc = {0}
    Settings = {{"resets"}}
CHECK_DEADLOCK FALSE
PROPERTY NoneAsDocumented
