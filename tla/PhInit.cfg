SPECIFICATION Spec
CONSTANTS
    Pids = {p1, p2, p3, p4}
SYMMETRY Symmetry
INVARIANTS BootTreeComplete  GuestAsAsked
\* The boot file system is built once, and a guest restarts once or fails to boot.
CHECK_DEADLOCK FALSE
