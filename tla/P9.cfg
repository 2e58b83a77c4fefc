\* A request of the parts "io" and "pdu" is over when it is answered.
SPECIFICATION P9Spec
CONSTANTS
    Fids = {f1, f2, f3}
    Memory = {f3}
    Host = host
INVARIANTS LocksTrue RepliesExact
PROPERTIES FidsExact RequestsEnd
CHECK_DEADLOCK FALSE
