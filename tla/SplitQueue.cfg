\* The first machine has no store buffer; the second has one, and a driver that never
\* suppresses interrupts; on the third an interrupt may be lost and the driver then
\* waits for ever, so the system may stop.
SPECIFICATION FairSpec
CONSTANTS
    QueueSize = 2
    Laps = 2
    Machines = {{"suppress_irq", "irq_latched"}, {"store_buffer", "irq_latched"}, {"store_buffer", "suppress_irq"}}
INVARIANTS
    Ownership
    NoLostWakeup
PROPERTIES
    ServesInOrder
    RequestsReaped
CHECK_DEADLOCK FALSE
