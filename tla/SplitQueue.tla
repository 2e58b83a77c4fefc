----------------------------- MODULE SplitQueue -----------------------------
(***************************************************************************)
(* One split virtqueue of a device: the rings in guest memory, the device  *)
(* thread that serves it, and the guest driver at the other end.           *)
(*                                                                         *)
(* Device side (src/io/virtio/vq, src/io/virtio/queues.rs).  A worker      *)
(* thread loops over wait_ready, next_chain and the chain's flush          *)
(* (VirtQueue::wait_next_chain and on_each_chain).  The backend mutex is   *)
(* held over each call into SplitQueue, but guest memory is shared with    *)
(* running vcpus, so every access to guest memory, to an eventfd and to    *)
(* the ISR is a step of its own.  What the device does with the chain      *)
(* between taking and flushing it is not modelled here.                    *)
(*                                                                         *)
(* Driver side (external).  The driver adds a head to the avail ring,      *)
(* publishes avail_ring.idx and kicks the device; an interrupt handler     *)
(* reads the ISR and reaps the used ring.  Neither VRING_F_EVENT_IDX is    *)
(* offered by any device nor used_ring.flags ever set, so every            *)
(* publication is followed by a kick and avail_ring.flags alone decides    *)
(* about interrupts.                                                       *)
(***************************************************************************)
EXTENDS Integers, FiniteSets, Sequences

(* The free-running indices.  avail_ring.idx, used_ring.idx, next_avail,   *)
(* cached_avail_idx and next_used_idx are u16 counters that are            *)
(* incremented without bound, wrap around, and are reduced modulo the      *)
(* queue size only to find a ring slot (mod.rs, splitqueue.rs).  IndexMod  *)
(* stands for 2^16: what the code relies on is that the queue size divides *)
(* it and is less than it, which VirtQueue::set_size and MAX_QUEUE_SIZE    *)
(* provide.                                                                *)

CONSTANTS
    QueueSize,   \* number of slots of the avail and of the used ring
    Laps         \* the index space is Laps times as large as the ring

ASSUME QueueSizeAssumption == QueueSize \in Nat \ {0}
ASSUME LapsAssumption == Laps \in Nat \ {0, 1}

IndexMod == QueueSize * Laps

Index == 0 .. (IndexMod - 1)

\* The ring slots.  A descriptor chain is named by the descriptor it starts
\* with, so the heads a driver may submit are the same numbers.
Slots == 0 .. (QueueSize - 1)

\* SharedIndex::inc followed by SharedIndex::get: u16 wrap-around.
Inc(i) == IF i = IndexMod - 1 THEN 0 ELSE i + 1

\* How many increments lead from lo to i (the u16 difference i - lo).
Dist(i, lo) == IF i >= lo THEN i - lo ELSE i - lo + IndexMod

\* ring_idx % queue_size
Slot(i) == i % QueueSize

\* The n indices that start at lo.
Window(lo, n) == {i \in Index : Dist(i, lo) < n}

-----------------------------------------------------------------------------

\* The host processors, interrupt controllers and drivers considered, each the
\* set of its traits.
CONSTANT Machines

ASSUME MachineAssumption == Machines \subseteq SUBSET {"store_buffer", "suppress_irq", "irq_latched"}

Heads == Slots

VARIABLES
    machine,           \* one of Machines, the same from the start to the end
    \* guest memory
    availRing,         \* avail_ring.ring
    avail_idx,         \* avail_ring.idx
    no_interrupt,      \* avail_ring.flags & 1
    usedRing,          \* used_ring.ring (the id of each entry)
    used_idx,          \* used_ring.idx as the guest sees it
    \* SplitQueue
    cached_avail_idx,
    next_avail,
    next_used_idx,
    \* the worker thread
    wpc,               \* what it does next
    chain,             \* head of the chain it took last
    \* eventfds and the interrupt line
    ioevent,           \* is the ioeventfd counter non-zero?
    isr,               \* InterruptLine::isr & 1
    irq,               \* is an interrupt pending at the guest?
    \* the guest driver
    free,              \* heads not in flight
    adding,            \* an entry is in the ring but not published yet
    kickDue,           \* published since the last kick
    last_used_idx,
    hpc                \* the interrupt handler

guestMem == <<availRing, avail_idx, no_interrupt, usedRing, used_idx>>
backend  == <<cached_avail_idx, next_avail, next_used_idx>>
line     == <<isr, irq>>
handler  == <<last_used_idx, hpc>>
queueVars == <<guestMem, backend, wpc, chain, ioevent, line,
               free, adding, kickDue, handler>>
vars == <<queueVars, machine>>

StoreBuffer == "store_buffer" \in machine  \* the store to used_ring.idx may become visible late
SuppressIrq == "suppress_irq" \in machine  \* the handler runs with interrupts suppressed
IrqLatched == "irq_latched" \in machine    \* an irqfd pulse that meets a running handler is kept

WorkerSteps == {"wait_ready", "read_ioevent", "next_chain", "load_avail_entry",
                "put_used_entry", "write_used_idx", "need_interrupt",
                "set_isr", "write_irqfd", "unlock"}

HandlerSteps == {"idle", "isr_read", "disable", "reap", "enable", "recheck", "eoi"}

\* The driver has zeroed the rings and the device was just started.
Init ==
    /\ machine \in Machines
    /\ availRing = [s \in Slots |-> 0] /\ avail_idx = 0 /\ no_interrupt = FALSE
    /\ usedRing = [s \in Slots |-> 0] /\ used_idx = 0
    /\ cached_avail_idx = 0 /\ next_avail = 0 /\ next_used_idx = 0
    /\ wpc = "wait_ready" /\ chain = 0
    /\ ioevent = FALSE /\ isr = FALSE /\ irq = FALSE
    /\ free = Heads /\ adding = FALSE /\ kickDue = FALSE
    /\ last_used_idx = 0 /\ hpc = "idle"

-----------------------------------------------------------------------------
(* The driver: submission *)

\* A free head is written into the slot that avail_idx designates.
AddBuffer(h) ==
    /\ ~adding
    /\ h \in free
    /\ free' = free \ {h}
    /\ availRing' = [availRing EXCEPT ![Slot(avail_idx)] = h]
    /\ adding' = TRUE
    /\ UNCHANGED <<avail_idx, no_interrupt, usedRing, used_idx, backend, wpc,
                   chain, ioevent, line, kickDue, handler>>

Publish ==
    /\ adding
    /\ avail_idx' = Inc(avail_idx)
    /\ adding' = FALSE
    /\ kickDue' = TRUE
    /\ UNCHANGED <<availRing, no_interrupt, usedRing, used_idx, backend, wpc,
                   chain, ioevent, line, free, handler>>

\* The notify register is bound to the ioeventfd (Queues::create_ioevent).
Kick ==
    /\ kickDue
    /\ kickDue' = FALSE
    /\ ioevent' = TRUE
    /\ UNCHANGED <<guestMem, backend, wpc, chain, line, free, adding, handler>>

-----------------------------------------------------------------------------
(* The device: taking a chain *)

\* SplitQueue::is_empty.  avail_ring.idx is only looked at when the cached
\* value promises nothing more, and is then cached.
is_empty == cached_avail_idx = next_avail /\ next_avail = avail_idx

load_avail_idx ==
    cached_avail_idx' = IF cached_avail_idx = next_avail
                        THEN avail_idx ELSE cached_avail_idx

wait_ready ==
    /\ wpc = "wait_ready"
    /\ load_avail_idx
    /\ wpc' = IF is_empty THEN "read_ioevent" ELSE "next_chain"
    /\ UNCHANGED <<guestMem, next_avail, next_used_idx, chain, ioevent, line,
                   free, adding, kickDue, handler>>

\* A blocking read of the eventfd, which resets its counter.
read_ioevent ==
    /\ wpc = "read_ioevent"
    /\ ioevent
    /\ ioevent' = FALSE
    /\ wpc' = "next_chain"
    /\ UNCHANGED <<guestMem, backend, chain, line, free, adding, kickDue, handler>>

\* pop_avail_entry up to its early return; an empty queue ends the iteration
\* (on_each_chain) or the loop body (wait_next_chain) and leads to wait_ready.
next_chain ==
    /\ wpc = "next_chain"
    /\ load_avail_idx
    /\ wpc' = IF is_empty THEN "wait_ready" ELSE "load_avail_entry"
    /\ UNCHANGED <<guestMem, next_avail, next_used_idx, chain, ioevent, line,
                   free, adding, kickDue, handler>>

\* Mutant: the entry is read at next_avail and next_avail is not advanced.
load_avail_entry_stuck ==
    /\ wpc = "load_avail_entry"
    /\ chain' = availRing[Slot(next_avail)]
    /\ wpc' = "put_used_entry"
    /\ UNCHANGED <<guestMem, backend, ioevent, line, free, adding, kickDue, handler>>

load_avail_entry ==
    /\ wpc = "load_avail_entry"
    /\ chain' = availRing[Slot(next_avail)]
    /\ next_avail' = Inc(next_avail)
    /\ wpc' = "put_used_entry"
    /\ UNCHANGED <<guestMem, cached_avail_idx, next_used_idx, ioevent, line,
                   free, adding, kickDue, handler>>

-----------------------------------------------------------------------------
(* The device: Chain::flush_chain, which calls SplitQueue::put_used *)

\* The used element, and the increment of next_used_idx.
put_used_entry ==
    /\ wpc = "put_used_entry"
    /\ usedRing' = [usedRing EXCEPT ![Slot(next_used_idx)] = chain]
    /\ next_used_idx' = Inc(next_used_idx)
    /\ wpc' = "write_used_idx"
    /\ UNCHANGED <<availRing, avail_idx, no_interrupt, used_idx, cached_avail_idx,
                   next_avail, chain, ioevent, line, free, adding, kickDue, handler>>

\* The store to used_ring.idx.  The release fence before it orders the element
\* first; nothing orders the load of avail_ring.flags after it, so on a
\* processor with a store buffer the guest may see it later.
write_used_idx ==
    /\ wpc = "write_used_idx"
    /\ used_idx' \in IF StoreBuffer THEN {used_idx, next_used_idx} ELSE {next_used_idx}
    /\ wpc' = "need_interrupt"
    /\ UNCHANGED <<availRing, avail_idx, no_interrupt, usedRing, backend, chain,
                   ioevent, line, free, adding, kickDue, handler>>

\* The buffered store reaches memory.
DrainStore ==
    /\ wpc \in {"need_interrupt", "set_isr", "unlock"}
    /\ used_idx # next_used_idx
    /\ used_idx' = next_used_idx
    /\ UNCHANGED <<availRing, avail_idx, no_interrupt, usedRing, backend, wpc, chain,
                   ioevent, line, free, adding, kickDue, handler>>

need_interrupt ==
    /\ wpc = "need_interrupt"
    /\ wpc' = IF no_interrupt THEN "unlock" ELSE "set_isr"
    /\ UNCHANGED <<guestMem, backend, chain, ioevent, line, free, adding, kickDue, handler>>

\* Releasing the mutex, like the fetch_or of the ISR, is a locked instruction:
\* it waits for the store buffer to drain.
Drained == used_idx = next_used_idx

\* Mutant: one chain per kick; the worker blocks again without testing is_empty.
unlock_one_per_kick ==
    /\ wpc = "unlock" /\ Drained
    /\ wpc' = "read_ioevent"
    /\ UNCHANGED <<guestMem, backend, chain, ioevent, line, free, adding, kickDue, handler>>

\* The worker goes back to wait_ready (wait_next_chain) or to next_chain
\* (QueueIter).
unlock ==
    /\ wpc = "unlock" /\ Drained
    /\ wpc' \in {"wait_ready", "next_chain"}
    /\ UNCHANGED <<guestMem, backend, chain, ioevent, line, free, adding, kickDue, handler>>

\* InterruptLine::notify_queue: the ISR bit first, then the irqfd.
set_isr ==
    /\ wpc = "set_isr" /\ Drained
    /\ isr' = TRUE
    /\ wpc' = "write_irqfd"
    /\ UNCHANGED <<guestMem, backend, chain, ioevent, irq, free, adding, kickDue, handler>>

\* Mutant: the irqfd is not written.
write_irqfd_forgotten ==
    /\ wpc = "write_irqfd"
    /\ wpc' = "unlock"
    /\ UNCHANGED <<guestMem, backend, chain, ioevent, line, free, adding, kickDue, handler>>

\* The irqfd is registered without a resample event: KVM raises and lowers the
\* line.  A pulse during the handler stays pending on an edge-triggered pin; on
\* a level-triggered pin it is gone when the handler signals its end.
write_irqfd ==
    /\ wpc = "write_irqfd"
    /\ irq' = (irq \/ hpc = "idle" \/ IrqLatched)
    /\ wpc' = "unlock"
    /\ UNCHANGED <<guestMem, backend, chain, ioevent, isr, free, adding, kickDue, handler>>

-----------------------------------------------------------------------------
(* The driver: the interrupt handler *)

TakeInterrupt ==
    /\ hpc = "idle" /\ irq
    /\ irq' = FALSE
    /\ hpc' = "isr_read"
    /\ UNCHANGED <<guestMem, backend, wpc, chain, ioevent, isr, free, adding,
                   kickDue, last_used_idx>>

\* Reading the ISR register swaps it with 0; a zero means "not this device".
isr_read ==
    /\ hpc = "isr_read"
    /\ isr' = FALSE
    /\ hpc' = CASE ~isr -> "eoi"
                [] isr /\ SuppressIrq -> "disable"
                [] isr /\ ~SuppressIrq -> "reap"
    /\ UNCHANGED <<guestMem, backend, wpc, chain, ioevent, irq, free, adding,
                   kickDue, last_used_idx>>

SetNoInterrupt(from, flag, to) ==
    /\ hpc = from
    /\ no_interrupt' = flag
    /\ hpc' = to
    /\ UNCHANGED <<availRing, avail_idx, usedRing, used_idx, backend, wpc, chain,
                   ioevent, line, free, adding, kickDue, last_used_idx>>

DisableInterrupts == SetNoInterrupt("disable", TRUE, "reap")

EnableInterrupts == SetNoInterrupt("enable", FALSE, "recheck")

Reap ==
    /\ hpc = "reap" /\ last_used_idx # used_idx
    /\ free' = free \cup {usedRing[Slot(last_used_idx)]}
    /\ last_used_idx' = Inc(last_used_idx)
    /\ UNCHANGED <<guestMem, backend, wpc, chain, ioevent, line, adding, kickDue, hpc>>

HandlerGoto(from, to) ==
    /\ hpc = from
    /\ hpc' = to
    /\ UNCHANGED <<guestMem, backend, wpc, chain, ioevent, line, free, adding,
                   kickDue, last_used_idx>>

ReapedAll ==
    /\ last_used_idx = used_idx
    /\ HandlerGoto("reap", IF SuppressIrq THEN "enable" ELSE "eoi")

\* With interrupts enabled again the used ring is looked at once more.
Recheck ==
    HandlerGoto("recheck", IF last_used_idx = used_idx THEN "eoi" ELSE "disable")

EndOfInterrupt == HandlerGoto("eoi", "idle")

-----------------------------------------------------------------------------

Worker ==
    \/ wait_ready \/ read_ioevent \/ next_chain \/ load_avail_entry
    \/ put_used_entry \/ write_used_idx \/ need_interrupt
    \/ set_isr \/ write_irqfd \/ unlock

Handler ==
    \/ TakeInterrupt \/ isr_read \/ DisableInterrupts \/ Reap \/ ReapedAll
    \/ EnableInterrupts \/ Recheck \/ EndOfInterrupt

Step ==
    \/ \E h \in Heads : AddBuffer(h)
    \/ Publish
    \/ Kick
    \/ Worker
    \/ DrainStore
    \/ Handler

Next == Step /\ UNCHANGED machine

Spec == Init /\ [][Next]_vars

\* The worker is a thread the host keeps scheduling, the handler a vcpu.  A
\* driver that has written a ring entry publishes it and then kicks; it need
\* not submit anything.  A store does not stay in the store buffer.
Fairness ==
    /\ WF_queueVars(Worker)
    /\ WF_queueVars(DrainStore)
    /\ WF_queueVars(Handler)
    /\ WF_queueVars(Publish)
    /\ WF_queueVars(Kick)

FairSpec == Spec /\ Fairness

-----------------------------------------------------------------------------
(* Properties *)

\* Every variable stays within its type: indices are u16 values, rings map
\* slots to heads, and the control states are the ones listed above.
TypeOK ==
    /\ availRing \in [Slots -> Heads] /\ avail_idx \in Index
    /\ usedRing \in [Slots -> Heads] /\ used_idx \in Index
    /\ cached_avail_idx \in Index /\ next_avail \in Index
    /\ next_used_idx \in Index /\ last_used_idx \in Index
    /\ wpc \in WorkerSteps /\ chain \in Heads
    /\ hpc \in HandlerSteps /\ free \subseteq Heads
    /\ no_interrupt \in BOOLEAN /\ ioevent \in BOOLEAN /\ isr \in BOOLEAN
    /\ irq \in BOOLEAN /\ adding \in BOOLEAN /\ kickDue \in BOOLEAN

\* Where a head can be when it is not free: in the avail ring (a new entry is
\* there before it is published), with the device, or in the used ring.
AvailLen == Dist(avail_idx, next_avail) + IF adding THEN 1 ELSE 0
AvailWindow == Window(next_avail, AvailLen)
HeldLen == IF wpc = "put_used_entry" THEN 1 ELSE 0
UsedLen == Dist(next_used_idx, last_used_idx)
UsedWindow == Window(last_used_idx, UsedLen)

\* No head is lost or made up: the free ones, those in the avail ring, the one
\* the device holds and those in the used ring are QueueSize in number.
Conservation == Cardinality(free) + AvailLen + HeldLen + UsedLen = QueueSize

AvailOwned ==
    \A i \in AvailWindow :
        /\ availRing[Slot(i)] \notin free
        /\ \A j \in AvailWindow : i # j => availRing[Slot(i)] # availRing[Slot(j)]

UsedOwned ==
    \A i \in UsedWindow :
        /\ usedRing[Slot(i)] \notin free
        /\ \A j \in UsedWindow : i # j => usedRing[Slot(i)] # usedRing[Slot(j)]
        /\ \A j \in AvailWindow : usedRing[Slot(i)] # availRing[Slot(j)]

HeldOwned ==
    wpc = "put_used_entry" =>
        /\ chain \notin free
        /\ \A i \in AvailWindow : availRing[Slot(i)] # chain
        /\ \A i \in UsedWindow : usedRing[Slot(i)] # chain

\* Each head is in exactly one place, in one position: a chain the device takes
\* was submitted and not yet taken, and a head in the used ring was taken and
\* is reported once (pop_avail_entry and put_used_entry under index wrap-around,
\* with a driver that reuses slots and heads as soon as it may).
Ownership == Conservation /\ AvailOwned /\ UsedOwned /\ HeldOwned

\* The cached copy of avail_ring.idx never runs ahead of what the driver has
\* published nor falls behind next_avail, although it is reloaded only when it
\* promises nothing more; the index the guest sees of the used ring is at most
\* one behind the device's, and only inside put_used.
IndexOrder ==
    /\ Dist(cached_avail_idx, next_avail) <= Dist(avail_idx, next_avail)
    /\ wpc = "load_avail_entry" => cached_avail_idx # next_avail
    /\ wpc = "write_used_idx" => used_idx # next_used_idx
    /\ used_idx # next_used_idx =>
          /\ wpc \in {"write_used_idx", "need_interrupt", "set_isr", "unlock"}
          /\ next_used_idx = Inc(used_idx)
          /\ last_used_idx # next_used_idx

\* A worker blocked in the ioeventfd read with published chains in front of it
\* has a kick coming (wait_ready tests is_empty and then blocks, and the read
\* resets the eventfd, without any lock against the driver).
NoLostKick ==
    wpc = "read_ioevent" /\ ~ioevent /\ next_avail # avail_idx => kickDue

\* A driver that waits for an interrupt with completed requests to reap has one
\* pending, or put_used is still on its way to raise it (used_ring.idx, then
\* avail_ring.flags, then the ISR, then the irqfd, against the handler's own
\* order of ISR, flags and used_ring.idx).
NoLostInterrupt ==
    hpc = "idle" /\ ~irq /\ last_used_idx # used_idx =>
        wpc \in {"need_interrupt", "set_isr", "write_irqfd"}

\* An irqfd pulse that meets a running handler is kept, and no store is delayed past
\* the check of a handler that suppresses interrupts.
Reliable == IrqLatched /\ ~(StoreBuffer /\ SuppressIrq)

\* Neither side sleeps with work in front of it and no wake-up under way: the worker
\* in its ioeventfd read and, on a reliable machine, the driver that waits for an
\* interrupt.
NoLostWakeup == NoLostKick /\ (Reliable => NoLostInterrupt)

\* On a reliable machine every request that the driver has put into the ring is
\* eventually handed back.
RequestsReaped == Reliable => \A h \in Heads : (h \notin free) ~> (h \in free)

-----------------------------------------------------------------------------
(* Refinement of RequestQueue *)

\* The n entries of ring from index lo on.
Entries(ring, lo, n) == [k \in 1..n |-> ring[Slot(lo + k - 1)]]

\* An entry counts as submitted once it is published, and as completed once
\* the guest can see it.
absFree == free \cup IF adding THEN {availRing[Slot(avail_idx)]} ELSE {}
absSubmitted == Entries(availRing, next_avail, Dist(avail_idx, next_avail))
absServing ==
    IF wpc = "put_used_entry" THEN <<chain>>
    ELSE Entries(usedRing, used_idx, Dist(next_used_idx, used_idx))
absCompleted == Entries(usedRing, last_used_idx, Dist(used_idx, last_used_idx))

RQ == INSTANCE RequestQueue WITH
        free <- absFree, submitted <- absSubmitted,
        serving <- absServing, completed <- absCompleted

\* The rings, eventfds and interrupts implement a FIFO request queue that
\* completes every request once.
ServesInOrder == RQ!Spec

=============================================================================
