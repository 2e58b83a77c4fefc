---------------------------- MODULE VirtioDevice ----------------------------
(***************************************************************************)
(* The life of a virtio device: the common configuration registers         *)
(* (src/io/virtio/device.rs), the queues behind them (queues.rs,           *)
(* vq/virtqueue.rs), the configuration and reset of the split queue        *)
(* backends (vq/splitqueue.rs) and the workers that each start of the      *)
(* device leaves running.  The rings themselves are modelled by            *)
(* SplitQueue; here a ring is the number of requests the driver has        *)
(* published since the last reset.                                         *)
(*                                                                         *)
(* A reset does not stop the workers of an earlier start.  They go on      *)
(* polling the same backend, whose avail ring is then at address 0.        *)
(*                                                                         *)
(* setup says what device and what driver there are: how many queues, the  *)
(* sizes and the features the driver writes, whether a second start panics *)
(* (as the block device's does), whether the driver resets only when no    *)
(* chain is being served, and the 16 bits at guest address 2.              *)
(***************************************************************************)
EXTENDS Integers, FiniteSets

CONSTANTS
    Setups,       \* the devices and drivers looked at
    DefaultSize,  \* queue_sizes()
    MAX_QUEUE_SIZE,
    Areas,        \* the ring areas with an address register
    MaxStarts,    \* bound on the starts of the device
    MaxPosted     \* bound on the requests published on a queue between resets

ASSUME DeviceAssumption ==
    /\ \A s \in Setups :
        /\ s.num_queues \in Nat \ {0} /\ s.sizes \subseteq Nat /\ s.low_word \in Nat
        /\ 0 \in s.features
        /\ s.one_shot \in BOOLEAN /\ s.quiesce \in BOOLEAN
    /\ DefaultSize \in Nat \ {0} /\ MAX_QUEUE_SIZE \in Nat /\ Areas # {}
    /\ MaxStarts \in Nat /\ MaxPosted \in Nat

VARIABLES
    setup,           \* constant: the device and its driver
    status,          \* the bits of VirtioDeviceState::status
    guest_features,  \* FeatureBits::guest_bits
    selected_queue,
    queue,           \* the VirtQueues
    backend,         \* their SplitQueues
    isr,
    worker,          \* worker[k][q]: the k-th start's worker on queue q
    starts,          \* number of successful starts
    running,         \* start has been called since the last reset
    poisoned,        \* a thread panicked holding the backend's mutex
    crashed,         \* the vCPU thread has panicked
    posted           \* requests the driver has published since the last reset

stateVars == <<status, guest_features, selected_queue, queue, running, starts>>
deviceVars == <<setup, stateVars, backend, isr, worker, poisoned, crashed, posted>>

Queues == 0 .. (setup.num_queues - 1)
Starts == 1 .. MaxStarts
\* The bits of the status register; FAILED stands for ACKNOWLEDGE and DRIVER too,
\* which the code treats alike.
Bits == {"FEATURES_OK", "DRIVER_OK", "FAILED"}
Words == {0, 1}

\* An address register: its high and low halves.
Address == [hi : Words, lo : Words]
NoAddress == [hi |-> 0, lo |-> 0]
NoAreas == [n \in Areas |-> NoAddress]

\* VirtQueue and SplitQueue after a reset.
ResetQueue == [enabled |-> FALSE, size |-> DefaultSize, area |-> NoAreas]
ResetBackend == [size |-> 0, area |-> NoAreas, features |-> 0,
                 next_avail |-> 0, cached_avail_idx |-> 0, next_used_idx |-> 0]

DeviceInit ==
    /\ setup \in Setups
    /\ status = {} /\ guest_features = 0 /\ selected_queue = 0
    /\ queue = [q \in Queues |-> ResetQueue]
    /\ backend = [q \in Queues |-> ResetBackend]
    /\ isr = FALSE
    /\ worker = [k \in Starts |-> [q \in Queues |-> "none"]]
    /\ starts = 0 /\ running = FALSE
    /\ poisoned = {} /\ crashed = FALSE
    /\ posted = [q \in Queues |-> 0]

-----------------------------------------------------------------------------
(* The registers, written by the driver *)

current_queue == queue[selected_queue]

\* The selected queue becomes vq; nothing happens when it does not exist or is
\* enabled.
with_current(vq) ==
    /\ ~crashed
    /\ queue' = IF selected_queue \in Queues /\ ~current_queue.enabled
                THEN [queue EXCEPT ![selected_queue] = vq] ELSE queue
    /\ UNCHANGED <<status, guest_features, selected_queue, running, starts, backend, isr,
                   worker, poisoned, crashed, posted>>

IsPowerOf2(n) == \E e \in 0 .. 15 : n = 2 ^ e

\* sz & (sz - 1), with sz - 1 wrapping at 0 as in a release build: 0 passes.
AcceptsSize(sz) == sz <= MAX_QUEUE_SIZE /\ (sz = 0 \/ IsPowerOf2(sz))

set_size(sz) ==
    with_current(IF AcceptsSize(sz) THEN [current_queue EXCEPT !.size = sz] ELSE current_queue)

\* set_current_descriptor_area, set_avail_area and set_used_area.
set_area(name, half, val) ==
    IF half = "hi" THEN with_current([current_queue EXCEPT !.area[name].hi = val])
    ELSE with_current([current_queue EXCEPT !.area[name].lo = val])

enable_current == with_current([current_queue EXCEPT !.enabled = TRUE])

select(i) ==
    /\ ~crashed
    /\ selected_queue' = i
    /\ UNCHANGED <<status, guest_features, queue, running, starts, backend, isr, worker,
                   poisoned, crashed, posted>>

write_guest_word(f) ==
    /\ ~crashed
    /\ guest_features' = f
    /\ UNCHANGED <<status, selected_queue, queue, running, starts, backend, isr, worker,
                   poisoned, crashed, posted>>

isr_read ==
    /\ ~crashed
    /\ isr' = FALSE
    /\ UNCHANGED <<stateVars, backend, worker, poisoned, crashed, posted>>

-----------------------------------------------------------------------------
(* The status register *)

Panic ==
    /\ crashed' = TRUE
    /\ UNCHANGED <<isr, worker, poisoned, posted>>

\* A chain that a worker of these queues holds is from before the reset.
Outdate(reset_queues) ==
    worker' = [k \in Starts |-> [q \in Queues |->
        IF q \in reset_queues /\ worker[k][q] = "held" THEN "stale" ELSE worker[k][q]]]

\* VirtioDeviceState::reset: Queues::reset (the ISR and, queue by queue, the
\* VirtQueue and its backend), FeatureBits::reset, and the status.  A poisoned
\* backend panics the vCPU thread part of the way.  Once it has
\* reset the device, the driver forgets its requests.
reset ==
    LET done == {q \in Queues : \A p \in 0 .. (q - 1) : p \notin poisoned}
    IN  /\ queue' = [q \in Queues |-> IF q \in done THEN ResetQueue ELSE queue[q]]
        /\ backend' = [q \in Queues |-> IF q \in done \ poisoned THEN ResetBackend ELSE backend[q]]
        /\ selected_queue' = 0
        /\ isr' = FALSE
        /\ crashed' = (poisoned # {})
        /\ status' = IF poisoned = {} THEN {} ELSE status
        /\ guest_features' = IF poisoned = {} THEN 0 ELSE guest_features
        /\ running' = FALSE
        /\ posted' = IF poisoned = {} THEN [q \in Queues |-> 0] ELSE posted
        /\ Outdate(done \ poisoned)
        /\ UNCHANGED <<starts, poisoned>>

\* check_range of every area: a non-zero high half is outside guest memory.
RangeValid(q) == \A n \in Areas : queue[q].area[n].hi = 0

Configurable(q) == queue[q].enabled /\ q \notin poisoned /\ RangeValid(q)

\* SplitQueue::configure leaves the indices alone.
configure(q) ==
    [size |-> queue[q].size, area |-> queue[q].area, features |-> guest_features,
     next_avail |-> backend[q].next_avail, cached_avail_idx |-> backend[q].cached_avail_idx,
     next_used_idx |-> backend[q].next_used_idx]

\* Mutant: the start goes ahead when a queue cannot be configured.
driver_ok_ignores_error ==
    LET done == {q \in Queues : Configurable(q)}
    IN  /\ backend' = [q \in Queues |-> IF q \in done THEN configure(q) ELSE backend[q]]
        /\ starts' = starts + 1 /\ running' = TRUE
        /\ worker' = [worker EXCEPT ![starts + 1] = [q \in Queues |-> "idle"]]
        /\ UNCHANGED <<isr, poisoned, crashed, posted>>

\* Mutant: an error of configure_queues is unwrapped.
driver_ok_unwraps ==
    IF \A q \in Queues : Configurable(q)
    THEN driver_ok_ignores_error
    ELSE Panic /\ UNCHANGED <<backend, starts, running>>

\* configure_queues stops at the first queue that fails; only if none does is
\* the device started, which spawns its workers.
driver_ok ==
    LET done == {q \in Queues : \A p \in 0 .. q : Configurable(p)}
        failing == Queues \ done
        panics == \E q \in failing :
                      /\ queue[q].enabled /\ q \in poisoned
                      /\ \A p \in failing : q <= p
    IN  /\ backend' = [q \in Queues |-> IF q \in done THEN configure(q) ELSE backend[q]]
        /\ \/ /\ failing # {}
              /\ crashed' = panics
              /\ UNCHANGED <<isr, worker, poisoned, posted, starts, running>>
           \/ /\ failing = {} /\ setup.one_shot /\ starts > 0
              /\ Panic
              /\ UNCHANGED <<starts, running>>
           \/ /\ failing = {} /\ ~(setup.one_shot /\ starts > 0)
              /\ starts' = starts + 1 /\ running' = TRUE
              /\ worker' = [worker EXCEPT ![starts + 1] = [q \in Queues |-> "idle"]]
              /\ UNCHANGED <<isr, poisoned, crashed, posted>>

\* No device overrides features_ok, so FEATURES_OK is always accepted.  A
\* write that adds FEATURES_OK and DRIVER_OK together does not start the device.
status_write(val) ==
    LET new == val \ status
    IN  /\ ~crashed
        /\ \/ /\ val = {}
              /\ reset
           \/ /\ val # {}
              /\ status' = status \union new
              /\ UNCHANGED <<guest_features, selected_queue, queue>>
              /\ IF "DRIVER_OK" \in new /\ "FEATURES_OK" \notin new
                 THEN driver_ok
                 ELSE UNCHANGED <<running, starts, backend, isr, worker, poisoned, crashed, posted>>

\* The driver's side of the bounds and assumptions on register writes.  It
\* gives a queue its areas before it enables it; the code does not insist.
Held == \E k \in Starts, q \in Queues : worker[k][q] \in {"held", "stale"}

DriverMayEnable ==
    selected_queue \in Queues => \A n \in Areas : current_queue.area[n] # NoAddress

DriverMayWrite(val) ==
    /\ "DRIVER_OK" \in val => starts < MaxStarts
    /\ val = {} => ~(setup.quiesce /\ Held)

-----------------------------------------------------------------------------
(* Requests and workers *)

\* The driver publishes a request on an enabled queue.
Post(q) ==
    /\ ~crashed
    /\ queue[q].enabled
    /\ posted[q] < MaxPosted
    /\ posted' = [posted EXCEPT ![q] = @ + 1]
    /\ UNCHANGED <<stateVars, backend, isr, worker, poisoned, crashed>>

\* The avail index as the backend reads it.
AvailIdx(q) == IF backend[q].area = NoAreas THEN setup.low_word ELSE posted[q]

WorkerPanics(k, q) ==
    /\ worker' = [worker EXCEPT ![k][q] = "panicked"]
    /\ poisoned' = poisoned \union {q}
    /\ UNCHANGED <<stateVars, backend, isr, crashed, posted>>

\* SplitQueue::is_empty, which reloads a cached index that promises nothing.
CachedIdx(q) ==
    IF backend[q].cached_avail_idx = backend[q].next_avail THEN AvailIdx(q)
    ELSE backend[q].cached_avail_idx

is_empty(q) == CachedIdx(q) = backend[q].next_avail

\* wait_ready: only the reload matters here, as any kick may wake the worker.
wait_ready(k, q) ==
    /\ worker[k][q] = "idle"
    /\ q \notin poisoned
    /\ backend' = [backend EXCEPT ![q].cached_avail_idx = CachedIdx(q)]
    /\ UNCHANGED <<stateVars, isr, worker, poisoned, crashed, posted>>

\* next_chain under the mutex.  Three things make the worker panic: a poisoned
\* mutex, the remainder by a queue size of 0, and a head that is no entry of
\* the descriptor table, as an avail entry the driver never wrote may be.
pop_avail_entry(k, q) ==
    /\ worker[k][q] = "idle"
    /\ \/ /\ \/ q \in poisoned
             \/ ~is_empty(q) /\ backend[q].size = 0
             \/ ~is_empty(q) /\ backend[q].next_avail >= posted[q]
          /\ WorkerPanics(k, q)
       \/ /\ q \notin poisoned /\ ~is_empty(q) /\ backend[q].size > 0
          /\ backend[q].next_avail <= MaxPosted
          /\ backend' = [backend EXCEPT ![q].next_avail = @ + 1,
                                        ![q].cached_avail_idx = CachedIdx(q)]
          /\ worker' = [worker EXCEPT ![k][q] = "held"]
          /\ UNCHANGED <<stateVars, isr, poisoned, crashed, posted>>

\* Mutant: the chain's id is not compared with the queue size.
put_used_unchecked(k, q) ==
    /\ worker[k][q] \in {"held", "stale"}
    /\ backend' = [backend EXCEPT ![q].next_used_idx = @ + 1]
    /\ worker' = [worker EXCEPT ![k][q] = "idle"]
    /\ UNCHANGED <<stateVars, isr, poisoned, crashed, posted>>

\* put_used: the entry is dropped when its id is not below the queue size, as
\* after a reset; a chain from before a reset may also have an id too large for
\* the size chosen since.  Whether to interrupt is read from the avail flags.
put_used(k, q) ==
    /\ worker[k][q] \in {"held", "stale"}
    /\ \/ q \in poisoned /\ WorkerPanics(k, q)
       \/ /\ q \notin poisoned
          /\ \/ /\ backend[q].size > 0
                /\ backend' = [backend EXCEPT ![q].next_used_idx = @ + 1]
             \/ /\ backend[q].size = 0 \/ worker[k][q] = "stale"
                /\ UNCHANGED backend
          /\ worker' = [worker EXCEPT ![k][q] = "idle"]
          /\ isr' \in {isr, TRUE}
          /\ UNCHANGED <<stateVars, poisoned, crashed, posted>>

-----------------------------------------------------------------------------

Registers ==
    \/ \E sz \in setup.sizes : set_size(sz)
    \/ \E n \in Areas, half \in {"hi", "lo"}, val \in Words : set_area(n, half, val)
    \/ DriverMayEnable /\ enable_current
    \/ \E i \in 0 .. setup.num_queues : select(i)
    \/ \E f \in setup.features : write_guest_word(f)
    \/ isr_read
    \/ \E val \in SUBSET Bits : DriverMayWrite(val) /\ status_write(val)

Worker(k, q) == wait_ready(k, q) \/ pop_avail_entry(k, q) \/ put_used(k, q)

DeviceNext ==
    /\ Registers \/ (\E q \in Queues : Post(q)) \/ (\E k \in Starts, q \in Queues : Worker(k, q))
    /\ UNCHANGED setup

DeviceSpec == DeviceInit /\ [][DeviceNext]_deviceVars

-----------------------------------------------------------------------------
(* Properties *)

\* Everything has its type.
DeviceTypeOK ==
    /\ setup \in Setups /\ status \subseteq Bits
    /\ guest_features \in setup.features
    /\ selected_queue \in 0 .. setup.num_queues
    /\ queue \in [Queues -> [enabled : BOOLEAN, size : Nat, area : [Areas -> Address]]]
    /\ backend \in [Queues -> [size : Nat, area : [Areas -> Address], features : setup.features,
                               next_avail : 0 .. (MaxPosted + 1), cached_avail_idx : Nat,
                               next_used_idx : Nat]]
    /\ isr \in BOOLEAN
    /\ worker \in [Starts -> [Queues -> {"none", "idle", "held", "stale", "panicked"}]]
    /\ starts \in 0 .. MaxStarts /\ running \in BOOLEAN
    /\ poisoned \subseteq Queues /\ crashed \in BOOLEAN
    /\ posted \in [Queues -> 0 .. MaxPosted]

\* The driver writes valid queue sizes, the device can be started again, and the
\* memory at address 2 is clear.
Regular == 0 \notin setup.sizes /\ ~setup.one_shot /\ setup.low_word = 0

\* While the device runs every queue is enabled, its areas are in guest memory
\* and its backend works on the size and the addresses that the registers
\* show, although the backend has a copy of its own and one failing queue
\* leaves the ones before it configured.
RunningConfigured ==
    running => \A q \in Queues :
        /\ queue[q].enabled /\ RangeValid(q)
        /\ backend[q].size = queue[q].size /\ backend[q].area = queue[q].area

\* Workers old and new take only requests published since the reset and return only
\* requests taken since.
FreshRings ==
    \A q \in Queues :
        /\ backend[q].next_avail <= posted[q]
        /\ backend[q].next_used_idx
             + Cardinality({k \in Starts : worker[k][q] = "held"}) = backend[q].next_avail

\* A running device works on the queues as the registers show them (status_write,
\* configure_queues); and with a driver that lets requests finish before a reset every
\* start finds fresh rings, although workers of earlier starts go on polling them.
StartsClean == DeviceTypeOK /\ RunningConfigured /\ (Regular /\ setup.quiesce => FreshRings)

\* Between a reset and the next DRIVER_OK nothing is written to a used ring, although
\* workers of earlier starts may still hold chains and return them (put_used); and once
\* a queue is enabled its size and addresses stay as they are until the device is
\* reset, whatever is written to the registers (with_current).
QuietStep ==
    \A q \in Queues :
        /\ "DRIVER_OK" \notin status => backend'[q].next_used_idx \in {0, backend[q].next_used_idx}
        /\ queue[q].enabled => queue'[q] \in {queue[q], ResetQueue}
QuietAfterReset == [][QuietStep]_deviceVars

\* With valid queue sizes and clear memory at address 2 no worker and no vCPU thread of
\* a device that can be started again panics, however resets, failed configurations,
\* restarts and leftover workers interleave.
NoPanics == Regular => ~crashed /\ poisoned = {}

\* The first panic of a worker: the driver gave a queue a size of 0, or the device has
\* been reset after a start and the memory at address 2, which the workers left over
\* take for the avail index of the reset backend (load_avail_idx), is not clear.  The
\* vCPU thread panics only on a backend that a worker has poisoned, or in the very
\* write that starts a device again which can be started once.
PanicStep ==
    /\ poisoned = {} /\ poisoned' # {} =>
        \/ \E q \in Queues : backend[q].size = 0 /\ backend[q].area # NoAreas
        \/ setup.low_word # 0 /\ (starts > 1 \/ ~running)
    /\ ~crashed /\ crashed' =>
        \/ poisoned # {}
        \/ /\ setup.one_shot /\ starts > 0 /\ "DRIVER_OK" \in status' \ status
           /\ \A q \in Queues : Configurable(q)

\* Every panic has one of these causes, whatever the driver writes: a queue that cannot
\* be configured is reported, no more, and in its first life, from the start to the
\* first reset, no memory makes a device panic (NoPanics, PanicStep).
PanicExplained == []NoPanics /\ [][PanicStep]_deviceVars

\* What the comment on VirtQueue::set_size says: a queue size is a power of 2
\* and at most MAX_QUEUE_SIZE.
QueueSizeValid == \A q \in Queues : IsPowerOf2(queue[q].size) /\ queue[q].size <= MAX_QUEUE_SIZE

=============================================================================
