---------------------------- MODULE DeviceProofs ----------------------------
(***************************************************************************)
(* Proofs about the life of a virtio device (VirtioDevice), for any number *)
(* of queues, starts and requests.                                         *)
(***************************************************************************)
EXTENDS VirtioDevice, FiniteSetTheorems, TLAPS

-----------------------------------------------------------------------------
(* The life of the device *)

QueueType == [enabled : BOOLEAN, size : Nat, area : [Areas -> Address]]
BackendType == [size : Nat, area : [Areas -> Address], features : setup.features,
                next_avail : 0 .. (MaxPosted + 1), cached_avail_idx : Nat, next_used_idx : Nat]
WorkerStates == {"none", "idle", "held", "stale", "panicked"}

\* The backend of a queue as a reset leaves it, or configured; its indices are in order.
BackendInv(q) ==
    /\ queue[q].size > 0
    /\ backend[q].next_avail <= backend[q].cached_avail_idx
    /\ backend[q].cached_avail_idx <= posted[q]
    /\ \/ backend[q].size = 0 /\ backend[q].area = NoAreas /\ backend[q].cached_avail_idx = 0
       \/ backend[q].size > 0 /\ backend[q].area # NoAreas

\* The chains of queue q that are being served.
HeldOf(q) == {k \in Starts : worker[k][q] = "held"}

\* With a driver that waits, no worker holds a chain from before a reset.
ServedInv ==
    \A q \in Queues :
        /\ backend[q].next_used_idx + Cardinality(HeldOf(q)) = backend[q].next_avail
        /\ \A k \in Starts : worker[k][q] # "stale" /\ (worker[k][q] = "held" => backend[q].size > 0)

ConfigInv ==
    /\ running => "DRIVER_OK" \in status
    /\ "DRIVER_OK" \notin status => \A q \in Queues : backend[q].size = 0
    /\ \A q \in Queues : queue[q].enabled => \A n \in Areas : queue[q].area[n] # NoAddress

PanicInv == crashed => poisoned # {} \/ (setup.one_shot /\ starts > 0)

RegularInv == ~crashed /\ poisoned = {} /\ \A q \in Queues : BackendInv(q)

LifeInv ==
    /\ DeviceTypeOK /\ RunningConfigured /\ ConfigInv /\ PanicInv
    /\ Regular => RegularInv
    /\ Regular /\ setup.quiesce => ServedInv

\* What a setup is.
LEMMA SetupType ==
    ASSUME DeviceTypeOK
    PROVE  /\ setup.num_queues \in Nat \ {0} /\ setup.sizes \subseteq Nat /\ setup.low_word \in Nat
           /\ setup.one_shot \in BOOLEAN /\ setup.quiesce \in BOOLEAN /\ 0 \in setup.features
           /\ Queues \subseteq Nat /\ 0 \in Queues /\ Starts \subseteq Nat
BY DeviceAssumption DEF DeviceTypeOK, Queues, Starts

\* A device starts with its queues reset.
LEMMA LifeStarts == DeviceInit => LifeInv
<1> SUFFICES ASSUME DeviceInit PROVE LifeInv
  OBVIOUS
<1> USE DEF DeviceInit
<1>1. NoAreas \in [Areas -> Address]
  BY DEF NoAreas, NoAddress, Address, Words
<1>2. /\ setup.num_queues \in Nat \ {0} /\ 0 \in setup.features /\ Queues \subseteq Nat
      /\ MaxStarts \in Nat /\ MaxPosted \in Nat /\ DefaultSize \in Nat \ {0}
  BY DeviceAssumption DEF Queues
<1>3. ResetQueue \in QueueType
  BY <1>1, <1>2 DEF ResetQueue, QueueType
<1>4. ResetBackend \in BackendType
  BY <1>1, <1>2 DEF ResetBackend, BackendType
<1>5. DeviceTypeOK
  <2>1. queue \in [Queues -> QueueType] /\ backend \in [Queues -> BackendType]
    BY <1>3, <1>4
  <2>2. selected_queue \in 0 .. setup.num_queues /\ starts \in 0 .. MaxStarts
    BY <1>2
  <2>3. posted \in [Queues -> 0 .. MaxPosted]
    BY <1>2
  <2>4. QED
    BY <1>2, <2>1, <2>2, <2>3, Zenon DEF DeviceTypeOK, QueueType, BackendType
<1>6. RunningConfigured /\ ConfigInv /\ PanicInv
  BY DEF RunningConfigured, ConfigInv, PanicInv, ResetQueue, ResetBackend
<1>7. RegularInv
  BY <1>2 DEF RegularInv, BackendInv, ResetQueue, ResetBackend
<1>8. ServedInv
  <2>1. ASSUME NEW q \in Queues PROVE HeldOf(q) = {}
    BY DEF HeldOf
  <2>2. QED
    BY <2>1, FS_EmptySet DEF ServedInv, ResetBackend
<1>9. QED
  BY <1>5, <1>6, <1>7, <1>8 DEF LifeInv

\* The variables that the proofs of ServedInv look at.
LEMMA ServedFrame ==
    ASSUME ServedInv, UNCHANGED <<setup, backend, worker>>
    PROVE  ServedInv'
BY DEF ServedInv, HeldOf, Queues

\* A write to the registers of the selected queue, which takes effect only while
\* the queue is not enabled.
LEMMA WithCurrentKeeps ==
    ASSUME LifeInv, UNCHANGED setup, NEW vq, with_current(vq),
           selected_queue \in Queues /\ ~current_queue.enabled =>
               /\ vq \in QueueType
               /\ vq.enabled => \A n \in Areas : vq.area[n] # NoAddress
               /\ Regular => vq.size > 0
    PROVE  LifeInv'
<1>1. CASE ~(selected_queue \in Queues /\ ~current_queue.enabled)
  <2>1. UNCHANGED deviceVars
    BY <1>1 DEF with_current, deviceVars, stateVars
  <2>2. DeviceTypeOK' /\ RunningConfigured' /\ ConfigInv' /\ PanicInv' /\ (Regular => RegularInv)'
    BY <2>1 DEF deviceVars, stateVars, LifeInv, DeviceTypeOK, RunningConfigured, RangeValid, ConfigInv,
                PanicInv, RegularInv, BackendInv, Regular, Queues
  <2>3. (Regular /\ setup.quiesce => ServedInv)'
    BY <2>1, ServedFrame DEF deviceVars, stateVars, LifeInv, Regular
  <2>4. QED
    BY <2>2, <2>3 DEF LifeInv
<1>2. CASE selected_queue \in Queues /\ ~current_queue.enabled
  <2>1. /\ queue' = [queue EXCEPT ![selected_queue] = vq] /\ vq \in QueueType
        /\ UNCHANGED <<status, guest_features, selected_queue, running, starts, backend, isr,
                       worker, poisoned, crashed, posted>>
        /\ queue \in [Queues -> QueueType] /\ Queues' = Queues
    BY <1>2 DEF with_current, LifeInv, DeviceTypeOK, QueueType, Queues
  <2>2. ~running
    BY <1>2 DEF LifeInv, RunningConfigured, current_queue
  <2>3. DeviceTypeOK'
    <3>1. queue' \in [Queues -> QueueType]
      BY <1>2, <2>1
    <3>2. QED
      BY <2>1, <3>1 DEF LifeInv, DeviceTypeOK, QueueType
  <2>4. RunningConfigured' /\ PanicInv'
    BY <2>1, <2>2 DEF LifeInv, RunningConfigured, PanicInv
  <2>5. ConfigInv'
    BY <1>2, <2>1 DEF LifeInv, ConfigInv
  <2>6. (Regular => RegularInv)'
    BY <1>2, <2>1 DEF LifeInv, RegularInv, BackendInv, Regular
  <2>7. (Regular /\ setup.quiesce => ServedInv)'
    BY <2>1, ServedFrame DEF LifeInv, Regular
  <2>8. QED
    BY <2>3, <2>4, <2>5, <2>6, <2>7 DEF LifeInv
<1>3. QED
  BY <1>1, <1>2

\* The selected queue has the type of a queue.
LEMMA CurrentType ==
    ASSUME LifeInv, selected_queue \in Queues
    PROVE  /\ current_queue \in QueueType
           /\ current_queue.enabled => \A n \in Areas : current_queue.area[n] # NoAddress
           /\ Regular => current_queue.size > 0
BY DEF LifeInv, DeviceTypeOK, QueueType, ConfigInv, RegularInv, BackendInv, current_queue

\* The registers of a queue.
LEMMA QueueRegistersKeep ==
    ASSUME LifeInv, UNCHANGED setup,
           \/ \E sz \in setup.sizes : set_size(sz)
           \/ \E n \in Areas, half \in {"hi", "lo"}, val \in Words : set_area(n, half, val)
           \/ DriverMayEnable /\ enable_current
    PROVE  LifeInv'
<1>1. ASSUME NEW sz \in setup.sizes, set_size(sz) PROVE LifeInv'
  <2> DEFINE vq == IF AcceptsSize(sz) THEN [current_queue EXCEPT !.size = sz] ELSE current_queue
  <2>1. with_current(vq)
    BY <1>1 DEF set_size
  <2>2. ASSUME selected_queue \in Queues, ~current_queue.enabled
        PROVE  /\ vq \in QueueType /\ ~vq.enabled
               /\ Regular => vq.size > 0
    <3>1. sz \in Nat /\ (Regular => sz > 0)
      BY SetupType DEF LifeInv, Regular
    <3>2. QED
      BY <2>2, <3>1, CurrentType DEF QueueType
  <2> HIDE DEF vq
  <2>3. QED
    BY <2>1, <2>2, WithCurrentKeeps
<1>2. ASSUME NEW n \in Areas, NEW half \in {"hi", "lo"}, NEW val \in Words, set_area(n, half, val)
      PROVE  LifeInv'
  <2> DEFINE hq == [current_queue EXCEPT !.area[n].hi = val]
             lq == [current_queue EXCEPT !.area[n].lo = val]
  <2>1. with_current(hq) \/ with_current(lq)
    BY <1>2 DEF set_area
  <2>2. ASSUME selected_queue \in Queues, ~current_queue.enabled
        PROVE  /\ hq \in QueueType /\ ~hq.enabled /\ lq \in QueueType /\ ~lq.enabled
               /\ Regular => hq.size > 0 /\ lq.size > 0
    BY <2>2, CurrentType, SMTT(30) DEF QueueType, Address
  <2> HIDE DEF hq, lq
  <2>3. QED
    BY <2>1, <2>2, WithCurrentKeeps
<1>3. ASSUME DriverMayEnable, enable_current PROVE LifeInv'
  <2> DEFINE vq == [current_queue EXCEPT !.enabled = TRUE]
  <2>1. with_current(vq)
    BY <1>3 DEF enable_current
  <2>2. ASSUME selected_queue \in Queues, ~current_queue.enabled
        PROVE  /\ vq \in QueueType
               /\ \A n \in Areas : vq.area[n] # NoAddress
               /\ Regular => vq.size > 0
    BY <1>3, <2>2, CurrentType, Zenon DEF QueueType, DriverMayEnable
  <2> HIDE DEF vq
  <2>3. QED
    BY <2>1, <2>2, WithCurrentKeeps
<1>4. QED
  BY <1>1, <1>2, <1>3

\* The other registers: no invariant but the types is about them.
LEMMA OtherRegistersKeep ==
    ASSUME LifeInv, UNCHANGED setup,
           \/ \E i \in 0 .. setup.num_queues : select(i)
           \/ \E f \in setup.features : write_guest_word(f)
           \/ isr_read
    PROVE  LifeInv'
<1>1. /\ UNCHANGED <<status, queue, running, starts, backend, worker, poisoned, crashed, posted>>
      /\ selected_queue' \in 0 .. setup.num_queues /\ guest_features' \in setup.features
      /\ isr' \in BOOLEAN
  BY Zenon DEF select, write_guest_word, isr_read, stateVars, LifeInv, DeviceTypeOK
<1>2. DeviceTypeOK'
  BY <1>1 DEF LifeInv, DeviceTypeOK, Queues
<1>3. RunningConfigured' /\ ConfigInv' /\ PanicInv' /\ (Regular => RegularInv)'
  BY <1>1 DEF LifeInv, RunningConfigured, RangeValid, ConfigInv, PanicInv, RegularInv, BackendInv, Regular, Queues
<1>4. (Regular /\ setup.quiesce => ServedInv)'
  BY <1>1, ServedFrame DEF LifeInv, Regular
<1>5. QED
  BY <1>2, <1>3, <1>4 DEF LifeInv

\* The reset of the device, whole or cut short by a poisoned backend.
LEMMA ResetKeeps ==
    ASSUME LifeInv, UNCHANGED setup, ~crashed, reset, ~(setup.quiesce /\ Held)
    PROVE  LifeInv'
<1> DEFINE done == {q \in Queues : \A p \in 0 .. (q - 1) : p \notin poisoned}
<1>1. /\ queue' = [q \in Queues |-> IF q \in done THEN ResetQueue ELSE queue[q]]
      /\ backend' = [q \in Queues |-> IF q \in done \ poisoned THEN ResetBackend ELSE backend[q]]
      /\ selected_queue' = 0 /\ isr' = FALSE /\ crashed' = (poisoned # {}) /\ running' = FALSE
      /\ status' = IF poisoned = {} THEN {} ELSE status
      /\ guest_features' = IF poisoned = {} THEN 0 ELSE guest_features
      /\ posted' = IF poisoned = {} THEN [q \in Queues |-> 0] ELSE posted
      /\ worker' = [k \in Starts |-> [q \in Queues |->
            IF q \in done \ poisoned /\ worker[k][q] = "held" THEN "stale" ELSE worker[k][q]]]
      /\ starts' = starts /\ poisoned' = poisoned
  BY DEF reset, Outdate
<1>2. poisoned = {} => done = Queues
  OBVIOUS
<1> HIDE DEF done
<1>3. /\ DeviceTypeOK /\ ConfigInv /\ Queues' = Queues
      /\ queue \in [Queues -> QueueType] /\ backend \in [Queues -> BackendType]
      /\ worker \in [Starts -> [Queues -> WorkerStates]]
  BY DEF LifeInv, DeviceTypeOK, QueueType, BackendType, WorkerStates, Queues
<1>4. NoAreas \in [Areas -> Address]
  BY DEF NoAreas, NoAddress, Address, Words
<1>5. ResetQueue \in QueueType /\ ResetBackend \in BackendType
  BY <1>3, <1>4, SetupType, DeviceAssumption, SMTT(30) DEF ResetQueue, ResetBackend, QueueType, BackendType
<1>6. DeviceTypeOK'
  <2>1. queue' \in [Queues -> QueueType] /\ backend' \in [Queues -> BackendType]
    BY <1>1, <1>3, <1>5
  <2>2. worker' \in [Starts -> [Queues -> WorkerStates]]
    BY <1>1, <1>3 DEF WorkerStates
  <2>3. selected_queue' \in 0 .. setup.num_queues /\ guest_features' \in setup.features
    BY <1>1, <1>3, SetupType DEF DeviceTypeOK
  <2>4. posted' \in [Queues -> 0 .. MaxPosted]
    BY <1>1, <1>3, DeviceAssumption DEF DeviceTypeOK
  <2>5. status' \subseteq Bits /\ isr' \in BOOLEAN /\ running' \in BOOLEAN /\ crashed' \in BOOLEAN
    BY <1>1, <1>3, Zenon DEF DeviceTypeOK
  <2>6. setup' \in Setups /\ starts' \in 0 .. MaxStarts /\ poisoned' \subseteq Queues
    BY <1>1, <1>3 DEF DeviceTypeOK
  <2>7. QED
    BY <1>3, <2>1, <2>2, <2>3, <2>4, <2>5, <2>6 DEF DeviceTypeOK, QueueType, BackendType, WorkerStates
<1>7. RunningConfigured' /\ PanicInv'
  BY <1>1, Zenon DEF RunningConfigured, PanicInv
<1>8. ConfigInv'
  <2>1. "DRIVER_OK" \notin status' => \A q \in Queues : backend'[q].size = 0
    BY <1>1, <1>2, <1>3 DEF ConfigInv, ResetBackend
  <2>2. \A q \in Queues : queue'[q].enabled => \A n \in Areas : queue'[q].area[n] # NoAddress
    BY <1>1, <1>3 DEF ConfigInv, ResetQueue
  <2>3. QED
    BY <1>1, <1>3, <2>1, <2>2 DEF ConfigInv
<1>9. (Regular => RegularInv)'
  <2>1. SUFFICES ASSUME Regular PROVE RegularInv'
    BY DEF Regular
  <2>2. poisoned = {}
    BY <2>1 DEF LifeInv, RegularInv
  <2>3. ASSUME NEW q \in Queues PROVE BackendInv(q)'
    BY <1>1, <1>2, <2>2, DeviceAssumption DEF BackendInv, ResetQueue, ResetBackend
  <2>4. QED
    BY <1>1, <1>3, <2>2, <2>3, Zenon DEF RegularInv
<1>10. (Regular /\ setup.quiesce => ServedInv)'
  <2>1. SUFFICES ASSUME Regular, setup.quiesce PROVE ServedInv'
    BY DEF Regular
  <2>2. poisoned = {}
    BY <2>1 DEF LifeInv, RegularInv
  <2>3. \A k \in Starts, q \in Queues : worker[k][q] \notin {"held", "stale"}
    BY <2>1 DEF Held
  <2>4. \A k \in Starts, q \in Queues : worker'[k][q] = worker[k][q]
    BY <1>1, <2>3
  <2>5. ASSUME NEW q \in Queues PROVE HeldOf(q)' = {}
    BY <2>3, <2>4 DEF HeldOf
  <2>6. \A q \in Queues : backend'[q].next_used_idx = 0 /\ backend'[q].next_avail = 0
    BY <1>1, <1>2, <2>2 DEF ResetBackend
  <2>7. Cardinality({}) = 0
    BY FS_EmptySet
  <2>8. ASSUME NEW q \in Queues
        PROVE  /\ backend'[q].next_used_idx + Cardinality(HeldOf(q)') = backend'[q].next_avail
               /\ \A k \in Starts : worker'[k][q] # "stale" /\ worker'[k][q] # "held"
    <3>1. Cardinality(HeldOf(q)') = 0
      BY <2>5, <2>7
    <3>2. backend'[q].next_used_idx = 0 /\ backend'[q].next_avail = 0
      BY <2>6
    <3>3. \A k \in Starts : worker'[k][q] # "stale" /\ worker'[k][q] # "held"
      BY <2>3, <2>4
    <3>4. QED
      BY <3>1, <3>2, <3>3
  <2>9. QED
    BY <1>3, <2>8 DEF ServedInv
<1>11. QED
  BY <1>6, <1>7, <1>8, <1>9, <1>10 DEF LifeInv

\* What configure_queues makes of the backends.
LEMMA ConfigureType ==
    ASSUME DeviceTypeOK, NEW q \in Queues
    PROVE  configure(q) \in BackendType
<1>1. queue[q] \in QueueType /\ backend[q] \in BackendType /\ guest_features \in setup.features
  BY DEF DeviceTypeOK, QueueType, BackendType
<1>2. QED
  BY <1>1 DEF configure, QueueType, BackendType

\* DRIVER_OK: every queue is configured and the device started, or the first queue that
\* cannot be configured is reported.
LEMMA DriverOkKeeps ==
    ASSUME LifeInv, UNCHANGED <<setup, guest_features, selected_queue, queue>>, ~crashed,
           "DRIVER_OK" \notin status, "DRIVER_OK" \in status', status' \subseteq Bits,
           starts < MaxStarts, driver_ok
    PROVE  LifeInv'
<1> DEFINE done == {q \in Queues : \A p \in 0 .. q : Configurable(p)}
           failing == Queues \ done
           panics == \E q \in failing :
                         /\ queue[q].enabled /\ q \in poisoned
                         /\ \A p \in failing : q <= p
           reported == /\ failing # {} /\ crashed' = panics
                       /\ UNCHANGED <<isr, worker, poisoned, posted, starts, running>>
           again == /\ failing = {} /\ setup.one_shot /\ starts > 0 /\ crashed' = TRUE
                    /\ UNCHANGED <<isr, worker, poisoned, posted, starts, running>>
           started == /\ failing = {} /\ starts' = starts + 1 /\ running' = TRUE
                      /\ worker' = [worker EXCEPT ![starts + 1] = [q \in Queues |-> "idle"]]
                      /\ UNCHANGED <<isr, poisoned, crashed, posted>>
<1>1. /\ backend' = [q \in Queues |-> IF q \in done THEN configure(q) ELSE backend[q]]
      /\ reported \/ again \/ started
  BY ZenonT(30) DEF driver_ok, Panic
<1>2. /\ DeviceTypeOK /\ ConfigInv /\ RunningConfigured /\ Queues' = Queues /\ ~running
      /\ queue \in [Queues -> QueueType] /\ backend \in [Queues -> BackendType]
      /\ worker \in [Starts -> [Queues -> WorkerStates]]
      /\ \A q \in Queues : backend[q].size = 0
  BY DEF LifeInv, ConfigInv, DeviceTypeOK, QueueType, BackendType, WorkerStates, Queues
<1>3. \A q \in done : q \in Queues /\ Configurable(q)
  BY <1>2, SetupType
<1>4. panics => poisoned # {}
  OBVIOUS
<1>5. failing = {} => done = Queues
  OBVIOUS
<1> HIDE DEF done, failing, panics
<1>6. DeviceTypeOK'
  <2>1. backend' \in [Queues -> BackendType]
    BY <1>1, <1>2, ConfigureType
  <2>2. /\ worker' \in [Starts -> [Queues -> WorkerStates]] /\ starts' \in 0 .. MaxStarts
    <3>1. CASE reported \/ again
      BY <1>2, <3>1 DEF DeviceTypeOK
    <3>2. CASE started
      <4>1. starts \in 0 .. MaxStarts
        BY <1>2 DEF DeviceTypeOK
      <4>2. starts + 1 \in Starts /\ starts' \in 0 .. MaxStarts
        BY <3>2, <4>1, DeviceAssumption DEF Starts
      <4>3. QED
        BY <1>2, <3>2, <4>2 DEF WorkerStates
    <3>3. QED
      BY <1>1, <3>1, <3>2, ZenonT(30)
  <2>3. running' \in BOOLEAN /\ crashed' \in BOOLEAN /\ isr' \in BOOLEAN
    <3>1. CASE reported
      BY <1>2, <3>1 DEF DeviceTypeOK, panics
    <3>2. CASE again \/ started
      BY <1>2, <3>2, Zenon DEF DeviceTypeOK
    <3>3. QED
      BY <1>1, <3>1, <3>2, Zenon
  <2>4. poisoned' = poisoned /\ posted' = posted
    BY <1>1
  <2>5. QED
    BY <1>2, <2>1, <2>2, <2>3, <2>4 DEF DeviceTypeOK, QueueType, BackendType, WorkerStates
<1>7. RunningConfigured'
  <2>1. CASE reported \/ again
    BY <1>2, <2>1, Zenon DEF RunningConfigured
  <2>2. CASE started
    BY <1>1, <1>2, <1>3, <1>5, <2>2 DEF RunningConfigured, RangeValid, Configurable, configure
  <2>3. QED
    BY <1>1, <2>1, <2>2, Zenon
<1>8. ConfigInv'
  BY <1>2 DEF ConfigInv
<1>9. PanicInv'
  BY <1>1, <1>4, Zenon DEF PanicInv
<1>10. (Regular => RegularInv)'
  <2>1. SUFFICES ASSUME Regular PROVE RegularInv'
    BY DEF Regular
  <2>2. poisoned = {} /\ ~setup.one_shot /\ \A q \in Queues : BackendInv(q)
    BY <2>1 DEF LifeInv, RegularInv, Regular
  <2>3. poisoned' = poisoned /\ posted' = posted /\ crashed' = FALSE
    BY <1>1, <1>2, <1>4, <2>2 DEF DeviceTypeOK
  <2>4. ASSUME NEW q \in Queues PROVE BackendInv(q)'
    <3>1. CASE q \in done
      <4>1. queue[q].enabled /\ backend'[q] = configure(q)
        BY <1>1, <1>3, <3>1, SMTT(30) DEF Configurable
      <4>2. queue[q].area # NoAreas
        BY <1>2, <4>1, DeviceAssumption, SMTT(30) DEF ConfigInv, NoAreas
      <4>3. QED
        BY <2>2, <2>3, <4>1, <4>2, SMTT(30) DEF BackendInv, configure
    <3>2. CASE q \notin done
      BY <1>1, <2>2, <2>3, <3>2, SMTT(30) DEF BackendInv
    <3>3. QED
      BY <3>1, <3>2, SMTT(30)
  <2>5. QED
    BY <1>2, <2>2, <2>3, <2>4 DEF RegularInv
<1>11. (Regular /\ setup.quiesce => ServedInv)'
  <2>1. SUFFICES ASSUME Regular, setup.quiesce PROVE ServedInv'
    BY DEF Regular
  <2>2. ServedInv
    BY <2>1 DEF LifeInv
  <2>3. \A k \in Starts, q \in Queues : worker[k][q] \notin {"held", "stale"}
    BY <1>2, <2>2 DEF ServedInv
  <2>4. \A k \in Starts, q \in Queues : worker'[k][q] \notin {"held", "stale"}
    BY <1>1, <1>2, <2>3
  <2>5. ASSUME NEW q \in Queues PROVE HeldOf(q) = {} /\ HeldOf(q)' = {}
    BY <2>3, <2>4 DEF HeldOf
  <2>6. \A q \in Queues : /\ backend'[q].next_used_idx = backend[q].next_used_idx
                          /\ backend'[q].next_avail = backend[q].next_avail
    BY <1>1 DEF configure
  <2>7. QED
    BY <1>2, <2>2, <2>4, <2>5, <2>6, ZenonT(30) DEF ServedInv
<1>12. QED
  BY <1>6, <1>7, <1>8, <1>9, <1>10, <1>11 DEF LifeInv

\* The status register: a reset, DRIVER_OK, or bits that are only kept.
LEMMA StatusKeeps ==
    ASSUME LifeInv, UNCHANGED setup, NEW val \in SUBSET Bits, DriverMayWrite(val), status_write(val)
    PROVE  LifeInv'
<1>1. ~crashed
  BY DEF status_write
<1>2. CASE val = {}
  <2>1. reset /\ ~(setup.quiesce /\ Held)
    BY <1>2 DEF status_write, DriverMayWrite
  <2>2. QED
    BY <1>1, <2>1, ResetKeeps
<1>3. CASE val # {} /\ "DRIVER_OK" \in val \ status /\ "FEATURES_OK" \notin val \ status
  <2>1. /\ UNCHANGED <<guest_features, selected_queue, queue>> /\ status' = status \union (val \ status)
        /\ driver_ok /\ starts < MaxStarts
    BY <1>3 DEF status_write, DriverMayWrite
  <2>2. "DRIVER_OK" \notin status /\ "DRIVER_OK" \in status' /\ status' \subseteq Bits
    BY <1>3, <2>1 DEF LifeInv, DeviceTypeOK
  <2>3. QED
    BY <1>1, <2>1, <2>2, DriverOkKeeps
<1>4. CASE val # {} /\ ~("DRIVER_OK" \in val \ status /\ "FEATURES_OK" \notin val \ status)
  <2>1. /\ UNCHANGED <<guest_features, selected_queue, queue>> /\ status' = status \union (val \ status)
        /\ UNCHANGED <<running, starts, backend, isr, worker, poisoned, crashed, posted>>
    BY <1>4, SMTT(30) DEF status_write
  <2>2. DeviceTypeOK'
    BY <2>1, SMTT(30) DEF LifeInv, DeviceTypeOK, Queues
  <2>3. RunningConfigured' /\ ConfigInv' /\ PanicInv' /\ (Regular => RegularInv)'
    BY <2>1 DEF LifeInv, RunningConfigured, RangeValid, ConfigInv, PanicInv, RegularInv, BackendInv, Regular, Queues
  <2>4. (Regular /\ setup.quiesce => ServedInv)'
    BY <2>1, ServedFrame DEF LifeInv, Regular
  <2>5. QED
    BY <2>2, <2>3, <2>4 DEF LifeInv
<1>5. QED
  BY <1>2, <1>3, <1>4

\* The driver publishes a request.
LEMMA PostKeeps ==
    ASSUME LifeInv, UNCHANGED setup, NEW q \in Queues, Post(q)
    PROVE  LifeInv'
<1>1. /\ posted' = [posted EXCEPT ![q] = @ + 1] /\ posted[q] < MaxPosted
      /\ UNCHANGED <<status, guest_features, selected_queue, queue, running, starts>>
      /\ UNCHANGED <<backend, isr, worker, poisoned, crashed>>
  BY DEF Post, stateVars
<1>2. Queues' = Queues /\ posted \in [Queues -> 0 .. MaxPosted] /\ MaxPosted \in Nat
  BY DeviceAssumption DEF LifeInv, DeviceTypeOK, Queues
<1>3. posted' \in [Queues -> 0 .. MaxPosted]
  BY <1>1, <1>2, SMTT(30)
<1>4. DeviceTypeOK'
  BY <1>1, <1>2, <1>3, SMTT(30) DEF LifeInv, DeviceTypeOK
<1>5. RunningConfigured' /\ ConfigInv' /\ PanicInv'
  BY <1>1, <1>2 DEF LifeInv, RunningConfigured, RangeValid, ConfigInv, PanicInv
<1>6. (Regular => RegularInv)'
  <2>1. SUFFICES ASSUME Regular PROVE RegularInv'
    BY SMTT(30) DEF Regular
  <2>2. ASSUME NEW p \in Queues PROVE BackendInv(p)'
    <3>1. posted[p] <= posted'[p] /\ posted[p] \in Nat /\ posted'[p] \in Nat
      BY <1>1, <1>2
    <3>2. backend[p].cached_avail_idx \in Nat
      BY DEF LifeInv, DeviceTypeOK
    <3>3. BackendInv(p)
      BY <2>1 DEF LifeInv, RegularInv
    <3>4. QED
      BY <1>1, <3>1, <3>2, <3>3 DEF BackendInv
  <2>3. QED
    BY <1>1, <1>2, <2>1, <2>2 DEF LifeInv, RegularInv
<1>7. (Regular /\ setup.quiesce => ServedInv)'
  BY <1>1, ServedFrame, SMTT(30) DEF LifeInv, Regular
<1>8. QED
  BY <1>4, <1>5, <1>6, <1>7 DEF LifeInv

-----------------------------------------------------------------------------
(* The workers *)

\* What a step of a worker leaves alone.
LEMMA WorkerFrame ==
    ASSUME LifeInv, UNCHANGED <<setup, stateVars, crashed, posted>>,
           backend' \in [Queues -> BackendType],
           \A p \in Queues : backend'[p].size = backend[p].size /\ backend'[p].area = backend[p].area,
           worker' \in [Starts -> [Queues -> WorkerStates]], isr' \in BOOLEAN,
           poisoned \subseteq poisoned', poisoned' \subseteq Queues,
           Regular => RegularInv', Regular /\ setup.quiesce => ServedInv'
    PROVE  LifeInv'
<1>1. /\ UNCHANGED <<status, guest_features, selected_queue, queue, running, starts, crashed, posted>>
      /\ Queues' = Queues /\ setup' = setup
  BY SMTT(30) DEF stateVars, Queues
<1>2. DeviceTypeOK'
  BY <1>1, SMTT(30) DEF LifeInv, DeviceTypeOK, BackendType, WorkerStates
<1>3. RunningConfigured' /\ ConfigInv' /\ PanicInv'
  BY <1>1 DEF LifeInv, RunningConfigured, RangeValid, ConfigInv, PanicInv
<1>4. QED
  BY <1>1, <1>2, <1>3 DEF LifeInv, Regular

\* The types of what a worker looks at.
LEMMA WorkerType ==
    ASSUME LifeInv, NEW q \in Queues
    PROVE  /\ backend \in [Queues -> BackendType] /\ worker \in [Starts -> [Queues -> WorkerStates]]
           /\ backend[q] \in BackendType /\ posted[q] \in Nat /\ setup.low_word \in Nat
           /\ backend[q].next_avail \in Nat /\ backend[q].cached_avail_idx \in Nat
           /\ backend[q].next_used_idx \in Nat /\ backend[q].size \in Nat
           /\ AvailIdx(q) \in Nat /\ CachedIdx(q) \in Nat
           /\ isr \in BOOLEAN /\ poisoned \subseteq Queues /\ MaxPosted \in Nat
<1>1. /\ backend \in [Queues -> BackendType] /\ worker \in [Starts -> [Queues -> WorkerStates]]
      /\ posted \in [Queues -> 0 .. MaxPosted]
      /\ isr \in BOOLEAN /\ poisoned \subseteq Queues /\ MaxPosted \in Nat /\ setup.low_word \in Nat
  BY SetupType, DeviceAssumption, SMTT(30) DEF LifeInv, DeviceTypeOK, BackendType, WorkerStates
<1>2. /\ backend[q].next_avail \in Nat /\ backend[q].cached_avail_idx \in Nat
      /\ backend[q].next_used_idx \in Nat /\ backend[q].size \in Nat /\ posted[q] \in Nat
  BY <1>1 DEF BackendType
<1>3. AvailIdx(q) \in Nat /\ CachedIdx(q) \in Nat
  BY <1>1, <1>2, SMTT(30) DEF AvailIdx, CachedIdx
<1>4. QED
  BY <1>1, <1>2, <1>3, SMTT(30)

\* What is_empty reads: an index between what has been taken and what was published;
\* while the queue is not configured there is nothing to take.
LEMMA CachedInOrder ==
    ASSUME LifeInv, Regular, NEW q \in Queues
    PROVE  /\ backend[q].next_avail <= CachedIdx(q) /\ CachedIdx(q) <= posted[q]
           /\ backend[q].size = 0 => CachedIdx(q) = 0 /\ backend[q].next_avail = 0
<1>1. BackendInv(q) /\ setup.low_word = 0
  BY DEF LifeInv, RegularInv, Regular
<1>2. QED
  BY <1>1, WorkerType, SMTT(30) DEF BackendInv, CachedIdx, AvailIdx

\* The workers are finitely many.
LEMMA HeldFinite ==
    ASSUME NEW q
    PROVE  IsFiniteSet(HeldOf(q))
<1>1. IsFiniteSet(Starts)
  BY FS_Interval, DeviceAssumption DEF Starts
<1>2. QED
  BY <1>1, FS_Subset DEF HeldOf

\* wait_ready reloads the cached index.
LEMMA WaitKeeps ==
    ASSUME LifeInv, UNCHANGED setup, NEW k \in Starts, NEW q \in Queues, wait_ready(k, q)
    PROVE  LifeInv'
<1>1. /\ backend' = [backend EXCEPT ![q].cached_avail_idx = CachedIdx(q)]
      /\ UNCHANGED <<stateVars, isr, worker, poisoned, crashed, posted>> /\ queue' = queue
  BY DEF wait_ready, stateVars
<1>2. Queues' = Queues
  BY DEF Queues
<1>3. backend' \in [Queues -> BackendType]
  BY <1>1, WorkerType, ZenonT(30) DEF BackendType
<1>4. \A p \in Queues : /\ backend'[p].size = backend[p].size /\ backend'[p].area = backend[p].area
                        /\ backend'[p].next_avail = backend[p].next_avail
                        /\ backend'[p].next_used_idx = backend[p].next_used_idx
                        /\ backend'[p].cached_avail_idx =
                              IF p = q THEN CachedIdx(q) ELSE backend[p].cached_avail_idx
  BY <1>1, WorkerType DEF BackendType
<1>5. Regular => RegularInv'
  <2>1. SUFFICES ASSUME Regular PROVE RegularInv'
    OBVIOUS
  <2>2. ASSUME NEW p \in Queues PROVE BackendInv(p)'
    <3>1. BackendInv(p)
      BY <2>1 DEF LifeInv, RegularInv
    <3>2. QED
      BY <1>1, <1>4, <2>1, <3>1, CachedInOrder DEF BackendInv
  <2>3. QED
    BY <1>1, <1>2, <2>1, <2>2 DEF LifeInv, RegularInv
<1>6. Regular /\ setup.quiesce => ServedInv'
  BY <1>1, <1>2, <1>4 DEF LifeInv, ServedInv, HeldOf
<1>7. QED
  BY <1>1, <1>3, <1>4, <1>5, <1>6, WorkerFrame, WorkerType

\* A worker that panics poisons the backend; a regular setup never lets it.
LEMMA WorkerPanicKeeps ==
    ASSUME LifeInv, UNCHANGED setup, NEW k \in Starts, NEW q \in Queues, WorkerPanics(k, q), ~Regular
    PROVE  LifeInv'
<1>1. /\ worker' = [worker EXCEPT ![k][q] = "panicked"] /\ poisoned' = poisoned \union {q}
      /\ UNCHANGED <<stateVars, backend, isr, crashed, posted>>
  BY DEF WorkerPanics
<1>2. worker' \in [Starts -> [Queues -> WorkerStates]]
  BY <1>1, WorkerType DEF WorkerStates
<1>3. poisoned \subseteq poisoned' /\ poisoned' \subseteq Queues
  BY <1>1, WorkerType
<1>4. QED
  BY <1>1, <1>2, <1>3, WorkerFrame, WorkerType

\* A worker takes the next entry of the avail ring.
LEMMA PopKeeps ==
    ASSUME LifeInv, UNCHANGED setup, NEW k \in Starts, NEW q \in Queues, pop_avail_entry(k, q)
    PROVE  LifeInv'
<1>1. CASE /\ \/ q \in poisoned
              \/ ~is_empty(q) /\ backend[q].size = 0
              \/ ~is_empty(q) /\ backend[q].next_avail >= posted[q]
           /\ WorkerPanics(k, q)
  <2>1. ASSUME Regular PROVE FALSE
    <3>1. q \notin poisoned
      BY <2>1, SMTT(30) DEF LifeInv, RegularInv
    <3>2. ~is_empty(q) => backend[q].size # 0 /\ backend[q].next_avail < posted[q]
      <4>1. /\ backend[q].next_avail <= CachedIdx(q) /\ CachedIdx(q) <= posted[q]
            /\ backend[q].size = 0 => CachedIdx(q) = 0 /\ backend[q].next_avail = 0
        BY <2>1, CachedInOrder
      <4>2. backend[q].next_avail \in Nat /\ CachedIdx(q) \in Nat /\ posted[q] \in Nat
        BY WorkerType
      <4>3. QED
        BY <4>1, <4>2 DEF is_empty
    <3>3. QED
      BY <1>1, <3>1, <3>2, WorkerType
  <2>2. QED
    BY <1>1, <2>1, WorkerPanicKeeps
<1>2. CASE /\ q \notin poisoned /\ ~is_empty(q) /\ backend[q].size > 0
           /\ backend[q].next_avail <= MaxPosted
           /\ backend' = [backend EXCEPT ![q].next_avail = @ + 1,
                                         ![q].cached_avail_idx = CachedIdx(q)]
           /\ worker' = [worker EXCEPT ![k][q] = "held"]
           /\ UNCHANGED <<stateVars, isr, poisoned, crashed, posted>>
  <2>1. /\ Queues' = Queues /\ queue' = queue /\ posted' = posted /\ worker[k][q] = "idle"
        /\ poisoned' = poisoned /\ crashed' = crashed /\ backend[q].size > 0
    BY <1>2 DEF Queues, stateVars, pop_avail_entry
  <2>2. backend[q].next_avail + 1 \in 0 .. (MaxPosted + 1)
    BY <1>2, WorkerType
  <2>3. \A p \in Queues :
            /\ backend'[p].size = backend[p].size /\ backend'[p].area = backend[p].area
            /\ backend'[p].next_used_idx = backend[p].next_used_idx
            /\ backend'[p].next_avail = IF p = q THEN backend[q].next_avail + 1 ELSE backend[p].next_avail
            /\ backend'[p].cached_avail_idx = IF p = q THEN CachedIdx(q) ELSE backend[p].cached_avail_idx
    <3>1. backend \in [Queues -> BackendType]
      BY WorkerType
    <3>2. \A p \in Queues : p # q => backend'[p] = backend[p]
      BY <1>2, <3>1
    <3>3. backend'[q] = [[backend[q] EXCEPT !.next_avail = @ + 1] EXCEPT !.cached_avail_idx = CachedIdx(q)]
      BY <1>2, <3>1 DEF BackendType
    <3>4. QED
      BY <3>1, <3>2, <3>3, ZenonT(30) DEF BackendType
  <2>4. backend' \in [Queues -> BackendType]
    <3>1. /\ backend \in [Queues -> BackendType] /\ CachedIdx(q) \in Nat
      BY WorkerType
    <3>2. [backend EXCEPT ![q].next_avail = @ + 1] \in [Queues -> BackendType]
      BY <2>2, <3>1, SMTT(30) DEF BackendType
    <3>3. backend' = [[backend EXCEPT ![q].next_avail = @ + 1] EXCEPT ![q].cached_avail_idx = CachedIdx(q)]
      BY <1>2
    <3>4. QED
      BY <3>1, <3>2, <3>3, ZenonT(30) DEF BackendType
  <2>5. worker' \in [Starts -> [Queues -> WorkerStates]]
    BY <1>2, WorkerType DEF WorkerStates
  <2>6. Regular => RegularInv'
    <3>1. SUFFICES ASSUME Regular PROVE RegularInv'
      OBVIOUS
    <3>2. backend[q].next_avail + 1 <= CachedIdx(q) /\ CachedIdx(q) <= posted[q]
      <4>1. backend[q].next_avail <= CachedIdx(q) /\ CachedIdx(q) <= posted[q]
        BY <3>1, CachedInOrder
      <4>2. backend[q].next_avail \in Nat /\ CachedIdx(q) \in Nat /\ posted[q] \in Nat
        BY WorkerType
      <4>3. CachedIdx(q) # backend[q].next_avail
        BY <1>2, SMTT(30) DEF is_empty
      <4>4. QED
        BY <4>1, <4>2, <4>3, SMTT(30)
    <3>3. ASSUME NEW p \in Queues PROVE BackendInv(p)'
      <4>1. BackendInv(p)
        BY <3>1 DEF LifeInv, RegularInv
      <4>2. QED
        BY <2>1, <2>3, <3>2, <4>1, SMTT(30) DEF BackendInv
    <3>4. QED
      BY <2>1, <3>1, <3>3, SMTT(30) DEF LifeInv, RegularInv
  <2>7. Regular /\ setup.quiesce => ServedInv'
    <3>1. SUFFICES ASSUME Regular, setup.quiesce PROVE ServedInv'
      OBVIOUS
    <3>2. ServedInv
      BY <3>1 DEF LifeInv
    <3>3. \A j \in Starts, p \in Queues :
              worker'[j][p] = IF j = k /\ p = q THEN "held" ELSE worker[j][p]
      BY <1>2, WorkerType, SMTT(30)
    <3>4. HeldOf(q)' = HeldOf(q) \cup {k} /\ k \notin HeldOf(q)
      BY <2>1, <3>3 DEF HeldOf
    <3>5. Cardinality(HeldOf(q)') = Cardinality(HeldOf(q)) + 1 /\ Cardinality(HeldOf(q)) \in Nat
      BY <3>4, HeldFinite, FS_AddElement, FS_CardinalityType, SMTT(30)
    <3>6. ASSUME NEW p \in Queues
          PROVE  backend'[p].next_used_idx + Cardinality(HeldOf(p)') = backend'[p].next_avail
      <4>1. CASE p = q
        <5>1. backend[q].next_used_idx + Cardinality(HeldOf(q)) = backend[q].next_avail
          BY <3>2 DEF ServedInv
        <5>2. backend[q].next_used_idx \in Nat
          BY WorkerType, SMTT(30)
        <5>3. QED
          BY <2>3, <3>5, <4>1, <5>1, <5>2, SMTT(30)
      <4>2. CASE p # q
        <5>1. HeldOf(p)' = HeldOf(p)
          BY <3>3, <4>2, SMTT(30) DEF HeldOf
        <5>2. QED
          BY <2>3, <3>2, <4>2, <5>1 DEF ServedInv
      <4>3. QED
        BY <4>1, <4>2, SMTT(30)
    <3>7. \A j \in Starts, p \in Queues :
              worker'[j][p] # "stale" /\ (worker'[j][p] = "held" => backend'[p].size > 0)
      BY <2>1, <2>3, <3>2, <3>3, SMTT(30) DEF ServedInv
    <3>8. QED
      BY <2>1, <3>6, <3>7, Zenon DEF ServedInv
  <2>8. \A p \in Queues : backend'[p].size = backend[p].size /\ backend'[p].area = backend[p].area
    BY <2>3
  <2>9. QED
    BY <1>2, <2>4, <2>5, <2>6, <2>7, <2>8, WorkerFrame, WorkerType
<1>3. QED
  BY <1>1, <1>2 DEF pop_avail_entry

\* A worker returns its chain, or drops it when the queue has been reset.
LEMMA PutKeeps ==
    ASSUME LifeInv, UNCHANGED setup, NEW k \in Starts, NEW q \in Queues, put_used(k, q)
    PROVE  LifeInv'
<1>1. CASE q \in poisoned /\ WorkerPanics(k, q)
  <2>1. ~Regular
    BY <1>1 DEF LifeInv, RegularInv
  <2>2. QED
    BY <1>1, <2>1, WorkerPanicKeeps
<1>2. CASE q \notin poisoned
  <2>1. /\ worker' = [worker EXCEPT ![k][q] = "idle"] /\ worker[k][q] \in {"held", "stale"}
        /\ isr' \in {isr, TRUE} /\ UNCHANGED <<stateVars, poisoned, crashed, posted>>
        /\ Queues' = Queues /\ queue' = queue
    BY <1>2, Zenon DEF Queues, stateVars, put_used
  <2>2. \/ /\ backend[q].size > 0
           /\ backend' = [backend EXCEPT ![q].next_used_idx = @ + 1]
        \/ /\ backend[q].size = 0 \/ worker[k][q] = "stale"
           /\ backend' = backend
    BY <1>2, Zenon DEF put_used
  <2>3. backend' \in [Queues -> BackendType]
    <3>1. backend \in [Queues -> BackendType] /\ backend[q].next_used_idx + 1 \in Nat
      BY WorkerType
    <3>2. QED
      BY <2>2, <3>1, ZenonT(30) DEF BackendType
  <2>4. \A p \in Queues : /\ backend'[p].size = backend[p].size /\ backend'[p].area = backend[p].area
                          /\ backend'[p].next_avail = backend[p].next_avail
                          /\ backend'[p].cached_avail_idx = backend[p].cached_avail_idx
                          /\ p # q => backend'[p].next_used_idx = backend[p].next_used_idx
    BY <2>2, WorkerType DEF BackendType
  <2>5. worker' \in [Starts -> [Queues -> WorkerStates]]
    BY <2>1, WorkerType DEF WorkerStates
  <2>6. Regular => RegularInv'
    BY <2>1, <2>4 DEF LifeInv, RegularInv, BackendInv
  <2>7. Regular /\ setup.quiesce => ServedInv'
    <3>1. SUFFICES ASSUME Regular, setup.quiesce PROVE ServedInv'
      OBVIOUS
    <3>2. ServedInv
      BY <3>1 DEF LifeInv
    <3>3. \A j \in Starts, p \in Queues :
              worker'[j][p] = IF j = k /\ p = q THEN "idle" ELSE worker[j][p]
      BY <2>1, WorkerType
    <3>4. worker[k][q] = "held" /\ backend[q].size > 0
      BY <2>1, <3>2 DEF ServedInv
    <3>5. backend'[q].next_used_idx = backend[q].next_used_idx + 1
      BY <2>2, <3>4, WorkerType, SMTT(30) DEF BackendType
    <3>6. HeldOf(q)' = HeldOf(q) \ {k} /\ k \in HeldOf(q)
      BY <3>3, <3>4 DEF HeldOf
    <3>7. Cardinality(HeldOf(q)') = Cardinality(HeldOf(q)) - 1 /\ Cardinality(HeldOf(q)) \in Nat
      BY <3>6, HeldFinite, FS_RemoveElement, FS_CardinalityType, ZenonT(30)
    <3>8. ASSUME NEW p \in Queues
          PROVE  backend'[p].next_used_idx + Cardinality(HeldOf(p)') = backend'[p].next_avail
      <4>1. CASE p = q
        <5>1. backend[q].next_used_idx + Cardinality(HeldOf(q)) = backend[q].next_avail
          BY <3>2 DEF ServedInv
        <5>2. backend'[q].next_avail = backend[q].next_avail
          BY <2>4, SMTT(30)
        <5>3. backend[q].next_used_idx \in Nat
          BY WorkerType
        <5>4. backend'[q].next_used_idx + Cardinality(HeldOf(q)') = backend'[q].next_avail
          BY <3>5, <3>7, <5>1, <5>2, <5>3, SMTT(30)
        <5>5. QED
          BY <4>1, <5>4
      <4>2. CASE p # q
        <5>1. HeldOf(p)' = HeldOf(p)
          BY <3>3, <4>2, SMTT(30) DEF HeldOf
        <5>2. QED
          BY <2>4, <3>2, <4>2, <5>1, SMTT(30) DEF ServedInv
      <4>3. QED
        BY <4>1, <4>2
    <3>9. \A j \in Starts, p \in Queues :
              worker'[j][p] # "stale" /\ (worker'[j][p] = "held" => backend'[p].size > 0)
      BY <2>4, <3>2, <3>3, SMTT(30) DEF ServedInv
    <3>10. QED
      BY <2>1, <3>8, <3>9, SMTT(30) DEF ServedInv
  <2>8. isr' \in BOOLEAN
    BY <2>1, WorkerType, Zenon
  <2>9. QED
    BY <2>1, <2>3, <2>4, <2>5, <2>6, <2>7, <2>8, WorkerFrame, WorkerType
<1>3. QED
  BY <1>1, <1>2, Zenon DEF put_used

\* Every step of the driver and of the workers keeps the invariant.
LEMMA LifeKeeps ==
    ASSUME LifeInv, [DeviceNext]_deviceVars
    PROVE  LifeInv'
<1>1. CASE UNCHANGED deviceVars
  <2>1. DeviceTypeOK' /\ RunningConfigured' /\ ConfigInv' /\ PanicInv' /\ (Regular => RegularInv)'
    BY <1>1, ZenonT(30) DEF deviceVars, stateVars, LifeInv, DeviceTypeOK, RunningConfigured, RangeValid, ConfigInv,
                PanicInv, RegularInv, BackendInv, Regular, Queues
  <2>2. (Regular /\ setup.quiesce => ServedInv)'
    BY <1>1, ServedFrame DEF deviceVars, stateVars, LifeInv, Regular
  <2>3. QED
    BY <2>1, <2>2 DEF LifeInv
<1>2. CASE DeviceNext
  <2>1. UNCHANGED setup
    BY <1>2, SMTT(30) DEF DeviceNext
  <2>2. CASE Registers
    BY <2>1, <2>2, QueueRegistersKeep, OtherRegistersKeep, StatusKeeps DEF Registers
  <2>3. ASSUME NEW q \in Queues, Post(q) PROVE LifeInv'
    BY <2>1, <2>3, PostKeeps
  <2>4. ASSUME NEW k \in Starts, NEW q \in Queues, Worker(k, q) PROVE LifeInv'
    BY <2>1, <2>4, WaitKeeps, PopKeeps, PutKeeps DEF Worker
  <2>5. QED
    BY <1>2, <2>2, <2>3, <2>4 DEF DeviceNext
<1>3. QED
  BY <1>1, <1>2

\* The invariant holds throughout the life of the device.
THEOREM DeviceInvariant == DeviceSpec => []LifeInv
<1>1. LifeInv /\ [DeviceNext]_deviceVars => LifeInv'
  BY LifeKeeps
<1>2. QED
  BY <1>1, LifeStarts, PTL DEF DeviceSpec

\* A running device works on the queues that its registers show and, with a driver that
\* lets requests finish before a reset, on fresh rings, whatever workers earlier starts
\* left behind (status_write, configure_queues, put_used).
THEOREM DeviceStartsClean == DeviceSpec => []StartsClean
<1>1. LifeInv => StartsClean
  <2>1. SUFFICES ASSUME LifeInv PROVE Regular /\ setup.quiesce => FreshRings
    BY DEF LifeInv, StartsClean
  <2>2. SUFFICES ASSUME Regular, setup.quiesce PROVE FreshRings
    BY SMTT(30)
  <2>3. ASSUME NEW q \in Queues
        PROVE  /\ backend[q].next_avail <= posted[q]
               /\ backend[q].next_used_idx + Cardinality(HeldOf(q)) = backend[q].next_avail
    <3>1. BackendInv(q) /\ ServedInv
      BY <2>1, <2>2, SMTT(30) DEF LifeInv, RegularInv
    <3>2. backend[q].next_avail \in Nat /\ backend[q].cached_avail_idx \in Nat /\ posted[q] \in Nat
      BY <2>1, WorkerType, SMTT(30)
    <3>3. backend[q].next_avail <= posted[q]
      BY <3>1, <3>2 DEF BackendInv
    <3>4. QED
      BY <3>1, <3>3 DEF ServedInv
  <2>4. QED
    BY <2>3 DEF FreshRings, HeldOf
<1>2. QED
  BY <1>1, DeviceInvariant, PTL

\* With valid queue sizes and clear memory at address 2 no worker and no vCPU thread of
\* a device that can be started again panics (status_write, pop_avail_entry, put_used).
THEOREM DeviceNeverPanics == DeviceSpec => []NoPanics
<1>1. LifeInv => NoPanics
  BY SMTT(30) DEF LifeInv, PanicInv, RegularInv, Regular, NoPanics
<1>2. QED
  BY <1>1, DeviceInvariant, PTL

\* A register write changes no enabled queue.
LEMMA FrozenWhileEnabled ==
    ASSUME NEW vq, with_current(vq), DeviceTypeOK, NEW q \in Queues
    PROVE  /\ queue[q].enabled => queue'[q] = queue[q]
           /\ backend' = backend
BY Zenon DEF with_current, current_queue, DeviceTypeOK

\* After a reset nothing reaches a used ring before the next DRIVER_OK, and enabled
\* queues stay as they are until a reset (put_used, with_current).
THEOREM DeviceQuietAfterReset == DeviceSpec => QuietAfterReset
<1>1. ASSUME LifeInv, DeviceNext PROVE QuietStep
  <2> DEFINE Quiet(q) == backend'[q].next_used_idx \in {0, backend[q].next_used_idx}
             Frozen(q) == queue[q].enabled => queue'[q] \in {queue[q], ResetQueue}
  <2>1. SUFFICES ASSUME NEW q \in Queues
                 PROVE  /\ "DRIVER_OK" \notin status => Quiet(q)
                        /\ Frozen(q)
    BY DEF QuietStep
  <2>2. DeviceTypeOK
    BY <1>1 DEF LifeInv
  <2>3. ASSUME NEW vq, with_current(vq) PROVE Quiet(q) /\ Frozen(q)
    BY <2>2, <2>3, FrozenWhileEnabled
  <2>4. CASE \/ \E sz \in setup.sizes : set_size(sz)
             \/ \E n \in Areas, half \in {"hi", "lo"}, val \in Words : set_area(n, half, val)
             \/ DriverMayEnable /\ enable_current
    BY <2>3, <2>4, ZenonT(30) DEF set_size, set_area, enable_current
  <2>5. CASE \/ \E i \in 0 .. setup.num_queues : select(i)
             \/ \E f \in setup.features : write_guest_word(f)
             \/ isr_read
             \/ \E p \in Queues : Post(p)
    BY <2>5 DEF select, write_guest_word, isr_read, Post, stateVars
  <2>6. ASSUME NEW val \in SUBSET Bits, status_write(val) PROVE Quiet(q) /\ Frozen(q)
    <3>1. CASE reset
      BY <3>1, SMTT(30) DEF reset, ResetBackend
    <3>2. CASE queue' = queue /\ driver_ok
      BY <3>2, Zenon DEF driver_ok, configure
    <3>3. CASE UNCHANGED <<queue, backend>>
      BY <3>3, SMTT(30)
    <3>4. QED
      BY <2>6, <3>1, <3>2, <3>3 DEF status_write
  <2>7. ASSUME NEW k \in Starts, NEW p \in Queues, Worker(k, p)
        PROVE  Frozen(q) /\ ("DRIVER_OK" \notin status => Quiet(q))
    <3>1. queue' = queue
      BY <2>7, Zenon DEF Worker, wait_ready, pop_avail_entry, put_used, WorkerPanics, stateVars
    <3>2. backend \in [Queues -> BackendType]
      BY <1>1, WorkerType
    <3>3. CASE wait_ready(k, p)
      <4>1. backend' = [backend EXCEPT ![p].cached_avail_idx = CachedIdx(p)]
        BY <3>3 DEF wait_ready
      <4>2. backend'[q].next_used_idx = backend[q].next_used_idx
        BY <3>2, <4>1 DEF BackendType
      <4>3. QED
        BY <3>1, <4>2
    <3>4. CASE pop_avail_entry(k, p)
      <4>1. \/ backend' = backend
            \/ backend' = [[backend EXCEPT ![p].next_avail = @ + 1] EXCEPT ![p].cached_avail_idx = CachedIdx(p)]
        BY <3>4 DEF pop_avail_entry, WorkerPanics
      <4>2. backend'[q].next_used_idx = backend[q].next_used_idx
        BY <3>2, <4>1 DEF BackendType
      <4>3. QED
        BY <3>1, <4>2
    <3>5. CASE put_used(k, p)
      <4>1. ASSUME "DRIVER_OK" \notin status PROVE backend' = backend
        <5>1. ~(backend[p].size > 0)
          BY <1>1, <4>1 DEF LifeInv, ConfigInv
        <5>2. QED
          BY <3>5, <5>1, ZenonT(30) DEF put_used, WorkerPanics
      <4>2. QED
        BY <3>1, <4>1
    <3>6. QED
      BY <2>7, <3>1, <3>3, <3>4, <3>5, SMTT(30) DEF Worker
  <2>8. QED
    BY <1>1, <2>4, <2>5, <2>6, <2>7, ZenonT(30) DEF DeviceNext, Registers
<1>2. LifeInv /\ [DeviceNext]_deviceVars => [QuietStep]_deviceVars
  BY <1>1
<1>3. QED
  BY <1>2, DeviceInvariant, PTL DEF DeviceSpec, QuietAfterReset
=============================================================================
