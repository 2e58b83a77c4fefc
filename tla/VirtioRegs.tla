----------------------------- MODULE VirtioRegs -----------------------------
(***************************************************************************)
(* The memory-mapped registers of a virtio device as the driver reaches    *)
(* them: the structures that the PCI capabilities announce, the decoding   *)
(* of an access by offset and length (src/io/virtio/device.rs), the        *)
(* registers behind it (features.rs, queues.rs), the doorbells and the     *)
(* interrupt line, which the workers raise while the driver reads ISR.     *)
(* What a start of the device leads to is modelled by VirtioDevice.        *)
(*                                                                         *)
(* A 64-bit value is the function of its halves.                           *)
(***************************************************************************)
EXTENDS Integers, FiniteSets

CONSTANTS
    num_queues,
    MaxSize,     \* queue_sizes()
    ValidSizes,  \* values of queue_size that are taken
    Longs,       \* values the driver writes to a 32-bit register
    ConfigSize,  \* config_size() of the device
    Offsets,     \* offsets in the BAR that the driver accesses
    Notifiers,   \* the device's threads that return chains
    MaxAccesses  \* bound on the register writes since the last reset and the
                 \* interrupts raised, together

ASSUME RegsAssumption ==
    /\ num_queues \in Nat /\ MaxSize \in ValidSizes /\ ValidSizes \subseteq Nat
    /\ Longs \subseteq Nat /\ ConfigSize \in Nat /\ Offsets \subseteq Nat /\ MaxAccesses \in Nat

RegQueues == 0 .. (num_queues - 1)
Lengths == {1, 2, 4, 8}
Halves == {"lo", "hi"}
AreaRegs == {"desc", "avail", "used"}

VARIABLES
    regs,      \* VirtioDeviceState: status, the feature and the queue registers
    config,    \* DeviceConfigArea::buffer
    isr_bits,       \* InterruptLine::isr: events not yet read
    irq,       \* the irqfd has been written and the driver not yet interrupted
    handling,  \* the driver's handler runs and has yet to read ISR
    notifier,  \* where each worker is in notify_queue
    accepted,  \* history: the last value accepted for each queue and each feature word
    astray,    \* history: an access went elsewhere than the capabilities say
    rung,      \* the last doorbell: the queue it was for and the ones woken
    writes, events

regsVars == <<regs, config, isr_bits, irq, handling, notifier, accepted, astray, rung, writes, events>>

Zero == [half \in Halves |-> 0]
FreshQueue == [enabled |-> FALSE, size |-> MaxSize, area |-> [a \in AreaRegs |-> Zero]]
\* FeatureBits::new_default: VIRTIO_F_VERSION_1 is bit 0 of the high word.
DeviceBits == [half \in Halves |-> IF half = "lo" THEN 2 ELSE 1]
InitialConfig == [i \in 0 .. (ConfigSize - 1) |-> i]

RegsInit ==
    /\ regs = [status |-> {}, device_selected |-> 0, guest_selected |-> 0, guest_bits |-> Zero,
               selected_queue |-> 0, queue |-> [q \in RegQueues |-> FreshQueue]]
    /\ config = InitialConfig
    /\ isr_bits = FALSE /\ irq = FALSE /\ handling = FALSE
    /\ notifier = [w \in Notifiers |-> "idle"]
    /\ accepted = [queue |-> regs.queue, bits |-> Zero]
    /\ astray = FALSE /\ rung = [for |-> 0, woken |-> {0}]
    /\ writes = 0 /\ events = 0

-----------------------------------------------------------------------------
(* The structures in the BAR *)

\* add_pci_capabilities
Capabilities ==
    {[type |-> "common", offset |-> 0, len |-> 56, extra |-> 0],
     [type |-> "isr", offset |-> 56, len |-> 4, extra |-> 0],
     [type |-> "notify", offset |-> 1024, len |-> 1024, extra |-> 4]}
    \cup (IF ConfigSize > 0 THEN {[type |-> "device", offset |-> 2048, len |-> ConfigSize, extra |-> 0]} ELSE {})

\* AddressRange::contains
contains(base, size, offset, len) == offset >= base /\ offset + len <= base + size

is_common_cfg_range(offset, len) == contains(0, 56, offset, len)
is_device_config_range(offset, len) == ConfigSize > 0 /\ contains(2048, ConfigSize, offset, len)

\* The structure that a read or a write of the BAR reaches.
ReadTarget(offset, len) ==
    IF is_common_cfg_range(offset, len) THEN "common"
    ELSE IF offset = 56 /\ len = 1 THEN "isr"
    ELSE IF is_device_config_range(offset, len) THEN "device" ELSE "none"
WriteTarget(offset, len) ==
    IF is_common_cfg_range(offset, len) THEN "common"
    ELSE IF is_device_config_range(offset, len) THEN "device" ELSE "none"

\* What the driver that follows the capabilities expects to reach.
Announced(offset, len) == {c.type : c \in {d \in Capabilities : contains(d.offset, d.len, offset, len)}}

-----------------------------------------------------------------------------
(* The registers *)

\* set_hi32, set_lo32
SetHalf(v, half, w) == [v EXCEPT ![half] = w]

\* Mutant: the other half is cleared.
queue_set_area_clears(a, half, w) == [regs.queue[regs.selected_queue] EXCEPT !.area[a] = SetHalf(Zero, half, w)]
queue_set_area(a, half, w) == [regs.queue[regs.selected_queue] EXCEPT !.area[a] = SetHalf(@, half, w)]

\* The offsets of the address registers of a queue.
AreaAt(offset) == [area |-> IF offset < 40 THEN "desc" ELSE IF offset < 48 THEN "avail" ELSE "used",
                   half |-> IF offset % 8 = 0 THEN "lo" ELSE "hi"]
AreaOffsets == {32, 36, 40, 44, 48, 52}

\* The selected queue, if there is one and it is not enabled, becomes vq.
with_selected(vq) ==
    IF regs.selected_queue \in RegQueues /\ ~regs.queue[regs.selected_queue].enabled
    THEN [regs EXCEPT !.queue[regs.selected_queue] = vq] ELSE regs

\* set_size ignores a value that is no valid size.
queue_set_size(n) ==
    IF n \in ValidSizes THEN with_selected([regs.queue[regs.selected_queue] EXCEPT !.size = n]) ELSE regs
queue_enable == with_selected([regs.queue[regs.selected_queue] EXCEPT !.enabled = TRUE])

\* A selector above 1 selects nothing.
write_feature_word(w) ==
    CASE regs.guest_selected = 0 -> [regs EXCEPT !.guest_bits["lo"] = w]
      [] regs.guest_selected = 1 -> [regs EXCEPT !.guest_bits["hi"] = w]
      [] OTHER -> regs

WordOf(bits, selected) == CASE selected = 0 -> bits["lo"] [] selected = 1 -> bits["hi"] [] OTHER -> 0

\* The registers after the reset that a status of 0 asks for: all but
\* device_feature_select.
reset_regs == [status |-> {}, device_selected |-> regs.device_selected, guest_selected |-> 0, guest_bits |-> Zero,
               selected_queue |-> 0, queue |-> [q \in RegQueues |-> FreshQueue]]

\* common_config_write of a value of len bytes.  A status written here is one bit;
\* a status of 0 is DriverReset.
common_config_write(offset, len, n) ==
    CASE len = 1 /\ offset = 20 -> [regs EXCEPT !.status = @ \cup {n}]
      [] len = 2 /\ offset = 22 -> [regs EXCEPT !.selected_queue = n]
      [] len = 2 /\ offset = 24 -> queue_set_size(n)
      [] len = 2 /\ offset = 28 -> queue_enable
      [] len = 4 /\ offset = 0 -> [regs EXCEPT !.device_selected = n]
      [] len = 4 /\ offset = 8 -> [regs EXCEPT !.guest_selected = n]
      [] len = 4 /\ offset = 12 -> write_feature_word(n)
      [] len = 4 /\ offset \in AreaOffsets ->
            IF regs.selected_queue \in RegQueues
            THEN with_selected(queue_set_area(AreaAt(offset).area, AreaAt(offset).half, n)) ELSE regs
      [] OTHER -> regs

\* common_config_read in state s, for a read as wide as the register.
common_config_read(s, offset) ==
    LET exists == s.selected_queue \in RegQueues
        current == s.queue[s.selected_queue]
    IN  CASE offset = 0 -> s.device_selected
          [] offset = 4 -> WordOf(DeviceBits, s.device_selected)
          [] offset = 8 -> s.guest_selected
          [] offset = 12 -> WordOf(s.guest_bits, s.guest_selected)
          [] offset = 18 -> num_queues
          [] offset \in {22, 30} -> s.selected_queue
          [] offset = 24 -> IF exists THEN current.size ELSE 0
          [] offset = 28 -> IF exists /\ current.enabled THEN 1 ELSE 0
          [] offset \in AreaOffsets ->
                IF exists THEN current.area[AreaAt(offset).area][AreaAt(offset).half] ELSE 0
          [] OTHER -> 0

\* DeviceConfigWriteFilter::is_writeable: no device calls set_writeable, so there is no range.
is_writeable(offset, len) ==
    offset + len <= ConfigSize /\ \E r \in {} : offset \in r /\ offset + len - 1 \in r

write_config(offset, len, n) ==
    IF is_writeable(offset, len)
    THEN [i \in DOMAIN config |-> IF i \in offset .. (offset + len - 1) THEN n ELSE config[i]]
    ELSE config

-----------------------------------------------------------------------------
(* The driver *)

\* What the driver may count on after its write: the selected queue takes a value of
\* the register's width until it is enabled, and a feature word goes where
\* guest_feature_select says.
Accept(offset, len, n) ==
    LET q == regs.selected_queue
        open == q \in RegQueues /\ ~accepted.queue[q].enabled
    IN  CASE open /\ len = 4 /\ offset \in AreaOffsets ->
                 [accepted EXCEPT !.queue[q].area[AreaAt(offset).area][AreaAt(offset).half] = n]
          [] open /\ len = 2 /\ offset = 24 /\ n \in ValidSizes -> [accepted EXCEPT !.queue[q].size = n]
          [] open /\ len = 2 /\ offset = 28 -> [accepted EXCEPT !.queue[q].enabled = TRUE]
          [] len = 4 /\ offset = 12 /\ regs.guest_selected \in {0, 1} ->
                 [accepted EXCEPT !.bits[IF regs.guest_selected = 0 THEN "lo" ELSE "hi"] = n]
          [] OTHER -> accepted

\* The values worth writing at an offset: selectors also out of range.
Values(offset) ==
    CASE offset \in {0, 8} -> 0 .. 2
      [] offset = 22 -> 0 .. num_queues
      [] offset = 24 -> ValidSizes \cup {3}
      [] OTHER -> Longs

write_bar(offset, len, n) ==
    /\ writes + events < MaxAccesses
    /\ LET target == WriteTarget(offset, len) IN
        /\ regs' = IF target = "common" THEN common_config_write(offset, len, n) ELSE regs
        /\ config' = IF target = "device" THEN write_config(offset - 2048, len, n) ELSE config
        /\ accepted' = Accept(offset, len, n)
        /\ astray' = (astray \/ (target # "none" /\ target \notin Announced(offset, len)))
    /\ writes' = writes + 1
    /\ UNCHANGED <<isr_bits, irq, handling, notifier, rung, events>>

\* A read changes something only when it reaches ISR.
read_bar(offset, len) ==
    LET target == ReadTarget(offset, len) IN
    /\ astray' = (astray \/ (target # "none" /\ target \notin Announced(offset, len)))
    /\ IF target = "isr" THEN isr_bits' = FALSE /\ handling' = FALSE ELSE UNCHANGED <<isr_bits, handling>>
    /\ UNCHANGED <<regs, config, irq, notifier, accepted, rung, writes, events>>

DriverReset ==
    /\ regs' = reset_regs
    /\ isr_bits' = FALSE
    /\ accepted' = [queue |-> [q \in RegQueues |-> FreshQueue], bits |-> Zero]
    /\ writes' = 0
    /\ UNCHANGED <<config, irq, handling, notifier, astray, rung, events>>

\* create_ioevent: the address, from the start of the BAR, that wakes queue q.
create_ioevent(q) == 1024 + 4 * q

\* The driver rings for the selected queue at the address that the notify capability
\* and queue_notify_off give it.
Ring ==
    LET cap == CHOOSE c \in Capabilities : c.type = "notify"
        addr == cap.offset + common_config_read(regs, 30) * cap.extra
    IN  /\ regs.selected_queue \in RegQueues
        /\ rung' = [for |-> regs.selected_queue, woken |-> {q \in RegQueues : create_ioevent(q) = addr}]
        /\ UNCHANGED <<regs, config, isr_bits, irq, handling, notifier, accepted, astray, writes, events>>

\* The driver is interrupted; its handler will read ISR.
Interrupt ==
    /\ irq /\ ~handling
    /\ irq' = FALSE /\ handling' = TRUE
    /\ UNCHANGED <<regs, config, isr_bits, notifier, accepted, astray, rung, writes, events>>

-----------------------------------------------------------------------------
(* The workers *)

\* Mutant: the interrupt is raised before the event is recorded.
notify_queue_irq_first(w) ==
    /\ \/ /\ notifier[w] = "idle" /\ writes + events < MaxAccesses
          /\ irq' = TRUE /\ events' = events + 1
          /\ notifier' = [notifier EXCEPT ![w] = "irqfd"] /\ UNCHANGED isr_bits
       \/ /\ notifier[w] = "irqfd"
          /\ isr_bits' = TRUE /\ notifier' = [notifier EXCEPT ![w] = "idle"]
          /\ UNCHANGED <<irq, events>>
    /\ UNCHANGED <<regs, config, handling, accepted, astray, rung, writes>>

\* notify_queue: the event, then the interrupt.
notify_queue(w) ==
    /\ \/ /\ notifier[w] = "idle" /\ writes + events < MaxAccesses
          /\ isr_bits' = TRUE /\ events' = events + 1
          /\ notifier' = [notifier EXCEPT ![w] = "irqfd"] /\ UNCHANGED irq
       \/ /\ notifier[w] = "irqfd"
          /\ irq' = TRUE /\ notifier' = [notifier EXCEPT ![w] = "idle"]
          /\ UNCHANGED <<isr_bits, events>>
    /\ UNCHANGED <<regs, config, handling, accepted, astray, rung, writes>>

RegsNext ==
    \/ \E offset \in Offsets, len \in Lengths :
          read_bar(offset, len) \/ \E n \in Values(offset) : write_bar(offset, len, n)
    \/ DriverReset \/ Ring \/ Interrupt
    \/ \E w \in Notifiers : notify_queue(w)
RegsSpec == RegsInit /\ [][RegsNext]_regsVars

-----------------------------------------------------------------------------
(* Properties *)

\* Everything that the guest wrote and the device stores has its type and its width.
RegsTypeOK ==
    /\ regs.queue \in [RegQueues -> [enabled : BOOLEAN, size : ValidSizes, area : [AreaRegs -> [Halves -> Longs \cup {0}]]]]
    /\ regs.guest_bits \in [Halves -> Longs \cup {0}]
    /\ regs.selected_queue \in 0 .. num_queues /\ {regs.device_selected, regs.guest_selected} \subseteq 0 .. 2
    /\ {isr_bits, irq, handling} \subseteq BOOLEAN /\ notifier \in [Notifiers -> {"idle", "irqfd"}]

\* Whichever queue or feature word the driver selects, it reads back the last value
\* that it wrote there before it enabled the queue: a write of one half of an address, of one queue or of one
\* feature word disturbs no other, and an access of another width changes nothing.
ReadBack ==
    /\ \A q \in RegQueues :
        LET s == [regs EXCEPT !.selected_queue = q] IN
        /\ \A o \in AreaOffsets :
              common_config_read(s, o) = accepted.queue[q].area[AreaAt(o).area][AreaAt(o).half]
        /\ common_config_read(s, 24) = accepted.queue[q].size
        /\ common_config_read(s, 28) = (IF accepted.queue[q].enabled THEN 1 ELSE 0)
    /\ \A k \in {0, 1} :
        common_config_read([regs EXCEPT !.guest_selected = k], 12) = WordOf(accepted.bits, k)

\* An access reaches no structure but the one whose capability contains all of it.
CapsDecoded == ~astray

\* The configuration of the device never changes, which is what lets
\* config_generation read as 0: a driver that reads it in several parts gets
\* parts of one value.
ConfigConstant == config = InitialConfig

\* The doorbell that the driver finds through the capability and queue_notify_off
\* wakes the queue it is meant for and no other.
RingsRightQueue == rung.woken = {rung.for}

\* The driver reads back what it wrote, whichever widths, halves and queues it goes
\* through (common_config_read, common_config_write); an access reaches no structure
\* but the one whose capability contains it (add_pci_capabilities), a doorbell wakes its
\* own queue only (create_ioevent), and the device's configuration never changes under
\* config_generation 0 (DeviceConfigArea).
AccessesDecoded == RegsTypeOK /\ ReadBack /\ CapsDecoded /\ RingsRightQueue /\ ConfigConstant

\* No event is left in ISR unannounced, with threads that raise interrupts while the
\* driver reads and clears ISR: while it is there, a thread is about to raise the
\* interrupt, the interrupt is pending, or the handler is about to read it (notify_queue).
EventAnnounced == isr_bits => irq \/ handling \/ \E w \in Notifiers : notifier[w] = "irqfd"
=============================================================================
