----------------------------- MODULE IoManager -----------------------------
(***************************************************************************)
(* The devices of a virtual machine and where the guest finds them:        *)
(* src/io/manager.rs with the PCI bus of src/io/pci/bus.rs, as create_vm   *)
(* in src/vm/setup.rs calls them.  Each of the two address spaces is a Bus.*)
(*                                                                         *)
(* Addresses of the MMIO space count units of 256 bytes from the start of  *)
(* the reserved area; a page is sixteen of them.                           *)
(***************************************************************************)
EXTENDS Integers, Sequences, FiniteSets, SequencesExt, FiniteSetsExt

CONSTANTS
    MaxVirtio,         \* bound: virtio devices of a configuration
    IRQ_BASE, IRQ_MAX, \* interrupts of the allocator
    PCI_MAX_DEVICES,
    MmioSize,          \* size of the reserved area
    BarValues          \* addresses the guest may store in a BAR

VARIABLES
    pio_bus, mmio_bus,
    irqs,              \* irq_allocator: interrupts given out
    used_device_ids,
    pci,               \* device id -> [irq, bars]: bars is a sequence of [base, size, value]
    cur,               \* the device being added: its interrupt, whether it is made, its BARs
    todo,              \* what create_vm has still to do
    wanted,            \* the configuration: all that create_vm does
    refused,           \* history: what the host refused
    at,                \* "setup", "running", "failed" (create_vm returned an error) or "panic"
    moved              \* history: BARs the guest has given another address

buses == <<pio_bus, mmio_bus>>
vars == <<buses, irqs, used_device_ids, pci, cur, todo, wanted, refused, at, moved>>

Mmio == INSTANCE Bus WITH devices <- mmio_bus, Bases <- 0..MmioSize, Lens <- 0..16
Pio == INSTANCE Bus WITH devices <- pio_bus, Bases <- {96, 112, 1016, 3320}, Lens <- {2, 8}

\* Ports of the RTC, the keyboard controller and the first serial port.
Port(kind) ==
    CASE kind = "rtc" -> [start |-> 112, len |-> 2]
      [] kind = "i8042" -> [start |-> 96, len |-> 8]
      [] kind = "com1" -> [start |-> 1016, len |-> 8]
\* Sizes of the BARs of the other devices.
bar_allocations(kind) == IF kind = "ac97" THEN <<4, 1>> ELSE <<16>>

\* The steps of create_vm that only ask something of the host: KVM and the memory;
\* the terminal and the boot filesystem; loading the kernel and the vcpus.
HostSteps == {"vm", "termios", "bootfs", "kernel", "vcpus"}
PciKinds == {"virtio", "net", "ac97"}
Unmade == [irq |-> 0, made |-> FALSE, bars |-> <<>>]

\* IoManager::new, with the configuration ports of the PCI bus; the host bridge
\* is device 0.
Init ==
    /\ pio_bus = {[start |-> 3320, len |-> 8]} /\ mmio_bus = {}
    /\ irqs = {} /\ used_device_ids = {0}
    /\ pci = [i \in {0} |-> [irq |-> 0, bars |-> <<>>]]
    /\ \E n \in 1..MaxVirtio, verbose, net, audio \in BOOLEAN :
          LET If(b, x) == IF b THEN <<x>> ELSE <<>> IN
          todo = <<"vm", "rtc", "i8042">> \o If(verbose, "com1") \o <<"termios", "bootfs">>
                 \o [i \in 1..n |-> "virtio"] \o If(net, "net") \o If(audio, "ac97")
                 \o <<"kernel", "vcpus">>
    /\ cur = Unmade /\ wanted = todo /\ refused = {} /\ at = "setup" /\ moved = {}

Adding(kinds) == at = "setup" /\ todo # <<>> /\ Head(todo) \in kinds
\* create_vm ends here, with an error or a panic.
Stop(how) == at' = how /\ UNCHANGED <<buses, irqs, used_device_ids, pci, cur, todo, wanted, moved>>
Refuse(how) == refused' = refused \cup {Head(todo)} /\ Stop(how)
panic == Stop("panic") /\ UNCHANGED refused

\* A call on the host, whose error create_vm returns.
host_step ==
    /\ Adding(HostSteps)
    /\ \/ Refuse("failed")
       \/ /\ todo' = Tail(todo)
          /\ UNCHANGED <<buses, irqs, used_device_ids, pci, cur, wanted, refused, at, moved>>

\* setup_network: without a tap there is no device, and that is no error.
setup_network_fails ==
    /\ Adding({"net"}) /\ cur = Unmade
    /\ todo' = Tail(todo) /\ refused' = refused \cup {"tap"}
    /\ UNCHANGED <<buses, irqs, used_device_ids, pci, cur, wanted, at, moved>>

\* register_legacy_devices, register_serial_port: the unwrap of insert is a panic.
register_port ==
    /\ Adding({"rtc", "i8042", "com1"})
    /\ LET p == Port(Head(todo)) IN
          IF Pio!Accepts(pio_bus, p.start, p.len)
          THEN /\ pio_bus' = pio_bus \cup {p} /\ todo' = Tail(todo)
               /\ UNCHANGED <<mmio_bus, irqs, used_device_ids, pci, cur, wanted, refused, at, moved>>
          ELSE panic

allocate_irq == IRQ_BASE..IRQ_MAX \ irqs

\* The device gets its interrupt first; there is none left for it otherwise.
take_irq ==
    /\ Adding(PciKinds) /\ cur = Unmade
    /\ \/ /\ allocate_irq # {}
          /\ irqs' = irqs \cup {Min(allocate_irq)}
          /\ cur' = [cur EXCEPT !.irq = Min(allocate_irq)]
          /\ UNCHANGED <<buses, used_device_ids, pci, todo, wanted, refused, at, moved>>
       \/ allocate_irq = {} /\ panic

\* VirtioDeviceState::new needs eventfds and an irqfd of KVM and returns an error
\* without them.  Ac97Dev::try_new needs the PulseAudio server as well, and the
\* expect on its result is a panic.
new_device ==
    /\ Adding(PciKinds) /\ cur.irq # 0 /\ ~cur.made
    /\ \/ /\ cur' = [cur EXCEPT !.made = TRUE]
          /\ UNCHANGED <<buses, irqs, used_device_ids, pci, todo, wanted, refused, at, moved>>
       \/ Refuse(IF Head(todo) = "ac97" THEN "panic" ELSE "failed")

Overlaps(d, start, size) == d.start < start + size /\ start < d.start + d.len
\* allocate_mmio takes the first of these: aligned to a page and free.
allocate_mmio(bus, size) ==
    {a \in 0..MmioSize - size : a % 16 = 0 /\ \A d \in bus : ~Overlaps(d, a, size)}
is_naturally_aligned(a, size) == a % size = 0

set_mmio_bar(a, size) == [base |-> a, size |-> size, value |-> a]

allocate_id == 0..PCI_MAX_DEVICES - 1 \ used_device_ids

\* Where the next BAR goes: empty if there is no room, the assertion of
\* set_mmio_bar fails or the bus refuses the range.
Place(size) ==
    LET free == allocate_mmio(mmio_bus, size) IN
    {a \in free : /\ \A b \in free : a <= b
                  /\ is_naturally_aligned(a, size) /\ Mmio!Accepts(mmio_bus, a, size)}
Bars == bar_allocations(Head(todo))
NextBar == Bars[Len(cur.bars) + 1]

\* One round of allocate_pci_bars.
allocate_pci_bar ==
    /\ Adding(PciKinds) /\ cur.made /\ Len(cur.bars) < Len(Bars)
    /\ \/ /\ \E a \in Place(NextBar) :
                /\ mmio_bus' = mmio_bus \cup {[start |-> a, len |-> NextBar]}
                /\ cur' = [cur EXCEPT !.bars = Append(@, set_mmio_bar(a, NextBar))]
          /\ UNCHANGED <<pio_bus, irqs, used_device_ids, pci, todo, wanted, refused, at, moved>>
       \/ Place(NextBar) = {} /\ panic

\* PciBus::add_device, once the BARs are allocated: a device number.
add_device ==
    /\ Adding(PciKinds) /\ cur.made /\ Len(cur.bars) = Len(Bars)
    /\ \/ /\ allocate_id # {}
          /\ used_device_ids' = used_device_ids \cup {Min(allocate_id)}
          /\ pci' = (Min(allocate_id) :> [irq |-> cur.irq, bars |-> cur.bars]) @@ pci
          /\ todo' = Tail(todo) /\ cur' = Unmade
          /\ UNCHANGED <<buses, irqs, wanted, refused, at, moved>>
       \/ allocate_id = {} /\ panic

create_vm ==
    /\ at = "setup" /\ todo = <<>>
    /\ at' = "running"
    /\ UNCHANGED <<buses, irqs, used_device_ids, pci, cur, todo, wanted, refused, moved>>

\* PciConfiguration::write_bar: the guest may store any address of the right
\* alignment; the bus does not follow.
write_bar(id, k, v) ==
    /\ at = "running" /\ k \in DOMAIN pci[id].bars
    /\ v % pci[id].bars[k].size = 0
    /\ pci' = [pci EXCEPT ![id].bars[k].value = v]
    /\ moved' = IF v = pci[id].bars[k].base THEN moved \ {<<id, k>>} ELSE moved \cup {<<id, k>>}
    /\ UNCHANGED <<buses, irqs, used_device_ids, cur, todo, wanted, refused, at>>

Next ==
    \/ host_step \/ setup_network_fails \/ register_port
    \/ take_irq \/ new_device \/ allocate_pci_bar \/ add_device
    \/ create_vm
    \/ \E id \in DOMAIN pci, k \in 1..2, v \in BarValues : write_bar(id, k, v)
Spec == Init /\ [][Next]_vars

-----------------------------------------------------------------------------
\* Device numbers and interrupts are those of the devices that were added.
TypeOK ==
    /\ DOMAIN pci = used_device_ids /\ at \in {"setup", "running", "failed", "panic"}
    /\ irqs = ({pci[i].irq : i \in DOMAIN pci} \cup {cur.irq}) \ {0}
    /\ irqs \subseteq IRQ_BASE..IRQ_MAX

\* No two devices share an interrupt: the lines are edge triggered through one
\* eventfd each and have no way to be shared.
IrqsDistinct == \A i, j \in DOMAIN pci \ {0} : pci[i].irq = pci[j].irq => i = j

\* An access to an address that a BAR shows reaches the device of the BAR, unless
\* the guest has moved the BAR: the bus keeps the address it was set up with.
BarsRouted ==
    \A i \in DOMAIN pci : \A k \in DOMAIN pci[i].bars :
        LET b == pci[i].bars[k] IN
        <<i, k>> \notin moved =>
            \A a \in b.value..b.value + b.size - 1 :
                Mmio!get_device(mmio_bus, a, [start |-> b.base, len |-> b.size])

\* The devices of a configuration, without the network device that has no tap, do not
\* all fit: there are too few interrupts, device numbers or pages.
OnPci == {i \in DOMAIN wanted : wanted[i] \in PciKinds \ (IF "tap" \in refused THEN {"net"} ELSE {})}
TooMany ==
    LET n == Cardinality(OnPci)
        audio == \E i \in OnPci : wanted[i] = "ac97"
    IN  \/ n > IRQ_MAX - IRQ_BASE + 1
        \/ n > PCI_MAX_DEVICES - 1
        \/ n + (IF audio THEN 1 ELSE 0) > MmioSize \div 16

=============================================================================
