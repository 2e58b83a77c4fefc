-------------------------------- MODULE MCVm --------------------------------
(***************************************************************************)
(* The machine around the devices, one part at a time: "bus" (an address   *)
(* space) and "shm" (device memory), over the values of the .cfg; "io"     *)
(* and "slots" (the I/O manager that sets up the devices on two address    *)
(* spaces, short of interrupts and memory or of device numbers), "pci"     *)
(* (configuration space); "run" (three vcpus, from their start to the end  *)
(* of the process) and "ends" (two vcpus that are scheduled); "bridge"     *)
(* (the host's network as two VMs set it up) and "netlink" (the messages   *)
(* that takes); "guest" (the first process of a guest with a writable      *)
(* disk).  The I/O manager has address spaces of its own, so the parts     *)
(* share no state.                                                         *)
(***************************************************************************)
EXTENDS Bus, ShmMapper, VmRun, NetworkSetup

VARIABLES part,
    pio_bus, mmio_bus, irqs, used_device_ids, pci, cur, todo, wanted, refused, ioAt, moved,
    caps, head, nextCap, next_capability_offset, bar, size, address, pciAt,
    endMain, endExited, endNext, endVcpu, endShutdown, endReset, endPoisoned, endTty, endTerms, endLate,
    config, rootTree, resolv, denied, bootAt, init, mounts, tree, rootfs, nic, children, services

ioVars == <<pio_bus, mmio_bus, irqs, used_device_ids, pci, cur, todo, wanted, refused, ioAt, moved>>
pciVars == <<caps, head, nextCap, next_capability_offset, bar, size, address, pciAt>>
endVars == <<endMain, endExited, endNext, endVcpu, endShutdown, endReset, endPoisoned, endTty, endTerms, endLate>>
cpuParts == <<runVars, endVars>>
guestVars == <<config, rootTree, resolv, denied, bootAt, init, mounts, tree, rootfs, nic, children, services>>
netVars == <<setupVars, linkVars, guestVars>>
vmVars == <<part, devices, shmVars, ioVars, pciVars, cpuParts, netVars>>

Io == INSTANCE IoManager WITH
    at <- ioAt, MaxVirtio <- 3, IRQ_BASE <- 5, IRQ_MAX <- 7, PCI_MAX_DEVICES <- 5, MmioSize <- 64,
    BarValues <- {0, 16, 37}
FewSlots == INSTANCE IoManager WITH
    at <- ioAt, MaxVirtio <- 3, IRQ_BASE <- 5, IRQ_MAX <- 9, PCI_MAX_DEVICES <- 4, MmioSize <- 64,
    BarValues <- {}
Pci == INSTANCE PciConfig WITH
    at <- pciAt, next <- nextCap, PCI_CAP_BASE_OFFSET <- 8, PCI_CONFIG_SPACE_SIZE <- 32,
    MAX_CAPABILITY_COUNT <- 3, CapLens <- {3, 6}, Sizes <- {4, 16}
Ends == INSTANCE VmRun WITH
    NCpus <- 2, MaxTerms <- 1, main <- endMain, exited <- endExited, nextCpu <- endNext,
    vcpu <- endVcpu, shutdown <- endShutdown, reset_evt <- endReset, poisoned <- endPoisoned,
    tty <- endTty, terms <- endTerms, late <- endLate
Guest == INSTANCE PhInit WITH
    at <- bootAt, HasResolv <- {TRUE}, Denied <- {}, Pids <- {"p1", "p2", "p3"},
    Config <- {[disks |-> <<"rw">>, network |-> FALSE, wayland |-> FALSE, audio |-> FALSE,
                home |-> <<"home", "user">>, realm |-> FALSE]},
    Roots <- {{<<"etc">>, <<"sys">>, <<"proc">>, <<"dev">>, <<"run">>, <<"tmp">>, <<"home">>,
               <<"home", "user">>, <<"bin">>, <<"bin", "bash">>}}

VmInit ==
    /\ part \in {"bus", "shm", "io", "slots", "pci", "run", "ends", "bridge", "netlink", "guest"}
    /\ Init /\ ShmInit
    /\ Io!Init /\ (part \notin {"io", "slots"} => Len(todo) = 8)
    /\ Pci!Init /\ (part # "pci" => size = 4 /\ Pci!Value(bar) = 0)
    /\ RunInit /\ Ends!RunInit
    /\ SetupInit /\ LinkInit /\ (part # "netlink" => Len(script) = 3)
    /\ Guest!Init
VmNext ==
    \/ part = "bus" /\ Next /\ UNCHANGED <<part, shmVars, ioVars, pciVars, cpuParts, netVars>>
    \/ part = "shm" /\ ShmNext /\ UNCHANGED <<part, devices, ioVars, pciVars, cpuParts, netVars>>
    \/ part = "io" /\ Io!Next /\ UNCHANGED <<part, devices, shmVars, pciVars, cpuParts, netVars>>
    \/ part = "slots" /\ FewSlots!Next /\ UNCHANGED <<part, devices, shmVars, pciVars, cpuParts, netVars>>
    \/ part = "pci" /\ Pci!Next /\ UNCHANGED <<part, devices, shmVars, ioVars, cpuParts, netVars>>
    \/ part = "run" /\ RunNext /\ UNCHANGED <<part, devices, shmVars, ioVars, pciVars, endVars, netVars>>
    \/ part = "ends" /\ Ends!RunNext /\ UNCHANGED <<part, devices, shmVars, ioVars, pciVars, runVars, netVars>>
    \/ part = "bridge" /\ SetupNext
       /\ UNCHANGED <<part, devices, shmVars, ioVars, pciVars, cpuParts, linkVars, guestVars>>
    \/ part = "netlink" /\ LinkNext
       /\ UNCHANGED <<part, devices, shmVars, ioVars, pciVars, cpuParts, setupVars, guestVars>>
    \/ part = "guest" /\ Guest!Next
       /\ UNCHANGED <<part, devices, shmVars, ioVars, pciVars, cpuParts, setupVars, linkVars>>

\* Threads are scheduled; no guest need ever exit (VmRun!RunFairSpec).  None of the
\* calls that set up the network blocks (NetworkSetup!SetupFairSpec), and
\* ph-init boots and waits for its children (PhInit!Spec).
VmSpec ==
    /\ VmInit /\ [][VmNext]_vmVars
    /\ WF_endVars(part = "ends" /\ Ends!Main)
    /\ \A c \in {1, 2} : /\ WF_endVars(part = "ends" /\ Ends!barrier_wait(c))
                         /\ WF_endVars(part = "ends" /\ Ends!check(c))
    /\ \A v \in Vms : WF_setupVars(part = "bridge" /\ Call(v))
    /\ WF_guestVars(part = "guest" /\ Guest!Boot) /\ WF_guestVars(part = "guest" /\ Guest!Run)

-----------------------------------------------------------------------------
\* What devices are given is theirs alone and where the guest sees it: ranges of a
\* bus (and a free range is never refused), interrupts, BARs and capabilities,
\* whatever the guest writes to them (Bus!NoOverlap, FreeAccepted;
\* IoManager!IrqsDistinct, BarsRouted; PciConfig!CapsLinked, BarAligned, BarSized,
\* PanicExplained).
ResourcesApart ==
    /\ [](part = "bus" => NoOverlap /\ FreeAccepted)
    /\ [](part = "io" => Io!TypeOK /\ Io!IrqsDistinct /\ Io!BarsRouted)
    /\ [](part = "pci" => Pci!TypeOK /\ Pci!CapsLinked /\ Pci!BarAligned /\ Pci!PanicExplained)
    /\ [][part = "pci" => Pci!BarSized]_vmVars


\* A VM that starts gets a decision about its network, and a bridge that is up unless
\* it was abandoned.  The shutdown that one vcpu sees ends all of them, and the
\* process, provided that each leaves the guest again and again; and a vcpu that
\* panicked ends the process once those before it have ended.  In the guest the boot
\* is decided, and the exit of the shell restarts it, whatever else exits
\* (NetworkSetupDecided, VmRun!ShutdownEnds, PanicSurfaces, PhInit!ShellEnds,
\* ZombiesReaped).
StartsAndEnds ==
    /\ SetupDecided
    /\ (\A c \in {1, 2} : []<>(endVcpu[c] # "guest")) => ((part = "ends" /\ endShutdown) ~> endExited)
    /\ \A c \in {1, 2} :
        (part = "ends" /\ endVcpu[c] = "panicked" /\ endMain = "join"
            /\ \A d \in 1 .. c - 1 : endVcpu[d] \in {"ended", "panicked"}) ~> endExited
    /\ (part = "guest" /\ init = "boot") ~> init # "boot"
    /\ (part = "guest" /\ Guest!ShellExited) ~> init \in {"rebooted", "exited"}
    /\ \A p \in {"p1", "p2", "p3"} :
        (part = "guest" /\ Guest!Unreaped(p)) ~> ~Guest!Unreaped(p) \/ init # "wait"
=============================================================================
