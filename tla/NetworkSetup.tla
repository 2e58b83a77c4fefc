---------------------------- MODULE NetworkSetup ----------------------------
(***************************************************************************)
(* The network of the host as VMs set it up when they start: setup_network *)
(* and setup_tap of src/vm/setup.rs, with the requests of                  *)
(* src/system/netlink.rs as atomic operations of the kernel, of which any  *)
(* may fail (the messages of one process are those of Netlink).  Every VM  *)
(* is a process of its own; all of them share one bridge, which the first  *)
(* one creates and nobody removes.  A process may end at any point, and    *)
(* the kernel then removes its tap device.                                 *)
(***************************************************************************)
EXTENDS Netlink

CONSTANTS Vms, NoVm, MaxStarts    \* MaxStarts: bound on starts of a VM

ASSUME VmsAssumption == NoVm \notin Vms

VARIABLES
    setupPc,    \* [Vms -> the next statement of setup_network, or how it ended]
    bridge,     \* subset of {"exists", "up"}
    taps,       \* [Vms -> subset of {"exists", "attached", "up"}]
    starts,     \* number of times each VM has been started
    saw,        \* history: what interface_exists returned to this start of the VM
    failed,     \* history: some system call of this start has failed
    creator,    \* history: the VM that created the bridge
    abandoned   \* history: the creator stopped before it set the bridge up

setupVars == <<setupPc, bridge, taps, starts, saw, failed, creator, abandoned>>

Steps == {"tap", "exists", "create", "up_bridge", "add", "up_tap", "device"}
SetupEnds == {"running", "nonet"}

SetupInit ==
    /\ setupPc = [v \in Vms |-> "off"] /\ bridge = {} /\ taps = [v \in Vms |-> {}]
    /\ starts = [v \in Vms |-> 0] /\ saw = [v \in Vms |-> FALSE] /\ failed = [v \in Vms |-> FALSE]
    /\ creator = NoVm /\ abandoned = FALSE

Goto(v, l) == setupPc' = [setupPc EXCEPT ![v] = l]
SetTap(v, s) == taps' = [taps EXCEPT ![v] = s]

Start(v) ==
    /\ setupPc[v] = "off" /\ starts[v] < MaxStarts
    /\ Goto(v, "tap") /\ starts' = [starts EXCEPT ![v] = @ + 1]
    /\ saw' = [saw EXCEPT ![v] = FALSE] /\ failed' = [failed EXCEPT ![v] = FALSE]
    /\ UNCHANGED <<bridge, taps, creator, abandoned>>

new_default(v) ==
    /\ setupPc[v] = "tap" /\ SetTap(v, {"exists"}) /\ Goto(v, "exists")
    /\ UNCHANGED <<bridge, starts, saw, failed, creator, abandoned>>

interface_exists(v) ==
    /\ setupPc[v] = "exists" /\ saw' = [saw EXCEPT ![v] = "exists" \in bridge]
    /\ Goto(v, IF saw'[v] THEN "add" ELSE "create")
    /\ UNCHANGED <<bridge, taps, starts, failed, creator, abandoned>>

\* create_bridge asks for NLM_F_EXCL: it is refused when the bridge has come to exist.
create_bridge(v) ==
    /\ setupPc[v] = "create" /\ "exists" \notin bridge
    /\ bridge' = {"exists"} /\ creator' = v /\ Goto(v, "up_bridge")
    /\ UNCHANGED <<taps, starts, saw, failed, abandoned>>
\* An error of setup_tap: the tap device is dropped, and setup_network goes on
\* without a network.
Without(v) == Goto(v, "nonet") /\ SetTap(v, {}) /\ UNCHANGED <<bridge, starts, saw, creator>>
create_refused(v) ==
    /\ setupPc[v] = "create" /\ "exists" \in bridge /\ Without(v)
    /\ UNCHANGED <<failed, abandoned>>

\* Mutant: the interface that is set up is the tap device.
up_bridge_tap(v) ==
    /\ setupPc[v] = "up_bridge" /\ SetTap(v, taps[v] \cup {"up"}) /\ Goto(v, "add")
    /\ UNCHANGED <<bridge, starts, saw, failed, creator, abandoned>>
up_bridge(v) ==
    /\ setupPc[v] = "up_bridge" /\ bridge' = bridge \cup {"up"} /\ Goto(v, "add")
    /\ UNCHANGED <<taps, starts, saw, failed, creator, abandoned>>
\* The request also carries IFF_UP.
add_interface_to_bridge(v) ==
    /\ setupPc[v] = "add" /\ SetTap(v, taps[v] \cup {"attached", "up"}) /\ Goto(v, "up_tap")
    /\ UNCHANGED <<bridge, starts, saw, failed, creator, abandoned>>
up_tap(v) ==
    /\ setupPc[v] = "up_tap" /\ SetTap(v, taps[v] \cup {"up"}) /\ Goto(v, "device")
    /\ UNCHANGED <<bridge, starts, saw, failed, creator, abandoned>>
\* setup_network: the device is added to the VM, and phinit.ip to its command line.
setup_network(v) ==
    /\ setupPc[v] = "device" /\ Goto(v, "running")
    /\ UNCHANGED <<bridge, taps, starts, saw, failed, creator, abandoned>>

\* A call of setup_tap fails.
setup_tap_fails(v) ==
    /\ setupPc[v] \in Steps \ {"exists", "device"}
    /\ Without(v) /\ failed' = [failed EXCEPT ![v] = TRUE]
    /\ abandoned' = (abandoned \/ setupPc[v] = "up_bridge")
\* The kernel carries out a request on the bridge, but its answer is not received
\* (sys_recv) or not understood: to setup_tap that is a failure too.  What was asked
\* for the tap device goes with it.
setup_tap_unheard(v) ==
    /\ Goto(v, "nonet") /\ SetTap(v, {}) /\ failed' = [failed EXCEPT ![v] = TRUE]
    /\ \/ /\ setupPc[v] = "create" /\ "exists" \notin bridge
          /\ bridge' = {"exists"} /\ creator' = v /\ abandoned' = TRUE
       \/ /\ setupPc[v] = "up_bridge"
          /\ bridge' = bridge \cup {"up"} /\ UNCHANGED <<creator, abandoned>>
    /\ UNCHANGED <<starts, saw>>
\* The process ends: an error of create_vm, a signal, or the end of a VM.
Ended(v) ==
    /\ setupPc[v] # "off" /\ Goto(v, "off") /\ SetTap(v, {})
    /\ abandoned' = (abandoned \/ setupPc[v] = "up_bridge")
    /\ UNCHANGED <<bridge, starts, saw, failed, creator>>

Call(v) ==
    \/ new_default(v) \/ interface_exists(v) \/ create_bridge(v) \/ create_refused(v) \/ up_bridge(v)
    \/ add_interface_to_bridge(v) \/ up_tap(v) \/ setup_network(v)
SetupNext == \E v \in Vms : Start(v) \/ Call(v) \/ setup_tap_fails(v) \/ setup_tap_unheard(v) \/ Ended(v)
SetupSpec == SetupInit /\ [][SetupNext]_setupVars
\* A process that has not ended goes on: none of its calls blocks.
SetupFairSpec == SetupSpec /\ \A v \in Vms : WF_setupVars(Call(v))

-----------------------------------------------------------------------------
\* Everything has its type; only a VM past its first call has a tap device.
SetupTypeOK ==
    /\ setupPc \in [Vms -> Steps \cup SetupEnds \cup {"off"}] /\ bridge \in {{}, {"exists"}, {"exists", "up"}}
    /\ \A v \in Vms : (taps[v] # {}) <=> (setupPc[v] \notin {"off", "tap", "nonet"})

\* A VM that was given a network device has its tap device attached and up.
TapConnected == \A v \in Vms : setupPc[v] = "running" => taps[v] = {"exists", "attached", "up"}

\* A VM of which no call failed is without a network only when another one created
\* the bridge after it had looked for it.
WithoutExplained ==
    \A v \in Vms : setupPc[v] = "nonet" /\ ~failed[v] => ~saw[v] /\ "exists" \in bridge /\ creator # v

\* The bridge is down only while its creator is about to set it up, or for good when
\* the creator stopped just there: later VMs find that it exists and leave it down.
DownExplained ==
    bridge = {"exists"} => setupPc[creator] = "up_bridge" \/ abandoned

\* Whichever VM creates the bridge and whatever fails on the way, a VM with a network
\* device has its tap attached and up, and being without a network or with a bridge
\* that is down has the reasons above (setup_network, setup_tap).
BridgeExplained == SetupTypeOK /\ TapConnected /\ WithoutExplained /\ DownExplained

\* The bridge as the VMs find and leave it; and of the requests that this takes, over
\* netlink, an answer is the answer to its request, the kernel reads the attributes
\* that were written, and what it has done is an initial part of what was asked
\* (setup_network, NetlinkSocket, NetlinkMessage).
NetworkExplained == BridgeExplained /\ RequestsExact

\* A start that is not cut short is decided; and a VM with a network device gets a
\* bridge that is up, unless that bridge was abandoned.
SetupDecided ==
    \A v \in Vms :
        /\ setupPc[v] \in Steps ~> setupPc[v] \notin Steps
        /\ setupPc[v] = "running" ~> "up" \in bridge \/ abandoned
=============================================================================
