------------------------------ MODULE VmProofs ------------------------------
(***************************************************************************)
(* The machine around the devices, for every number of vcpus and of        *)
(* consoles and every number of VMs on a host: the vcpus start together    *)
(* and end in order (VmRun), and the network is what the calls that set it *)
(* up have made it (NetworkSetup, Netlink).                                *)
(***************************************************************************)
EXTENDS VmRun, NetworkSetup, TLAPS

-----------------------------------------------------------------------------
(* NetworkSetup *)
Lines == Steps \cup SetupEnds \cup {"off"}
TapStates == SUBSET {"exists", "attached", "up"}

\* The tap device of a VM, by the statement that the VM has come to.
TapAt(l) ==
    IF l \in {"off", "tap", "nonet"} THEN {}
    ELSE IF l \in {"exists", "create", "up_bridge", "add"} THEN {"exists"} ELSE {"exists", "attached", "up"}

BridgeTypes ==
    /\ setupPc \in [Vms -> Lines] /\ saw \in [Vms -> BOOLEAN] /\ failed \in [Vms -> BOOLEAN]
    /\ bridge \in {{}, {"exists"}, {"exists", "up"}}
TapInv == taps \in [Vms -> TapStates] /\ \A v \in Vms : taps[v] = TapAt(setupPc[v])

\* A VM that is about to create the bridge did not see one, and is not the VM that
\* created it; one that is about to set the bridge up is that VM.
CreatorInv ==
    /\ creator \in Vms \cup {NoVm} /\ (bridge = {} <=> creator = NoVm)
    /\ \A v \in Vms : setupPc[v] = "create" => ~saw[v] /\ creator # v
    /\ \A v \in Vms : setupPc[v] = "up_bridge" => creator = v

BridgeInv == BridgeTypes /\ TapInv /\ CreatorInv /\ WithoutExplained /\ DownExplained

\* A host with no bridge and no VM running satisfies the invariant.
LEMMA BridgeInvInit == SetupInit => BridgeInv
<1> SUFFICES ASSUME SetupInit PROVE BridgeInv
  OBVIOUS
<1>1. BridgeTypes
  BY DEF SetupInit, BridgeTypes, Lines
<1>2. TapInv
  BY DEF SetupInit, TapInv, TapAt, TapStates
<1>3. CreatorInv
  BY DEF SetupInit, CreatorInv
<1>4. WithoutExplained /\ DownExplained
  BY DEF SetupInit, WithoutExplained, DownExplained
<1> QED BY <1>1, <1>2, <1>3, <1>4 DEF BridgeInv

\* The VM that makes a step goes on to another statement, and the others do not.
LEMMA GotoMoves ==
    ASSUME BridgeInv, NEW v \in Vms, NEW l \in Lines, Goto(v, l)
    PROVE  setupPc' \in [Vms -> Lines] /\ setupPc'[v] = l /\ \A w \in Vms \ {v} : setupPc'[w] = setupPc[w]
BY DEF BridgeInv, BridgeTypes, Goto

\* The tap device of that VM follows.
LEMMA TapMoves ==
    ASSUME BridgeInv, NEW v \in Vms, NEW l \in Lines, Goto(v, l),
           SetTap(v, TapAt(l)) \/ (UNCHANGED taps /\ taps[v] = TapAt(l))
    PROVE  TapInv'
<1>1. /\ setupPc'[v] = l /\ \A w \in Vms \ {v} : setupPc'[w] = setupPc[w]
      /\ taps \in [Vms -> TapStates] /\ \A w \in Vms : taps[w] = TapAt(setupPc[w])
  BY GotoMoves DEF BridgeInv, TapInv
<1>2. TapAt(l) \in TapStates
  BY DEF TapAt, TapStates
<1> HIDE DEF TapAt
<1>3. taps' \in [Vms -> TapStates] /\ taps'[v] = TapAt(l) /\ \A w \in Vms \ {v} : taps'[w] = taps[w]
  BY <1>1, <1>2 DEF SetTap
<1> QED BY <1>1, <1>3 DEF TapInv

\* A VM is started, or its process ends: the bridge stays as it is, and is given up
\* when the VM was about to set it up.
LEMMA StartKeeps == ASSUME BridgeInv, NEW v \in Vms, Start(v) PROVE BridgeInv'
<1>1. /\ setupPc[v] = "off" /\ Goto(v, "tap") /\ UNCHANGED <<bridge, taps, creator, abandoned>>
      /\ saw' = [saw EXCEPT ![v] = FALSE] /\ failed' = [failed EXCEPT ![v] = FALSE]
  BY DEF Start
<1>2. "tap" \in Lines
  BY DEF Lines, Steps
<1>3. setupPc' \in [Vms -> Lines] /\ setupPc'[v] = "tap" /\ \A w \in Vms \ {v} : setupPc'[w] = setupPc[w]
  BY <1>1, <1>2, GotoMoves
<1>4. /\ saw' \in [Vms -> BOOLEAN] /\ failed' \in [Vms -> BOOLEAN]
      /\ \A w \in Vms \ {v} : saw'[w] = saw[w] /\ failed'[w] = failed[w]
  BY <1>1 DEF BridgeInv, BridgeTypes
<1>5. BridgeTypes'
  BY <1>1, <1>3, <1>4 DEF BridgeInv, BridgeTypes
<1>6. taps[v] = TapAt("tap")
  BY <1>1 DEF BridgeInv, TapInv, TapAt
<1>7. TapInv'
  BY <1>1, <1>2, <1>6, TapMoves
<1>8. CreatorInv'
  BY <1>1, <1>3, <1>4 DEF BridgeInv, CreatorInv
<1>9. WithoutExplained'
  BY <1>1, <1>3, <1>4 DEF BridgeInv, WithoutExplained
<1>10. DownExplained'
  <2>1. bridge = {"exists"} => creator \in Vms
    BY VmsAssumption DEF BridgeInv, CreatorInv
  <2> QED BY <1>1, <1>3, <2>1 DEF BridgeInv, DownExplained
<1> QED BY <1>5, <1>7, <1>8, <1>9, <1>10, SMTT(30) DEF BridgeInv

\* A step that leaves the bridge and what the VM saw of it alone.
LEMMA PlainKeeps ==
    ASSUME BridgeInv, NEW v \in Vms, NEW l \in Lines, Goto(v, l), l \notin {"create", "up_bridge", "nonet"},
           setupPc[v] # "up_bridge" \/ abandoned', abandoned => abandoned',
           SetTap(v, TapAt(l)) \/ (UNCHANGED taps /\ taps[v] = TapAt(l)),
           UNCHANGED <<bridge, saw, failed, creator>>
    PROVE  BridgeInv'
<1>1. setupPc' \in [Vms -> Lines] /\ setupPc'[v] = l /\ \A w \in Vms \ {v} : setupPc'[w] = setupPc[w]
  BY GotoMoves
<1>2. BridgeTypes'
  BY <1>1, SMTT(30) DEF BridgeInv, BridgeTypes
<1>3. TapInv'
  BY TapMoves, SMTT(30)
<1>4. CreatorInv'
  BY <1>1 DEF BridgeInv, CreatorInv
<1>5. WithoutExplained'
  BY <1>1 DEF BridgeInv, WithoutExplained
<1>6. DownExplained'
  <2>1. bridge = {"exists"} => creator \in Vms
    BY VmsAssumption DEF BridgeInv, CreatorInv
  <2> QED BY <1>1, <2>1 DEF BridgeInv, DownExplained
<1> QED BY <1>2, <1>3, <1>4, <1>5, <1>6 DEF BridgeInv

\* The calls that concern the tap device only, and the end of a process.
LEMMA TapCallsKeep ==
    ASSUME BridgeInv, NEW v \in Vms,
           new_default(v) \/ add_interface_to_bridge(v) \/ up_tap(v) \/ setup_network(v) \/ Ended(v)
    PROVE  BridgeInv'
<1> USE DEF Lines, Steps, SetupEnds
<1>1. taps[v] = TapAt(setupPc[v])
  BY DEF BridgeInv, TapInv
<1>2. CASE new_default(v)
  <2>1. /\ setupPc[v] = "tap" /\ Goto(v, "exists") /\ SetTap(v, {"exists"})
        /\ UNCHANGED <<bridge, saw, failed, creator, abandoned>>
    BY <1>2 DEF new_default
  <2>2. TapAt("exists") = {"exists"}
    BY SMTT(30) DEF TapAt
  <2> QED BY <2>1, <2>2, PlainKeeps
<1>3. CASE add_interface_to_bridge(v)
  <2>1. /\ setupPc[v] = "add" /\ Goto(v, "up_tap") /\ SetTap(v, taps[v] \cup {"attached", "up"})
        /\ UNCHANGED <<bridge, saw, failed, creator, abandoned>>
    BY <1>3 DEF add_interface_to_bridge
  <2>2. TapAt("up_tap") = taps[v] \cup {"attached", "up"}
    BY <1>1, <2>1, SMTT(30) DEF TapAt
  <2> QED BY <2>1, <2>2, PlainKeeps
<1>4. CASE up_tap(v)
  <2>1. /\ setupPc[v] = "up_tap" /\ Goto(v, "device") /\ SetTap(v, taps[v] \cup {"up"})
        /\ UNCHANGED <<bridge, saw, failed, creator, abandoned>>
    BY <1>4 DEF up_tap
  <2>2. TapAt("device") = taps[v] \cup {"up"}
    BY <1>1, <2>1, SMTT(30) DEF TapAt
  <2> QED BY <2>1, <2>2, PlainKeeps, SMTT(30)
<1>5. CASE setup_network(v)
  <2>1. /\ setupPc[v] = "device" /\ Goto(v, "running") /\ UNCHANGED taps
        /\ UNCHANGED <<bridge, saw, failed, creator, abandoned>>
    BY <1>5 DEF setup_network
  <2>2. taps[v] = TapAt("running")
    BY <1>1, <2>1, SMTT(30) DEF TapAt
  <2> QED BY <2>1, <2>2, PlainKeeps
<1>6. CASE Ended(v)
  <2>1. /\ Goto(v, "off") /\ SetTap(v, {}) /\ UNCHANGED <<bridge, saw, failed, creator>>
        /\ abandoned' = (abandoned \/ setupPc[v] = "up_bridge")
    BY <1>6 DEF Ended
  <2>2. TapAt("off") = {}
    BY DEF TapAt
  <2>3. (setupPc[v] # "up_bridge" \/ abandoned') /\ (abandoned => abandoned')
    BY <2>1, Zenon
  <2> QED BY <2>1, <2>2, <2>3, PlainKeeps
<1> QED BY <1>2, <1>3, <1>4, <1>5, <1>6

\* interface_exists: the VM goes on to create a bridge only where there is none, and
\* then no VM has created one.
LEMMA ExistsKeeps == ASSUME BridgeInv, NEW v \in Vms, interface_exists(v) PROVE BridgeInv'
<1> DEFINE l == IF "exists" \in bridge THEN "add" ELSE "create"
<1>1. /\ setupPc[v] = "exists" /\ saw' = [saw EXCEPT ![v] = "exists" \in bridge]
      /\ UNCHANGED <<bridge, taps, failed, creator, abandoned>>
  BY DEF interface_exists
<1>2. saw' \in [Vms -> BOOLEAN] /\ (saw'[v] <=> "exists" \in bridge) /\ \A w \in Vms \ {v} : saw'[w] = saw[w]
  <2> DEFINE e == "exists" \in bridge
  <2>1. e \in BOOLEAN
    OBVIOUS
  <2>2. saw' = [saw EXCEPT ![v] = e] /\ saw \in [Vms -> BOOLEAN]
    BY <1>1 DEF BridgeInv, BridgeTypes
  <2> HIDE DEF e
  <2>3. saw' \in [Vms -> BOOLEAN] /\ saw'[v] = e /\ \A w \in Vms \ {v} : saw'[w] = saw[w]
    BY <2>1, <2>2
  <2> QED BY <2>3, Zenon DEF e
<1>3. l \in Lines /\ Goto(v, l)
  BY <1>2 DEF interface_exists, Lines, Steps
<1>4. setupPc' \in [Vms -> Lines] /\ setupPc'[v] = l /\ \A w \in Vms \ {v} : setupPc'[w] = setupPc[w]
  BY <1>3, GotoMoves
<1>5. BridgeTypes'
  BY <1>1, <1>2, <1>4 DEF BridgeInv, BridgeTypes
<1>6. taps[v] = TapAt(l)
  BY <1>1, SMTT(30) DEF BridgeInv, TapInv, TapAt
<1>7. TapInv'
  BY <1>1, <1>3, <1>6, TapMoves
<1>8. "exists" \notin bridge => creator = NoVm
  BY SMTT(30) DEF BridgeInv, BridgeTypes, CreatorInv
<1>9. CreatorInv'
  BY <1>1, <1>2, <1>4, <1>8, VmsAssumption, SMTT(30) DEF BridgeInv, CreatorInv
<1>10. WithoutExplained'
  BY <1>1, <1>2, <1>4 DEF BridgeInv, WithoutExplained
<1>11. DownExplained'
  <2>1. bridge = {"exists"} => creator \in Vms
    BY VmsAssumption DEF BridgeInv, CreatorInv
  <2> QED BY <1>1, <1>4, <2>1 DEF BridgeInv, DownExplained
<1> QED BY <1>5, <1>7, <1>9, <1>10, <1>11 DEF BridgeInv

\* create_bridge: nobody else is about to set up a bridge when there was none.
LEMMA CreateKeeps == ASSUME BridgeInv, NEW v \in Vms, create_bridge(v) PROVE BridgeInv'
<1>1. /\ setupPc[v] = "create" /\ "exists" \notin bridge /\ bridge' = {"exists"} /\ creator' = v
      /\ Goto(v, "up_bridge") /\ UNCHANGED <<taps, saw, failed, abandoned>>
  BY DEF create_bridge
<1>2. "up_bridge" \in Lines
  BY DEF Lines, Steps
<1>3. setupPc' \in [Vms -> Lines] /\ setupPc'[v] = "up_bridge" /\ \A w \in Vms \ {v} : setupPc'[w] = setupPc[w]
  BY <1>1, <1>2, GotoMoves
<1>4. BridgeTypes'
  BY <1>1, <1>3 DEF BridgeInv, BridgeTypes
<1>5. taps[v] = TapAt("up_bridge")
  BY <1>1, SMTT(30) DEF BridgeInv, TapInv, TapAt
<1>6. TapInv'
  BY <1>1, <1>2, <1>5, TapMoves
<1>7. creator = NoVm
  BY <1>1 DEF BridgeInv, BridgeTypes, CreatorInv
<1>8. CreatorInv'
  BY <1>1, <1>3, <1>7, VmsAssumption DEF BridgeInv, CreatorInv
<1>9. WithoutExplained'
  BY <1>1, <1>3 DEF BridgeInv, WithoutExplained
<1>10. DownExplained'
  BY <1>1, <1>3 DEF DownExplained
<1> QED BY <1>4, <1>6, <1>8, <1>9, <1>10 DEF BridgeInv

\* set_interface_up on the bridge, which is there.
LEMMA UpKeeps == ASSUME BridgeInv, NEW v \in Vms, up_bridge(v) PROVE BridgeInv'
<1>1. /\ setupPc[v] = "up_bridge" /\ bridge' = bridge \cup {"up"}
      /\ Goto(v, "add") /\ UNCHANGED <<taps, saw, failed, creator, abandoned>>
  BY DEF up_bridge
<1>2. "add" \in Lines
  BY DEF Lines, Steps
<1>3. setupPc' \in [Vms -> Lines] /\ setupPc'[v] = "add" /\ \A w \in Vms \ {v} : setupPc'[w] = setupPc[w]
  BY <1>1, <1>2, GotoMoves
<1>4. creator = v /\ bridge # {}
  BY <1>1, VmsAssumption DEF BridgeInv, CreatorInv
<1>5. bridge' = {"exists", "up"}
  BY <1>1, <1>4 DEF BridgeInv, BridgeTypes
<1>6. BridgeTypes'
  BY <1>1, <1>3, <1>5 DEF BridgeInv, BridgeTypes
<1>7. taps[v] = TapAt("add")
  BY <1>1, SMTT(30) DEF BridgeInv, TapInv, TapAt
<1>8. TapInv'
  BY <1>1, <1>2, <1>7, TapMoves
<1>9. CreatorInv'
  BY <1>1, <1>3, <1>4, <1>5, VmsAssumption DEF BridgeInv, CreatorInv
<1>10. WithoutExplained'
  BY <1>1, <1>3, <1>5 DEF BridgeInv, WithoutExplained
<1>11. DownExplained'
  BY <1>5 DEF DownExplained
<1> QED BY <1>6, <1>8, <1>9, <1>10, <1>11 DEF BridgeInv

\* An error of setup_tap: the VM goes on without a network, for a reason.
LEMMA WithoutKeeps ==
    ASSUME BridgeInv, NEW v \in Vms, create_refused(v) \/ setup_tap_fails(v)
    PROVE  BridgeInv'
<1>1. Goto(v, "nonet") /\ SetTap(v, {}) /\ UNCHANGED <<bridge, saw, creator>>
  BY DEF create_refused, setup_tap_fails, Without
<1>2. "nonet" \in Lines /\ TapAt("nonet") = {}
  BY DEF Lines, SetupEnds, TapAt
<1>3. setupPc' \in [Vms -> Lines] /\ setupPc'[v] = "nonet" /\ \A w \in Vms \ {v} : setupPc'[w] = setupPc[w]
  BY <1>1, <1>2, GotoMoves
<1>4. TapInv'
  BY <1>1, <1>2, TapMoves, SMTT(30)
<1>5. CreatorInv'
  BY <1>1, <1>3 DEF BridgeInv, CreatorInv
<1>6. /\ failed' \in [Vms -> BOOLEAN] /\ \A w \in Vms \ {v} : failed'[w] = failed[w]
      /\ failed'[v] \/ (setupPc[v] = "create" /\ "exists" \in bridge)
  BY Zenon DEF BridgeInv, BridgeTypes, create_refused, setup_tap_fails
<1>7. BridgeTypes'
  BY <1>1, <1>3, <1>6, SMTT(30) DEF BridgeInv, BridgeTypes
<1>8. WithoutExplained'
  BY <1>1, <1>3, <1>6 DEF BridgeInv, CreatorInv, WithoutExplained
<1>9. (setupPc[v] # "up_bridge" \/ abandoned') /\ (abandoned => abandoned')
  <2>1. CASE create_refused(v)
    BY <2>1 DEF create_refused
  <2>2. CASE setup_tap_fails(v)
    <3>1. abandoned' = (abandoned \/ setupPc[v] = "up_bridge")
      BY <2>2 DEF setup_tap_fails
    <3> QED BY <3>1, Zenon
  <2> QED BY <2>1, <2>2
<1>10. DownExplained'
  <2>1. bridge = {"exists"} => creator \in Vms
    BY VmsAssumption DEF BridgeInv, CreatorInv
  <2> QED BY <1>1, <1>3, <1>9, <2>1 DEF BridgeInv, DownExplained
<1> QED BY <1>4, <1>5, <1>7, <1>8, <1>10 DEF BridgeInv

\* A request on the bridge was carried out and its answer was lost: the bridge is
\* there, or up, and the VM goes on without a network.
LEMMA UnheardKeeps == ASSUME BridgeInv, NEW v \in Vms, setup_tap_unheard(v) PROVE BridgeInv'
<1>1. /\ Goto(v, "nonet") /\ SetTap(v, {}) /\ UNCHANGED saw
      /\ failed' = [failed EXCEPT ![v] = TRUE]
  BY DEF setup_tap_unheard
<1>2. "nonet" \in Lines /\ TapAt("nonet") = {}
  BY DEF Lines, SetupEnds, TapAt
<1>3. setupPc' \in [Vms -> Lines] /\ setupPc'[v] = "nonet" /\ \A w \in Vms \ {v} : setupPc'[w] = setupPc[w]
  BY <1>1, <1>2, GotoMoves
<1>4. TapInv'
  BY <1>1, <1>2, TapMoves, SMTT(30)
<1>5. failed' \in [Vms -> BOOLEAN] /\ failed'[v] /\ \A w \in Vms \ {v} : failed'[w] = failed[w]
  BY <1>1, Zenon DEF BridgeInv, BridgeTypes
<1>6. CASE setupPc[v] = "create"
  <2>1. "exists" \notin bridge /\ bridge' = {"exists"} /\ creator' = v /\ abandoned'
    BY <1>6 DEF setup_tap_unheard
  <2>2. creator = NoVm
    BY <2>1 DEF BridgeInv, BridgeTypes, CreatorInv
  <2>3. BridgeTypes'
    BY <1>1, <1>3, <1>5, <2>1, SMTT(30) DEF BridgeInv, BridgeTypes
  <2>4. CreatorInv'
    BY <1>1, <1>3, <2>1, <2>2, VmsAssumption DEF BridgeInv, CreatorInv
  <2>5. WithoutExplained'
    BY <1>1, <1>3, <1>5, <2>1, <2>2 DEF BridgeInv, WithoutExplained
  <2>6. DownExplained'
    BY <2>1 DEF DownExplained
  <2> QED BY <1>4, <2>3, <2>4, <2>5, <2>6, Zenon DEF BridgeInv
<1>7. CASE setupPc[v] = "up_bridge"
  <2>1. bridge' = bridge \cup {"up"} /\ creator' = creator
    BY <1>7 DEF setup_tap_unheard
  <2>2. creator = v /\ bridge # {}
    BY <1>7, VmsAssumption DEF BridgeInv, CreatorInv
  <2>3. bridge' = {"exists", "up"} /\ "exists" \in bridge
    BY <2>1, <2>2 DEF BridgeInv, BridgeTypes
  <2>4. BridgeTypes'
    BY <1>1, <1>3, <1>5, <2>3, SMTT(30) DEF BridgeInv, BridgeTypes
  <2>5. CreatorInv'
    BY <1>1, <1>3, <2>1, <2>2, <2>3, VmsAssumption DEF BridgeInv, CreatorInv
  <2>6. WithoutExplained'
    BY <1>1, <1>3, <1>5, <2>1, <2>3 DEF BridgeInv, WithoutExplained
  <2>7. DownExplained'
    BY <2>3 DEF DownExplained
  <2> QED BY <1>4, <2>4, <2>5, <2>6, <2>7, Zenon DEF BridgeInv
<1> QED BY <1>6, <1>7 DEF setup_tap_unheard

\* Every step keeps the invariant.
LEMMA BridgeInvNext == BridgeInv /\ [SetupNext]_setupVars => BridgeInv'
<1> SUFFICES ASSUME BridgeInv, [SetupNext]_setupVars PROVE BridgeInv'
  OBVIOUS
<1>1. ASSUME NEW v \in Vms, Start(v) \/ Call(v) \/ setup_tap_fails(v) \/ setup_tap_unheard(v) \/ Ended(v)
      PROVE  BridgeInv'
  BY <1>1, StartKeeps, TapCallsKeep, ExistsKeeps, CreateKeeps, UpKeeps, WithoutKeeps, UnheardKeeps, SMTT(30) DEF Call
<1>2. CASE UNCHANGED setupVars
  BY <1>2 DEF setupVars, BridgeInv, BridgeTypes, TapInv, CreatorInv, WithoutExplained, DownExplained
<1> QED BY <1>1, <1>2 DEF SetupNext

\* The invariant implies what is asked of the bridge.
LEMMA BridgeInvExplained == BridgeInv => BridgeExplained
<1> SUFFICES ASSUME BridgeInv PROVE BridgeExplained
  OBVIOUS
<1>1. SetupTypeOK
  BY DEF BridgeInv, BridgeTypes, TapInv, TapAt, SetupTypeOK, Lines
<1>2. TapConnected
  BY DEF BridgeInv, TapInv, TapAt, TapConnected
<1> QED BY <1>1, <1>2 DEF BridgeInv, BridgeExplained

\* For every number of VMs and of starts of each, whatever fails and whichever process
\* ends: a VM with a network device has its tap attached and up, a VM without one
\* failed or lost the race for the bridge, and a bridge that is down is about to be set
\* up or was abandoned by its creator (setup_network, setup_tap).
THEOREM BridgeStaysExplained == SetupSpec => []BridgeExplained
BY BridgeInvInit, BridgeInvNext, BridgeInvExplained, PTL DEF SetupSpec

-----------------------------------------------------------------------------
(* Netlink: the layout of a message *)

\* Alignment: a multiple of a word, the first at or after a length.
LEMMA AlignedWords ==
    ASSUME NEW n \in Nat
    PROVE  /\ Aligned(n) \in Nat /\ Aligned(n) % MESSAGE_ALIGN = 0 /\ n <= Aligned(n) /\ Aligned(n) < n + MESSAGE_ALIGN
           /\ n % MESSAGE_ALIGN = 0 => Aligned(n) = n
BY DEF Aligned, MESSAGE_ALIGN

\* The fields of a header are inside it and apart from each other.
HeaderFits(fs, size) ==
    /\ \A f \in fs : f[1] \in Nat /\ f[2] \in Nat /\ f[1] + f[2] <= size
    /\ \A f, g \in fs : f = g \/ f[1] + f[2] <= g[1] \/ g[1] + g[2] <= f[1]

\* The headers that the code defines fit their sizes (NetlinkHeader, IfInfoMsgHdr, RtMsg,
\* IfAddrMsg).
LEMMA HeadersFit ==
    /\ HeaderFits(NetlinkHeader, NL_HDRLEN) /\ HeaderFits(IfInfoMsgHdr, 16)
    /\ HeaderFits(RtMsg, 12) /\ HeaderFits(IfAddrMsg, 8)
<1>1. HeaderFits(NetlinkHeader, NL_HDRLEN)
  BY DEF HeaderFits, NetlinkHeader, NL_HDRLEN
<1>2. HeaderFits(IfInfoMsgHdr, 16)
  BY DEF HeaderFits, IfInfoMsgHdr
<1>3. HeaderFits(RtMsg, 12)
  BY DEF HeaderFits, RtMsg
<1>4. HeaderFits(IfAddrMsg, 8)
  BY DEF HeaderFits, IfAddrMsg
<1> QED BY <1>1, <1>2, <1>3, <1>4

FieldsAt(base, fs) == {[off |-> base + f[1], len |-> f[2]] : f \in fs}
FieldsApart(F, size) ==
    /\ \A f, g \in F : f = g \/ f.off + f.len <= g.off \/ g.off + g.len <= f.off
    /\ \A f \in F : f.off + f.len <= size

\* The fields of the message header and of the header after it are apart.
LEMMA TwoHeaders ==
    ASSUME NEW fs, NEW size \in Nat, HeaderFits(fs, size)
    PROVE  FieldsApart(FieldsAt(0, NetlinkHeader) \cup FieldsAt(NL_HDRLEN, fs), NL_HDRLEN + size)
<1> DEFINE A == FieldsAt(0, NetlinkHeader)
           B == FieldsAt(NL_HDRLEN, fs)
<1>1. \A f \in A : f.off \in Nat /\ f.len \in Nat /\ f.off + f.len <= NL_HDRLEN
  BY HeadersFit, SMTT(30) DEF FieldsAt, HeaderFits, NL_HDRLEN
<1>2. \A f, g \in A : f = g \/ f.off + f.len <= g.off \/ g.off + g.len <= f.off
  BY HeadersFit DEF FieldsAt, HeaderFits
<1>3. \A f \in B : f.off \in Nat /\ f.len \in Nat /\ NL_HDRLEN <= f.off /\ f.off + f.len <= NL_HDRLEN + size
  BY DEF FieldsAt, HeaderFits, NL_HDRLEN
<1>4. \A f, g \in B : f = g \/ f.off + f.len <= g.off \/ g.off + g.len <= f.off
  BY DEF FieldsAt, HeaderFits, NL_HDRLEN
<1> HIDE DEF A, B
<1>5. \A f, g \in A \cup B : f = g \/ f.off + f.len <= g.off \/ g.off + g.len <= f.off
  BY <1>1, <1>2, <1>3, <1>4 DEF NL_HDRLEN
<1>6. \A f \in A \cup B : f.off + f.len <= NL_HDRLEN + size
  BY <1>1, <1>3, SMTT(30) DEF NL_HDRLEN
<1> QED BY <1>5, <1>6, SMTT(30) DEF FieldsApart, A, B

\* A message with its headers and nothing after them.
LEMMA Headed ==
    ASSUME NEW type, NEW s, NEW size \in Nat, NEW fs
    PROVE  with_buf(new(type, s), header(new(type, s).buf, size, fs)) =
             Message(type, s, Buffer(NL_HDRLEN + size, {}, FieldsAt(0, NetlinkHeader) \cup FieldsAt(NL_HDRLEN, fs)), 0)
<1> DEFINE b == header(new_empty, NL_HDRLEN, NetlinkHeader)
<1>1. b = Buffer(0 + NL_HDRLEN, {}, {} \cup FieldsAt(0, NetlinkHeader))
  BY DEF header, new_empty, Buffer, FieldsAt
<1>2. b.len = NL_HDRLEN /\ b.attrs = {} /\ b.fields = FieldsAt(0, NetlinkHeader)
  BY <1>1, SMTT(30) DEF Buffer, NL_HDRLEN
<1> HIDE DEF b
<1>3. header(b, size, fs) = Buffer(b.len + size, b.attrs, b.fields \cup FieldsAt(b.len, fs))
  BY DEF header, FieldsAt
<1>4. new(type, s) = Message(type, s, b, 0)
  BY DEF new, b
<1>5. new(type, s).type = type /\ new(type, s).seq = s /\ new(type, s).buf = b /\ new(type, s).size = 0
  BY <1>4, SMTT(30) DEF Message
<1> QED BY <1>2, <1>3, <1>5, SMTT(30) DEF with_buf

\* An attribute that is appended at a whole number of words: it comes to be where the
\* buffer ended, and the buffer ends where its successor would be.
LEMMA Appended ==
    ASSUME NEW l \in Nat, l % MESSAGE_ALIGN = 0, NEW A, NEW F, NEW type, NEW n \in Nat
    PROVE  /\ append_attr(Buffer(l, A, F), type, n) =
                Buffer(l + Aligned(ATTR_HDRLEN + n), A \cup {[off |-> l, len |-> ATTR_HDRLEN + n, type |-> type]}, F)
           /\ (l + Aligned(ATTR_HDRLEN + n)) % MESSAGE_ALIGN = 0
<1>1. Aligned(l + ATTR_HDRLEN + n) = l + Aligned(ATTR_HDRLEN + n) /\ (l + Aligned(ATTR_HDRLEN + n)) % MESSAGE_ALIGN = 0
  BY DEF Aligned, MESSAGE_ALIGN, ATTR_HDRLEN
<1> DEFINE b == Buffer(l, A, F)
<1>2. b.len = l /\ b.attrs = A /\ b.fields = F
  BY DEF Buffer
<1> HIDE DEF b
<1> DEFINE c == Buffer(l + ATTR_HDRLEN + n, A \cup {[off |-> l, len |-> ATTR_HDRLEN + n, type |-> type]}, F)
<1>3. append_attr(b, type, n) = align(c)
  BY <1>2 DEF append_attr
<1>4. /\ c.len = l + ATTR_HDRLEN + n /\ c.attrs = A \cup {[off |-> l, len |-> ATTR_HDRLEN + n, type |-> type]}
      /\ c.fields = F
  BY DEF Buffer
<1> HIDE DEF c
<1>5. align(c) = Buffer(Aligned(c.len), c.attrs, c.fields)
  BY SMTT(30) DEF align
<1> QED BY <1>1, <1>3, <1>4, <1>5 DEF b

\* The end of a message of a whole number of words.
LEMMA Done ==
    ASSUME NEW type, NEW s, NEW l \in Nat, l % MESSAGE_ALIGN = 0, NEW A, NEW F
    PROVE  done(Message(type, s, Buffer(l, A, F), 0)) = Message(type, s, Buffer(l, A, F), l)
<1> DEFINE b == Buffer(l, A, F)
<1>1. b.len = l /\ align(b) = b
  BY AlignedWords DEF Buffer, align
<1> HIDE DEF b
<1> DEFINE m == Message(type, s, b, 0)
<1>2. m.type = type /\ m.seq = s /\ m.buf = b
  BY DEF Message
<1> HIDE DEF m
<1> QED BY <1>1, <1>2 DEF done, b, m

\* A finished message is read as it was written when its attributes are.
LEMMA ParsesIf ==
    ASSUME NEW type, NEW s, NEW l \in Nat, l % MESSAGE_ALIGN = 0, NEW A, NEW F,
           FieldsApart(F, HeaderLen[type]),
           Reads({a \in A : a.type # "INFO_KIND"}, HeaderLen[type], l),
           \A c \in A : c.type = "LINKINFO" => Reads({a \in A : a.type = "INFO_KIND"}, c.off + ATTR_HDRLEN, c.off + c.len)
    PROVE  Parses(Message(type, s, Buffer(l, A, F), l))
<1> DEFINE m == Message(type, s, Buffer(l, A, F), l)
<1>1. m.type = type /\ m.size = l /\ m.buf.len = l /\ m.buf.attrs = A /\ m.buf.fields = F
  BY DEF Message, Buffer
<1> HIDE DEF m
<1>2. A \ {a \in A : a.type = "INFO_KIND"} = {a \in A : a.type # "INFO_KIND"}
  BY SMTT(30)
<1>3. Parses(m)
  BY <1>1, <1>2, Zenon DEF Parses, FieldsApart
<1> QED BY <1>3 DEF m

\* The lengths of the headers before the attributes.
LEMMA HeaderLens ==
    /\ HeaderLen["NEWLINK"] = 32 /\ HeaderLen["SETLINK"] = 32 /\ HeaderLen["NEWADDR"] = 24
    /\ HeaderLen["NEWROUTE"] = 28 /\ HeaderLen["none"] = 0
BY DEF HeaderLen

\* The two headers of every message are apart and end where its attributes start.
LEMMA MessageFields ==
    /\ FieldsApart(FieldsAt(0, NetlinkHeader) \cup FieldsAt(NL_HDRLEN, IfInfoMsgHdr), 32)
    /\ FieldsApart(FieldsAt(0, NetlinkHeader) \cup FieldsAt(NL_HDRLEN, RtMsg), 28)
    /\ FieldsApart(FieldsAt(0, NetlinkHeader) \cup FieldsAt(NL_HDRLEN, IfAddrMsg), 24)
<1>1. NL_HDRLEN + 16 = 32 /\ NL_HDRLEN + 12 = 28 /\ NL_HDRLEN + 8 = 24 /\ 16 \in Nat /\ 12 \in Nat /\ 8 \in Nat
  BY DEF NL_HDRLEN
<1>2. FieldsApart(FieldsAt(0, NetlinkHeader) \cup FieldsAt(NL_HDRLEN, IfInfoMsgHdr), NL_HDRLEN + 16)
  BY <1>1, TwoHeaders, HeadersFit
<1>3. FieldsApart(FieldsAt(0, NetlinkHeader) \cup FieldsAt(NL_HDRLEN, RtMsg), NL_HDRLEN + 12)
  BY <1>1, TwoHeaders, HeadersFit
<1>4. FieldsApart(FieldsAt(0, NetlinkHeader) \cup FieldsAt(NL_HDRLEN, IfAddrMsg), NL_HDRLEN + 8)
  BY <1>1, TwoHeaders, HeadersFit
<1> QED BY <1>1, <1>2, <1>3, <1>4

\* A message without attributes: set_interface_up.
LEMMA UpParses ==
    ASSUME NEW s \in Nat, NEW n
    PROVE  Parses(set_interface_up_msg(s, n)) /\ set_interface_up_msg(s, n).seq = s
<1> DEFINE F == FieldsAt(0, NetlinkHeader) \cup FieldsAt(NL_HDRLEN, IfInfoMsgHdr)
<1>1. with_ifinfomsg(new("NEWLINK", s)) = Message("NEWLINK", s, Buffer(32, {}, F), 0)
  BY Headed DEF with_ifinfomsg, NL_HDRLEN
<1>2. FieldsApart(F, HeaderLen["NEWLINK"])
  BY MessageFields, HeaderLens
<1> HIDE DEF F
<1>3. 32 % MESSAGE_ALIGN = 0
  BY DEF MESSAGE_ALIGN
<1>4. set_interface_up_msg(s, n) = Message("NEWLINK", s, Buffer(32, {}, F), 32)
  BY <1>1, <1>3, Done DEF set_interface_up_msg
<1>5. Reads({a \in {} : a.type # "INFO_KIND"}, HeaderLen["NEWLINK"], 32)
  BY HeaderLens DEF Reads
<1>6. Parses(Message("NEWLINK", s, Buffer(32, {}, F), 32))
  BY <1>2, <1>3, <1>5, ParsesIf, Zenon
<1> QED BY <1>4, <1>6 DEF Message

\* A message with one attribute of a word: add_default_route.
LEMMA RouteParses ==
    ASSUME NEW s \in Nat, NEW n
    PROVE  Parses(add_default_route_msg(s, n)) /\ add_default_route_msg(s, n).seq = s
<1> DEFINE F == FieldsAt(0, NetlinkHeader) \cup FieldsAt(NL_HDRLEN, RtMsg)
           g == [off |-> 28, len |-> ATTR_HDRLEN + 4, type |-> "GATEWAY"]
           m == with_rtmsg(new("NEWROUTE", s))
<1>1. m = Message("NEWROUTE", s, Buffer(28, {}, F), 0)
  BY Headed DEF with_rtmsg, NL_HDRLEN
<1>2. FieldsApart(F, HeaderLen["NEWROUTE"])
  BY MessageFields, HeaderLens
<1> HIDE DEF F
<1>3. m.type = "NEWROUTE" /\ m.seq = s /\ m.size = 0 /\ m.buf = Buffer(28, {}, F)
  BY <1>1 DEF Message
<1> HIDE DEF m
<1>4. 28 + Aligned(ATTR_HDRLEN + 4) = 36 /\ 28 % MESSAGE_ALIGN = 0 /\ 36 % MESSAGE_ALIGN = 0
  BY SMTT(30) DEF Aligned, MESSAGE_ALIGN, ATTR_HDRLEN
<1>5. append_attr(m.buf, "GATEWAY", 4) = Buffer(36, {} \cup {g}, F)
  BY <1>3, <1>4, Appended
<1>6. {} \cup {g} = {g}
  OBVIOUS
<1>7. g.off = 28 /\ g.len = ATTR_HDRLEN + 4 /\ g.type = "GATEWAY"
  OBVIOUS
<1> HIDE DEF g
<1>8. add_default_route_msg(s, n) = done(Message("NEWROUTE", s, Buffer(36, {g}, F), 0))
  BY <1>3, <1>5, <1>6 DEF add_default_route_msg, with_buf, m
<1>9. add_default_route_msg(s, n) = Message("NEWROUTE", s, Buffer(36, {g}, F), 36)
  BY <1>4, <1>8, Done
<1>10. {a \in {g} : a.type # "INFO_KIND"} = {g}
  BY <1>7
<1>11. Reads({g}, 28, 36)
  BY <1>4, <1>7 DEF Reads, After, ATTR_HDRLEN
<1>12. Reads({a \in {g} : a.type # "INFO_KIND"}, HeaderLen["NEWROUTE"], 36)
  BY <1>10, <1>11, HeaderLens
<1>13. Parses(Message("NEWROUTE", s, Buffer(36, {g}, F), 36))
  BY <1>2, <1>4, <1>7, <1>12, ParsesIf, ZenonT(30)
<1> QED BY <1>9, <1>13 DEF Message

\* Two attributes of any length, one after the other.
LEMMA TwoAttributes ==
    ASSUME NEW type, NEW s, NEW h \in Nat, h % MESSAGE_ALIGN = 0, HeaderLen[type] = h,
           NEW F, FieldsApart(F, h), NEW p \in Nat, NEW q \in Nat, NEW t, NEW u,
           t \notin {"INFO_KIND", "LINKINFO"}, u \notin {"INFO_KIND", "LINKINFO"}
    PROVE  LET m == done(Message(type, s, append_attr(append_attr(Buffer(h, {}, F), t, p), u, q), 0))
           IN  Parses(m) /\ m.seq = s
<1> DEFINE k == h + Aligned(ATTR_HDRLEN + p)
           l == k + Aligned(ATTR_HDRLEN + q)
           a == [off |-> h, len |-> ATTR_HDRLEN + p, type |-> t]
           b == [off |-> k, len |-> ATTR_HDRLEN + q, type |-> u]
           A == ({} \cup {a}) \cup {b}
<1>1. /\ ATTR_HDRLEN + p \in Nat /\ ATTR_HDRLEN + q \in Nat /\ ATTR_HDRLEN + p >= ATTR_HDRLEN /\ ATTR_HDRLEN + q >= ATTR_HDRLEN
      /\ ATTR_HDRLEN \in Nat /\ ATTR_HDRLEN > 0
  BY DEF ATTR_HDRLEN
<1>2. /\ Aligned(ATTR_HDRLEN + p) \in Nat /\ Aligned(ATTR_HDRLEN + q) \in Nat
      /\ ATTR_HDRLEN + p <= Aligned(ATTR_HDRLEN + p) /\ ATTR_HDRLEN + q <= Aligned(ATTR_HDRLEN + q)
  BY <1>1, AlignedWords
<1>3. k \in Nat /\ l \in Nat /\ h < k /\ k < l
  BY <1>1, <1>2
<1>4. append_attr(Buffer(h, {}, F), t, p) = Buffer(k, {} \cup {a}, F) /\ k % MESSAGE_ALIGN = 0
  BY Appended, SMTT(30)
<1>5. append_attr(Buffer(k, {} \cup {a}, F), u, q) = Buffer(l, A, F) /\ l % MESSAGE_ALIGN = 0
  BY <1>3, <1>4, Appended, SMTT(30)
<1>6. /\ a.off = h /\ a.len = ATTR_HDRLEN + p /\ a.type = t /\ After(a) = k
      /\ b.off = k /\ b.len = ATTR_HDRLEN + q /\ b.type = u /\ After(b) = l
  BY DEF After
<1> HIDE DEF k, l, a, b
<1>7. A = {a, b}
  OBVIOUS
<1>8. {x \in A : x.type # "INFO_KIND"} = A /\ \A c \in A : c.type # "LINKINFO"
  BY <1>6, <1>7
<1> HIDE DEF A
<1>9. Reads(A, h, l)
  BY <1>1, <1>3, <1>6, <1>7 DEF Reads
<1>10. done(Message(type, s, Buffer(l, A, F), 0)) = Message(type, s, Buffer(l, A, F), l)
  BY <1>3, <1>5, Done
<1>11. Parses(Message(type, s, Buffer(l, A, F), l))
  BY <1>3, <1>5, <1>8, <1>9, ParsesIf, Zenon
<1>12. Message(type, s, Buffer(l, A, F), l).seq = s
  BY DEF Message
<1>13. append_attr(append_attr(Buffer(h, {}, F), t, p), u, q) = Buffer(l, A, F)
  BY <1>4, <1>5
<1> QED BY <1>10, <1>11, <1>12, <1>13

\* Two attributes of a word each: add_ip_address.
LEMMA AddressParses ==
    ASSUME NEW s \in Nat, NEW n
    PROVE  Parses(add_ip_address_msg(s, n)) /\ add_ip_address_msg(s, n).seq = s
<1> DEFINE F == FieldsAt(0, NetlinkHeader) \cup FieldsAt(NL_HDRLEN, IfAddrMsg)
           m == with_ifaddrmsg(new("NEWADDR", s))
<1>1. m = Message("NEWADDR", s, Buffer(24, {}, F), 0)
  BY Headed DEF with_ifaddrmsg, NL_HDRLEN
<1>2. FieldsApart(F, 24) /\ HeaderLen["NEWADDR"] = 24
  BY MessageFields, HeaderLens
<1> HIDE DEF F
<1>3. m.type = "NEWADDR" /\ m.seq = s /\ m.size = 0 /\ m.buf = Buffer(24, {}, F)
  BY <1>1 DEF Message
<1> HIDE DEF m
<1>4. 24 % MESSAGE_ALIGN = 0
  BY DEF MESSAGE_ALIGN
<1>5. add_ip_address_msg(s, n) =
        done(Message("NEWADDR", s, append_attr(append_attr(Buffer(24, {}, F), "ADDRESS", 4), "LOCAL", 4), 0))
  BY <1>3 DEF add_ip_address_msg, with_buf, m
<1> QED BY <1>2, <1>4, <1>5, TwoAttributes

\* A word and a name: add_interface_to_bridge.
LEMMA MasterParses ==
    ASSUME NEW s \in Nat, NEW n \in Nat
    PROVE  Parses(add_interface_to_bridge_msg(s, n)) /\ add_interface_to_bridge_msg(s, n).seq = s
<1> DEFINE F == FieldsAt(0, NetlinkHeader) \cup FieldsAt(NL_HDRLEN, IfInfoMsgHdr)
           m == with_ifinfomsg(new("SETLINK", s))
<1>1. m = Message("SETLINK", s, Buffer(32, {}, F), 0)
  BY Headed DEF with_ifinfomsg, NL_HDRLEN
<1>2. FieldsApart(F, 32) /\ HeaderLen["SETLINK"] = 32
  BY MessageFields, HeaderLens
<1> HIDE DEF F
<1>3. m.type = "SETLINK" /\ m.seq = s /\ m.size = 0 /\ m.buf = Buffer(32, {}, F)
  BY <1>1 DEF Message
<1> HIDE DEF m
<1>4. 32 % MESSAGE_ALIGN = 0
  BY DEF MESSAGE_ALIGN
<1>5. add_interface_to_bridge_msg(s, n) =
        done(Message("SETLINK", s, append_attr(append_attr(Buffer(32, {}, F), "MASTER", 4), "IFNAME", n), 0))
  BY <1>3 DEF add_interface_to_bridge_msg, with_buf, attr_str, attr_u32, m
<1> QED BY <1>2, <1>4, <1>5, TwoAttributes

\* A name, and a container with one attribute in it: create_bridge.
LEMMA CreateParses ==
    ASSUME NEW s \in Nat, NEW n \in Nat
    PROVE  Parses(create_bridge_msg(s, n)) /\ create_bridge_msg(s, n).seq = s
<1> DEFINE F == FieldsAt(0, NetlinkHeader) \cup FieldsAt(NL_HDRLEN, IfInfoMsgHdr)
           m == with_ifinfomsg(new("NEWLINK", s))
           x == [off |-> 4, len |-> 10, type |-> "INFO_KIND"]
           kind == append_attr(next_bytes(new_empty, ATTR_HDRLEN), "INFO_KIND", 6)
           k == 32 + Aligned(ATTR_HDRLEN + n)
           a == [off |-> 32, len |-> ATTR_HDRLEN + n, type |-> "IFNAME"]
           c == [off |-> k, len |-> 16, type |-> "LINKINFO"]
           i == [off |-> 4 + k, len |-> 10, type |-> "INFO_KIND"]
           A == (({} \cup {a}) \cup {c}) \cup {i}
<1>1. m = Message("NEWLINK", s, Buffer(32, {}, F), 0)
  BY Headed DEF with_ifinfomsg, NL_HDRLEN
<1>2. FieldsApart(F, 32) /\ HeaderLen["NEWLINK"] = 32
  BY MessageFields, HeaderLens
<1> HIDE DEF F
<1>3. m.type = "NEWLINK" /\ m.seq = s /\ m.size = 0 /\ m.buf = Buffer(32, {}, F)
  BY <1>1, SMTT(30) DEF Message
<1> HIDE DEF m
<1>4. align(kind).len = 16 /\ align(align(kind)).len = 16 /\ align(kind).attrs = {} \cup {x}
  <2>1. next_bytes(new_empty, ATTR_HDRLEN) = Buffer(4, {}, {})
    BY DEF next_bytes, new_empty, Buffer, ATTR_HDRLEN
  <2>2. 4 % MESSAGE_ALIGN = 0 /\ 4 + Aligned(ATTR_HDRLEN + 6) = 16 /\ Aligned(16) = 16 /\ ATTR_HDRLEN + 6 = 10
    BY DEF Aligned, ATTR_HDRLEN, MESSAGE_ALIGN
  <2>3. kind = Buffer(4 + Aligned(ATTR_HDRLEN + 6), {} \cup {[off |-> 4, len |-> ATTR_HDRLEN + 6, type |-> "INFO_KIND"]}, {})
    <3>1. append_attr(Buffer(4, {}, {}), "INFO_KIND", 6)
            = Buffer(4 + Aligned(ATTR_HDRLEN + 6), {} \cup {[off |-> 4, len |-> ATTR_HDRLEN + 6, type |-> "INFO_KIND"]}, {})
      BY <2>2, Appended
    <3> QED BY <2>1, <3>1, SMTT(30)
  <2>4. kind = Buffer(16, {} \cup {x}, {})
    BY <2>2, <2>3, SMTT(30)
  <2>5. kind.len = 16 /\ kind.attrs = {} \cup {x} /\ kind.fields = {}
    BY <2>4, SMTT(30) DEF Buffer
  <2> HIDE DEF kind
  <2>6. align(kind) = Buffer(16, {} \cup {x}, {})
    BY <2>2, <2>5 DEF align
  <2> DEFINE j == align(kind)
  <2>7. j.len = 16 /\ j.attrs = {} \cup {x}
    BY <2>6, SMTT(30) DEF Buffer
  <2> HIDE DEF j
  <2>8. align(j).len = 16
    BY <2>2, <2>7 DEF align, Buffer
  <2> QED BY <2>7, <2>8, SMTT(30) DEF j
<1> HIDE DEF kind
<1>5. /\ ATTR_HDRLEN + n \in Nat /\ ATTR_HDRLEN + n >= ATTR_HDRLEN /\ ATTR_HDRLEN = 4 /\ 32 % MESSAGE_ALIGN = 0
      /\ Aligned(10) = 12 /\ Aligned(16) = 16
  BY DEF ATTR_HDRLEN, MESSAGE_ALIGN, Aligned
<1>6. Aligned(ATTR_HDRLEN + n) \in Nat /\ ATTR_HDRLEN + n <= Aligned(ATTR_HDRLEN + n)
  BY <1>5, AlignedWords, SMTT(30)
<1>7. append_attr(Buffer(32, {}, F), "IFNAME", n) = Buffer(k, {} \cup {a}, F) /\ k % MESSAGE_ALIGN = 0
  BY <1>5, Appended
<1>8. k \in Nat /\ k > 32
  BY <1>5, <1>6
<1>9. k + 16 \in Nat /\ (k + 16) % MESSAGE_ALIGN = 0 /\ Aligned(k + 16) = k + 16
  <2>1. k + 16 \in Nat /\ (k + 16) % MESSAGE_ALIGN = 0
    <3> HIDE DEF k
    <3> QED BY <1>7, <1>8, SMTT(30) DEF MESSAGE_ALIGN
  <2> QED BY <2>1, AlignedWords
<1>10. /\ a.off = 32 /\ a.len = ATTR_HDRLEN + n /\ a.type = "IFNAME" /\ After(a) = k
       /\ c.off = k /\ c.len = 16 /\ c.type = "LINKINFO" /\ After(c) = k + 16
       /\ i.off = k + 4 /\ i.len = 10 /\ i.type = "INFO_KIND" /\ After(i) = k + 16
  BY <1>5, <1>8, SMTT(30) DEF After
<1>11. {[off |-> y.off + k, len |-> y.len, type |-> y.type] : y \in {} \cup {x}} = {i}
  BY SMTT(30)
<1> HIDE DEF k, a, c, i, x
<1>12. A = {a, c, i}
  OBVIOUS
<1>13. /\ {y \in A : y.type # "INFO_KIND"} = {a, c} /\ {y \in A : y.type = "INFO_KIND"} = {i}
       /\ \A y \in A : y.type = "LINKINFO" => y = c
  BY <1>10, <1>12, SMTT(30)
<1>14. Reads({a, c}, 32, k + 16)
  BY <1>5, <1>8, <1>9, <1>10, SMTT(30) DEF Reads
<1>15. Reads({i}, k + 4, k + 16)
  BY <1>5, <1>8, <1>9, <1>10, SMTT(30) DEF Reads
<1> DEFINE d == with_buf(m, attr_str(m.buf, "IFNAME", n))
<1>16. d.type = "NEWLINK" /\ d.seq = s /\ d.size = 0 /\ d.buf = Buffer(k, {} \cup {a}, F)
  BY <1>3, <1>7, SMTT(30) DEF with_buf, attr_str, Message
<1> HIDE DEF d
<1>17. d.buf.len = k /\ d.buf.attrs = {} \cup {a} /\ d.buf.fields = F
  BY <1>16, SMTT(30) DEF Buffer
<1>18. with_nested(d, "LINKINFO", align(kind)) = Message("NEWLINK", s, align(Buffer(k + 16, A, F)), 0)
  BY <1>4, <1>11, <1>16, <1>17, ZenonT(30) DEF with_nested, with_buf, c
<1>19. align(Buffer(k + 16, A, F)) = Buffer(k + 16, A, F)
  BY <1>9, Zenon DEF align, Buffer
<1>20. create_bridge_msg(s, n) = done(Message("NEWLINK", s, Buffer(k + 16, A, F), 0))
  BY <1>18, <1>19 DEF create_bridge_msg, m, d, kind
<1> HIDE DEF A
<1>21. create_bridge_msg(s, n) = Message("NEWLINK", s, Buffer(k + 16, A, F), k + 16)
  BY <1>9, <1>20, Done, SMTT(30)
<1>22. \A y \in A : y.type = "LINKINFO" => Reads({z \in A : z.type = "INFO_KIND"}, y.off + ATTR_HDRLEN, y.off + y.len)
  BY <1>5, <1>10, <1>13, <1>15, SMTT(30)
<1>23. Parses(Message("NEWLINK", s, Buffer(k + 16, A, F), k + 16))
  BY <1>2, <1>9, <1>13, <1>14, <1>22, ParsesIf, Zenon
<1> QED BY <1>21, <1>23 DEF Message

-----------------------------------------------------------------------------
(* Netlink: the exchange with the kernel *)
Ops == {"create_bridge", "set_interface_up", "add_interface_to_bridge", "add_ip_address", "add_default_route"}

\* Every request of the code is read as it was written, and carries its number.
LEMMA RequestParses ==
    ASSUME NEW op \in Ops, NEW s \in Nat, NEW n \in Nat
    PROVE  Parses(Request(op, s, n)) /\ Request(op, s, n).seq = s
<1>1. CASE op = "create_bridge"
  BY <1>1, CreateParses DEF Request
<1>2. CASE op = "set_interface_up"
  BY <1>2, UpParses DEF Request
<1>3. CASE op = "add_interface_to_bridge"
  BY <1>3, MasterParses DEF Request
<1>4. CASE op = "add_ip_address"
  BY <1>4, AddressParses DEF Request
<1>5. CASE op = "add_default_route"
  BY <1>5, RouteParses DEF Request
<1> QED BY <1>1, <1>2, <1>3, <1>4, <1>5 DEF Ops

\* The scripts are sequences of the requests that the code can make.
LEMMA ScriptsOfOps == \A s \in Scripts : s \in Seq(Ops) /\ Len(s) \in Nat \ {0}
<1>1. setup_tap(TRUE) \in Seq(Ops) /\ Len(setup_tap(TRUE)) \in Nat \ {0}
  BY DEF setup_tap, Ops
<1>2. setup_tap(FALSE) \in Seq(Ops) /\ Len(setup_tap(FALSE)) \in Nat \ {0}
  BY DEF setup_tap, Ops
<1>3. configure_network \in Seq(Ops) /\ Len(configure_network) \in Nat \ {0}
  BY DEF configure_network, Ops
<1> QED BY <1>1, <1>2, <1>3, Zenon DEF Scripts

Upto(k) == [i \in 1 .. k |-> i]

\* The requests up to one, and that one after them.
LEMMA UptoNext ==
    ASSUME NEW k \in Nat
    PROVE  Len(Upto(k)) = k /\ Upto(k) \in Seq(Nat) /\ (k > 0 => Append(Upto(k - 1), k) = Upto(k))
<1>1. Upto(k) \in Seq(Nat) /\ Len(Upto(k)) = k
  BY DEF Upto
<1>2. ASSUME k > 0 PROVE Append(Upto(k - 1), k) = Upto(k)
  <2>1. Upto(k - 1) \in Seq(Nat) /\ Len(Upto(k - 1)) = k - 1
    BY <1>2 DEF Upto
  <2> QED BY <1>2, <2>1 DEF Upto
<1> QED BY <1>1, <1>2

\* How many requests the kernel has carried out: those before this one, and this one
\* when the answer to it, on the socket or taken from it, is an acknowledgement.
Answer == IF phase = "recv" THEN inbox[1] ELSE resp
Carried == IF phase # "send" /\ Answer.kind = "ack" THEN linkPc ELSE linkPc - 1

\* The inductive invariant: there is at most one answer on the socket, and it is to the
\* message last sent, which is why none needs to be told from another.
LinkInv ==
    /\ script \in Scripts /\ linkPc \in 1 .. Len(script) /\ phase \in {"send", "recv", "process"}
    /\ result \in {"running", "ok", "err"} /\ seq \in Nat /\ msg.seq \in Nat /\ Parses(msg)
    /\ phase = "recv" => \E k \in Kinds : inbox = <<[seq |-> msg.seq, kind |-> k]>>
    /\ phase # "recv" => inbox = <<>>
    /\ phase = "process" => resp.seq = msg.seq
    /\ applied = Upto(Carried)
    /\ result = "ok" => phase = "process" /\ resp.kind = "ack" /\ linkPc = Len(script)

\* A socket that has just been opened.
LEMMA LinkInvInit == LinkInit => LinkInv
<1> SUFFICES ASSUME LinkInit PROVE LinkInv
  OBVIOUS
<1>1. Len(script) \in Nat \ {0}
  BY ScriptsOfOps DEF LinkInit
<1>2. applied = Upto(Carried)
  BY DEF LinkInit, Upto, Carried
<1>3. Parses(msg) /\ msg.seq \in Nat
  <2>1. FieldsApart({}, HeaderLen["none"]) /\ Reads({a \in {} : a.type # "INFO_KIND"}, HeaderLen["none"], 0)
    BY HeaderLens DEF FieldsApart, Reads
  <2>2. 0 % MESSAGE_ALIGN = 0
    BY DEF MESSAGE_ALIGN
  <2>3. Parses(Message("none", 0, Buffer(0, {}, {}), 0))
    BY <2>1, <2>2, ParsesIf, ZenonT(30)
  <2> QED BY <2>3 DEF LinkInit, NoMsg, new_empty, Message
<1> QED BY <1>1, <1>2, <1>3 DEF LinkInit, LinkInv

\* The caller gives up: nothing but the result, and perhaps the number, changes.
LEMMA GivesUp ==
    ASSUME LinkInv, name_to_index \/ send_fails \/ sys_recv_fails
    PROVE  LinkInv'
<1>1. /\ UNCHANGED <<script, linkPc, phase, inbox, msg, resp, applied>> /\ result' = "err"
      /\ seq' = seq \/ seq' = seq + 1
  BY DEF name_to_index, send_fails, sys_recv_fails, Fails
<1>2. Carried' = Carried
  BY <1>1, ZenonT(30) DEF Carried, Answer
<1> QED BY <1>1, <1>2 DEF LinkInv, Upto

\* send: the kernel carries out the request, or refuses, and queues its answer.
LEMMA SendKeeps ==
    ASSUME LinkInv, NEW n \in NameLens, NEW k \in Kinds, send(n, k)
    PROVE  LinkInv'
<1>1. /\ phase = "send" /\ phase' = "recv" /\ result = "running" /\ seq \in Nat /\ seq' = seq + 1
      /\ UNCHANGED <<script, linkPc, resp, result>> /\ msg' = Request(script[linkPc], seq, n)
      /\ inbox' = Append(inbox, [seq |-> msg'.seq, kind |-> k])
      /\ applied' = IF k = "ack" THEN Append(applied, linkPc) ELSE applied
  BY SMTT(30) DEF send, Kernel, LinkInv
<1>2. linkPc \in 1 .. Len(script) /\ script \in Seq(Ops) /\ Len(script) \in Nat
  BY ScriptsOfOps DEF LinkInv
<1>3. script[linkPc] \in Ops /\ n \in Nat /\ linkPc \in Nat /\ linkPc > 0
  BY <1>2, NameAssumption, SMTT(30)
<1>4. Parses(msg') /\ msg'.seq \in Nat
  BY <1>1, <1>3, RequestParses, SMTT(30)
<1>5. inbox' = <<[seq |-> msg'.seq, kind |-> k]>>
  BY <1>1, SMTT(30) DEF LinkInv
<1>6. Carried' = IF k = "ack" THEN linkPc ELSE linkPc - 1
  BY <1>1, <1>5, SMTT(30) DEF Carried, Answer
<1>7. applied = Upto(linkPc - 1)
  BY <1>1 DEF LinkInv, Carried
<1>8. Append(Upto(linkPc - 1), linkPc) = Upto(linkPc)
  BY <1>3, UptoNext, Zenon
<1>9. applied' = Upto(Carried')
  BY <1>1, <1>6, <1>7, <1>8, Zenon
<1>10. applied' = (Upto(Carried))'
  BY <1>9, SMTT(30) DEF Upto
<1> QED BY <1>1, <1>4, <1>5, <1>10, SMTT(30) DEF LinkInv

\* sys_recv: the one answer there is.
LEMMA RecvKeeps == ASSUME LinkInv, sys_recv PROVE LinkInv'
<1>1. /\ phase = "recv" /\ phase' = "process" /\ resp' = Head(inbox) /\ inbox' = Tail(inbox) /\ result = "running"
      /\ UNCHANGED <<script, linkPc, seq, msg, result, applied>>
  BY SMTT(30) DEF sys_recv
<1>2. PICK k \in Kinds : inbox = <<[seq |-> msg.seq, kind |-> k]>>
  BY <1>1 DEF LinkInv
<1> DEFINE r == [seq |-> msg.seq, kind |-> k]
<1>0. r.seq = msg.seq /\ r.kind = k /\ inbox = <<r>>
  BY <1>2
<1> HIDE DEF r
<1>3. inbox' = <<>> /\ resp' = r /\ inbox[1] = r
  BY <1>0, <1>1, SMTT(30)
<1>4. resp'.seq = msg.seq /\ resp'.kind = k /\ inbox[1].kind = k
  BY <1>0, <1>3, SMTT(30)
<1>5. Carried' = Carried
  BY <1>1, <1>4, SMTT(30) DEF Carried, Answer
<1>6. applied' = (Upto(Carried))'
  BY <1>1, <1>5 DEF LinkInv, Upto
<1> QED BY <1>1, <1>3, <1>4, <1>6 DEF LinkInv

\* process_response: the next request after an acknowledgement, and only then.
LEMMA ProcessKeeps == ASSUME LinkInv, process_response PROVE LinkInv'
<1>1. phase = "process" /\ result = "running" /\ UNCHANGED <<script, seq, inbox, msg, resp, applied>>
  BY DEF process_response
<1>2. linkPc \in 1 .. Len(script) /\ Len(script) \in Nat
  BY ScriptsOfOps, SMTT(30) DEF LinkInv
<1>3. CASE resp.kind = "ack" /\ linkPc # Len(script)
  <2>1. linkPc' = linkPc + 1 /\ phase' = "send" /\ result' = result
    BY <1>3, SMTT(30) DEF process_response
  <2>2. Carried = linkPc /\ Carried' = linkPc
    BY <1>1, <1>2, <1>3, <2>1, SMTT(30) DEF Carried, Answer
  <2>3. applied' = (Upto(Carried))'
    BY <1>1, <2>2 DEF LinkInv, Upto
  <2>4. linkPc' \in 1 .. Len(script')
    BY <1>1, <1>2, <1>3, <2>1, SMTT(30)
  <2> QED BY <1>1, <2>1, <2>3, <2>4 DEF LinkInv
<1>4. CASE ~(resp.kind = "ack" /\ linkPc # Len(script))
  <2>1. UNCHANGED <<linkPc, phase>> /\ result' \in {"ok", "err"}
        /\ (result' = "ok" => resp.kind = "ack" /\ linkPc = Len(script))
    BY <1>4, SMTT(30) DEF process_response, Fails
  <2>2. Carried' = Carried
    BY <1>1, <2>1, SMTT(30) DEF Carried, Answer
  <2>3. applied' = (Upto(Carried))'
    BY <1>1, <2>2 DEF LinkInv, Upto
  <2> QED BY <1>1, <2>1, <2>3 DEF LinkInv
<1> QED BY <1>3, <1>4

\* Every step keeps the invariant.
LEMMA LinkInvNext == LinkInv /\ [LinkNext]_linkVars => LinkInv'
<1> SUFFICES ASSUME LinkInv, [LinkNext]_linkVars PROVE LinkInv'
  OBVIOUS
<1>1. CASE LinkNext
  BY <1>1, GivesUp, SendKeeps, RecvKeeps, ProcessKeeps, SMTT(30) DEF LinkNext
<1>2. CASE UNCHANGED linkVars
  BY <1>2 DEF linkVars, LinkInv, Carried, Answer, Upto
<1> QED BY <1>1, <1>2

\* The invariant implies what is asked of the exchange.
LEMMA LinkInvExact == LinkInv => RequestsExact
<1> SUFFICES ASSUME LinkInv PROVE RequestsExact
  OBVIOUS
<1>1. inbox \in Seq([seq : Nat, kind : Kinds])
  <2>1. CASE phase = "recv"
    <3>1. PICK k \in Kinds : inbox = <<[seq |-> msg.seq, kind |-> k]>>
      BY <2>1, SMTT(30) DEF LinkInv
    <3>2. [seq |-> msg.seq, kind |-> k] \in [seq : Nat, kind : Kinds]
      BY DEF LinkInv
    <3> QED BY <3>1, <3>2, SMTT(30)
  <2>2. CASE phase # "recv"
    BY <2>2 DEF LinkInv
  <2> QED BY <2>1, <2>2, SMTT(30)
<1>2. LinkTypeOK
  BY <1>1 DEF LinkInv, LinkTypeOK
<1>3. AnswerMatches /\ MessageParses
  BY DEF LinkInv, AnswerMatches, MessageParses
<1>4. linkPc \in 1 .. Len(script) /\ Len(script) \in Nat
  BY ScriptsOfOps, SMTT(30) DEF LinkInv
<1>5. Carried \in Nat /\ Carried \in {linkPc - 1, linkPc} /\ (result = "ok" => Carried = Len(script))
  BY <1>4 DEF LinkInv, Carried, Answer
<1>6. applied = Upto(Carried) /\ Len(Upto(Carried)) = Carried
  BY <1>5, UptoNext DEF LinkInv
<1>7. PrefixApplied
  BY <1>5, <1>6 DEF PrefixApplied, Upto
<1> QED BY <1>2, <1>3, <1>7 DEF RequestsExact

\* For every script, every length of name and every failure: an answer is the answer to
\* its request although process_response does not look at its number, the kernel reads
\* the attributes that were written, and what it has done is an initial part of what
\* was asked, all of it when the caller is told so (NetlinkSocket, NetlinkMessage).
THEOREM RequestsStayExact == LinkSpec => []RequestsExact
BY LinkInvInit, LinkInvNext, LinkInvExact, PTL DEF LinkSpec

\* The network of the host and the requests that set it up, for every number of VMs
\* (setup_network, NetlinkSocket).
THEOREM NetworkStaysExplained == SetupSpec /\ LinkSpec => []NetworkExplained
<1>1. BridgeExplained /\ RequestsExact => NetworkExplained
  BY DEF NetworkExplained
<1> QED BY <1>1, BridgeStaysExplained, RequestsStayExact, PTL

-----------------------------------------------------------------------------
(* VmRun *)
Waiting == {"new", "spawned", "barrier"}
Started == {"guest", "check", "ended", "panicked"}
Panicked == {c \in Cpus : vcpu[c] = "panicked"}

\* The states that main and the vcpus are in.
ThreadTypes ==
    /\ main \in {"spawn", "join", "restored", "failed", "panicked"} /\ nextCpu \in 1 .. NCpus + 1
    /\ vcpu \in [Cpus -> Waiting \cup Started]

\* The states that the terminal and its threads are in; where main has restored the
\* terminal, only a thread of the console has made it raw since.
TtyInv ==
    /\ tty \in {"cooked", "raw"} /\ late \in BOOLEAN
    /\ terms \in Seq([saved : {"cooked", "raw"}, at : {"setup", "loop", "restored"}])
    /\ Len(terms) <= MaxTerms
    /\ main = "restored" /\ tty = "raw" => late

\* What main has spawned, by where it is: all of them, once it joins.
SpawnInv ==
    /\ main = "spawn" => nextCpu <= NCpus /\ \A c \in Cpus : vcpu[c] = "new" <=> c >= nextCpu
    /\ main \in {"join", "restored", "failed"} => \A c \in Cpus : vcpu[c] # "new"
    /\ main = "panicked" => nextCpu <= NCpus /\ vcpu[nextCpu] \in {"new", "panicked"}

\* BarrierHolds alone would be lost when the last vcpu leaves the guest for good: that
\* one has ever been there is remembered by the states after the guest.
Together == (\E c \in Cpus : vcpu[c] \in Started) => \A c \in Cpus : vcpu[c] \in Started

\* Each lock that is poisoned has a vcpu of its own that panicked.
PoisonInv ==
    /\ poisoned \subseteq Devices \cup {Console}
    /\ \E by \in [poisoned -> Panicked] : \A d, e \in poisoned : by[d] = by[e] => d = e

RunInv == ThreadTypes /\ SpawnInv /\ Together /\ PoisonInv /\ TtyInv

\* Before main spawns the first vcpu the invariant holds.
LEMMA RunInvInit == RunInit => RunInv
<1> SUFFICES ASSUME RunInit PROVE RunInv
  OBVIOUS
<1> USE RunAssumption DEF RunInit
<1>1. ThreadTypes
  BY DEF ThreadTypes, Waiting, Cpus
<1>2. SpawnInv
  BY DEF SpawnInv, Cpus
<1>3. Together
  BY DEF Together, Started
<1>4. Panicked = {} /\ poisoned = {}
  BY DEF Panicked
<1>5. PoisonInv
  <2>1. [d \in {} |-> 0] \in [poisoned -> Panicked]
    BY <1>4
  <2> QED BY <1>4, <2>1, Zenon DEF PoisonInv
<1>6. TtyInv
  <2>1. terms \in Seq([saved : {"cooked", "raw"}, at : {"setup", "loop", "restored"}]) /\ Len(terms) = 0
    OBVIOUS
  <2>2. Len(terms) <= MaxTerms
    BY <2>1
  <2>3. tty \in {"cooked", "raw"} /\ late \in BOOLEAN /\ main # "restored"
    BY Zenon
  <2> QED BY <2>1, <2>2, <2>3, Zenon DEF TtyInv
<1> QED BY <1>1, <1>2, <1>3, <1>5, <1>6 DEF RunInv

\* As long as the same vcpus have panicked and no lock is poisoned, nothing is new.
LEMMA PoisonSame == ASSUME PoisonInv, Panicked' = Panicked, UNCHANGED poisoned PROVE PoisonInv'
BY DEF PoisonInv

\* Vm::start spawns the next vcpu.
LEMMA SpawnKeeps == RunInv /\ spawn => RunInv'
<1> SUFFICES ASSUME RunInv, spawn PROVE RunInv'
  OBVIOUS
<1> USE RunAssumption
<1>1. /\ main = "spawn" /\ vcpu' = [vcpu EXCEPT ![nextCpu] = "spawned"]
      /\ UNCHANGED <<poisoned, tty, terms, late>>
  BY DEF spawn, ttyVars
<1>2. nextCpu \in Cpus /\ vcpu \in [Cpus -> Waiting \cup Started] /\ \A c \in Cpus : vcpu[c] = "new" <=> c >= nextCpu
  BY <1>1 DEF RunInv, ThreadTypes, SpawnInv, Cpus
<1>3. vcpu[nextCpu] = "new"
  BY <1>2 DEF Cpus
<1>4. /\ vcpu' \in [Cpus -> Waiting \cup Started] /\ vcpu'[nextCpu] = "spawned"
      /\ \A c \in Cpus : c # nextCpu => vcpu'[c] = vcpu[c]
  BY <1>1, <1>2 DEF Waiting
<1>5. \A c \in Cpus : vcpu[c] \notin Started
  BY <1>2, <1>3 DEF RunInv, Together, Started
<1>6. Together'
  BY <1>4, <1>5 DEF Together, Started
<1>7. Panicked' = Panicked
  BY <1>4, <1>5 DEF Panicked, Started
<1>8. PoisonInv'
  BY <1>1, <1>7, PoisonSame DEF RunInv
<1>9. CASE nextCpu = NCpus
  <2>1. main' = "join" /\ nextCpu' = 1
    BY <1>9 DEF spawn
  <2>2. \A c \in Cpus : vcpu'[c] # "new"
    BY <1>2, <1>4, <1>9 DEF Cpus
  <2>3. SpawnInv'
    BY <2>1, <2>2 DEF SpawnInv
  <2>4. TtyInv'
    BY <1>1, <2>1 DEF RunInv, TtyInv
  <2>5. ThreadTypes'
    BY <2>1, <1>4 DEF ThreadTypes
  <2> QED BY <2>3, <2>4, <2>5, <1>6, <1>8 DEF RunInv
<1>10. CASE nextCpu # NCpus
  <2>1. main' = "spawn" /\ nextCpu' = nextCpu + 1
    BY <1>1, <1>10 DEF spawn
  <2>2. \A c \in Cpus : vcpu'[c] = "new" <=> c >= nextCpu'
    BY <1>2, <1>4, <2>1 DEF Cpus
  <2>3. SpawnInv'
    BY <1>2, <1>10, <2>1, <2>2 DEF SpawnInv, Cpus
  <2>4. TtyInv'
    BY <1>1, <2>1 DEF RunInv, TtyInv
  <2>5. ThreadTypes'
    BY <2>1, <1>2, <1>4 DEF ThreadTypes, Cpus
  <2> QED BY <2>3, <2>4, <2>5, <1>6, <1>8 DEF RunInv
<1> QED BY <1>9, <1>10

\* A step of main after the spawns changes no vcpu.
LEMMA MainKeeps ==
    ASSUME RunInv, spawn_fails \/ join \/ restore \/ restore_fails \/ boot
    PROVE  RunInv'
<1> USE RunAssumption
<1>1. UNCHANGED <<vcpu, poisoned, terms, late>>
  BY DEF spawn_fails, join, restore, restore_fails, boot, cpuVars, ttyVars
<1>2. Together'
  BY <1>1 DEF RunInv, Together
<1>3. Panicked' = Panicked
  BY <1>1 DEF Panicked
<1>4. PoisonInv'
  BY <1>1, <1>3, PoisonSame, SMTT(30) DEF RunInv
<1>5. ThreadTypes'
  BY <1>1 DEF RunInv, ThreadTypes, spawn_fails, join, restore, restore_fails, boot
<1>6. SpawnInv'
  <2>1. CASE spawn_fails
    BY <2>1, <1>1, SMTT(30) DEF RunInv, ThreadTypes, SpawnInv, spawn_fails, Cpus
  <2>2. CASE join
    BY <2>2, <1>1, SMTT(30) DEF RunInv, ThreadTypes, SpawnInv, join
  <2>3. CASE restore \/ restore_fails
    BY <2>3, <1>1 DEF RunInv, SpawnInv, restore, restore_fails
  <2>4. CASE boot
    BY <2>4, <1>1, SMTT(30) DEF RunInv, SpawnInv, boot
  <2> QED BY <2>1, <2>2, <2>3, <2>4
<1>7. TtyInv'
  BY <1>1 DEF RunInv, TtyInv, spawn_fails, join, restore, restore_fails, boot, ttyVars
<1> QED BY <1>2, <1>4, <1>5, <1>6, <1>7, SMTT(30) DEF RunInv

\* A vcpu that has passed the barrier goes on; those that panicked stay as they are.
LEMMA VcpuMoves ==
    ASSUME RunInv, NEW c \in Cpus, vcpu[c] \in {"guest", "check"}, NEW s \in Started,
           To(c, s), UNCHANGED <<main, nextCpu>>
    PROVE  /\ ThreadTypes' /\ SpawnInv' /\ Together'
           /\ c \notin Panicked /\ Panicked' = (IF s = "panicked" THEN Panicked \cup {c} ELSE Panicked)
<1>1. vcpu \in [Cpus -> Waiting \cup Started]
  BY DEF RunInv, ThreadTypes
<1>2. /\ vcpu' \in [Cpus -> Waiting \cup Started] /\ vcpu'[c] = s
      /\ \A d \in Cpus : d # c => vcpu'[d] = vcpu[d]
  BY <1>1 DEF To
<1>3. ThreadTypes'
  BY <1>2 DEF RunInv, ThreadTypes
<1>4. Together'
  BY <1>2, SMTT(30) DEF RunInv, Together, Started
<1>5. SpawnInv'
  <2>1. \A d \in Cpus : vcpu'[d] = "new" <=> vcpu[d] = "new"
    BY <1>2 DEF Started
  <2>2. nextCpu <= NCpus => nextCpu \in Cpus
    BY RunAssumption DEF RunInv, ThreadTypes, Cpus
  <2>3. nextCpu \in Cpus /\ vcpu[nextCpu] \in {"new", "panicked"} => vcpu'[nextCpu] = vcpu[nextCpu]
    BY <1>2
  <2> QED BY <2>1, <2>2, <2>3 DEF RunInv, SpawnInv
<1>6. c \notin Panicked /\ Panicked' = IF s = "panicked" THEN Panicked \cup {c} ELSE Panicked
  BY <1>2 DEF Panicked
<1> QED BY <1>3, <1>4, <1>5, <1>6

\* A vcpu that meets a poisoned lock panics and poisons none; one that panics in a
\* handler poisons one lock.
LEMMA PoisonMoves ==
    ASSUME PoisonInv, NEW c \in Cpus, c \notin Panicked,
           Panicked' = Panicked \cup {c}, NEW d \in Devices \cup {Console},
           UNCHANGED poisoned \/ poisoned' = poisoned \cup {d}
    PROVE  PoisonInv'
<1>1. PICK by \in [poisoned -> Panicked] : \A x, y \in poisoned : by[x] = by[y] => x = y
  BY DEF PoisonInv
<1> DEFINE now == [x \in poisoned' |-> IF x \in poisoned THEN by[x] ELSE c]
<1>2. poisoned' \subseteq poisoned \cup {d}
  OBVIOUS
<1>3. now \in [poisoned' -> Panicked']
  BY <1>1, <1>2
<1>4. ASSUME NEW x \in poisoned', NEW y \in poisoned', now[x] = now[y]
      PROVE  x = y
  BY <1>1, <1>2, <1>4
<1>5. poisoned' \subseteq Devices \cup {Console}
  BY <1>2 DEF PoisonInv
<1> HIDE DEF now
<1> QED BY <1>3, <1>4, <1>5 DEF PoisonInv

\* The steps of Vcpu::run after the barrier.
LEMMA VcpuKeeps ==
    ASSUME RunInv, NEW c \in Cpus, check(c) \/ Exit(c)
    PROVE  RunInv'
<1>1. CASE \/ check(c) \/ i8042_write(c) \/ handle_shutdown(c) \/ unhandled(c) \/ run_error(c) \/ start(c)
           \/ \E d \in Devices \cup {Console} : handle_io(c, d) /\ d \notin poisoned
  <2>1. /\ vcpu[c] \in {"guest", "check"} /\ UNCHANGED <<main, nextCpu, poisoned>>
        /\ To(c, "guest") \/ To(c, "check") \/ To(c, "ended")
    BY <1>1 DEF check, i8042_write, handle_shutdown, unhandled, run_error, start, handle_io, mainVars
  <2>2. PICK s \in {"guest", "check", "ended"} : To(c, s)
    BY <2>1
  <2>3. ThreadTypes' /\ SpawnInv' /\ Together' /\ Panicked' = Panicked
    BY <2>1, <2>2, VcpuMoves DEF Started
  <2>4. PoisonInv'
    BY <2>1, <2>3, PoisonSame DEF RunInv
  <2>5. TtyInv'
    <3>1. CASE start(c)
      <4>1. Len(terms) < MaxTerms /\ terms' = Append(terms, [saved |-> tty, at |-> "setup"]) /\ UNCHANGED <<tty, late>>
        BY <3>1 DEF start
      <4>2. [saved |-> tty, at |-> "setup"] \in [saved : {"cooked", "raw"}, at : {"setup", "loop", "restored"}]
        BY DEF RunInv, TtyInv
      <4>3. /\ terms' \in Seq([saved : {"cooked", "raw"}, at : {"setup", "loop", "restored"}])
            /\ Len(terms') = Len(terms) + 1
        BY <4>1, <4>2 DEF RunInv, TtyInv
      <4>4. Len(terms) \in Nat
        BY DEF RunInv, TtyInv
      <4> QED BY <4>1, <4>3, <4>4, <2>1, RunAssumption DEF RunInv, TtyInv
    <3>2. CASE ~start(c)
      <4>1. UNCHANGED <<tty, terms, late>>
        BY <1>1, <3>2 DEF check, i8042_write, handle_shutdown, unhandled, run_error, handle_io, ttyVars
      <4> QED BY <4>1, <2>1, SMTT(30) DEF RunInv, TtyInv
    <3> QED BY <3>1, <3>2
  <2> QED BY <2>3, <2>4, <2>5, SMTT(30) DEF RunInv
<1>2. CASE \E d \in Devices \cup {Console} : (handle_io(c, d) /\ d \in poisoned) \/ handle_io_panics(c, d)
  <2>1. PICK d \in Devices \cup {Console} : (handle_io(c, d) /\ d \in poisoned) \/ handle_io_panics(c, d)
    BY <1>2
  <2>2. /\ vcpu[c] = "guest" /\ To(c, "panicked") /\ UNCHANGED <<main, nextCpu, tty, terms, late>>
        /\ UNCHANGED poisoned \/ poisoned' = poisoned \cup {d}
    BY <2>1 DEF handle_io, handle_io_panics, mainVars, ttyVars
  <2>3. ThreadTypes' /\ SpawnInv' /\ Together' /\ c \notin Panicked /\ Panicked' = Panicked \cup {c}
    BY <2>2, VcpuMoves, SMTT(30) DEF Started
  <2>4. PoisonInv'
    BY <2>2, <2>3, PoisonMoves DEF RunInv
  <2>5. TtyInv'
    BY <2>2 DEF RunInv, TtyInv
  <2> QED BY <2>3, <2>4, <2>5 DEF RunInv
<1> QED BY <1>1, <1>2 DEF Exit

\* barrier.wait(): the last to arrive finds every other vcpu at the barrier, so all of
\* them are released into the guest at once.
LEMMA BarrierKeeps ==
    ASSUME RunInv, NEW c \in Cpus, barrier_wait(c)
    PROVE  RunInv'
<1>1. vcpu[c] = "spawned" /\ UNCHANGED <<main, nextCpu, poisoned, tty, terms, late>>
  BY DEF barrier_wait, mainVars, ttyVars
<1>2. vcpu \in [Cpus -> Waiting \cup Started] /\ \A d \in Cpus : vcpu[d] \notin Started
  BY <1>1 DEF RunInv, ThreadTypes, Together, Started
<1>3. nextCpu <= NCpus => nextCpu \in Cpus
  BY RunAssumption DEF RunInv, ThreadTypes, Cpus
<1>4. TtyInv'
  BY <1>1 DEF RunInv, TtyInv
<1>5. /\ vcpu' \in [Cpus -> Waiting \cup Started] /\ Together'
      /\ \A d \in Cpus : (vcpu'[d] = "new" <=> vcpu[d] = "new") /\ vcpu'[d] # "panicked"
  <2>1. CASE \A d \in Cpus \ {c} : vcpu[d] = "barrier"
    <3>1. vcpu' = [d \in Cpus |-> "guest"]
      BY <2>1 DEF barrier_wait
    <3>2. \A d \in Cpus : vcpu[d] # "new"
      BY <1>1, <2>1
    <3> QED BY <3>1, <3>2 DEF Together, Started
  <2>2. CASE ~\A d \in Cpus \ {c} : vcpu[d] = "barrier"
    <3>1. vcpu' = [vcpu EXCEPT ![c] = "barrier"]
      BY <2>2 DEF barrier_wait, To
    <3>2. vcpu' \in [Cpus -> Waiting \cup Started] /\ vcpu'[c] = "barrier" /\ \A d \in Cpus : d # c => vcpu'[d] = vcpu[d]
      BY <3>1, <1>2 DEF Waiting
    <3> QED BY <3>2, <1>1, <1>2 DEF Together, Started
  <2> QED BY <2>1, <2>2
<1>6. Panicked' = Panicked
  BY <1>2, <1>5 DEF Panicked, Started
<1>7. PoisonInv'
  BY <1>1, <1>6, PoisonSame DEF RunInv
<1>8. ThreadTypes'
  BY <1>1, <1>5 DEF RunInv, ThreadTypes
<1>9. vcpu[nextCpu] = "panicked" /\ nextCpu \in Cpus => FALSE
  BY <1>2 DEF Started
<1>10. SpawnInv'
  BY <1>1, <1>3, <1>5, <1>9 DEF RunInv, SpawnInv
<1> QED BY <1>4, <1>5, <1>7, <1>8, <1>10 DEF RunInv

\* The threads of the console touch nothing but the terminal.
LEMMA TermKeeps ==
    ASSUME RunInv, NEW t \in DOMAIN terms, setup_term(t) \/ restore_term(t)
    PROVE  RunInv'
<1> DEFINE T == [saved : {"cooked", "raw"}, at : {"setup", "loop", "restored"}]
<1>1. UNCHANGED <<main, nextCpu, vcpu, poisoned>>
  BY SMTT(30) DEF setup_term, restore_term, mainVars, cpuVars
<1>2. ThreadTypes' /\ SpawnInv' /\ Together'
  BY <1>1 DEF RunInv, ThreadTypes, SpawnInv, Together
<1>3. Panicked' = Panicked
  BY <1>1 DEF Panicked
<1>4. PoisonInv'
  BY <1>1, <1>3, PoisonSame DEF RunInv
<1>5. terms \in Seq(T) /\ terms[t] \in T
  <2>1. terms \in Seq(T)
    BY DEF RunInv, TtyInv
  <2> HIDE DEF T
  <2> QED BY <2>1
<1>6. PICK x \in {"loop", "restored"} : terms' = [terms EXCEPT ![t].at = x]
  BY DEF setup_term, restore_term
<1>7. [terms[t] EXCEPT !.at = x] \in T
  BY <1>5
<1>8. terms' \in Seq(T) /\ Len(terms') = Len(terms)
  BY <1>5, <1>6, <1>7
<1>9. terms[t].saved \in {"cooked", "raw"}
  BY <1>5
<1>10. tty' \in {"cooked", "raw"} /\ late' = (late \/ main = "restored")
  BY <1>9 DEF setup_term, restore_term, SetTty
<1>11. late' \in BOOLEAN /\ (main' = "restored" /\ tty' = "raw" => late')
  BY <1>1, <1>10, Zenon
<1>12. TtyInv'
  BY <1>8, <1>10, <1>11 DEF RunInv, TtyInv
<1> QED BY <1>2, <1>4, <1>12 DEF RunInv

\* Every step keeps the invariant.
LEMMA RunInvNext == RunInv /\ [RunNext]_runVars => RunInv'
<1> SUFFICES ASSUME RunInv, [RunNext]_runVars PROVE RunInv'
  OBVIOUS
<1>1. CASE Main \/ spawn_fails
  BY <1>1, SpawnKeeps, MainKeeps DEF Main
<1>2. CASE \E c \in Cpus : barrier_wait(c) \/ check(c) \/ Exit(c)
  BY <1>2, BarrierKeeps, VcpuKeeps
<1>3. CASE \E t \in DOMAIN terms : setup_term(t) \/ restore_term(t)
  BY <1>3, TermKeeps, SMTT(30)
<1>4. CASE UNCHANGED runVars
  <2>1. UNCHANGED <<main, nextCpu, vcpu, poisoned, tty, terms, late>>
    BY <1>4 DEF runVars
  <2>2. Panicked' = Panicked
    BY <2>1 DEF Panicked
  <2>3. PoisonInv'
    BY <2>1, <2>2, PoisonSame DEF RunInv
  <2> QED BY <2>1, <2>3 DEF RunInv, ThreadTypes, SpawnInv, Together, TtyInv
<1> QED BY <1>1, <1>2, <1>3, <1>4 DEF RunNext

\* The invariant implies what is asked of the vcpus, of the terminal and of a panic.
LEMMA RunInvTogether == RunInv => VcpusTogether
<1> SUFFICES ASSUME RunInv PROVE VcpusTogether
  OBVIOUS
<1>1. RunTypeOK
  BY DEF RunInv, ThreadTypes, SpawnInv, PoisonInv, TtyInv, RunTypeOK
<1>2. BarrierHolds
  BY DEF RunInv, Together, Started, BarrierHolds
<1>3. TerminalRestored
  BY DEF RunInv, TtyInv, TerminalRestored
<1>4. PanicExplained
  BY DEF RunInv, SpawnInv, PoisonInv, Panicked, PanicExplained
<1> QED BY <1>1, <1>2, <1>3, <1>4 DEF VcpusTogether

\* For every number of vcpus and of consoles: none runs the guest before all can, a
\* panic ends the process only through the join of its vcpu and a poisoned lock has a
\* vcpu that panicked, and after an orderly end the terminal is as it was unless a
\* thread of the console was still to act (Vm::start, barrier.wait, Terminal).
THEOREM VcpusStayTogether == RunSpec => []VcpusTogether
BY RunInvInit, RunInvNext, RunInvTogether, PTL DEF RunSpec
=============================================================================
