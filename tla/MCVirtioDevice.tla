--------------------------- MODULE MCVirtioDevice ---------------------------
(***************************************************************************)
(* A virtio device seen from its life cycle and from its registers.  part  *)
(* names what is looked at: the life of the device ("life"), over four     *)
(* setups, and the registers with the interrupt line ("regs").  The setups *)
(* are a device with a driver that resets it at any time and writes sizes  *)
(* that are valid, no power of 2 and too large; one of two queues, with a  *)
(* driver that lets requests finish first; one with the same driver and    *)
(* memory at address 2 that looks like a published request; and one that   *)
(* can be started once, with that memory and a driver that writes a size   *)
(* of 0.  The parts share no state.                                        *)
(***************************************************************************)
EXTENDS VirtioDevice, VirtioRegs

VARIABLE part

MCSetups ==
    {[num_queues |-> 1, sizes |-> {1, 3, 8}, features |-> {0, 1},
      one_shot |-> FALSE, quiesce |-> FALSE, low_word |-> 0],
     [num_queues |-> 2, sizes |-> {1}, features |-> {0},
      one_shot |-> FALSE, quiesce |-> TRUE, low_word |-> 0],
     [num_queues |-> 1, sizes |-> {1}, features |-> {0},
      one_shot |-> FALSE, quiesce |-> TRUE, low_word |-> 1],
     [num_queues |-> 1, sizes |-> {0, 1}, features |-> {0},
      one_shot |-> TRUE, quiesce |-> FALSE, low_word |-> 1]}
SizeSetups ==
    {[num_queues |-> 1, sizes |-> {0, 1}, features |-> {0},
      one_shot |-> FALSE, quiesce |-> TRUE, low_word |-> 0]}

vars == <<part, deviceVars, regsVars>>
Init ==
    /\ part \in {"life", "regs"}
    /\ DeviceInit /\ RegsInit
    /\ part = "regs" => setup = CHOOSE s \in Setups : TRUE
Next ==
    \/ part = "life" /\ DeviceNext /\ UNCHANGED <<part, regsVars>>
    \/ part = "regs" /\ RegsNext /\ UNCHANGED <<part, deviceVars>>
Spec == Init /\ [][Next]_vars
=============================================================================
