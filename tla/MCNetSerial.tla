----------------------------- MODULE MCNetSerial -----------------------------
(***************************************************************************)
(* The network device and the consoles, one part at a time: they share no  *)
(* state.  "net" is the network device, with buffers that hold two small   *)
(* frames or a large one, or that a large frame does not fit; "keys" types *)
(* three ^C and more, "console" has all three threads of the virtio        *)
(* console at work; "uart" is the serial port.  The parts that do not move *)
(* stay in an initial state.                                               *)
(***************************************************************************)
EXTENDS VirtioNet, VirtioSerial, Uart

VARIABLE part

rigid == <<part, capacity, buffers, winsz>>
vars == <<rigid, netVars, ctlVars, termVars, consVars, uartVars>>

\* The virtio console with more buffers and output, and fewer keys.
Wide == INSTANCE VirtioSerial WITH MaxBuffers <- 5, MaxKeys <- 1, MaxOut <- 2

SerialParked == buffers = 1 /\ winsz
Init ==
    /\ part \in {"net", "keys", "console", "uart"}
    /\ NetInit /\ (part # "net" => capacity = 2) /\ UartInit
    /\ IF part = "console" THEN Wide!SerialInit ELSE SerialInit /\ (part # "keys" => SerialParked)
Next ==
    \/ part = "net" /\ NetNext /\ UNCHANGED <<part, serialVars, uartVars>>
    \/ part = "keys" /\ SerialNext /\ UNCHANGED <<part, capacity, netVars, uartVars>>
    \/ part = "console" /\ Wide!SerialNext /\ UNCHANGED <<part, capacity, netVars, uartVars>>
    \/ part = "uart" /\ UartNext /\ UNCHANGED <<part, capacity, netVars, serialVars>>

\* The device threads run and each loop handles every event that a wait returns
\* (NetSpec); the console's driver keeps posting chains (SerialFairness).
Spec ==
    /\ Init /\ [][Next]_vars
    /\ WF_netVars(part = "net" /\ Handler)
    /\ SF_netVars(part = "net" /\ handle_tx_queue)
    /\ SF_netVars(part = "net" /\ handle_rx_queue)
    /\ SF_netVars(part = "net" /\ handle_rx_tap)
    /\ WF_ctlVars(part = "console" /\ (Control \/ Driver))
    /\ WF_termVars(part = "console" /\ Terminal)
    /\ WF_termVars(part = "console" /\ Post(2))
    /\ WF_consVars(part = "console" /\ Console)

-----------------------------------------------------------------------------
\* A console passes on what it is given, in order, and leaves its surroundings as it
\* should: the guest reads what was typed, and three ^C in a row or the end of the
\* thread, and nothing else, restore the terminal (VirtioSerial!TerminalExact); the
\* serial port has printed all that was sent, is ready for more, holds its line high
\* exactly while an interrupt is pending and reads back what was looped
\* (Uart!SerialPortExact).
ConsoleExact == TerminalExact /\ SerialPortExact

\* Given four receive buffers the driver and Control::run never wait for each other,
\* so the port opens; keys reach the guest and output chains come back, unless a
\* chain was too short or stdout failed (VirtioSerial!ControlAnswered, PortOpens,
\* KeysDelivered, OutputReturned).
ConsoleServed ==
    /\ (part = "console" /\ buffers >= 4 /\ guest = "spin") ~> (guest = "idle")
    /\ (part = "console" /\ buffers >= 4) => <>opened
    /\ (part = "console" /\ Len(keys) = 1) ~> (Len(input) >= 1 \/ term = "dead")
    /\ (part = "console" /\ out > 0) ~> (out = 0 \/ cons = "dead")
=============================================================================
