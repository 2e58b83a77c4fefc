-------------------------------- MODULE Uart --------------------------------
(***************************************************************************)
(* The 8250 serial port, src/devices/serial.rs: one action for each access *)
(* of the guest to a register with an effect.  Every access ends in        *)
(* update_irq, which computes the interrupt from ier and lsr and looks for *)
(* the FIFO clear bits in lcr, where the line settings are, not in fcr.    *)
(*                                                                         *)
(* A register is the set of its bits that the code tests.                  *)
(***************************************************************************)
EXTENDS Integers, Sequences

CONSTANTS FIFO_LEN, Bytes, MaxSent    \* MaxSent: bound on bytes written to UART_TX

ASSUME UartAssumption == FIFO_LEN \in Nat \ {0}

VARIABLES
    lcr,        \* subset of {"DLAB", "XMIT", "RCVR"}: bits 7, 2 and 1
    ier,        \* subset of {"RDI", "THRI"}
    dlm,        \* likewise: the divisor latch takes the same bytes
    mcr,        \* subset of {"LOOP"}
    lsr,        \* subset of {"TEMT", "THRE", "DR"}
    irq_state,  \* subset of {"RDI", "THRI"}
    irq_line,   \* level of the interrupt line
    txbuf, rxbuf, rxdone,
    stdout,     \* what has been printed
    sent,       \* history: bytes written to be printed
    looped,     \* history: bytes written in loop mode and kept, since the last clear
    received    \* history: bytes read from UART_RX since the last clear

uartVars == <<lcr, ier, dlm, mcr, lsr, irq_state, irq_line, txbuf, rxbuf, rxdone, stdout, sent, looped, received>>

UartInit ==
    /\ lcr = {} /\ ier = {} /\ dlm = {} /\ mcr = {} /\ lsr = {"TEMT", "THRE"}
    /\ irq_state = {} /\ irq_line = FALSE
    /\ txbuf = <<>> /\ rxbuf = <<>> /\ rxdone = 0
    /\ stdout = <<>> /\ sent = <<>> /\ looped = <<>> /\ received = <<>>

\* The state that the body of an access changes before it calls update_irq.
Now == [lcr |-> lcr, ier |-> ier, mcr |-> mcr, lsr |-> lsr, txbuf |-> txbuf, rxbuf |-> rxbuf,
        rxdone |-> rxdone, stdout |-> stdout, looped |-> looped, received |-> received]

\* The interrupts that are pending.
Pending(i, s) == (IF "DR" \in s THEN i \cap {"RDI"} ELSE {}) \cup (IF "TEMT" \in s THEN i \cap {"THRI"} ELSE {})

\* set_irq_line is called when the state goes from nothing pending to something
\* pending, or back.
SetLine(p) == irq_line' = IF irq_state = {} /\ p # {} THEN TRUE
                          ELSE IF irq_state # {} /\ p = {} THEN FALSE ELSE irq_line

\* The FIFO clear bits, as update_irq reads them.
clear_rcvr(r) ==
    IF "RCVR" \notin r.lcr THEN r
    ELSE [r EXCEPT !.lcr = @ \ {"RCVR"}, !.lsr = @ \ {"DR"}, !.rxbuf = <<>>, !.rxdone = 0,
                   !.looped = <<>>, !.received = <<>>]
clear_xmit(r) ==
    IF "XMIT" \notin r.lcr THEN r
    ELSE [r EXCEPT !.lcr = @ \ {"XMIT"}, !.lsr = @ \cup {"TEMT", "THRE"}, !.txbuf = <<>>]
flush_tx(r) == [r EXCEPT !.lsr = @ \cup {"TEMT", "THRE"}, !.stdout = @ \o r.txbuf, !.txbuf = <<>>]

\* update_irq: the clear bits, the line, and the transmitter is flushed unless its
\* interrupt is enabled.
update_irq(r) ==
    LET c == clear_xmit(clear_rcvr(r))
        f == IF "THRI" \in c.ier THEN c ELSE flush_tx(c)
    IN  /\ irq_state' = Pending(c.ier, c.lsr) /\ SetLine(Pending(c.ier, c.lsr))
        /\ lcr' = f.lcr /\ ier' = f.ier /\ mcr' = f.mcr /\ lsr' = f.lsr
        /\ txbuf' = f.txbuf /\ rxbuf' = f.rxbuf /\ rxdone' = f.rxdone
        /\ stdout' = f.stdout /\ looped' = f.looped /\ received' = f.received

\* tx of a byte that is to be printed: it is flushed at once, whatever ier says.
tx(b) ==
    IF Len(txbuf) < FIFO_LEN
    THEN flush_tx([Now EXCEPT !.txbuf = Append(@, b),
                              !.lsr = @ \ (IF Len(txbuf) + 1 = FIFO_LEN \div 2 THEN {"TEMT", "THRE"} ELSE {"TEMT"})])
    ELSE [Now EXCEPT !.lsr = @ \ {"TEMT", "THRE"}]

Transmit(b) ==
    /\ "DLAB" \notin lcr /\ "LOOP" \notin mcr /\ Len(sent) + Len(looped) < MaxSent
    /\ update_irq(tx(b)) /\ sent' = Append(sent, b)
    /\ UNCHANGED dlm

FifoRoom == Len(rxbuf) < FIFO_LEN
\* tx in loop mode: the byte goes to the receive buffer while there is room.
Loop(b) ==
    /\ "DLAB" \notin lcr /\ "LOOP" \in mcr /\ Len(sent) + Len(looped) < MaxSent
    /\ update_irq(IF FifoRoom THEN [Now EXCEPT !.rxbuf = Append(@, b), !.lsr = @ \cup {"DR"},
                                           !.looped = Append(@, b)]
                  ELSE Now)
    /\ UNCHANGED <<dlm, sent>>

\* rx: the next byte; with the last one the buffer is empty again.
rx == LET done == rxdone + 1 IN
    IF done = Len(rxbuf) THEN [Now EXCEPT !.lsr = @ \ {"DR"}, !.rxbuf = <<>>, !.rxdone = 0]
    ELSE [Now EXCEPT !.rxdone = done]
Receive ==
    /\ "DLAB" \notin lcr /\ rxdone # Len(rxbuf)
    /\ update_irq([rx EXCEPT !.received = Append(@, rxbuf[rxdone + 1])])
    /\ UNCHANGED <<dlm, sent>>

\* The interrupts are enabled through the divisor latch: with DLAB set the byte goes
\* to ier, and with DLAB clear to dlm.
WriteIer(v) ==
    /\ dlm' = IF "DLAB" \in lcr THEN dlm ELSE v
    /\ update_irq(IF "DLAB" \in lcr THEN [Now EXCEPT !.ier = v] ELSE Now)
    /\ UNCHANGED sent
WriteLcr(v) == update_irq([Now EXCEPT !.lcr = v]) /\ UNCHANGED <<dlm, sent>>
WriteMcr(v) == update_irq([Now EXCEPT !.mcr = v]) /\ UNCHANGED <<dlm, sent>>

UartNext ==
    \/ \E b \in Bytes : Transmit(b) \/ Loop(b)
    \/ Receive
    \/ \E v \in SUBSET {"RDI", "THRI"} : WriteIer(v)
    \/ \E v \in SUBSET {"DLAB", "XMIT", "RCVR"} : WriteLcr(v)
    \/ \E v \in SUBSET {"LOOP"} : WriteMcr(v)
UartSpec == UartInit /\ [][UartNext]_uartVars

-----------------------------------------------------------------------------
\* The receive buffer is within its array, and the position within the buffer.
UartTypeOK == Len(rxbuf) <= FIFO_LEN /\ rxdone <= Len(rxbuf) /\ irq_state \subseteq ier

\* Everything the guest printed has been printed, in order, however interrupts,
\* loop mode and line settings were changed in between.
OutputExact == stdout = sent

\* A guest that polls for room before it prints never waits.
TransmitterReady == {"TEMT", "THRE"} \subseteq lsr

\* The line is high exactly while an enabled interrupt is pending.
LineLevel == irq_line <=> Pending(ier, lsr) # {}

\* What is read in loop mode is what was written, in order and nothing twice, since
\* the line settings were last written with bit 1 set, which empties the buffer.
LoopExact ==
    /\ looped = received \o SubSeq(rxbuf, rxdone + 1, Len(rxbuf))
    /\ "DR" \in lsr <=> rxdone # Len(rxbuf)

\* The serial port has printed all that was sent, is ready for more, holds its line
\* high exactly while an interrupt is pending and reads back what was looped (tx, rx,
\* update_irq).
SerialPortExact == UartTypeOK /\ OutputExact /\ TransmitterReady /\ LineLevel /\ LoopExact
=============================================================================
