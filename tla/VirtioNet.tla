------------------------------ MODULE VirtioNet ------------------------------
(***************************************************************************)
(* The virtio-net device (src/devices/virtio_net.rs): one thread polls the *)
(* two queues and the tap, and moves frames between them.  While the guest *)
(* has no receive buffer, polling of the tap is switched off.              *)
(*                                                                         *)
(* The frames of the host are numbered from 1.  A frame takes one unit of  *)
(* a receive buffer, a frame in Big two; a buffer has capacity units.  The *)
(* driver and the host take steps between any two steps of the device.     *)
(***************************************************************************)
EXTENDS Integers, Sequences

CONSTANTS
    Frames,      \* bound: frames the host sends
    Big,         \* the frames that take two units
    Capacities,  \* units of a receive buffer, one for all buffers of a driver
    MaxChains,   \* bound: chains the driver has posted in a queue
    TapFaults    \* TRUE: a write to the tap may fail

ASSUME NetAssumption == Frames \in Nat /\ Capacities \subseteq Nat

VARIABLES
    at,                  \* what the device thread does
    tap,                 \* frames waiting at the tap
    rx_frame,            \* the frame read and not yet delivered, 0 if rx_bytes is 0
    tap_event_enabled,
    rx_chain, room,      \* the receive buffer being filled: its frames, units left
    rxq, rxKick,         \* posted receive buffers, the ioeventfd
    txq, txKick,
    delivered, used,     \* the frames of the receive buffers returned, how many these are
    taken,               \* the frames the driver takes from these: one of a buffer
    stalled,             \* ghost: the frames a failed tap write left in the tx queue
    capacity             \* one of Capacities, the same from the start to the end

netVars == <<at, tap, rx_frame, tap_event_enabled, rx_chain, room, rxq, rxKick, txq, txKick,
             delivered, used, taken, stalled>>

Size(f) == IF f \in Big THEN 2 ELSE 1
Received == Len(delivered) + Len(rx_chain) + (IF rx_frame = 0 THEN 0 ELSE 1)

NetInit ==
    /\ at = "poll" /\ tap = <<>> /\ rx_frame = 0 /\ tap_event_enabled = TRUE /\ rx_chain = <<>>
    /\ rxq = 0 /\ rxKick = FALSE /\ txq = 0 /\ txKick = FALSE
    /\ room = 0 /\ delivered = <<>> /\ used = 0 /\ taken = <<>> /\ stalled = 0
    /\ capacity \in Capacities

PostRx ==
    /\ rxq < MaxChains
    /\ used < Frames + 1
    /\ rxq' = rxq + 1 /\ rxKick' = TRUE
    /\ UNCHANGED <<at, tap, rx_frame, tap_event_enabled, rx_chain, room, txq, txKick, delivered, used, taken, stalled>>

PostTx ==
    /\ txq < MaxChains
    /\ txq' = txq + 1 /\ txKick' = TRUE
    /\ UNCHANGED <<at, tap, rx_frame, tap_event_enabled, rx_chain, room, rxq, rxKick, delivered, used, taken, stalled>>

HostSends ==
    /\ Received + Len(tap) < Frames
    /\ tap' = Append(tap, Received + Len(tap) + 1)
    /\ UNCHANGED <<at, rx_frame, tap_event_enabled, rx_chain, room, rxq, rxKick, txq, txKick, delivered, used, taken, stalled>>

-----------------------------------------------------------------------------
\* TX_VQ_TOKEN.
handle_tx_queue ==
    /\ at = "poll" /\ txKick
    /\ at' = "tx" /\ txKick' = FALSE /\ stalled' = 0
    /\ UNCHANGED <<tap, rx_frame, tap_event_enabled, rx_chain, room, rxq, rxKick, txq, delivered, used, taken>>

tx_chain ==
    /\ at = "tx"
    /\ IF txq > 0 THEN txq' = txq - 1 /\ UNCHANGED at ELSE at' = "poll" /\ UNCHANGED txq
    /\ UNCHANGED <<tap, rx_frame, tap_event_enabled, rx_chain, room, rxq, rxKick, txKick, delivered, used, taken, stalled>>

\* The frame cannot be written: `?` leaves the loop, the kick is already read.
tx_fails ==
    /\ TapFaults /\ at = "tx" /\ txq > 0
    /\ txq' = txq - 1 /\ at' = "poll"
    /\ stalled' = txq - 1
    /\ UNCHANGED <<tap, rx_frame, tap_event_enabled, rx_chain, room, rxq, rxKick, txKick, delivered, used, taken>>

-----------------------------------------------------------------------------
\* RX_VQ_TOKEN: the tap is polled again, and a frame left over goes first.

\* Mutant: polling of the tap is not switched on again.
handle_rx_queue_off ==
    /\ at = "poll" /\ rxKick
    /\ rxKick' = FALSE
    /\ at' = IF rx_frame # 0 THEN "rx" ELSE "poll"
    /\ UNCHANGED <<tap_event_enabled, tap, rx_frame, rx_chain, room, rxq, txq, txKick, delivered, used, taken, stalled>>

handle_rx_queue ==
    /\ at = "poll" /\ rxKick
    /\ rxKick' = FALSE /\ tap_event_enabled' = TRUE
    /\ at' = IF rx_frame # 0 THEN "rx" ELSE "poll"
    /\ UNCHANGED <<tap, rx_frame, rx_chain, room, rxq, txq, txKick, delivered, used, taken, stalled>>

\* RX_TAP.
handle_rx_tap ==
    /\ at = "poll" /\ tap_event_enabled /\ tap # <<>>
    /\ at' = "rx"
    /\ UNCHANGED <<tap, rx_frame, tap_event_enabled, rx_chain, room, rxq, rxKick, txq, txKick, delivered, used, taken, stalled>>

next_rx_chain ==
    /\ at = "rx"
    /\ IF rxq > 0
       THEN /\ rxq' = rxq - 1 /\ rx_chain' = <<>> /\ room' = capacity
            /\ at' = IF rx_frame # 0 THEN "receive" ELSE "read"
            /\ UNCHANGED tap_event_enabled
       ELSE /\ at' = "poll"
            /\ tap_event_enabled' = FALSE
            /\ UNCHANGED <<rxq, rx_chain, room>>
    /\ UNCHANGED <<tap, rx_frame, rxKick, txq, txKick, delivered, used, taken, stalled>>

\* A chain that goes out of scope returns to the driver with what it holds.  The
\* device does not offer VIRTIO_NET_F_MRG_RXBUF, so the driver takes one packet from
\* a buffer, and nothing from an empty one.
Dropped ==
    /\ delivered' = delivered \o rx_chain /\ used' = used + 1 /\ rx_chain' = <<>>
    /\ taken' = (IF rx_chain = <<>> THEN taken ELSE Append(taken, Head(rx_chain)))

\* A frame too large for a whole buffer stays, and the buffer returns empty.
receive_frame ==
    /\ at = "receive"
    /\ IF room < Size(rx_frame)
       THEN at' = "poll" /\ Dropped /\ room' = 0 /\ UNCHANGED rx_frame
       ELSE /\ at' = "read"
            /\ rx_chain' = Append(rx_chain, rx_frame) /\ room' = room - Size(rx_frame)
            /\ rx_frame' = 0
            /\ UNCHANGED <<delivered, used, taken>>
    /\ UNCHANGED <<tap, tap_event_enabled, rxq, rxKick, txq, txKick, stalled>>

tap_read ==
    /\ at = "read"
    /\ IF tap = <<>>
       THEN at' = "poll" /\ Dropped /\ room' = 0 /\ UNCHANGED <<tap, rx_frame>>
       ELSE /\ rx_frame' = Head(tap) /\ tap' = Tail(tap)
            /\ at' = IF room < Size(Head(tap)) THEN "full" ELSE "receive"
            /\ UNCHANGED <<rx_chain, room, delivered, used, taken>>
    /\ UNCHANGED <<tap_event_enabled, rxq, rxKick, txq, txKick, stalled>>

\* Mutant: the frame just read is dropped with the full buffer.
full_chain_loses ==
    /\ at = "full"
    /\ Dropped
    /\ IF rxq > 0 THEN rxq' = rxq - 1 /\ room' = capacity /\ at' = "read" /\ rx_frame' = 0
       ELSE at' = "poll" /\ room' = 0 /\ UNCHANGED <<rxq, rx_frame>>
    /\ UNCHANGED <<tap, tap_event_enabled, rxKick, txq, txKick, stalled>>

\* The buffer is full: another one, or the frame waits with the tap still polled.
full_chain ==
    /\ at = "full"
    /\ Dropped
    /\ IF rxq > 0 THEN rxq' = rxq - 1 /\ room' = capacity /\ at' = "receive"
       ELSE at' = "poll" /\ room' = 0 /\ UNCHANGED rxq
    /\ UNCHANGED <<tap, rx_frame, tap_event_enabled, rxKick, txq, txKick, stalled>>

Handler == \/ tx_chain \/ tx_fails \/ next_rx_chain \/ receive_frame \/ tap_read \/ full_chain

NetNext ==
    /\ \/ PostRx \/ PostTx \/ HostSends
       \/ handle_tx_queue \/ handle_rx_queue \/ handle_rx_tap \/ Handler
    /\ UNCHANGED capacity

\* The thread keeps running, and run() handles every event a wait returns.
NetSpec ==
    /\ NetInit /\ [][NetNext]_<<netVars, capacity>> /\ WF_netVars(Handler)
    /\ SF_netVars(handle_tx_queue) /\ SF_netVars(handle_rx_queue) /\ SF_netVars(handle_rx_tap)

-----------------------------------------------------------------------------
\* The device's fields have their types and a buffer is never overfilled.
NetTypeOK ==
    /\ at \in {"poll", "tx", "rx", "receive", "read", "full"}
    /\ rx_frame \in 0 .. Frames /\ tap_event_enabled \in BOOLEAN
    /\ room \in 0 .. capacity /\ stalled \in Nat
    /\ at \in {"poll", "tx", "rx"} => rx_chain = <<>>

\* Every frame the device takes from the tap goes into a buffer once and in its
\* turn: returned, being filled in, or the one frame kept back for the next buffer
\* (handle_rx_tap and the rx_bytes it leaves behind).
OnceInTurn ==
    LET seen == delivered \o rx_chain \o (IF rx_frame = 0 THEN <<>> ELSE <<rx_frame>>) \o tap
    IN  seen = [i \in DOMAIN seen |-> i]

\* The driver takes the frames in their order and none twice, and loses a frame only
\* where handle_rx_tap put it behind the one before it, in a buffer with room for both.
TakenInTurn ==
    /\ \A i, j \in DOMAIN taken : i < j => taken[i] < taken[j]
    /\ \A f \in 1 .. Len(delivered) :
           \/ \E i \in DOMAIN taken : taken[i] = f
           \/ f > 1 /\ Size(f - 1) + Size(f) <= capacity

\* A device asleep in its poll has not forgotten a frame it could deliver: with
\* a buffer posted, a kick or an event of the tap is still to come.
RxWakes ==
    (at = "poll" /\ rxq > 0 /\ (rx_frame # 0 \/ tap # <<>>) /\ Size(rx_frame) <= capacity)
        => (rxKick \/ (tap_event_enabled /\ tap # <<>>))

\* A device asleep has sent everything it was kicked for, except the frames behind one
\* the tap refused: those, and no later ones, wait for the next kick (handle_tx_queue).
TxWakes == (at = "poll" /\ ~ txKick) => txq = stalled

\* The device passes on the frames of the tap once and in their order, the guest loses
\* only frames that shared a buffer with an earlier one, and a sleeping device has a
\* kick or an event of the tap to come for every frame it could move, those behind a
\* refused frame excepted (handle_rx_tap, handle_rx_queue, handle_tx_queue).
FramesInOrder == NetTypeOK /\ OnceInTurn /\ TakenInTurn /\ RxWakes /\ TxWakes

\* Frames do not wait while there are buffers, and without a buffer the device stops
\* polling the tap, instead of spinning on it (disable_tap_events), or the driver
\* posts one.  Both provided the device gets back to its poll: a driver that
\* transmits without a pause keeps handle_tx_queue in its loop and reception waits
\* for it.
FramesMove ==
    []<>(at = "poll") =>
        /\ (tap # <<>> /\ rxq > 0) ~> (tap = <<>> \/ rxq = 0)
        /\ (tap # <<>> /\ rxq = 0 /\ ~ rxKick)
               ~> (~ tap_event_enabled \/ tap = <<>> \/ rxq > 0 \/ rxKick)
=============================================================================
