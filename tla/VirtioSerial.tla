---------------------------- MODULE VirtioSerial ----------------------------
(***************************************************************************)
(* The virtio console device, src/devices/virtio_serial.rs.  start spawns  *)
(* three threads: Control::run answers the driver's control messages,      *)
(* Terminal::read_loop carries what is typed to the guest, and             *)
(* start_console copies the guest's output to stdout.                      *)
(*                                                                         *)
(* The driver is external.  Its control part behaves as virtio_console of  *)
(* Linux: it waits for each control message it sends to be returned, and   *)
(* gives a receive buffer back after it has handled what came in it.       *)
(***************************************************************************)
EXTENDS Integers, Sequences

CONSTANTS
    MaxBuffers,   \* bound: receive buffers of the control queue
    MaxKeys,      \* bound: keys typed
    BufLen,       \* keys that one read returns at most
    MaxOut        \* bound: output chains

ASSUME SerialAssumption == BufLen \in Nat \ {0} /\ MaxBuffers \in Nat

VARIABLES
    buffers,      \* receive buffers of the driver, fixed at start
    winsz,        \* TIOCGWINSZ works on stdin
    ctl,          \* Control::run: "wait", "reply" or "dead"
    msgs,         \* messages it still has to send for the chain it holds
    ctlTx,           \* control chains of the driver, not yet taken
    ctlRx,           \* control receive buffers available to the device
    got,          \* messages received and not yet handled by the driver
    guest,        \* driver: "start", "spin" or "idle"
    handles,      \* driver: it has taken a receive buffer and not given it back
    opened,       \* history: the driver has handled PORT_OPEN
    stdin, keys,  \* keys typed and not read; history: all keys typed
    term,         \* read_loop: "read", "put" or "dead"
    buf, abort_cnt, saved, tty,
    input,        \* keys the guest received
    chain,        \* size of the input chain available, 0 if there is none
    merged,       \* history: a read has returned more than one key
    cons, kicked, out, returned   \* start_console: state, eventfd, chains

ctlVars == <<ctl, msgs, ctlTx, ctlRx, got, guest, handles, opened>>
termVars == <<stdin, keys, term, buf, abort_cnt, saved, tty, input, chain, merged>>
consVars == <<cons, kicked, out, returned>>
serialVars == <<buffers, winsz, ctlVars, termVars, consVars>>

SerialInit ==
    /\ buffers \in 1..MaxBuffers /\ ctlRx = buffers /\ winsz \in BOOLEAN
    /\ ctl = "wait" /\ msgs = <<>> /\ ctlTx = <<>> /\ got = <<>>
    /\ guest = "start" /\ handles = FALSE /\ opened = FALSE
    /\ stdin = <<>> /\ keys = <<>> /\ term = "read" /\ buf = <<>> /\ abort_cnt = 0
    /\ saved = TRUE /\ tty = "raw"           \* Terminal::create, setup_term
    /\ input = <<>> /\ chain = 0 /\ merged = FALSE
    /\ cons = "wait" /\ kicked = FALSE /\ out = 0 /\ returned = 0

-----------------------------------------------------------------------------
(* Control *)

\* Mutant: the port is also given a name.
Replies_named(event) ==
    CASE event = "DEVICE_READY" -> <<"DEVICE_ADD">>
      [] event = "PORT_READY" -> <<"CONSOLE_PORT", "PORT_NAME", "PORT_OPEN", "RESIZE">>
      [] OTHER -> <<>>
Replies(event) ==
    CASE event = "DEVICE_READY" -> <<"DEVICE_ADD">>
      [] event = "PORT_READY" -> <<"CONSOLE_PORT", "PORT_OPEN", "RESIZE">>
      [] OTHER -> <<>>

run_take ==
    /\ ctl = "wait" /\ ctlTx # <<>>
    /\ ctl' = "reply" /\ msgs' = Replies(Head(ctlTx)) /\ ctlTx' = Tail(ctlTx)
    /\ UNCHANGED <<ctlRx, got, guest, handles, opened>>

\* Waits for a receive buffer while it holds the driver's chain.
send_msg ==
    /\ ctl = "reply" /\ msgs # <<>> /\ ctlRx > 0
    /\ Head(msgs) = "RESIZE" => winsz
    /\ got' = Append(got, Head(msgs)) /\ msgs' = Tail(msgs) /\ ctlRx' = ctlRx - 1
    /\ UNCHANGED <<ctl, ctlTx, guest, handles, opened>>

\* The window size is read first; without it the unwrap ends the thread, which
\* returns the chain.
send_resize_fails ==
    /\ ctl = "reply" /\ msgs # <<>> /\ Head(msgs) = "RESIZE" /\ ~winsz
    /\ ctl' = "dead" /\ msgs' = <<>>
    /\ UNCHANGED <<ctlTx, ctlRx, got, guest, handles, opened>>

run_flush ==
    /\ ctl = "reply" /\ msgs = <<>>
    /\ ctl' = "wait"
    /\ UNCHANGED <<msgs, ctlTx, ctlRx, got, guest, handles, opened>>

\* The driver: it announces itself, then handles message after message.
GuestSend(event) == ctlTx' = Append(ctlTx, event) /\ guest' = "spin"
GuestStart ==
    /\ guest = "start" /\ GuestSend("DEVICE_READY")
    /\ UNCHANGED <<ctl, msgs, ctlRx, got, handles, opened>>
GuestHandle ==
    /\ guest = "idle" /\ ~handles /\ got # <<>>
    /\ got' = Tail(got) /\ handles' = TRUE
    /\ opened' = (opened \/ Head(got) = "PORT_OPEN")
    /\ IF Head(got) = "DEVICE_ADD" THEN GuestSend("PORT_READY") ELSE UNCHANGED <<ctlTx, guest>>
    /\ UNCHANGED <<ctl, msgs, ctlRx>>
GuestGives ==
    /\ guest = "idle" /\ handles
    /\ handles' = FALSE /\ ctlRx' = ctlRx + 1
    /\ UNCHANGED <<ctl, msgs, ctlTx, got, guest, opened>>
GuestReturns ==
    /\ guest = "spin" /\ ctlTx = <<>> /\ ctl # "reply"
    /\ guest' = "idle"
    /\ UNCHANGED <<ctl, msgs, ctlTx, ctlRx, got, handles, opened>>

Control == run_take \/ send_msg \/ send_resize_fails \/ run_flush
Driver == GuestStart \/ GuestHandle \/ GuestGives \/ GuestReturns

-----------------------------------------------------------------------------
(* Terminal *)

Type(k) ==
    /\ Len(keys) < MaxKeys
    /\ keys' = Append(keys, k) /\ stdin' = Append(stdin, k)
    /\ UNCHANGED <<term, buf, abort_cnt, saved, tty, input, chain, merged>>

Post(n) ==
    /\ chain = 0 /\ chain' = n
    /\ UNCHANGED <<stdin, keys, term, buf, abort_cnt, saved, tty, input, merged>>

read ==
    /\ term = "read" /\ stdin # <<>>
    /\ LET n == IF Len(stdin) < BufLen THEN Len(stdin) ELSE BufLen IN
          /\ buf' = SubSeq(stdin, 1, n)
          /\ stdin' = SubSeq(stdin, n + 1, Len(stdin))
          /\ merged' = (merged \/ n > 1)
    /\ term' = "put"
    /\ UNCHANGED <<keys, abort_cnt, saved, tty, input, chain>>

\* Only a read that returns nothing but one ^C counts.
count(b) == IF b = <<"^C">> THEN abort_cnt + 1 ELSE 0

restore_term == saved' = FALSE /\ tty' = IF saved THEN "cooked" ELSE tty

\* Mutant: write instead of write_all.
put_partial ==
    /\ term = "put" /\ chain > 0
    /\ term' = "read" /\ buf' = <<>> /\ abort_cnt' = count(buf)
    /\ input' = input \o SubSeq(buf, 1, IF chain < Len(buf) THEN chain ELSE Len(buf)) /\ chain' = 0
    /\ IF abort_cnt' = 3 THEN restore_term ELSE UNCHANGED <<saved, tty>>
    /\ UNCHANGED <<stdin, keys, merged>>
\* wait_next_chain, write_all and the count.
put ==
    /\ term = "put" /\ chain >= Len(buf)
    /\ term' = "read" /\ buf' = <<>> /\ abort_cnt' = count(buf)
    /\ input' = input \o buf /\ chain' = 0
    /\ IF abort_cnt' = 3 THEN restore_term ELSE UNCHANGED <<saved, tty>>
    /\ UNCHANGED <<stdin, keys, merged>>

\* The chain is too short for what was read: write_all fails, the unwrap ends the
\* thread, and Drop restores the terminal.
put_fails ==
    /\ term = "put" /\ chain \in 1..Len(buf) - 1
    /\ term' = "dead" /\ input' = input \o SubSeq(buf, 1, chain) /\ chain' = 0
    /\ restore_term
    /\ UNCHANGED <<stdin, keys, buf, abort_cnt, merged>>

Terminal == read \/ put \/ put_fails

-----------------------------------------------------------------------------
(* start_console *)

GuestOutput ==
    /\ out + returned < MaxOut
    /\ out' = out + 1 /\ kicked' = TRUE
    /\ UNCHANGED <<cons, returned>>

wait_ready ==
    /\ cons = "wait" /\ kicked
    /\ cons' = "copy" /\ kicked' = FALSE
    /\ UNCHANGED <<out, returned>>
copy ==
    /\ cons = "copy" /\ out > 0
    /\ out' = out - 1 /\ returned' = returned + 1
    /\ UNCHANGED <<cons, kicked>>
copied ==
    /\ cons = "copy" /\ out = 0
    /\ cons' = "wait"
    /\ UNCHANGED <<kicked, out, returned>>
\* stdout cannot be written: the unwrap ends the thread, which returns the chain.
copy_fails ==
    /\ cons = "copy" /\ out > 0
    /\ out' = out - 1 /\ returned' = returned + 1 /\ cons' = "dead"
    /\ UNCHANGED kicked

Console == wait_ready \/ copy \/ copied

SerialNext ==
    \/ (Control \/ Driver) /\ UNCHANGED <<buffers, winsz, termVars, consVars>>
    \/ (Terminal \/ \E k \in {"^C", "x"} : Type(k)) /\ UNCHANGED <<buffers, winsz, ctlVars, consVars>>
    \/ (\E n \in 1..BufLen : Post(n)) /\ UNCHANGED <<buffers, winsz, ctlVars, consVars>>
    \/ (Console \/ GuestOutput \/ copy_fails) /\ UNCHANGED <<buffers, winsz, ctlVars, termVars>>

\* The threads and the driver keep running, and the driver keeps posting chains.
SerialFairness ==
    /\ WF_serialVars((Control \/ Driver) /\ UNCHANGED <<buffers, winsz, termVars, consVars>>)
    /\ WF_serialVars(Terminal /\ UNCHANGED <<buffers, winsz, ctlVars, consVars>>)
    /\ WF_serialVars(Post(BufLen) /\ UNCHANGED <<buffers, winsz, ctlVars, consVars>>)
    /\ WF_serialVars(Console /\ UNCHANGED <<buffers, winsz, ctlVars, termVars>>)

SerialSpec == SerialInit /\ [][SerialNext]_serialVars /\ SerialFairness

-----------------------------------------------------------------------------
\* The states of the threads; no receive buffer is made or lost.
SerialTypeOK ==
    /\ ctlRx + Len(got) + (IF handles THEN 1 ELSE 0) = buffers
    /\ ctl \in {"wait", "reply", "dead"} /\ guest \in {"start", "spin", "idle"}
    /\ tty \in {"raw", "cooked"} /\ chain \in 0..BufLen
    /\ term = "put" <=> buf # <<>> /\ term # "dead"

\* A terminal left in raw mode is useless to the user: when read_loop has ended,
\* in whatever way, the terminal is as it was before.
TerminalRestored == term = "dead" => tty = "cooked"

\* Three ^C in a row restore the terminal and nothing else does while read_loop
\* runs, unless keys typed fast were merged into one read.
AbortExact ==
    LET aborted(n) == n >= 3 /\ \A i \in n - 2..n : input[i] = "^C"
    IN  term = "read" /\ ~merged =>
            (tty = "cooked" <=> \E n \in DOMAIN input : aborted(n))

\* What the guest receives is what was typed, in order.
KeysInOrder == Len(input) <= Len(keys) /\ input = SubSeq(keys, 1, Len(input))

\* What is typed reaches the guest in order, and three ^C in a row or the end of the
\* thread, and nothing else, restore the terminal (Terminal::read_loop and Drop).
TerminalExact == SerialTypeOK /\ KeysInOrder /\ AbortExact /\ TerminalRestored

\* The driver and Control::run never wait for each other: with four receive
\* buffers, three for the answers to PORT_READY and the one the driver is
\* handling, every control message is returned.
ControlAnswered == buffers >= 4 => (guest = "spin" ~> guest = "idle")

\* The port of the console is opened.
PortOpens == buffers >= 4 => <>opened

\* Every key reaches the guest, unless a chain was too short for what was read.
KeysDelivered == \A n \in 1..MaxKeys : Len(keys) = n ~> Len(input) >= n \/ term = "dead"

\* Every chain of output is returned, unless stdout failed.
OutputReturned == out > 0 ~> out = 0 \/ cons = "dead"
=============================================================================
