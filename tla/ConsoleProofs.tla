--------------------------- MODULE ConsoleProofs ----------------------------
(***************************************************************************)
(* The devices that pass on what they are given, for every value of the    *)
(* constants: what is typed at the virtio console and what the guest       *)
(* prints arrives in order, for any number of keys and bytes and any size  *)
(* of the buffers; the serial port (Uart) prints and loops back what it is *)
(* given, in order, for every size of its FIFOs; and the network device    *)
(* passes on every frame once and in its turn, for any number of frames    *)
(* and any size of the buffers.                                            *)
(***************************************************************************)
EXTENDS VirtioSerial, Uart, VirtioNet, TLAPS

-----------------------------------------------------------------------------
(* The terminal and the control queue of the console *)

Keys == {"^C", "x"}

\* The control messages of the driver and of the device.
Messages == {"DEVICE_READY", "PORT_READY", "DEVICE_ADD", "CONSOLE_PORT", "PORT_OPEN", "RESIZE"}

SerialTypes ==
    /\ buffers \in Nat /\ ctlRx \in Nat /\ handles \in BOOLEAN
    /\ got \in Seq(Messages) /\ msgs \in Seq(Messages) /\ ctlTx \in Seq(Messages)
    /\ ctl \in {"wait", "reply", "dead"} /\ guest \in {"start", "spin", "idle"}
    /\ ctlRx + Len(got) + (IF handles THEN 1 ELSE 0) = buffers

TermTypes ==
    /\ stdin \in Seq(Keys) /\ keys \in Seq(Keys) /\ buf \in Seq(Keys) /\ input \in Seq(Keys)
    /\ term \in {"read", "put", "dead"} /\ abort_cnt \in Nat /\ chain \in 0 .. BufLen
    /\ saved \in BOOLEAN /\ merged \in BOOLEAN /\ tty \in {"raw", "cooked"}
    /\ term = "put" <=> buf # <<>> /\ term # "dead"

\* Every key typed is with the guest, in the buffer of read_loop or still unread, in
\* that order.
KeysSplit ==
    /\ Len(input) <= Len(keys)
    /\ \A i \in 1 .. Len(input) : input[i] = keys[i]
    /\ term # "dead" =>
          /\ Len(keys) = Len(input) + Len(buf) + Len(stdin)
          /\ \A i \in 1 .. Len(buf) : buf[i] = keys[Len(input) + i]
          /\ \A i \in 1 .. Len(stdin) : stdin[i] = keys[Len(input) + Len(buf) + i]

\* The terminal has been restored exactly when its settings have been taken.
SavedRaw == (saved <=> tty = "raw") /\ (term = "dead" => tty = "cooked")

\* Three ^C end at the nth key the guest received.
Aborted(n) == n >= 3 /\ input[n] = "^C" /\ input[n - 1] = "^C" /\ input[n - 2] = "^C"

\* abort_cnt is the number of ^C at the end of what the guest received.
CountExact ==
    /\ abort_cnt <= Len(input)
    /\ \A i \in 1 .. Len(input) : i > Len(input) - abort_cnt => input[i] = "^C"
    /\ abort_cnt < Len(input) => input[Len(input) - abort_cnt] # "^C"

Aborts == term # "dead" /\ ~merged =>
    /\ Len(buf) <= 1 /\ CountExact
    /\ tty = "cooked" <=> \E n \in 1 .. Len(input) : Aborted(n)

TermInv == TermTypes /\ KeysSplit /\ SavedRaw /\ Aborts

\* The console begins with nothing typed and every buffer with the device.
LEMMA SerialBegins == SerialInit => SerialTypes /\ TermInv
<1> SUFFICES ASSUME SerialInit PROVE SerialTypes /\ TermInv
  OBVIOUS
<1>1. SerialTypes
  <2>1. buffers \in Nat /\ ctlRx = buffers /\ got = <<>> /\ handles = FALSE
    BY SerialAssumption DEF SerialInit
  <2>2. got \in Seq(Messages) /\ msgs \in Seq(Messages) /\ ctlTx \in Seq(Messages) /\ Len(got) = 0
    BY DEF SerialInit
  <2>3. handles \in BOOLEAN /\ ctl \in {"wait", "reply", "dead"} /\ guest \in {"start", "spin", "idle"}
    BY Zenon DEF SerialInit
  <2>4. ctlRx + Len(got) + (IF handles THEN 1 ELSE 0) = buffers
    BY <2>1, <2>2
  <2> QED BY <2>1, <2>2, <2>3, <2>4 DEF SerialTypes
<1>2. /\ stdin = <<>> /\ keys = <<>> /\ term = "read" /\ buf = <<>> /\ abort_cnt = 0
      /\ saved = TRUE /\ tty = "raw" /\ input = <<>> /\ chain = 0 /\ merged = FALSE
  BY DEF SerialInit
<1>3. TermTypes
  <2>1. <<>> \in Seq(Keys)
    OBVIOUS
  <2>2. chain \in 0 .. BufLen /\ abort_cnt \in Nat
    BY <1>2, SerialAssumption
  <2> QED BY <1>2, <2>1, <2>2, Zenon DEF TermTypes
<1>4. KeysSplit
  BY <1>2 DEF KeysSplit
<1>5. SavedRaw
  BY <1>2 DEF SavedRaw
<1>6. Aborts
  BY <1>2 DEF Aborts, CountExact
<1> QED BY <1>1, <1>3, <1>4, <1>5, <1>6 DEF TermInv

\* Each step of Control::run and of the driver keeps the receive buffers.
LEMMA ControlKeeps == ASSUME SerialTypes, UNCHANGED <<buffers, winsz>>, Control \/ Driver PROVE SerialTypes'
<1>1. buffers' = buffers
  OBVIOUS
<1>2. Len(got) \in Nat
  BY DEF SerialTypes
<1>3. CASE run_take
  <2>1. /\ ctlTx # <<>> /\ ctl' = "reply" /\ msgs' = Replies(Head(ctlTx)) /\ ctlTx' = Tail(ctlTx)
        /\ UNCHANGED <<ctlRx, got, guest, handles>>
    BY <1>3 DEF run_take
  <2>2. ctlTx' \in Seq(Messages)
    BY <2>1 DEF SerialTypes
  <2>3. <<"DEVICE_ADD">> \in Seq(Messages) /\ <<"CONSOLE_PORT", "PORT_OPEN", "RESIZE">> \in Seq(Messages) /\ <<>> \in Seq(Messages)
    BY DEF Messages
  <2>4. msgs' \in Seq(Messages)
    BY <2>1, <2>3, Zenon DEF Replies
  <2> QED BY <1>1, <2>1, <2>2, <2>4 DEF SerialTypes
<1>4. CASE send_msg
  <2>1. /\ msgs # <<>> /\ ctlRx > 0 /\ got' = Append(got, Head(msgs)) /\ msgs' = Tail(msgs) /\ ctlRx' = ctlRx - 1
        /\ UNCHANGED <<ctl, ctlTx, guest, handles>>
    BY <1>4 DEF send_msg
  <2>2. msgs' \in Seq(Messages) /\ Head(msgs) \in Messages
    BY <2>1 DEF SerialTypes
  <2>3. got' \in Seq(Messages) /\ Len(got') = Len(got) + 1
    BY <2>1, <2>2 DEF SerialTypes
  <2>4. ctlRx' \in Nat /\ ctlRx' + Len(got') = ctlRx + Len(got)
    BY <1>2, <2>1, <2>3 DEF SerialTypes
  <2> QED BY <1>1, <2>1, <2>2, <2>3, <2>4 DEF SerialTypes
<1>5. CASE send_resize_fails
  <2>1. ctl' = "dead" /\ msgs' = <<>> /\ UNCHANGED <<ctlTx, ctlRx, got, guest, handles>>
    BY <1>5 DEF send_resize_fails
  <2> QED BY <1>1, <2>1 DEF SerialTypes
<1>6. CASE run_flush
  <2>1. ctl' = "wait" /\ UNCHANGED <<msgs, ctlTx, ctlRx, got, guest, handles>>
    BY <1>6 DEF run_flush
  <2> QED BY <1>1, <2>1 DEF SerialTypes
<1>7. CASE GuestStart
  <2>1. ctlTx' = Append(ctlTx, "DEVICE_READY") /\ guest' = "spin" /\ UNCHANGED <<ctl, msgs, ctlRx, got, handles>>
    BY <1>7 DEF GuestStart, GuestSend
  <2>2. ctlTx' \in Seq(Messages)
    BY <2>1 DEF SerialTypes, Messages
  <2> QED BY <1>1, <2>1, <2>2 DEF SerialTypes
<1>8. CASE GuestHandle
  <2>1. /\ ~handles /\ got # <<>> /\ got' = Tail(got) /\ handles' = TRUE
        /\ UNCHANGED <<ctl, msgs, ctlRx>>
        /\ \/ ctlTx' = Append(ctlTx, "PORT_READY") /\ guest' = "spin"
           \/ UNCHANGED <<ctlTx, guest>>
    BY <1>8 DEF GuestHandle, GuestSend
  <2>2. got' \in Seq(Messages) /\ Len(got') = Len(got) - 1
    BY <2>1 DEF SerialTypes
  <2>3. ctlTx' \in Seq(Messages) /\ guest' \in {"start", "spin", "idle"}
    <3>1. CASE ctlTx' = Append(ctlTx, "PORT_READY") /\ guest' = "spin"
      BY <3>1 DEF SerialTypes, Messages
    <3>2. CASE UNCHANGED <<ctlTx, guest>>
      BY <3>2 DEF SerialTypes
    <3> QED BY <2>1, <3>1, <3>2
  <2>4. ctlRx' + Len(got') + 1 = buffers
    BY <1>2, <2>1, <2>2 DEF SerialTypes
  <2> QED BY <1>1, <2>1, <2>2, <2>3, <2>4 DEF SerialTypes
<1>9. CASE GuestGives
  <2>1. handles /\ handles' = FALSE /\ ctlRx' = ctlRx + 1 /\ UNCHANGED <<ctl, msgs, ctlTx, got, guest>>
    BY <1>9 DEF GuestGives
  <2>2. ctlRx' \in Nat /\ ctlRx' + Len(got') + 0 = buffers
    BY <1>2, <2>1 DEF SerialTypes
  <2> QED BY <1>1, <2>1, <2>2, Zenon DEF SerialTypes
<1>10. CASE GuestReturns
  <2>1. guest' = "idle" /\ UNCHANGED <<ctl, msgs, ctlTx, ctlRx, got, handles>>
    BY <1>10 DEF GuestReturns
  <2> QED BY <1>1, <2>1 DEF SerialTypes
<1> QED BY <1>3, <1>4, <1>5, <1>6, <1>7, <1>8, <1>9, <1>10 DEF Control, Driver

\* A key that is typed is the last of the keys and of what is unread.
LEMMA TypeKeeps == ASSUME TermInv, NEW key \in Keys, Type(key) PROVE TermInv'
<1> USE DEF TermInv
<1>1. /\ keys' = Append(keys, key) /\ stdin' = Append(stdin, key)
      /\ UNCHANGED <<term, buf, abort_cnt, saved, tty, input, chain, merged>>
  BY DEF Type
<1>2. /\ keys' \in Seq(Keys) /\ Len(keys') = Len(keys) + 1 /\ Len(keys) \in Nat
      /\ stdin' \in Seq(Keys) /\ Len(stdin') = Len(stdin) + 1 /\ Len(stdin) \in Nat
      /\ Len(input) \in Nat /\ Len(buf) \in Nat
  BY <1>1 DEF TermTypes
<1>3. TermTypes'
  BY <1>1, <1>2 DEF TermTypes
<1>4. \A i \in 1 .. Len(keys) : keys'[i] = keys[i]
  BY <1>1, <1>2 DEF TermTypes
<1>5. Len(input) <= Len(keys)
  BY DEF KeysSplit
<1>6. \A i \in 1 .. Len(input) : input[i] = keys'[i]
  BY <1>2, <1>4, <1>5 DEF KeysSplit
<1>7. ASSUME term # "dead"
      PROVE  /\ Len(keys') = Len(input) + Len(buf) + Len(stdin')
             /\ \A i \in 1 .. Len(buf) : buf[i] = keys'[Len(input) + i]
             /\ \A i \in 1 .. Len(stdin') : stdin'[i] = keys'[Len(input) + Len(buf) + i]
  <2>1. /\ Len(keys) = Len(input) + Len(buf) + Len(stdin)
        /\ \A i \in 1 .. Len(buf) : buf[i] = keys[Len(input) + i]
        /\ \A i \in 1 .. Len(stdin) : stdin[i] = keys[Len(input) + Len(buf) + i]
    BY <1>7 DEF KeysSplit
  <2>2. ASSUME NEW i \in 1 .. Len(buf) PROVE buf[i] = keys'[Len(input) + i]
    <3>1. Len(input) + i \in 1 .. Len(keys)
      BY <1>2, <2>1
    <3> QED BY <1>4, <2>1, <3>1
  <2>3. ASSUME NEW i \in 1 .. Len(stdin') PROVE stdin'[i] = keys'[Len(input) + Len(buf) + i]
    <3>1. CASE i <= Len(stdin)
      <4>1. i \in 1 .. Len(stdin) /\ Len(input) + Len(buf) + i \in 1 .. Len(keys)
        BY <1>2, <2>1, <3>1
      <4>2. stdin'[i] = stdin[i]
        BY <1>1, <4>1 DEF TermTypes
      <4> QED BY <1>4, <2>1, <4>1, <4>2
    <3>2. CASE i > Len(stdin)
      <4>1. i = Len(stdin) + 1 /\ Len(input) + Len(buf) + i = Len(keys) + 1
        BY <1>2, <2>1, <3>2
      <4>2. stdin'[Len(stdin) + 1] = key /\ keys'[Len(keys) + 1] = key
        BY <1>1 DEF TermTypes
      <4> QED BY <4>1, <4>2, SMTT(30)
    <3> QED BY <1>2, <3>1, <3>2
  <2> QED BY <1>2, <2>1, <2>2, <2>3
<1>8. KeysSplit'
  <2>1. Len(input) <= Len(keys')
    BY <1>2, <1>5
  <2> QED BY <1>1, <1>6, <1>7, <2>1, Zenon DEF KeysSplit
<1>9. SavedRaw'
  BY <1>1 DEF SavedRaw
<1>10. Aborts'
  BY <1>1 DEF Aborts, CountExact, Aborted
<1> QED BY <1>3, <1>8, <1>9, <1>10

\* A chain posted by the driver changes nothing else.
LEMMA PostKeeps == ASSUME TermInv, NEW n \in 1 .. BufLen, Post(n) PROVE TermInv'
<1>1. chain' = n /\ UNCHANGED <<stdin, keys, term, buf, abort_cnt, saved, tty, input, merged>>
  BY DEF Post
<1>2. chain' \in 0 .. BufLen
  BY <1>1, SerialAssumption
<1>3. TermTypes'
  BY <1>1, <1>2 DEF TermInv, TermTypes
<1>4. KeysSplit' /\ SavedRaw'
  BY <1>1 DEF TermInv, KeysSplit, SavedRaw
<1>5. Aborts'
  BY <1>1 DEF TermInv, Aborts, CountExact, Aborted
<1> QED BY <1>3, <1>4, <1>5 DEF TermInv

\* A read moves the first keys that are unread to the buffer, which is empty.
LEMMA TermReadKeeps == ASSUME TermInv, read PROVE TermInv'
<1> USE DEF TermInv
<1> DEFINE n == IF Len(stdin) < BufLen THEN Len(stdin) ELSE BufLen
<1>1. /\ term = "read" /\ stdin # <<>> /\ buf' = SubSeq(stdin, 1, n) /\ stdin' = SubSeq(stdin, n + 1, Len(stdin))
      /\ merged' = (merged \/ n > 1) /\ term' = "put"
      /\ UNCHANGED <<keys, abort_cnt, saved, tty, input, chain>>
  BY DEF read
<1>2. BufLen \in Nat \ {0}
  BY SerialAssumption
<1>3. Len(stdin) \in Nat \ {0} /\ buf = <<>> /\ Len(buf) = 0 /\ Len(input) \in Nat
  BY <1>1 DEF TermTypes
<1>4. n \in Nat /\ n >= 1 /\ n <= Len(stdin)
  BY <1>2, <1>3
<1> HIDE DEF n
<1>5. /\ buf' \in Seq(Keys) /\ Len(buf') = n /\ \A i \in 1 .. n : buf'[i] = stdin[i]
  BY <1>1, <1>3, <1>4 DEF TermTypes
<1>6. /\ stdin' \in Seq(Keys) /\ Len(stdin') = Len(stdin) - n
      /\ \A i \in 1 .. Len(stdin) - n : stdin'[i] = stdin[n + i]
  BY <1>1, <1>3, <1>4 DEF TermTypes
<1>7. buf' # <<>>
  BY <1>4, <1>5
<1>8. TermTypes'
  <2>1. merged' \in BOOLEAN
    BY <1>1
  <2> QED BY <1>1, <1>5, <1>6, <1>7, <2>1, SMTT(30) DEF TermTypes
<1>9. KeysSplit'
  <2>1. /\ Len(input) <= Len(keys) /\ Len(keys) = Len(input) + Len(stdin)
        /\ \A i \in 1 .. Len(input) : input[i] = keys[i]
        /\ \A i \in 1 .. Len(stdin) : stdin[i] = keys[Len(input) + i]
    BY <1>1, <1>3 DEF KeysSplit
  <2>2. Len(keys) = Len(input) + Len(buf') + Len(stdin')
    BY <1>3, <1>4, <1>5, <1>6, <2>1
  <2>3. ASSUME NEW i \in 1 .. Len(buf') PROVE buf'[i] = keys[Len(input) + i]
    <3>1. i \in 1 .. n /\ i \in 1 .. Len(stdin)
      BY <1>3, <1>4, <1>5
    <3> QED BY <1>5, <2>1, <3>1
  <2>4. ASSUME NEW i \in 1 .. Len(stdin') PROVE stdin'[i] = keys[Len(input) + Len(buf') + i]
    <3>1. n + i \in 1 .. Len(stdin) /\ i \in 1 .. Len(stdin) - n
      BY <1>3, <1>4, <1>6
    <3>2. stdin[n + i] = keys[Len(input) + (n + i)]
      BY <2>1, <3>1
    <3>3. Len(input) + (n + i) = Len(input) + Len(buf') + i
      BY <1>3, <1>4, <1>5
    <3> QED BY <1>6, <3>1, <3>2, <3>3
  <2> QED BY <1>1, <2>1, <2>2, <2>3, <2>4, Zenon DEF KeysSplit
<1>10. SavedRaw'
  BY <1>1 DEF SavedRaw
<1>11. Aborts'
  <2> SUFFICES ASSUME ~merged' PROVE Aborts'
    BY DEF Aborts
  <2>1. ~merged /\ ~(n > 1)
    BY <1>1, Zenon
  <2>2. Len(buf') <= 1
    BY <1>4, <1>5, <2>1
  <2>3. CountExact /\ (tty = "cooked" <=> \E k \in 1 .. Len(input) : Aborted(k))
    BY <1>1, <2>1 DEF Aborts
  <2>4. CountExact' /\ (tty' = "cooked" <=> \E k \in 1 .. Len(input') : Aborted(k)')
    BY <1>1, <2>3, SMTT(30) DEF CountExact, Aborted
  <2> QED BY <2>2, <2>4 DEF Aborts
<1> QED BY <1>8, <1>9, <1>10, <1>11

\* The guest receives the keys of the buffer, or, of a chain too short for them, the
\* first ones: what it has is still what was typed first.
LEMMA DeliveredFirst ==
  ASSUME TermInv, term = "put", NEW n \in 1 .. Len(buf), input' = input \o SubSeq(buf, 1, n), keys' = keys
  PROVE  /\ input' \in Seq(Keys) /\ Len(input') = Len(input) + n /\ Len(input') <= Len(keys')
         /\ \A i \in 1 .. Len(input) : input'[i] = input[i]
         /\ \A i \in 1 .. n : input'[Len(input) + i] = buf[i]
         /\ \A i \in 1 .. Len(input') : input'[i] = keys'[i]
<1> DEFINE b == SubSeq(buf, 1, n)
<1>1. /\ input \in Seq(Keys) /\ buf \in Seq(Keys) /\ stdin \in Seq(Keys)
      /\ Len(input) \in Nat /\ Len(buf) \in Nat /\ Len(stdin) \in Nat
  BY DEF TermInv, TermTypes
<1>2. b \in Seq(Keys) /\ Len(b) = n /\ \A i \in 1 .. n : b[i] = buf[i]
  BY <1>1
<1> HIDE DEF b
<1>3. input' = input \o b
  BY DEF b
<1>4. /\ input' \in Seq(Keys) /\ Len(input') = Len(input) + n
      /\ \A i \in 1 .. Len(input) + n : input'[i] = IF i <= Len(input) THEN input[i] ELSE b[i - Len(input)]
  BY <1>1, <1>2, <1>3
<1>5. \A i \in 1 .. Len(input) : input'[i] = input[i]
  BY <1>1, <1>4
<1>6. ASSUME NEW i \in 1 .. n PROVE input'[Len(input) + i] = buf[i]
  <2>1. Len(input) + i \in 1 .. Len(input) + n /\ ~(Len(input) + i <= Len(input)) /\ (Len(input) + i) - Len(input) = i
    BY <1>1
  <2>2. input'[Len(input) + i] = b[i]
    BY <1>4, <2>1, Zenon
  <2> QED BY <1>2, <2>2, SMTT(30)
<1>7. /\ Len(keys) = Len(input) + Len(buf) + Len(stdin)
      /\ \A i \in 1 .. Len(input) : input[i] = keys[i]
      /\ \A i \in 1 .. Len(buf) : buf[i] = keys[Len(input) + i]
  BY DEF TermInv, KeysSplit
<1>8. Len(input') <= Len(keys')
  BY <1>1, <1>4, <1>7
<1>9. ASSUME NEW i \in 1 .. Len(input') PROVE input'[i] = keys'[i]
  <2>1. CASE i <= Len(input)
    BY <1>1, <1>4, <1>5, <1>7, <2>1
  <2>2. CASE i > Len(input)
    <3>1. i - Len(input) \in 1 .. n /\ i - Len(input) \in 1 .. Len(buf) /\ Len(input) + (i - Len(input)) = i
      BY <1>1, <1>4, <2>2
    <3>2. input'[i] = buf[i - Len(input)] /\ buf[i - Len(input)] = keys[i]
      BY <1>6, <1>7, <3>1
    <3> QED BY <3>2
  <2> QED BY <1>1, <1>4, <2>1, <2>2, SMTT(30)
<1> QED BY <1>4, <1>5, <1>6, <1>8, <1>9

\* A chain too short for what was read ends read_loop and restores the terminal.
LEMMA PutFailsKeeps == ASSUME TermInv, put_fails PROVE TermInv'
<1> USE DEF TermInv
<1>1. /\ term = "put" /\ chain \in 1 .. Len(buf) - 1 /\ term' = "dead"
      /\ input' = input \o SubSeq(buf, 1, chain) /\ chain' = 0
      /\ saved' = FALSE /\ tty' = (IF saved THEN "cooked" ELSE tty)
      /\ UNCHANGED <<stdin, keys, buf, abort_cnt, merged>>
  BY DEF put_fails, restore_term
<1>2. chain \in 1 .. Len(buf)
  BY <1>1 DEF TermTypes
<1>3. /\ input' \in Seq(Keys) /\ Len(input') <= Len(keys')
      /\ \A i \in 1 .. Len(input') : input'[i] = keys'[i]
  BY <1>1, <1>2, DeliveredFirst, SMTT(30)
<1>4. tty' = "cooked"
  BY <1>1 DEF SavedRaw, TermTypes
<1>5. chain' \in 0 .. BufLen
  BY <1>1, SerialAssumption
<1>6. TermTypes'
  BY <1>1, <1>3, <1>4, <1>5, Zenon DEF TermTypes
<1>7. KeysSplit'
  BY <1>1, <1>3 DEF KeysSplit
<1>8. SavedRaw'
  BY <1>1, <1>4 DEF SavedRaw
<1>9. Aborts'
  BY <1>1 DEF Aborts
<1> QED BY <1>6, <1>7, <1>8, <1>9

\* One key more at the end of what the guest received keeps the count of the ^C there,
\* and is the end of three of them exactly when the count is three or more.
LEMMA CountKept ==
  ASSUME CountExact, NEW c,
         input \in Seq(Keys), input' \in Seq(Keys), abort_cnt \in Nat, Len(input') = Len(input) + 1,
         \A i \in 1 .. Len(input) : input'[i] = input[i],
         input'[Len(input) + 1] = c,
         abort_cnt' = IF c = "^C" THEN abort_cnt + 1 ELSE 0
  PROVE  /\ CountExact'
         /\ Aborted(Len(input))' <=> abort_cnt' >= 3
         /\ abort_cnt' > 3 => Aborted(Len(input))
         /\ \A n \in 1 .. Len(input) : Aborted(n)' <=> Aborted(n)
<1> PICK L : L = Len(input)
  OBVIOUS
<1>1. L \in Nat /\ abort_cnt' \in Nat /\ Len(input') = L + 1 /\ abort_cnt <= L
  BY DEF CountExact
<1>2. \A i \in 1 .. L : i > L - abort_cnt => input'[i] = "^C" /\ input[i] = "^C"
  BY DEF CountExact
<1>3. abort_cnt < L => input[L - abort_cnt] # "^C" /\ input'[L - abort_cnt] # "^C"
  BY <1>1 DEF CountExact
<1>4. input'[L + 1] = c /\ \A i \in 1 .. L : input'[i] = input[i]
  OBVIOUS
<1>5. /\ Aborted(L + 1)' <=> L + 1 >= 3 /\ input'[L + 1] = "^C" /\ input'[L] = "^C" /\ input'[L - 1] = "^C"
      /\ Aborted(L) <=> L >= 3 /\ input[L] = "^C" /\ input[L - 1] = "^C" /\ input[L - 2] = "^C"
  <2>1. (L + 1) - 1 = L /\ (L + 1) - 2 = L - 1
    BY <1>1
  <2> QED BY <2>1 DEF Aborted
<1> DEFINE Kept == /\ CountExact'
                   /\ Aborted(Len(input))' <=> abort_cnt' >= 3
                   /\ abort_cnt' > 3 => Aborted(Len(input))
<1>6. ASSUME c = "^C" PROVE Kept
  <2>1. abort_cnt' = abort_cnt + 1
    BY <1>6
  <2>2. ASSUME NEW i \in 1 .. L + 1, i > (L + 1) - abort_cnt' PROVE input'[i] = "^C"
    <3>1. CASE i = L + 1
      BY <1>4, <1>6, <3>1
    <3>2. CASE i # L + 1
      <4>1. i \in 1 .. L /\ i > L - abort_cnt
        BY <1>1, <2>1, <2>2, <3>2
      <4> QED BY <1>2, <4>1
    <3> QED BY <3>1, <3>2
  <2>3. abort_cnt' <= L + 1 /\ (abort_cnt' < L + 1 => input'[(L + 1) - abort_cnt'] # "^C")
    <3>1. abort_cnt' <= L + 1 /\ (abort_cnt' < L + 1 => abort_cnt < L) /\ (L + 1) - abort_cnt' = L - abort_cnt
      BY <1>1, <2>1
    <3> QED BY <1>3, <3>1, SMTT(30)
  <2>4. CountExact'
    BY <1>1, <2>2, <2>3 DEF CountExact
  <2>5. Aborted(L + 1)' <=> abort_cnt' >= 3
    <3>1. CASE abort_cnt >= 2
      <4>1. /\ L >= 2 /\ L \in 1 .. L /\ L - 1 \in 1 .. L /\ L > L - abort_cnt /\ L - 1 > L - abort_cnt
            /\ abort_cnt' >= 3 /\ L + 1 >= 3
        BY <1>1, <2>1, <3>1
      <4>2. input'[L] = "^C" /\ input'[L - 1] = "^C"
        BY <1>2, <4>1
      <4> QED BY <1>4, <1>5, <1>6, <4>1, <4>2
    <3>2. CASE abort_cnt = 1
      <4>1. ~(abort_cnt' >= 3) /\ (L + 1 >= 3 => abort_cnt < L) /\ L - abort_cnt = L - 1
        BY <1>1, <2>1, <3>2
      <4> QED BY <1>3, <1>5, <4>1
    <3>3. CASE abort_cnt = 0
      <4>1. ~(abort_cnt' >= 3) /\ (L + 1 >= 3 => abort_cnt < L) /\ L - abort_cnt = L
        BY <1>1, <2>1, <3>3
      <4> QED BY <1>3, <1>5, <4>1
    <3> QED BY <3>1, <3>2, <3>3
  <2>6. ASSUME abort_cnt' > 3 PROVE Aborted(L)
    <3>1. /\ L >= 3 /\ L \in 1 .. L /\ L - 1 \in 1 .. L /\ L - 2 \in 1 .. L
          /\ L > L - abort_cnt /\ L - 1 > L - abort_cnt /\ L - 2 > L - abort_cnt
      BY <1>1, <2>1, <2>6
    <3> QED BY <1>2, <1>5, <3>1
  <2> QED BY <1>1, <2>4, <2>5, <2>6
<1>7. ASSUME c # "^C" PROVE Kept
  <2>1. abort_cnt' = 0 /\ (L + 1) - 0 = L + 1
    BY <1>1, <1>7
  <2>2. input'[L + 1] # "^C"
    BY <1>4, <1>7
  <2>3. CountExact'
    BY <1>1, <2>1, <2>2 DEF CountExact
  <2>4. ~Aborted(L + 1)' /\ ~(abort_cnt' >= 3) /\ ~(abort_cnt' > 3)
    BY <1>5, <2>1, <2>2, SMTT(30)
  <2> QED BY <1>1, <2>3, <2>4
<1>8. ASSUME NEW n \in 1 .. L PROVE Aborted(n)' <=> Aborted(n)
  <2>1. n >= 3 => n - 1 \in 1 .. L /\ n - 2 \in 1 .. L
    BY <1>1
  <2> QED BY <1>4, <2>1 DEF Aborted
<1> QED BY <1>6, <1>7, <1>8

\* The guest receives what was read, and the third ^C in a row restores the terminal.
LEMMA PutKeeps == ASSUME TermInv, put PROVE TermInv'
<1> USE DEF TermInv
<1>1. /\ term = "put" /\ term' = "read" /\ buf' = <<>> /\ abort_cnt' = count(buf)
      /\ input' = input \o buf /\ chain' = 0 /\ UNCHANGED <<stdin, keys, merged>>
      /\ IF abort_cnt' = 3 THEN restore_term ELSE UNCHANGED <<saved, tty>>
  BY DEF put
<1>2. /\ input \in Seq(Keys) /\ buf \in Seq(Keys) /\ buf # <<>> /\ Len(input) \in Nat /\ Len(buf) \in Nat \ {0}
      /\ Len(stdin) \in Nat /\ tty \in {"raw", "cooked"} /\ abort_cnt \in Nat
  BY <1>1 DEF TermTypes
<1>3. Len(buf) \in 1 .. Len(buf) /\ buf = SubSeq(buf, 1, Len(buf))
  BY <1>2, SMTT(30)
<1>4. /\ input' \in Seq(Keys) /\ Len(input') = Len(input) + Len(buf) /\ Len(input') <= Len(keys')
      /\ \A i \in 1 .. Len(input) : input'[i] = input[i]
      /\ \A i \in 1 .. Len(buf) : input'[Len(input) + i] = buf[i]
      /\ \A i \in 1 .. Len(input') : input'[i] = keys'[i]
  BY <1>1, <1>3, DeliveredFirst, SMTT(30)
<1>5. abort_cnt' \in Nat
  BY <1>1, <1>2 DEF count
<1>6. /\ saved' \in BOOLEAN /\ tty' \in {"raw", "cooked"} /\ (saved' <=> tty' = "raw")
      /\ tty' = "cooked" <=> tty = "cooked" \/ abort_cnt' = 3
  <2>1. CASE abort_cnt' = 3
    <3>1. saved' = FALSE /\ tty' = (IF saved THEN "cooked" ELSE tty)
      BY <1>1, <2>1 DEF restore_term
    <3>2. tty' = "cooked"
      BY <1>2, <3>1 DEF SavedRaw
    <3> QED BY <2>1, <3>1, <3>2, Zenon
  <2>2. CASE abort_cnt' # 3
    <3>1. saved' = saved /\ tty' = tty
      BY <1>1, <2>2, SMTT(30)
    <3> QED BY <2>2, <3>1 DEF SavedRaw, TermTypes
  <2> QED BY <2>1, <2>2
<1>7. TermTypes'
  <2>1. chain' \in 0 .. BufLen
    BY <1>1, SerialAssumption
  <2>2. buf' \in Seq(Keys)
    BY <1>1, SMTT(30)
  <2> QED BY <1>1, <1>4, <1>5, <1>6, <2>1, <2>2 DEF TermTypes
<1>8. KeysSplit'
  <2>1. /\ Len(keys) = Len(input) + Len(buf) + Len(stdin)
        /\ \A i \in 1 .. Len(stdin) : stdin[i] = keys[Len(input) + Len(buf) + i]
    BY <1>1, ZenonT(30) DEF KeysSplit
  <2>2. Len(buf') = 0 /\ Len(keys') = Len(input') + Len(buf') + Len(stdin')
    BY <1>1, <1>2, <1>4, <2>1, SMTT(30)
  <2>3. \A i \in 1 .. Len(stdin') : stdin'[i] = keys'[Len(input') + Len(buf') + i]
    <3>1. Len(input') + Len(buf') = Len(input) + Len(buf)
      BY <1>2, <1>4, <2>2
    <3> QED BY <1>1, <2>1, <3>1
  <2>4. \A i \in 1 .. Len(buf') : buf'[i] = keys'[Len(input') + i]
    BY <2>2
  <2> QED BY <1>1, <1>4, <2>2, <2>3, <2>4 DEF KeysSplit
<1>9. SavedRaw'
  BY <1>1, <1>6 DEF SavedRaw
<1>10. Aborts'
  <2> SUFFICES ASSUME ~merged' PROVE Aborts'
    BY DEF Aborts
  <2>1. Len(buf) <= 1 /\ CountExact /\ (tty = "cooked" <=> \E n \in 1 .. Len(input) : Aborted(n))
    BY <1>1 DEF Aborts
  <2>2. Len(buf) = 1 /\ 1 \in 1 .. Len(buf)
    <3>1. Len(buf) \in Nat /\ Len(buf) # 0 /\ Len(buf) <= 1
      BY <1>2, <2>1
    <3>2. \A k \in Nat : k # 0 /\ k <= 1 => k = 1
      OBVIOUS
    <3>3. Len(buf) = 1
      BY <3>1, <3>2, Zenon
    <3>4. 1 \in 1 .. 1
      OBVIOUS
    <3> QED BY <3>3, <3>4
  <2>3. buf = <<"^C">> <=> buf[1] = "^C"
    BY <1>2, <2>2
  <2>4. abort_cnt' = IF buf[1] = "^C" THEN abort_cnt + 1 ELSE 0
    BY <1>1, <2>3, SMTT(30) DEF count
  <2>5. input'[Len(input) + 1] = buf[1] /\ Len(input') = Len(input) + 1
    BY <1>4, <2>2
  <2>6. \A i \in 1 .. Len(input) : input'[i] = input[i]
    BY <1>4
  <2>7. input' \in Seq(Keys)
    BY <1>4
  <2>8. /\ CountExact'
        /\ Aborted(Len(input))' <=> abort_cnt' >= 3
        /\ abort_cnt' > 3 => Aborted(Len(input))
        /\ \A n \in 1 .. Len(input) : Aborted(n)' <=> Aborted(n)
    BY <1>2, <2>1, <2>4, <2>5, <2>6, <2>7, CountKept
  <2>9. Len(buf') <= 1
    BY <1>1
  <2>10. tty' = "cooked" <=> \E n \in 1 .. Len(input') : Aborted(n)'
    <3> PICK L : L = Len(input)
      BY Zenon
    <3> DEFINE A(n) == Aborted(n)
               B(n) == Aborted(n)'
    <3>1. /\ L \in Nat /\ Len(input') = L + 1 /\ (B(L + 1) <=> abort_cnt' >= 3) /\ (abort_cnt' > 3 => A(L))
          /\ \A n \in 1 .. L : B(n) <=> A(n)
      BY <1>2, <2>5, <2>8
    <3>2. abort_cnt' > 3 => L \in 1 .. L
      BY <1>2, <2>1, <2>4, <1>5 DEF CountExact
    <3>3. (tty = "cooked" <=> \E n \in 1 .. L : A(n)) /\ (tty' = "cooked" <=> tty = "cooked" \/ abort_cnt' = 3)
      BY <1>6, <2>1
    <3> HIDE DEF A, B
    <3>4. tty' = "cooked" <=> \E n \in 1 .. L + 1 : B(n)
      <4>1. abort_cnt' >= 3 <=> abort_cnt' = 3 \/ abort_cnt' > 3
        BY <1>5
      <4>2. ASSUME NEW n \in 1 .. L + 1 PROVE n = L + 1 \/ n \in 1 .. L
        BY <3>1
      <4>3. L + 1 \in 1 .. L + 1 /\ \A n \in 1 .. L : n \in 1 .. L + 1
        BY <3>1, SMTT(30)
      <4> QED BY <3>1, <3>2, <3>3, <4>1, <4>2, <4>3, Zenon
    <3> QED BY <3>1, <3>4 DEF B
  <2> QED BY <2>8, <2>9, <2>10 DEF Aborts
<1> QED BY <1>7, <1>8, <1>9, <1>10

\* Every step of the console keeps the invariants of its threads.
LEMMA SerialKept == SerialTypes /\ TermInv /\ [SerialNext]_serialVars => (SerialTypes /\ TermInv)'
<1> SUFFICES ASSUME SerialTypes, TermInv, [SerialNext]_serialVars PROVE (SerialTypes /\ TermInv)'
  OBVIOUS
<1>1. UNCHANGED termVars => TermInv'
  <2> SUFFICES ASSUME UNCHANGED termVars PROVE TermInv'
    OBVIOUS
  <2>1. UNCHANGED <<stdin, keys, term, buf, abort_cnt, saved, tty, input, chain, merged>>
    BY DEF termVars
  <2>2. TermTypes' /\ SavedRaw'
    BY <2>1, SMTT(30) DEF TermInv, TermTypes, SavedRaw
  <2>3. KeysSplit'
    BY <2>1 DEF TermInv, KeysSplit
  <2>4. Aborts'
    BY <2>1 DEF TermInv, Aborts, CountExact, Aborted
  <2> QED BY <2>2, <2>3, <2>4 DEF TermInv
<1>2. UNCHANGED <<buffers, ctlVars>> => SerialTypes'
  <2> SUFFICES ASSUME UNCHANGED <<buffers, ctlVars>> PROVE SerialTypes'
    OBVIOUS
  <2>1. UNCHANGED <<buffers, ctl, msgs, ctlTx, ctlRx, got, guest, handles>>
    BY DEF ctlVars
  <2> QED BY <2>1 DEF SerialTypes
<1>3. CASE (Control \/ Driver) /\ UNCHANGED <<buffers, winsz, termVars, consVars>>
  BY <1>1, <1>3, ControlKeeps
<1>4. CASE (Terminal \/ \E k \in {"^C", "x"} : Type(k)) /\ UNCHANGED <<buffers, winsz, ctlVars, consVars>>
  <2>1. TermInv'
    BY <1>4, TermReadKeeps, PutKeeps, PutFailsKeeps, TypeKeeps DEF Terminal, Keys
  <2> QED BY <1>2, <1>4, <2>1
<1>5. CASE (\E n \in 1..BufLen : Post(n)) /\ UNCHANGED <<buffers, winsz, ctlVars, consVars>>
  BY <1>2, <1>5, PostKeeps
<1>6. CASE (Console \/ GuestOutput \/ copy_fails) /\ UNCHANGED <<buffers, winsz, ctlVars, termVars>>
  BY <1>1, <1>2, <1>6
<1>7. CASE UNCHANGED serialVars
  BY <1>1, <1>2, <1>7 DEF serialVars
<1> QED BY <1>3, <1>4, <1>5, <1>6, <1>7 DEF SerialNext

\* What is typed reaches the guest in order, and three ^C in a row or the end of
\* read_loop, and nothing else, restore the terminal; no receive buffer of the control
\* queue is made or lost (Terminal::read_loop, Drop, Control::run).
THEOREM TerminalStaysExact == SerialSpec => []TerminalExact
<1>1. SerialTypes /\ TermInv => TerminalExact
  <2> SUFFICES ASSUME SerialTypes, TermInv PROVE TerminalExact
    OBVIOUS
  <2>1. SerialTypeOK
    BY DEF SerialTypes, TermInv, TermTypes, SerialTypeOK
  <2>2. input \in Seq(Keys) /\ keys \in Seq(Keys) /\ Len(input) \in Nat /\ Len(keys) \in Nat /\ DOMAIN input = 1 .. Len(input)
    BY DEF TermInv, TermTypes
  <2>3. KeysInOrder
    <3>1. Len(input) <= Len(keys) /\ \A i \in 1 .. Len(input) : input[i] = keys[i]
      BY DEF TermInv, KeysSplit
    <3> DEFINE first == SubSeq(keys, 1, Len(input))
    <3>2. first \in Seq(Keys) /\ Len(first) = Len(input) /\ \A i \in 1 .. Len(input) : first[i] = keys[i]
      BY <2>2, <3>1
    <3> HIDE DEF first
    <3>3. input = first
      BY <2>2, <3>1, <3>2
    <3> QED BY <3>1, <3>3, SMTT(30) DEF KeysInOrder, first
  <2>4. AbortExact
    <3> SUFFICES ASSUME term = "read", ~merged
                 PROVE  tty = "cooked" <=> \E n \in 1 .. Len(input) : n >= 3 /\ \A i \in n - 2..n : input[i] = "^C"
      BY <2>2, SMTT(30) DEF AbortExact
    <3>1. tty = "cooked" <=> \E n \in 1 .. Len(input) : Aborted(n)
      BY DEF TermInv, Aborts
    <3>2. ASSUME NEW n \in 1 .. Len(input)
          PROVE  Aborted(n) <=> n >= 3 /\ \A i \in n - 2..n : input[i] = "^C"
      <4>1. n \in Int /\ n - 2 \in n - 2 .. n /\ n - 1 \in n - 2 .. n /\ n \in n - 2 .. n
        OBVIOUS
      <4>2. \A i \in n - 2 .. n : i = n - 2 \/ i = n - 1 \/ i = n
        OBVIOUS
      <4> QED BY <4>1, <4>2 DEF Aborted
    <3> QED BY <3>1, <3>2
  <2>5. TerminalRestored
    BY DEF TermInv, SavedRaw, TerminalRestored
  <2> QED BY <2>1, <2>3, <2>4, <2>5 DEF TerminalExact
<1>2. (SerialTypes /\ TermInv) /\ [SerialNext]_serialVars => (SerialTypes /\ TermInv)'
  BY SerialKept
<1> QED BY <1>1, <1>2, SerialBegins, PTL DEF SerialSpec

----------------------------------------------------------------------------
\* ---- The serial port ----

PortRegisters == [lcr : SUBSET {"DLAB", "XMIT", "RCVR"}, ier : SUBSET {"RDI", "THRI"}, mcr : SUBSET {"LOOP"},
              lsr : SUBSET {"TEMT", "THRE", "DR"}, txbuf : Seq(Bytes), rxbuf : Seq(Bytes), rxdone : Nat,
              stdout : Seq(Bytes), looped : Seq(Bytes), received : Seq(Bytes)]

\* What was looped is what was read and then what is left in the receive buffer.
LoopSplit(r) ==
    /\ r.rxdone <= Len(r.rxbuf) /\ Len(r.rxbuf) <= FIFO_LEN
    /\ "DR" \in r.lsr <=> r.rxdone # Len(r.rxbuf)
    /\ Len(r.looped) = Len(r.received) + (Len(r.rxbuf) - r.rxdone)
    /\ \A i \in 1 .. Len(r.received) : r.looped[i] = r.received[i]
    /\ \A i \in 1 .. Len(r.rxbuf) : i > r.rxdone => r.looped[Len(r.received) + (i - r.rxdone)] = r.rxbuf[i]

\* The registers between two accesses: the transmitter is empty.
Good(r) == r \in PortRegisters /\ r.txbuf = <<>> /\ {"TEMT", "THRE"} \subseteq r.lsr /\ LoopSplit(r)

UartInv ==
    /\ Good(Now) /\ sent \in Seq(Bytes) /\ stdout = sent
    /\ irq_state = Pending(ier, lsr) /\ irq_line \in BOOLEAN /\ (irq_line <=> irq_state # {})

\* The port begins with an empty transmitter and nothing pending.
LEMMA UartBegins == UartInit => UartInv
<1> SUFFICES ASSUME UartInit PROVE UartInv
  OBVIOUS
<1>1. Now = [lcr |-> {}, ier |-> {}, mcr |-> {}, lsr |-> {"TEMT", "THRE"}, txbuf |-> <<>>, rxbuf |-> <<>>,
             rxdone |-> 0, stdout |-> <<>>, looped |-> <<>>, received |-> <<>>]
  BY Zenon DEF UartInit, Now
<1>2. <<>> \in Seq(Bytes) /\ Len(<<>>) = 0 /\ FIFO_LEN \in Nat
  BY UartAssumption, SMTT(30)
<1>3. Now \in PortRegisters
  BY <1>1, <1>2, ZenonT(30) DEF PortRegisters
<1>4. LoopSplit(Now)
  BY <1>1, <1>2, SMTT(30) DEF LoopSplit
<1>5. Good(Now)
  BY <1>1, <1>3, <1>4 DEF Good
<1>6. sent \in Seq(Bytes) /\ stdout = sent /\ irq_line \in BOOLEAN
  BY <1>2, Zenon DEF UartInit
<1>7. irq_state = Pending(ier, lsr) /\ irq_state = {} /\ ~irq_line
  BY DEF UartInit, Pending
<1> QED BY <1>5, <1>6, <1>7, SMTT(30) DEF UartInv

\* Emptying the receive buffer, as update_irq does it.
LEMMA RcvrCleared == ASSUME NEW r, Good(r) PROVE Good(clear_rcvr(r)) /\ clear_rcvr(r).stdout = r.stdout
<1>1. CASE "RCVR" \notin r.lcr
  BY <1>1, SMTT(30) DEF clear_rcvr
<1>2. CASE "RCVR" \in r.lcr
  <2> DEFINE c == clear_rcvr(r)
  <2>1. r \in PortRegisters /\ r.txbuf = <<>> /\ {"TEMT", "THRE"} \subseteq r.lsr
    BY DEF Good
  <2>2. c = [lcr |-> r.lcr \ {"RCVR"}, ier |-> r.ier, mcr |-> r.mcr, lsr |-> r.lsr \ {"DR"}, txbuf |-> r.txbuf,
             rxbuf |-> <<>>, rxdone |-> 0, stdout |-> r.stdout, looped |-> <<>>, received |-> <<>>]
    BY <1>2, <2>1, ZenonT(30) DEF clear_rcvr, PortRegisters
  <2> HIDE DEF c
  <2>3. <<>> \in Seq(Bytes) /\ Len(<<>>) = 0 /\ FIFO_LEN \in Nat
    BY UartAssumption
  <2>4. c \in PortRegisters
    BY <2>1, <2>2, <2>3, ZenonT(30) DEF PortRegisters
  <2>5. LoopSplit(c)
    BY <2>2, <2>3, SMTT(30) DEF LoopSplit
  <2>6. c.txbuf = <<>> /\ {"TEMT", "THRE"} \subseteq c.lsr /\ c.stdout = r.stdout
    BY <2>1, <2>2, ZenonT(30)
  <2> QED BY <2>4, <2>5, <2>6, SMTT(30) DEF Good, c
<1> QED BY <1>1, <1>2, Zenon

\* Emptying the transmitter, which is empty, changes only the clear bit.
LEMMA XmitCleared == ASSUME NEW r, Good(r) PROVE Good(clear_xmit(r)) /\ clear_xmit(r).stdout = r.stdout
<1>1. CASE "XMIT" \notin r.lcr
  BY <1>1 DEF clear_xmit
<1>2. CASE "XMIT" \in r.lcr
  <2> DEFINE c == clear_xmit(r)
  <2>1. r \in PortRegisters /\ r.txbuf = <<>> /\ {"TEMT", "THRE"} \subseteq r.lsr
    BY DEF Good
  <2>2. c = [lcr |-> r.lcr \ {"XMIT"}, ier |-> r.ier, mcr |-> r.mcr, lsr |-> r.lsr \cup {"TEMT", "THRE"},
             txbuf |-> <<>>, rxbuf |-> r.rxbuf, rxdone |-> r.rxdone, stdout |-> r.stdout,
             looped |-> r.looped, received |-> r.received]
    BY <1>2, <2>1, ZenonT(30) DEF clear_xmit, PortRegisters
  <2> HIDE DEF c
  <2>3. r.lsr \cup {"TEMT", "THRE"} = r.lsr /\ <<>> \in Seq(Bytes)
    BY <2>1
  <2>4. c \in PortRegisters
    BY <2>1, <2>2, <2>3, Zenon DEF PortRegisters
  <2>5. LoopSplit(c)
    BY <2>2, <2>3, ZenonT(30) DEF LoopSplit, Good
  <2>6. c.txbuf = <<>> /\ {"TEMT", "THRE"} \subseteq c.lsr /\ c.stdout = r.stdout
    BY <2>1, <2>2, Zenon
  <2> QED BY <2>4, <2>5, <2>6 DEF Good, c
<1> QED BY <1>1, <1>2

\* Flushing the transmitter, which is empty, changes nothing.
LEMMA Flushed == ASSUME NEW r, Good(r) PROVE flush_tx(r) = r
<1>1. r \in PortRegisters /\ r.txbuf = <<>> /\ {"TEMT", "THRE"} \subseteq r.lsr
  BY DEF Good
<1>2. r.lsr \cup {"TEMT", "THRE"} = r.lsr
  BY <1>1
<1>3. r.stdout \o <<>> = r.stdout
  BY <1>1 DEF PortRegisters
<1>4. flush_tx(r) = [r EXCEPT !.lsr = r.lsr, !.stdout = r.stdout, !.txbuf = r.txbuf]
  BY <1>1, <1>2, <1>3, ZenonT(30) DEF flush_tx, PortRegisters
<1> QED BY <1>1, <1>4, Zenon DEF PortRegisters

\* An access that leaves good registers ends, after update_irq, in a good state.
LEMMA IrqUpdated ==
  ASSUME UartInv, NEW r, Good(r), update_irq(r), sent' \in Seq(Bytes), sent' = r.stdout
  PROVE  UartInv'
<1> DEFINE c == clear_xmit(clear_rcvr(r))
           f == IF "THRI" \in c.ier THEN c ELSE flush_tx(c)
<1>1. Good(c) /\ c.stdout = r.stdout
  BY RcvrCleared, XmitCleared, SMTT(30)
<1>2. f = c
  BY <1>1, Flushed, SMTT(30)
<1>3. /\ irq_state' = Pending(c.ier, c.lsr) /\ SetLine(Pending(c.ier, c.lsr))
      /\ lcr' = f.lcr /\ ier' = f.ier /\ mcr' = f.mcr /\ lsr' = f.lsr
      /\ txbuf' = f.txbuf /\ rxbuf' = f.rxbuf /\ rxdone' = f.rxdone
      /\ stdout' = f.stdout /\ looped' = f.looped /\ received' = f.received
  BY ZenonT(30) DEF update_irq
<1> HIDE DEF c, f
<1>4. c \in PortRegisters
  BY <1>1, SMTT(30) DEF Good
<1>5. Now' = c
  BY <1>2, <1>3, <1>4, SMTT(30) DEF Now, PortRegisters
<1>6. Good(Now)'
  <2>1. Good(Now') 
    BY <1>1, <1>5, SMTT(30)
  <2> QED BY <2>1, Zenon DEF Good, LoopSplit
<1>7. stdout' = sent'
  BY <1>1, <1>2, <1>3, SMTT(30)
<1>8. irq_state' = Pending(ier, lsr)'
  BY <1>2, <1>3 DEF Pending
<1>9. irq_line' \in BOOLEAN /\ (irq_line' <=> irq_state' # {})
  <2>1. irq_line' = IF irq_state = {} /\ irq_state' # {} THEN TRUE ELSE IF irq_state # {} /\ irq_state' = {} THEN FALSE ELSE irq_line
    BY <1>3 DEF SetLine
  <2>2. irq_line \in BOOLEAN /\ (irq_line <=> irq_state # {})
    BY SMTT(30) DEF UartInv
  <2> QED BY <2>1, <2>2, ZenonT(30)
<1> QED BY <1>6, <1>7, <1>8, <1>9 DEF UartInv

\* The fields of the registers as they are now.
LEMMA NowFields ==
  ASSUME UartInv
  PROVE  /\ Now \in PortRegisters /\ LoopSplit(Now)
         /\ lcr \in SUBSET {"DLAB", "XMIT", "RCVR"} /\ ier \in SUBSET {"RDI", "THRI"} /\ mcr \in SUBSET {"LOOP"}
         /\ lsr \in SUBSET {"TEMT", "THRE", "DR"} /\ {"TEMT", "THRE"} \subseteq lsr /\ txbuf = <<>>
         /\ rxbuf \in Seq(Bytes) /\ rxdone \in Nat /\ stdout \in Seq(Bytes)
         /\ looped \in Seq(Bytes) /\ received \in Seq(Bytes)
<1>1. Good(Now)
  BY DEF UartInv
<1> QED BY <1>1, Zenon DEF Good, PortRegisters, Now

\* A byte to be printed is printed at once.
LEMMA TransmitKeeps == ASSUME UartInv, NEW b \in Bytes, Transmit(b) PROVE UartInv'
<1> DEFINE keep == IF Len(txbuf) + 1 = FIFO_LEN \div 2 THEN {"TEMT", "THRE"} ELSE {"TEMT"}
           q == [Now EXCEPT !.txbuf = Append(@, b), !.lsr = @ \ keep]
           r == tx(b)
<1>1. update_irq(r) /\ sent' = Append(sent, b)
  BY DEF Transmit
<1>2. r = flush_tx(q)
  <2>1. Len(txbuf) < FIFO_LEN
    BY NowFields, UartAssumption
  <2> QED BY <2>1 DEF tx
<1>3. q = [lcr |-> lcr, ier |-> ier, mcr |-> mcr, lsr |-> lsr \ keep, txbuf |-> <<b>>, rxbuf |-> rxbuf,
           rxdone |-> rxdone, stdout |-> stdout, looped |-> looped, received |-> received]
  <2>1. txbuf = <<>> /\ Append(txbuf, b) = <<b>>
    BY NowFields
  <2> HIDE DEF keep
  <2>2. q = [Now EXCEPT !.txbuf = Append(txbuf, b), !.lsr = lsr \ keep]
    BY DEF Now
  <2> HIDE DEF q
  <2> DEFINE one == <<b>>
  <2>3. q = [Now EXCEPT !.txbuf = one, !.lsr = lsr \ keep]
    BY <2>1, <2>2, Zenon DEF one
  <2> HIDE DEF one
  <2> QED BY <2>3, Zenon DEF Now, one
<1>4. lsr \in SUBSET {"TEMT", "THRE", "DR"} /\ (lsr \ keep) \cup {"TEMT", "THRE"} = lsr
  BY NowFields
<1> HIDE DEF q, r, keep
<1>5. r = [lcr |-> lcr, ier |-> ier, mcr |-> mcr, lsr |-> lsr, txbuf |-> <<>>, rxbuf |-> rxbuf,
           rxdone |-> rxdone, stdout |-> stdout \o <<b>>, looped |-> looped, received |-> received]
  BY <1>2, <1>3, <1>4, ZenonT(30) DEF flush_tx
<1>6. stdout \o <<b>> = Append(sent, b) /\ stdout \o <<b>> \in Seq(Bytes) /\ <<>> \in Seq(Bytes)
  <2>1. stdout = sent /\ stdout \in Seq(Bytes)
    BY NowFields DEF UartInv
  <2> QED BY <2>1
<1>7. r \in PortRegisters
  BY <1>5, <1>6, NowFields, Zenon DEF PortRegisters
<1>8. LoopSplit(r)
  BY <1>5, NowFields, ZenonT(30) DEF LoopSplit, Now
<1>9. Good(r)
  BY <1>5, <1>7, <1>8, NowFields DEF Good
<1>10. sent' \in Seq(Bytes) /\ sent' = r.stdout
  BY <1>1, <1>5, <1>6, ZenonT(30)
<1> QED BY <1>1, <1>9, <1>10, IrqUpdated

\* The elements of a sequence with one more.
LEMMA OneMore ==
  ASSUME NEW S, NEW s \in Seq(S), NEW e \in S
  PROVE  /\ Append(s, e) \in Seq(S) /\ Len(Append(s, e)) = Len(s) + 1 /\ Append(s, e)[Len(s) + 1] = e
         /\ \A i \in 1 .. Len(s) : Append(s, e)[i] = s[i]
BY SMTT(30)

\* The elements of the end of a sequence.
LEMMA RestOf ==
  ASSUME NEW S, NEW s \in Seq(S), NEW k \in Nat, k <= Len(s)
  PROVE  /\ SubSeq(s, k + 1, Len(s)) \in Seq(S) /\ Len(SubSeq(s, k + 1, Len(s))) = Len(s) - k
         /\ \A i \in 1 .. Len(s) - k : SubSeq(s, k + 1, Len(s))[i] = s[k + i]
OBVIOUS

\* A byte looped is the last of the receive buffer, or is lost if there is no room.
LEMMA LoopKeeps == ASSUME UartInv, NEW b \in Bytes, Loop(b) PROVE UartInv'
<1>1. sent' \in Seq(Bytes) /\ sent' = stdout
  BY DEF UartInv, Loop
<1>2. CASE ~FifoRoom
  <2>1. update_irq(Now)
    BY <1>2, SMTT(30) DEF Loop
  <2>2. Good(Now) /\ Now.stdout = stdout
    BY DEF UartInv, Now
  <2> QED BY <1>1, <2>1, <2>2, IrqUpdated
<1>3. CASE FifoRoom
  <2> DEFINE r == [Now EXCEPT !.rxbuf = Append(@, b), !.lsr = @ \cup {"DR"}, !.looped = Append(@, b)]
  <2>1. update_irq(r)
    BY <1>3 DEF Loop
  <2>2. r = [lcr |-> lcr, ier |-> ier, mcr |-> mcr, lsr |-> lsr \cup {"DR"}, txbuf |-> txbuf, rxbuf |-> Append(rxbuf, b),
             rxdone |-> rxdone, stdout |-> stdout, looped |-> Append(looped, b), received |-> received]
    <3>1. Now.rxbuf = rxbuf /\ Now.lsr = lsr /\ Now.looped = looped
      BY DEF Now
    <3>2. r = [Now EXCEPT !.rxbuf = Append(rxbuf, b), !.lsr = lsr \cup {"DR"}, !.looped = Append(looped, b)]
      BY <3>1, Zenon
    <3> DEFINE one == Append(rxbuf, b)
               two == Append(looped, b)
    <3> HIDE DEF r, one, two
    <3>3. r = [Now EXCEPT !.rxbuf = one, !.lsr = lsr \cup {"DR"}, !.looped = two]
      BY <3>2, Zenon DEF one, two
    <3> QED BY <3>3, ZenonT(30) DEF Now, one, two
  <2> HIDE DEF r
  <2> DEFINE n == Len(rxbuf)
             m == Len(looped)
             x == Len(received)
  <2>3. /\ rxbuf \in Seq(Bytes) /\ looped \in Seq(Bytes) /\ received \in Seq(Bytes)
        /\ n \in Nat /\ m \in Nat /\ x \in Nat /\ rxdone \in Nat /\ FIFO_LEN \in Nat
    BY NowFields, UartAssumption
  <2>4. /\ rxdone <= n /\ n < FIFO_LEN /\ m = x + (n - rxdone)
        /\ \A i \in 1 .. x : looped[i] = received[i]
        /\ \A i \in 1 .. n : i > rxdone => looped[x + (i - rxdone)] = rxbuf[i]
    BY <1>3, NowFields, ZenonT(30) DEF LoopSplit, Now, FifoRoom
  <2>5. /\ Append(rxbuf, b) \in Seq(Bytes) /\ Len(Append(rxbuf, b)) = n + 1
        /\ Append(looped, b) \in Seq(Bytes) /\ Len(Append(looped, b)) = m + 1
        /\ Append(rxbuf, b)[n + 1] = b /\ Append(looped, b)[m + 1] = b
        /\ \A i \in 1 .. n : Append(rxbuf, b)[i] = rxbuf[i]
        /\ \A i \in 1 .. m : Append(looped, b)[i] = looped[i]
    <3>1. /\ Append(rxbuf, b) \in Seq(Bytes) /\ Len(Append(rxbuf, b)) = n + 1
          /\ Append(rxbuf, b)[n + 1] = b /\ \A i \in 1 .. n : Append(rxbuf, b)[i] = rxbuf[i]
      BY <2>3, OneMore, SMTT(30)
    <3>2. /\ Append(looped, b) \in Seq(Bytes) /\ Len(Append(looped, b)) = m + 1
          /\ Append(looped, b)[m + 1] = b /\ \A i \in 1 .. m : Append(looped, b)[i] = looped[i]
      BY <2>3, OneMore, SMTT(30)
    <3> QED BY <3>1, <3>2, ZenonT(30)
  <2>6. r \in PortRegisters
    <3>1. lsr \cup {"DR"} \in SUBSET {"TEMT", "THRE", "DR"}
      BY NowFields, Zenon
    <3> DEFINE one == Append(rxbuf, b)
               two == Append(looped, b)
               new == lsr \cup {"DR"}
    <3> HIDE DEF one, two, new
    <3>2. r = [lcr |-> lcr, ier |-> ier, mcr |-> mcr, lsr |-> new, txbuf |-> txbuf, rxbuf |-> one,
               rxdone |-> rxdone, stdout |-> stdout, looped |-> two, received |-> received]
      BY <2>2, Zenon DEF one, two, new
    <3>3. /\ new \in SUBSET {"TEMT", "THRE", "DR"} /\ one \in Seq(Bytes) /\ two \in Seq(Bytes)
          /\ lcr \in SUBSET {"DLAB", "XMIT", "RCVR"} /\ ier \in SUBSET {"RDI", "THRI"} /\ mcr \in SUBSET {"LOOP"}
          /\ txbuf \in Seq(Bytes) /\ rxdone \in Nat /\ stdout \in Seq(Bytes) /\ received \in Seq(Bytes)
      <4>1. <<>> \in Seq(Bytes)
        BY SMTT(30)
      <4> QED BY <2>5, <3>1, <4>1, NowFields, Zenon DEF one, two, new
    <3> QED BY <3>2, <3>3, SMTT(30) DEF PortRegisters
  <2> HIDE DEF n, m, x
  <2>7. ASSUME NEW i \in 1 .. x PROVE Append(looped, b)[i] = received[i]
    <3>1. i \in 1 .. m
      BY <2>3, <2>4, SMTT(30)
    <3> QED BY <2>4, <2>5, <3>1, ZenonT(30)
  <2>8. ASSUME NEW i \in 1 .. n + 1, i > rxdone PROVE Append(looped, b)[x + (i - rxdone)] = Append(rxbuf, b)[i]
    <3>1. CASE i = n + 1
      <4>1. x + (i - rxdone) = m + 1
        BY <2>3, <2>4, <3>1, SMTT(30)
      <4> QED BY <2>5, <3>1, <4>1, ZenonT(30)
    <3>2. CASE i # n + 1
      <4>1. i \in 1 .. n /\ x + (i - rxdone) \in 1 .. m
        BY <2>3, <2>4, <2>8, <3>2, SMTT(30)
      <4> QED BY <2>4, <2>5, <2>8, <4>1, SMTT(30)
    <3> QED BY <3>1, <3>2, Zenon
  <2>9. rxdone <= n + 1 /\ n + 1 <= FIFO_LEN /\ rxdone # n + 1 /\ m + 1 = x + ((n + 1) - rxdone)
    BY <2>3, <2>4, SMTT(30)
  <2>10. LoopSplit(r)
    <3>1. "DR" \in r.lsr
      BY <2>2, SMTT(30)
    <3> QED BY <2>2, <2>5, <2>7, <2>8, <2>9, <3>1, ZenonT(30) DEF LoopSplit, x
  <2>11. Good(r) /\ r.stdout = stdout
    BY <2>2, <2>6, <2>10, NowFields, Zenon DEF Good
  <2> QED BY <1>1, <2>1, <2>11, IrqUpdated
<1> QED BY <1>2, <1>3

\* A byte read is the next one of the receive buffer, which is emptied with its last.
LEMMA ReceiveByteKeeps == ASSUME UartInv, Receive PROVE UartInv'
<1> DEFINE n == Len(rxbuf)
           x == Len(received)
           d == rxdone
           b == rxbuf[d + 1]
           got1 == Append(received, b)
           r == [rx EXCEPT !.received = Append(@, b)]
<1>1. update_irq(r) /\ sent' = sent /\ d # n
  BY DEF Receive
<1>2. sent' \in Seq(Bytes) /\ sent' = stdout
  BY <1>1, SMTT(30) DEF UartInv
<1>3. /\ rxbuf \in Seq(Bytes) /\ looped \in Seq(Bytes) /\ received \in Seq(Bytes) /\ <<>> \in Seq(Bytes) /\ Len(<<>>) = 0
      /\ n \in Nat /\ x \in Nat /\ d \in Nat /\ FIFO_LEN \in Nat
  BY NowFields, UartAssumption, SMTT(30)
<1>4. /\ d <= n /\ n <= FIFO_LEN /\ Len(looped) = x + (n - d) /\ ("DR" \in lsr <=> d # n)
      /\ \A i \in 1 .. x : looped[i] = received[i]
      /\ \A i \in 1 .. n : i > d => looped[x + (i - d)] = rxbuf[i]
  BY NowFields, Zenon DEF LoopSplit, Now
<1>5. d + 1 \in 1 .. n /\ d + 1 > d /\ (d + 1) - d = 1
  BY <1>1, <1>3, <1>4, SMTT(30)
<1>6. b \in Bytes /\ looped[x + 1] = b
  <2>1. looped[x + ((d + 1) - d)] = b
    BY <1>4, <1>5, SMTT(30)
  <2> QED BY <1>3, <1>5, <2>1, SMTT(30)
<1> HIDE DEF b
<1>7. /\ got1 \in Seq(Bytes) /\ Len(got1) = x + 1 /\ got1[x + 1] = b
      /\ \A i \in 1 .. x : got1[i] = received[i]
  BY <1>3, <1>6
<1>8. rx.received = received
  BY DEF rx, Now
<1> HIDE DEF r
<1>9. r = [rx EXCEPT !.received = got1]
  BY <1>8, ZenonT(30) DEF r
<1> HIDE DEF got1
<1>10. CASE d + 1 = n
  <2>1. rx = [lcr |-> lcr, ier |-> ier, mcr |-> mcr, lsr |-> lsr \ {"DR"}, txbuf |-> txbuf, rxbuf |-> <<>>,
              rxdone |-> 0, stdout |-> stdout, looped |-> looped, received |-> received]
    BY <1>10, Zenon DEF rx, Now
  <2>2. r = [lcr |-> lcr, ier |-> ier, mcr |-> mcr, lsr |-> lsr \ {"DR"}, txbuf |-> txbuf, rxbuf |-> <<>>,
             rxdone |-> 0, stdout |-> stdout, looped |-> looped, received |-> got1]
    BY <1>9, <2>1, ZenonT(30)
  <2>3. r \in PortRegisters
    BY <1>3, <1>7, <2>2, NowFields, ZenonT(30) DEF PortRegisters
  <2> HIDE DEF n, x, d
  <2>4. Len(looped) = x + 1 + (0 - 0) /\ 0 <= FIFO_LEN
    BY <1>3, <1>4, <1>10, SMTT(30)
  <2>5. ASSUME NEW i \in 1 .. x + 1 PROVE looped[i] = got1[i]
    <3>1. CASE i = x + 1
      BY <1>6, <1>7, <3>1, SMTT(30)
    <3>2. CASE i # x + 1
      <4>1. i \in 1 .. x
        BY <1>3, <3>2, SMTT(30)
      <4> QED BY <1>4, <1>7, <4>1
    <3> QED BY <3>1, <3>2, SMTT(30)
  <2>6. LoopSplit(r)
    <3>1. /\ r.rxdone = 0 /\ r.rxbuf = <<>> /\ r.lsr = lsr \ {"DR"}
          /\ r.looped = looped /\ r.received = got1
      BY <2>2, ZenonT(30)
    <3>2. Len(<<>>) = 0 /\ "DR" \notin lsr \ {"DR"}
      BY SMTT(30)
    <3> HIDE DEF r
    <3> QED BY <1>3, <1>7, <2>4, <2>5, <3>1, <3>2, SMTT(30) DEF LoopSplit
  <2>7. Good(r) /\ r.stdout = stdout
    BY <2>2, <2>3, <2>6, NowFields, ZenonT(30) DEF Good
  <2> QED BY <1>1, <1>2, <2>7, IrqUpdated
<1>11. CASE d + 1 # n
  <2>1. rx = [lcr |-> lcr, ier |-> ier, mcr |-> mcr, lsr |-> lsr, txbuf |-> txbuf, rxbuf |-> rxbuf,
              rxdone |-> d + 1, stdout |-> stdout, looped |-> looped, received |-> received]
    BY <1>11 DEF rx, Now
  <2>2. r = [lcr |-> lcr, ier |-> ier, mcr |-> mcr, lsr |-> lsr, txbuf |-> txbuf, rxbuf |-> rxbuf,
             rxdone |-> d + 1, stdout |-> stdout, looped |-> looped, received |-> got1]
    <3> DEFINE e == d + 1
    <3> HIDE DEF e
    <3>1. rx = [lcr |-> lcr, ier |-> ier, mcr |-> mcr, lsr |-> lsr, txbuf |-> txbuf, rxbuf |-> rxbuf,
                rxdone |-> e, stdout |-> stdout, looped |-> looped, received |-> received]
      BY <2>1, Zenon DEF e
    <3> HIDE DEF rx, n, x, d
    <3>2. r = [lcr |-> lcr, ier |-> ier, mcr |-> mcr, lsr |-> lsr, txbuf |-> txbuf, rxbuf |-> rxbuf,
               rxdone |-> e, stdout |-> stdout, looped |-> looped, received |-> got1]
      BY <1>9, <3>1, ZenonT(30)
    <3> QED BY <3>2, Zenon DEF e
  <2>3. r \in PortRegisters
    BY <1>3, <1>7, <2>2, NowFields, SMTT(30) DEF PortRegisters
  <2> HIDE DEF n, x, d
  <2>4. d + 1 <= n /\ Len(looped) = (x + 1) + (n - (d + 1)) /\ ("DR" \in lsr <=> d + 1 # n)
    BY <1>1, <1>3, <1>4, <1>11, SMTT(30)
  <2>5. ASSUME NEW i \in 1 .. x + 1 PROVE looped[i] = got1[i]
    <3>1. CASE i = x + 1
      BY <1>6, <1>7, <3>1
    <3>2. CASE i # x + 1
      <4>1. i \in 1 .. x
        BY <1>3, <3>2
      <4> QED BY <1>4, <1>7, <4>1
    <3> QED BY <3>1, <3>2
  <2>6. ASSUME NEW i \in 1 .. n, i > d + 1 PROVE looped[(x + 1) + (i - (d + 1))] = rxbuf[i]
    <3>1. i > d /\ (x + 1) + (i - (d + 1)) = x + (i - d)
      BY <1>3, <2>6
    <3> QED BY <1>4, <3>1
  <2>7. LoopSplit(r)
    BY <1>3, <1>4, <1>7, <2>2, <2>4, <2>5, <2>6, ZenonT(30) DEF LoopSplit, n
  <2>8. Good(r) /\ r.stdout = stdout
    BY <2>2, <2>3, <2>7, NowFields, ZenonT(30) DEF Good
  <2> QED BY <1>1, <1>2, <2>8, IrqUpdated
<1> QED BY <1>10, <1>11

\* Registers that are as they were but for lcr, ier or mcr are good.
LEMMA WritesKeep ==
  ASSUME UartInv, NEW r, r \in PortRegisters, update_irq(r), UNCHANGED sent,
         r.lsr = lsr, r.txbuf = txbuf, r.rxbuf = rxbuf, r.rxdone = rxdone, r.stdout = stdout,
         r.looped = looped, r.received = received
  PROVE  UartInv'
<1>1. sent' \in Seq(Bytes) /\ sent' = r.stdout
  BY SMTT(30) DEF UartInv
<1>2. LoopSplit(r)
  BY NowFields, SMTT(30) DEF LoopSplit, Now
<1>3. Good(r)
  BY <1>2, NowFields, ZenonT(30) DEF Good
<1> QED BY <1>1, <1>3, IrqUpdated, SMTT(30)

\* Every access keeps the invariant.
LEMMA UartKept == UartInv /\ [UartNext]_uartVars => UartInv'
<1> SUFFICES ASSUME UartInv, [UartNext]_uartVars PROVE UartInv'
  OBVIOUS
<1>1. ASSUME NEW v \in SUBSET {"RDI", "THRI"}, WriteIer(v) PROVE UartInv'
  <2>1. CASE "DLAB" \in lcr
    <3> DEFINE r == [Now EXCEPT !.ier = v]
    <3>1. r = [lcr |-> lcr, ier |-> v, mcr |-> mcr, lsr |-> lsr, txbuf |-> txbuf, rxbuf |-> rxbuf,
               rxdone |-> rxdone, stdout |-> stdout, looped |-> looped, received |-> received]
      BY DEF Now
    <3>2. r \in PortRegisters
      BY NowFields, Zenon DEF PortRegisters
    <3>3. update_irq(r) /\ UNCHANGED sent
      BY <1>1, <2>1 DEF WriteIer
    <3> HIDE DEF r
    <3> QED BY <3>1, <3>2, <3>3, WritesKeep, Zenon
  <2>2. CASE "DLAB" \notin lcr
    <3>1. update_irq(Now) /\ UNCHANGED sent
      BY <1>1, <2>2, SMTT(30) DEF WriteIer
    <3>2. Good(Now) /\ sent' \in Seq(Bytes) /\ sent' = Now.stdout
      BY <3>1, SMTT(30) DEF UartInv, Now
    <3> QED BY <3>1, <3>2, IrqUpdated
  <2> QED BY <2>1, <2>2, SMTT(30)
<1>2. ASSUME NEW v \in SUBSET {"DLAB", "XMIT", "RCVR"}, WriteLcr(v) PROVE UartInv'
  <2> DEFINE r == [Now EXCEPT !.lcr = v]
  <2>1. r = [lcr |-> v, ier |-> ier, mcr |-> mcr, lsr |-> lsr, txbuf |-> txbuf, rxbuf |-> rxbuf,
             rxdone |-> rxdone, stdout |-> stdout, looped |-> looped, received |-> received]
    BY DEF Now
  <2>2. r \in PortRegisters
    BY NowFields, Zenon DEF PortRegisters
  <2>3. update_irq(r) /\ UNCHANGED sent
    BY <1>2 DEF WriteLcr
  <2> HIDE DEF r
  <2> QED BY <2>1, <2>2, <2>3, WritesKeep, Zenon
<1>3. ASSUME NEW v \in SUBSET {"LOOP"}, WriteMcr(v) PROVE UartInv'
  <2> DEFINE r == [Now EXCEPT !.mcr = v]
  <2>1. r = [lcr |-> lcr, ier |-> ier, mcr |-> v, lsr |-> lsr, txbuf |-> txbuf, rxbuf |-> rxbuf,
             rxdone |-> rxdone, stdout |-> stdout, looped |-> looped, received |-> received]
    BY DEF Now
  <2>2. r \in PortRegisters
    BY NowFields, Zenon DEF PortRegisters
  <2>3. update_irq(r) /\ UNCHANGED sent
    BY <1>3 DEF WriteMcr
  <2> HIDE DEF r
  <2> QED BY <2>1, <2>2, <2>3, WritesKeep, Zenon
<1>4. CASE UNCHANGED uartVars
  <2>1. /\ UNCHANGED <<lcr, ier, mcr, lsr, irq_state, irq_line, txbuf, rxbuf, rxdone, stdout, sent, looped, received>>
    BY <1>4, SMTT(30) DEF uartVars
  <2>2. Now' = Now
    BY <2>1, ZenonT(30) DEF Now
  <2> QED BY <2>1, <2>2, ZenonT(30) DEF UartInv, Good, LoopSplit, Pending
<1> QED BY <1>1, <1>2, <1>3, <1>4, TransmitKeeps, LoopKeeps, ReceiveByteKeeps DEF UartNext

\* The elements of two sequences put together.
LEMMA Appended ==
  ASSUME NEW S, NEW s \in Seq(S), NEW r \in Seq(S)
  PROVE  /\ s \o r \in Seq(S) /\ Len(s \o r) = Len(s) + Len(r)
         /\ \A i \in 1 .. Len(s) + Len(r) : (s \o r)[i] = IF i <= Len(s) THEN s[i] ELSE r[i - Len(s)]
BY SMTT(30)

\* What the invariant says of the loop is what LoopExact says.
LEMMA LoopedSplit == UartInv => LoopExact
<1> SUFFICES ASSUME UartInv PROVE LoopExact
  OBVIOUS
<1> DEFINE n == Len(rxbuf)
           x == Len(received)
           rest == SubSeq(rxbuf, rxdone + 1, n)
           all == received \o rest
<1>1. /\ rxbuf \in Seq(Bytes) /\ looped \in Seq(Bytes) /\ received \in Seq(Bytes)
      /\ n \in Nat /\ x \in Nat /\ rxdone \in Nat
  BY NowFields, SMTT(30)
<1>2. /\ rxdone <= n /\ Len(looped) = x + (n - rxdone) /\ ("DR" \in lsr <=> rxdone # n)
      /\ \A i \in 1 .. x : looped[i] = received[i]
      /\ \A i \in 1 .. n : i > rxdone => looped[x + (i - rxdone)] = rxbuf[i]
  BY NowFields, ZenonT(30) DEF LoopSplit, Now
<1>3. rest \in Seq(Bytes) /\ Len(rest) = n - rxdone /\ \A i \in 1 .. n - rxdone : rest[i] = rxbuf[rxdone + i]
  BY <1>1, <1>2, RestOf, ZenonT(30)
<1> HIDE DEF rest
<1>4. /\ all \in Seq(Bytes) /\ Len(all) = x + (n - rxdone)
      /\ \A i \in 1 .. x + (n - rxdone) : all[i] = IF i <= x THEN received[i] ELSE rest[i - x]
  <2>1. rest \in Seq(Bytes) /\ Len(rest) = n - rxdone
    BY <1>3
  <2>2. /\ all \in Seq(Bytes) /\ Len(all) = x + Len(rest)
        /\ \A i \in 1 .. x + Len(rest) : all[i] = IF i <= x THEN received[i] ELSE rest[i - x]
    BY <1>1, <2>1, Appended, ZenonT(30)
  <2> QED BY <2>1, <2>2, SMTT(30)
<1> HIDE DEF all, n, x
<1>5. ASSUME NEW i \in 1 .. x + (n - rxdone) PROVE looped[i] = all[i]
  <2>1. CASE i <= x
    <3>1. i \in 1 .. x
      BY <1>1, <2>1, SMTT(30)
    <3> QED BY <1>2, <1>4, <2>1, <3>1, SMTT(30)
  <2>2. CASE ~(i <= x)
    <3>1. i - x \in 1 .. n - rxdone /\ rxdone + (i - x) \in 1 .. n /\ rxdone + (i - x) > rxdone
      BY <1>1, <1>2, <2>2
    <3>2. x + ((rxdone + (i - x)) - rxdone) = i
      BY <1>1, SMTT(30)
    <3>3. looped[i] = rxbuf[rxdone + (i - x)]
      BY <1>2, <3>1, <3>2, SMTT(30)
    <3>4. all[i] = rest[i - x] /\ rest[i - x] = rxbuf[rxdone + (i - x)]
      BY <1>3, <1>4, <2>2, <3>1
    <3> QED BY <3>3, <3>4, SMTT(30)
  <2> QED BY <2>1, <2>2, SMTT(30)
<1>6. looped = all
  <2>1. Len(looped) = Len(all) /\ looped \in Seq(Bytes) /\ all \in Seq(Bytes)
    BY <1>1, <1>2, <1>4, ZenonT(30)
  <2>2. \A i \in 1 .. Len(looped) : looped[i] = all[i]
    BY <1>2, <1>5
  <2> QED BY <2>1, <2>2, SMTT(30)
<1> QED BY <1>2, <1>6 DEF LoopExact, all, rest, n

\* The serial port has printed all that was sent, in order, is ready for more, holds its
\* line high exactly while an interrupt is pending, and reads back what was looped, in
\* whatever order the guest accesses its registers (tx, rx, update_irq).
THEOREM SerialPortStaysExact == UartSpec => []SerialPortExact
<1>1. UartInv => SerialPortExact
  <2> SUFFICES ASSUME UartInv PROVE SerialPortExact
    OBVIOUS
  <2>1. Len(rxbuf) <= FIFO_LEN /\ rxdone <= Len(rxbuf)
    BY NowFields, ZenonT(30) DEF LoopSplit, Now
  <2>2. irq_state \subseteq ier
    BY SMTT(30) DEF UartInv, Pending
  <2>3. OutputExact /\ TransmitterReady /\ LineLevel
    BY NowFields DEF UartInv, OutputExact, TransmitterReady, LineLevel
  <2> QED BY <2>1, <2>2, <2>3, LoopedSplit, SMTT(30) DEF UartTypeOK, SerialPortExact
<1> QED BY <1>1, UartBegins, UartKept, PTL DEF UartSpec

-----------------------------------------------------------------------------
(* Frames *)

NetTypes ==
    /\ at \in {"poll", "tx", "rx", "receive", "read", "full"}
    /\ tap \in Seq(Nat) /\ rx_chain \in Seq(Nat) /\ delivered \in Seq(Nat)
    /\ rx_frame \in Nat /\ room \in Nat /\ rxq \in Nat /\ txq \in Nat /\ capacity \in Nat
    /\ tap_event_enabled \in BOOLEAN /\ rxKick \in BOOLEAN /\ txKick \in BOOLEAN /\ stalled \in Nat

\* The frames are numbered through: those delivered, those in the buffer, the one
\* kept, those at the tap.
Numbered ==
    /\ \A i \in 1 .. Len(delivered) : delivered[i] = i
    /\ \A i \in 1 .. Len(rx_chain) : rx_chain[i] = Len(delivered) + i
    /\ rx_frame # 0 => rx_frame = Len(delivered) + Len(rx_chain) + 1
    /\ \A i \in 1 .. Len(tap) : tap[i] = Received + i
    /\ Received + Len(tap) <= Frames

\* The buffer and the frame kept, at each point of handle_rx_tap: a frame that is
\* about to be copied either fits or has a whole buffer to itself.
Phase ==
    /\ room <= capacity
    /\ at \in {"poll", "tx", "rx"} => rx_chain = <<>>
    /\ at = "read" => rx_frame = 0
    /\ at \in {"receive", "full"} => rx_frame # 0
    /\ at = "receive" => (room >= Size(rx_frame) \/ room = capacity)

\* The tap is not polled only while there is no buffer or a kick to come; a frame
\* kept although there is a buffer for it has a kick to come; so have the frames
\* the guest sent.
Wakes ==
    /\ ~tap_event_enabled => at \in {"poll", "tx"} /\ (rxq = 0 \/ rxKick)
    /\ (at \in {"poll", "tx"} /\ rxq > 0 /\ rx_frame # 0 /\ Size(rx_frame) <= capacity) => rxKick
    /\ IF at = "tx" THEN stalled = 0 ELSE txKick \/ txq = stalled

\* Two frames share a buffer only if it has room for both.
Shared ==
    /\ \A i \in 2 .. Len(rx_chain) :
         Size(Len(delivered) + i - 1) + Size(Len(delivered) + i) <= capacity
    /\ Len(rx_chain) > 0 => room + Size(Len(delivered) + Len(rx_chain)) <= capacity

\* What the driver takes it takes from the buffers returned to it.
TurnInv ==
    /\ Shared /\ TakenInTurn /\ taken \in Seq(Nat)
    /\ \A i \in 1 .. Len(taken) : taken[i] \in 1 .. Len(delivered)

NetInv == NetTypes /\ Numbered /\ Phase /\ Wakes /\ TurnInv

\* A frame takes a whole number of units.
LEMMA SizeType == \A f : Size(f) \in Nat
BY DEF Size

\* A step that returns no buffer and fills none keeps the order of the frames.
LEMMA TurnSame ==
    ASSUME TurnInv, UNCHANGED <<rx_chain, room, delivered, taken, capacity>>
    PROVE  TurnInv'
BY DEF TurnInv, Shared, TakenInTurn, Size

\* A device that starts has received nothing.
LEMMA NetBegins == NetInit => NetInv
<1> SUFFICES ASSUME NetInit PROVE NetInv
  OBVIOUS
<1>1. capacity \in Nat
  BY NetAssumption DEF NetInit
<1>2. NetTypes
  <2>1. tap_event_enabled \in BOOLEAN /\ rxKick \in BOOLEAN /\ txKick \in BOOLEAN
    BY Zenon DEF NetInit
  <2>2. /\ at = "poll" /\ tap \in Seq(Nat) /\ rx_chain \in Seq(Nat) /\ delivered \in Seq(Nat)
        /\ rx_frame \in Nat /\ room \in Nat /\ rxq \in Nat /\ txq \in Nat /\ stalled \in Nat
    BY DEF NetInit
  <2> QED BY <1>1, <2>1, <2>2 DEF NetTypes
<1>3. Received = 0 /\ Len(tap) = 0 /\ Len(delivered) = 0 /\ Len(rx_chain) = 0
  BY DEF NetInit, Received
<1>4. Numbered
  BY <1>3, NetAssumption DEF NetInit, Numbered
<1>5. Phase /\ Wakes
  BY <1>1 DEF NetInit, Phase, Wakes
<1>6. TurnInv
  <2>1. taken = <<>> /\ Len(taken) = 0 /\ DOMAIN taken = {}
    BY DEF NetInit
  <2> QED BY <1>3, <2>1 DEF TurnInv, Shared, TakenInTurn
<1> QED BY <1>2, <1>4, <1>5, <1>6 DEF NetInv

\* The driver's and the host's steps, and what handle_tx_queue does, leave the frames
\* received where they are.
LEMMA OutsideKeeps ==
    ASSUME NetInv, UNCHANGED capacity,
           PostRx \/ PostTx \/ HostSends \/ handle_tx_queue \/ tx_chain \/ tx_fails
    PROVE  NetInv'
<1> USE DEF NetInv
<1>1. CASE PostRx
  <2>1. rxq' = rxq + 1 /\ rxKick' = TRUE
        /\ UNCHANGED <<at, tap, rx_frame, tap_event_enabled, rx_chain, room, txq, txKick, delivered, used, taken, stalled>>
    BY <1>1 DEF PostRx
  <2>2. NetTypes'
    BY <2>1 DEF NetTypes
  <2>3. Numbered'
    BY <2>1 DEF Numbered, Received
  <2>4. Phase'
    BY <2>1 DEF Phase, Size
  <2>5. Wakes'
    BY <2>1, SMTT(30) DEF Wakes, Size
  <2>6. TurnInv'
    BY <2>1, TurnSame
  <2> QED BY <2>2, <2>3, <2>4, <2>5, <2>6, SMTT(30)
<1>2. CASE PostTx \/ handle_tx_queue \/ tx_chain \/ tx_fails
  <2>1. UNCHANGED <<tap, rx_frame, tap_event_enabled, rx_chain, room, rxq, rxKick, delivered, used, taken>>
    BY <1>2, SMTT(30) DEF PostTx, handle_tx_queue, tx_chain, tx_fails
  <2>2. /\ at \in {"poll", "tx"} => at' \in {"poll", "tx"}
        /\ at \notin {"poll", "tx"} => at' = at
    BY <1>2 DEF PostTx, handle_tx_queue, tx_chain, tx_fails
  <2>3. txq' \in Nat /\ txKick' \in BOOLEAN /\ stalled' \in Nat
    <3>1. txq \in Nat /\ txKick \in BOOLEAN /\ stalled \in Nat
      BY SMTT(30) DEF NetTypes
    <3>2. txq' \in Nat /\ stalled' \in Nat
      BY <1>2, <3>1, SMTT(30) DEF PostTx, handle_tx_queue, tx_chain, tx_fails
    <3>3. txKick' \in BOOLEAN
      BY <1>2, <3>1, ZenonT(30) DEF PostTx, handle_tx_queue, tx_chain, tx_fails
    <3> QED BY <3>2, <3>3
  <2>4. IF at' = "tx" THEN stalled' = 0 ELSE txKick' \/ txq' = stalled'
    <3>1. txq \in Nat /\ (IF at = "tx" THEN stalled = 0 ELSE txKick \/ txq = stalled)
      BY Zenon DEF NetTypes, Wakes
    <3>2. CASE PostTx
      BY <3>1, <3>2 DEF PostTx
    <3>3. CASE handle_tx_queue
      BY <3>1, <3>3 DEF handle_tx_queue
    <3>4. CASE tx_chain
      BY <3>1, <3>4 DEF tx_chain
    <3>5. CASE tx_fails
      BY <3>1, <3>5 DEF tx_fails
    <3> QED BY <1>2, <3>2, <3>3, <3>4, <3>5
  <2>5. NetTypes'
    BY <2>1, <2>2, <2>3 DEF NetTypes
  <2>6. Numbered'
    BY <2>1 DEF Numbered, Received
  <2>7. Phase'
    BY <2>1, <2>2, SMTT(30) DEF Phase, Size
  <2>8. Wakes'
    BY <2>1, <2>2, <2>4 DEF Wakes, Size
  <2>9. TurnInv'
    BY <2>1, TurnSame
  <2> QED BY <2>5, <2>6, <2>7, <2>8, <2>9
<1>3. CASE HostSends
  <2>1. /\ tap' = Append(tap, Received + Len(tap) + 1) /\ Received + Len(tap) < Frames
        /\ UNCHANGED <<at, rx_frame, tap_event_enabled, rx_chain, room, rxq, rxKick, txq, txKick,
                       delivered, used, taken, stalled>>
    BY <1>3 DEF HostSends
  <2>2. Received \in Nat /\ Received' = Received
    BY <2>1, SMTT(30) DEF Received, NetTypes
  <2>3. NetTypes'
    BY <2>1, <2>2 DEF NetTypes
  <2>4. Len(tap') = Len(tap) + 1 /\ Len(tap) \in Nat
        /\ \A i \in 1 .. Len(tap') : tap'[i] = IF i <= Len(tap) THEN tap[i] ELSE Received + Len(tap) + 1
    BY <2>1, <2>2, SMTT(30) DEF NetTypes
  <2>5. Numbered'
    BY <2>1, <2>2, <2>4, NetAssumption, SMTT(30) DEF Numbered
  <2>6. Phase' /\ Wakes'
    BY <2>1 DEF Phase, Wakes, Size
  <2>7. TurnInv'
    BY <2>1, TurnSame
  <2> QED BY <2>3, <2>5, <2>6, <2>7, SMTT(30)
<1> QED BY <1>1, <1>2, <1>3

\* The events of the receive side: a kick, or a frame at the tap.
LEMMA EventKeeps ==
    ASSUME NetInv, UNCHANGED capacity, handle_rx_queue \/ handle_rx_tap
    PROVE  NetInv'
<1> USE DEF NetInv
<1>1. /\ UNCHANGED <<tap, rx_frame, rx_chain, room, rxq, txq, txKick, delivered, used, taken, stalled>>
      /\ at = "poll" /\ at' \in {"poll", "rx"}
  BY DEF handle_rx_queue, handle_rx_tap
<1>2. Numbered'
  BY <1>1 DEF Numbered, Received
<1>3. Phase'
  BY <1>1 DEF Phase, Size
<1>4. tap_event_enabled' = TRUE /\ rxKick' \in BOOLEAN
  BY Zenon DEF handle_rx_queue, handle_rx_tap, NetTypes, Wakes
<1>5. NetTypes'
  BY <1>1, <1>4 DEF NetTypes
<1>6. at' = "poll" => rx_frame' = 0
  BY DEF handle_rx_queue, handle_rx_tap
<1>7. Wakes'
  BY <1>1, <1>4, <1>6 DEF Wakes
<1>8. TurnInv'
  BY <1>1, TurnSame
<1> QED BY <1>2, <1>3, <1>5, <1>7, <1>8

\* A buffer that is returned adds its frames to those delivered.
LEMMA DroppedNumbered ==
    ASSUME NetTypes, Numbered, Dropped, UNCHANGED <<tap, rx_frame>>
    PROVE  /\ Numbered' /\ delivered' \in Seq(Nat) /\ rx_chain' = <<>>
<1>1. /\ delivered' = delivered \o rx_chain /\ rx_chain' = <<>>
      /\ delivered \in Seq(Nat) /\ rx_chain \in Seq(Nat)
  BY DEF Dropped, NetTypes
<1>2. /\ delivered' \in Seq(Nat) /\ Len(delivered') = Len(delivered) + Len(rx_chain) /\ Len(rx_chain') = 0
      /\ Len(delivered) \in Nat /\ Len(rx_chain) \in Nat
  BY <1>1
<1>3. \A i \in 1 .. Len(delivered') :
         delivered'[i] = IF i <= Len(delivered) THEN delivered[i] ELSE rx_chain[i - Len(delivered)]
  BY <1>1, <1>2
<1>4. \A i \in 1 .. Len(delivered') : delivered'[i] = i
  <2> SUFFICES ASSUME NEW i \in 1 .. Len(delivered') PROVE delivered'[i] = i
    OBVIOUS
  <2>1. CASE i <= Len(delivered)
    BY <1>2, <1>3, <2>1, SMTT(30) DEF Numbered
  <2>2. CASE i > Len(delivered)
    <3>1. i - Len(delivered) \in 1 .. Len(rx_chain)
      BY <1>2, <2>2
    <3>2. rx_chain[i - Len(delivered)] = Len(delivered) + (i - Len(delivered))
      BY <3>1, SMTT(30) DEF Numbered
    <3> QED BY <1>2, <1>3, <2>2, <3>2
  <2> QED BY <1>2, <2>1, <2>2
<1>5. Received' = Received
  BY <1>2 DEF Received
<1> QED BY <1>1, <1>2, <1>4, <1>5 DEF Numbered

\* A buffer that is returned gives the driver its first frame; the others are lost,
\* each behind one that shared the buffer with it.
LEMMA DroppedTurn ==
    ASSUME NetTypes, Numbered, TurnInv, Dropped, UNCHANGED capacity
    PROVE  TurnInv'
<1>1. /\ delivered' = delivered \o rx_chain /\ rx_chain' = <<>> /\ taken \in Seq(Nat)
      /\ delivered \in Seq(Nat) /\ rx_chain \in Seq(Nat)
      /\ taken' = IF rx_chain = <<>> THEN taken ELSE Append(taken, Head(rx_chain))
  BY DEF Dropped, NetTypes, TurnInv
<1>2. /\ Len(delivered') = Len(delivered) + Len(rx_chain) /\ Len(rx_chain') = 0
      /\ Len(delivered) \in Nat /\ Len(rx_chain) \in Nat /\ Len(taken) \in Nat
  BY <1>1
<1>3. /\ \A i \in 1 .. Len(taken) : taken[i] \in 1 .. Len(delivered)
      /\ \A i, j \in 1 .. Len(taken) : i < j => taken[i] < taken[j]
      /\ \A f \in 1 .. Len(delivered) :
           (\E i \in 1 .. Len(taken) : taken[i] = f) \/ (f > 1 /\ Size(f - 1) + Size(f) <= capacity)
  <2>1. DOMAIN taken = 1 .. Len(taken)
    BY <1>1
  <2> QED BY <2>1, Zenon DEF TurnInv, TakenInTurn
<1>4. Shared'
  <2>1. 2 .. Len(rx_chain)' = {} /\ ~(Len(rx_chain)' > 0)
    BY <1>2
  <2> QED BY <2>1, Zenon DEF Shared
<1>5. CASE rx_chain = <<>>
  <2>1. taken' = taken /\ Len(delivered') = Len(delivered)
    BY <1>1, <1>2, <1>5
  <2>2. TakenInTurn'
    BY <2>1 DEF TurnInv, TakenInTurn, Size
  <2> QED BY <1>1, <1>3, <1>4, <2>1, <2>2 DEF TurnInv
<1>6. CASE rx_chain # <<>>
  <2>1. Len(rx_chain) > 0 /\ Head(rx_chain) = rx_chain[1] /\ rx_chain[1] = Len(delivered) + 1
    BY <1>1, <1>2, <1>6 DEF Numbered
  <2>2. /\ taken' \in Seq(Nat) /\ Len(taken') = Len(taken) + 1
        /\ \A i \in 1 .. Len(taken) : taken'[i] = taken[i]
        /\ taken'[Len(taken) + 1] = Len(delivered) + 1
    <3>1. taken' = Append(taken, Len(delivered) + 1) /\ Len(delivered) + 1 \in Nat
      BY <1>1, <1>2, <1>6, <2>1
    <3> QED BY <1>1, <3>1
  <2>3. \A i \in 1 .. Len(taken') : taken'[i] \in 1 .. Len(delivered')
    <3> SUFFICES ASSUME NEW i \in 1 .. Len(taken') PROVE taken'[i] \in 1 .. Len(delivered')
      OBVIOUS
    <3>1. CASE i = Len(taken) + 1
      BY <1>2, <2>1, <2>2, <3>1
    <3>2. CASE i # Len(taken) + 1
      <4>1. i \in 1 .. Len(taken) /\ taken'[i] = taken[i] /\ taken[i] \in 1 .. Len(delivered)
        BY <1>2, <1>3, <2>2, <3>2
      <4> QED BY <1>2, <4>1
    <3> QED BY <3>1, <3>2
  <2>4. \A i, j \in 1 .. Len(taken') : i < j => taken'[i] < taken'[j]
    <3> SUFFICES ASSUME NEW i \in 1 .. Len(taken'), NEW j \in 1 .. Len(taken'), i < j
                 PROVE  taken'[i] < taken'[j]
      OBVIOUS
    <3>1. i \in 1 .. Len(taken) /\ taken'[i] = taken[i] /\ taken[i] \in 1 .. Len(delivered)
      BY <1>2, <1>3, <2>2
    <3>2. CASE j = Len(taken) + 1
      BY <1>2, <2>2, <3>1, <3>2
    <3>3. CASE j # Len(taken) + 1
      <4>1. j \in 1 .. Len(taken)
        <5>1. Len(taken') = Len(taken) + 1 /\ Len(taken) \in Nat
          BY <1>2, <2>2, Zenon
        <5> QED BY <3>3, <5>1
      <4>2. taken[i] < taken[j] /\ taken'[j] = taken[j]
        BY <1>3, <2>2, <3>1, <4>1, Zenon
      <4> QED BY <3>1, <4>2
    <3> QED BY <3>2, <3>3
  <2>5. \A f \in 1 .. Len(delivered') :
          (\E i \in 1 .. Len(taken') : taken'[i] = f) \/ (f > 1 /\ Size(f - 1) + Size(f) <= capacity)
    <3> SUFFICES ASSUME NEW f \in 1 .. Len(delivered')
                 PROVE  \/ \E i \in 1 .. Len(taken') : taken'[i] = f
                        \/ f > 1 /\ Size(f - 1) + Size(f) <= capacity
      OBVIOUS
    <3>1. CASE f <= Len(delivered)
      <4>1. f \in 1 .. Len(delivered)
        BY <1>2, <3>1
      <4>2. ASSUME NEW i \in 1 .. Len(taken), taken[i] = f
            PROVE  i \in 1 .. Len(taken') /\ taken'[i] = f
        BY <1>2, <2>2, <4>2
      <4> QED BY <1>3, <4>1, <4>2
    <3>2. CASE f = Len(delivered) + 1
      <4>1. Len(taken) + 1 \in 1 .. Len(taken')
        BY <1>2, <2>2
      <4> QED BY <2>2, <3>2, <4>1
    <3>3. CASE f > Len(delivered) + 1
      <4> DEFINE k == f - Len(delivered)
      <4>1. k \in 2 .. Len(rx_chain) /\ Len(delivered) + k - 1 = f - 1 /\ Len(delivered) + k = f /\ f > 1
        BY <1>2, <3>3
      <4>2. Size(Len(delivered) + k - 1) + Size(Len(delivered) + k) <= capacity
        BY <4>1, Zenon DEF TurnInv, Shared
      <4> QED BY <4>1, <4>2
    <3> QED BY <1>2, <3>1, <3>2, <3>3
  <2>6. DOMAIN taken' = 1 .. Len(taken')
    BY <2>2
  <2>7. TakenInTurn'
    BY <2>4, <2>5, <2>6 DEF TakenInTurn, Size
  <2> QED BY <1>4, <2>2, <2>3, <2>7 DEF TurnInv
<1> QED BY <1>5, <1>6

\* handle_rx_tap asks for a buffer: without one it stops polling the tap.
LEMMA NextChainKeeps == ASSUME NetInv, UNCHANGED capacity, next_rx_chain PROVE NetInv'
<1> USE DEF NetInv
<1>1. /\ at = "rx" /\ rx_chain = <<>>
      /\ UNCHANGED <<tap, rx_frame, rxKick, txq, txKick, delivered, used, taken, stalled>>
  BY DEF next_rx_chain, Phase
<1>2. CASE rxq > 0
  <2>1. /\ rxq' = rxq - 1 /\ rx_chain' = <<>> /\ room' = capacity
        /\ at' = IF rx_frame # 0 THEN "receive" ELSE "read"
        /\ tap_event_enabled' = tap_event_enabled
    BY <1>2 DEF next_rx_chain
  <2>2. NetTypes'
    BY <1>1, <1>2, <2>1, SMTT(30) DEF NetTypes
  <2>3. Numbered'
    BY <1>1, <2>1, SMTT(30) DEF Numbered, Received
  <2>4. Phase'
    BY <1>1, <2>1, SMTT(30) DEF Phase, NetTypes
  <2>5. Wakes'
    BY <1>1, <2>1, SMTT(30) DEF Wakes
  <2>6. TurnInv'
    <3>1. 2 .. Len(rx_chain)' = {} /\ ~(Len(rx_chain)' > 0)
      BY <2>1
    <3>2. Shared'
      BY <3>1, Zenon DEF Shared
    <3> QED BY <1>1, <3>2 DEF TurnInv, TakenInTurn, Size
  <2> QED BY <2>2, <2>3, <2>4, <2>5, <2>6
<1>3. CASE ~(rxq > 0)
  <2>1. UNCHANGED <<rxq, rx_chain, room>> /\ at' = "poll" /\ tap_event_enabled' = FALSE /\ rxq = 0
    BY <1>3 DEF next_rx_chain, NetTypes
  <2>2. NetTypes'
    BY <1>1, <2>1, ZenonT(30) DEF NetTypes
  <2>3. Numbered'
    BY <1>1, <2>1, SMTT(30) DEF Numbered, Received
  <2>4. Phase'
    BY <1>1, <2>1, SMTT(30) DEF Phase
  <2>5. Wakes'
    BY <1>1, <2>1 DEF Wakes
  <2>6. TurnInv'
    BY <1>1, <2>1, TurnSame
  <2> QED BY <2>2, <2>3, <2>4, <2>5, <2>6
<1> QED BY <1>2, <1>3

\* A frame is copied to the buffer, or is too large for a whole one and is kept.
LEMMA ReceiveKeeps == ASSUME NetInv, UNCHANGED capacity, receive_frame PROVE NetInv'
<1> USE DEF NetInv
<1>1. /\ at = "receive" /\ UNCHANGED <<tap, tap_event_enabled, rxq, rxKick, txq, txKick, stalled>>
      /\ tap_event_enabled = TRUE /\ rx_frame # 0
  BY DEF receive_frame, Phase, Wakes, NetTypes
<1>2. Size(rx_frame) \in Nat /\ room \in Nat /\ capacity \in Nat
  BY SizeType DEF NetTypes
<1>3. CASE room < Size(rx_frame)
  <2>1. at' = "poll" /\ Dropped /\ room' = 0 /\ rx_frame' = rx_frame
    BY <1>3 DEF receive_frame
  <2>2. Numbered' /\ delivered' \in Seq(Nat) /\ rx_chain' = <<>>
    BY <1>1, <2>1, DroppedNumbered
  <2>3. NetTypes'
    BY <1>1, <2>1, <2>2 DEF NetTypes
  <2>4. capacity < Size(rx_frame)
    BY <1>1, <1>2, <1>3 DEF Phase
  <2>5. Phase'
    BY <1>2, <2>1, <2>2 DEF Phase
  <2>6. Size(rx_frame') = Size(rx_frame)
    BY <2>1, SMTT(30)
  <2>7. Wakes'
    BY <1>1, <1>2, <2>1, <2>4, <2>6, SMTT(30) DEF Wakes
  <2>8. TurnInv'
    BY <2>1, DroppedTurn
  <2> QED BY <2>2, <2>3, <2>5, <2>7, <2>8
<1>4. CASE ~(room < Size(rx_frame))
  <2>1. /\ at' = "read" /\ rx_chain' = Append(rx_chain, rx_frame) /\ room' = room - Size(rx_frame)
        /\ rx_frame' = 0 /\ UNCHANGED <<delivered, used, taken>>
    BY <1>4 DEF receive_frame
  <2>2. /\ rx_chain' \in Seq(Nat) /\ Len(rx_chain') = Len(rx_chain) + 1 /\ Len(rx_chain) \in Nat
        /\ \A i \in 1 .. Len(rx_chain') : rx_chain'[i] = IF i <= Len(rx_chain) THEN rx_chain[i] ELSE rx_frame
    BY <2>1 DEF NetTypes
  <2>3. room' \in Nat /\ room' <= capacity
    BY <1>2, <1>4, <2>1, SMTT(30) DEF Phase
  <2>4. NetTypes'
    BY <1>1, <2>1, <2>2, <2>3 DEF NetTypes
  <2>5. rx_frame = Len(delivered) + Len(rx_chain) + 1 /\ Len(delivered) \in Nat
    BY <1>1 DEF Numbered, NetTypes
  <2>6. Received' = Received
    BY <1>1, <2>1, <2>2, <2>5 DEF Received
  <2>7. \A i \in 1 .. Len(rx_chain') : rx_chain'[i] = Len(delivered) + i
    <3> SUFFICES ASSUME NEW i \in 1 .. Len(rx_chain') PROVE rx_chain'[i] = Len(delivered) + i
      OBVIOUS
    <3>1. CASE i <= Len(rx_chain)
      <4>1. i \in 1 .. Len(rx_chain)
        BY <2>2, <3>1
      <4>2. rx_chain[i] = Len(delivered) + i
        BY <4>1 DEF Numbered
      <4> QED BY <2>2, <3>1, <4>2
    <3>2. CASE ~(i <= Len(rx_chain))
      <4>1. i = Len(rx_chain) + 1
        BY <2>2, <3>2, SMTT(30)
      <4> QED BY <2>2, <2>5, <3>2, <4>1
    <3> QED BY <3>1, <3>2
  <2>8. Numbered'
    BY <1>1, <2>1, <2>6, <2>7 DEF Numbered
  <2>9. Phase'
    BY <2>1, <2>3 DEF Phase
  <2>10. Wakes'
    BY <1>1, <2>1 DEF Wakes
  <2>11. TurnInv'
    <3>1. /\ rx_frame = Len(delivered) + Len(rx_chain') /\ Len(delivered) + Len(rx_chain') - 1 = Len(delivered) + Len(rx_chain)
      BY <2>2, <2>5
    <3>2. room' + Size(Len(delivered) + Len(rx_chain')) <= capacity
      BY <1>2, <2>1, <3>1 DEF Phase
    <3>3. ASSUME NEW i \in 2 .. Len(rx_chain')
          PROVE  Size(Len(delivered) + i - 1) + Size(Len(delivered) + i) <= capacity
      <4>1. CASE i = Len(rx_chain')
        <5>1. room + Size(Len(delivered) + Len(rx_chain)) <= capacity
          BY <2>2, <4>1 DEF TurnInv, Shared
        <5>2. Size(Len(delivered) + Len(rx_chain)) \in Nat
          BY SizeType
        <5>3. Size(rx_frame) + Size(Len(delivered) + Len(rx_chain)) <= capacity
          BY <1>2, <1>4, <5>1, <5>2
        <5> QED BY <1>2, <3>1, <4>1, <5>2, <5>3
      <4>2. CASE i # Len(rx_chain')
        <5>1. i \in 2 .. Len(rx_chain)
          BY <2>2, <4>2
        <5> QED BY <5>1, Zenon DEF TurnInv, Shared
      <4> QED BY <4>1, <4>2
    <3>4. Shared'
      BY <2>1, <3>2, <3>3 DEF Shared, Size
    <3> QED BY <2>1, <3>4 DEF TurnInv, TakenInTurn, Size
  <2> QED BY <2>4, <2>8, <2>9, <2>10, <2>11
<1> QED BY <1>3, <1>4, SMTT(30)

\* tap_read takes the next frame, and with none left the buffer goes back.
LEMMA ReadKeeps == ASSUME NetInv, UNCHANGED capacity, tap_read PROVE NetInv'
<1> USE DEF NetInv
<1>1. /\ at = "read" /\ UNCHANGED <<tap_event_enabled, rxq, rxKick, txq, txKick, stalled>>
      /\ tap_event_enabled = TRUE /\ rx_frame = 0
  BY DEF tap_read, Phase, Wakes, NetTypes
<1>2. CASE tap = <<>>
  <2>1. at' = "poll" /\ Dropped /\ room' = 0 /\ UNCHANGED <<tap, rx_frame>>
    BY <1>2 DEF tap_read
  <2>2. Numbered' /\ delivered' \in Seq(Nat) /\ rx_chain' = <<>>
    BY <2>1, DroppedNumbered
  <2>3. NetTypes'
    BY <1>1, <2>1, <2>2 DEF NetTypes
  <2>4. Phase'
    BY <1>1, <2>1, <2>2 DEF Phase, NetTypes
  <2>5. Wakes'
    BY <1>1, <2>1 DEF Wakes
  <2>6. TurnInv'
    BY <2>1, DroppedTurn
  <2> QED BY <2>2, <2>3, <2>4, <2>5, <2>6
<1>3. CASE tap # <<>>
  <2>1. /\ rx_frame' = Head(tap) /\ tap' = Tail(tap)
        /\ at' = IF room < Size(Head(tap)) THEN "full" ELSE "receive"
        /\ UNCHANGED <<rx_chain, room, delivered, used, taken>>
    BY <1>3 DEF tap_read
  <2>2. /\ tap' \in Seq(Nat) /\ Len(tap) \in Nat \ {0} /\ Len(tap') = Len(tap) - 1 /\ Head(tap) = tap[1]
        /\ \A i \in 1 .. Len(tap') : tap'[i] = tap[i + 1]
    BY <1>3, <2>1 DEF NetTypes
  <2>3. Len(delivered) \in Nat /\ Len(rx_chain) \in Nat
    BY DEF NetTypes
  <2>4. Received = Len(delivered) + Len(rx_chain) /\ Received \in Nat
    BY <1>1, <2>3 DEF Received
  <2>5. tap[1] = Received + 1
    BY <2>2 DEF Numbered
  <2>6. rx_frame' = Len(delivered) + Len(rx_chain) + 1 /\ rx_frame' \in Nat /\ rx_frame' # 0
    BY <2>1, <2>2, <2>3, <2>4, <2>5
  <2>7. Received' = Received + 1
    BY <2>1, <2>4, <2>6 DEF Received
  <2>8. \A i \in 1 .. Len(tap') : tap'[i] = Received' + i
    <3> SUFFICES ASSUME NEW i \in 1 .. Len(tap') PROVE tap'[i] = Received' + i
      OBVIOUS
    <3>1. i + 1 \in 1 .. Len(tap)
      BY <2>2
    <3>2. tap[i + 1] = Received + (i + 1)
      BY <3>1 DEF Numbered
    <3> QED BY <2>2, <2>4, <2>7, <3>2
  <2>9. Received' + Len(tap') <= Frames
    BY <2>2, <2>4, <2>7, SMTT(30) DEF Numbered
  <2>10. Numbered'
    BY <2>1, <2>6, <2>8, <2>9, SMTT(30) DEF Numbered
  <2>11. NetTypes'
    BY <1>1, <2>1, <2>2, <2>6, SMTT(30) DEF NetTypes
  <2>12. Phase'
    <3>1. room \in Nat /\ Size(Head(tap)) \in Nat
      BY SizeType, SMTT(30) DEF NetTypes
    <3> QED BY <2>1, <2>6, <3>1 DEF Phase
  <2>13. Wakes'
    BY <1>1, <2>1, SMTT(30) DEF Wakes
  <2>14. TurnInv'
    BY <2>1, TurnSame
  <2> QED BY <2>10, <2>11, <2>12, <2>13, <2>14
<1> QED BY <1>2, <1>3, SMTT(30)

\* A full buffer goes back; its frame gets the next buffer, or is kept.
LEMMA FullKeeps == ASSUME NetInv, UNCHANGED capacity, full_chain PROVE NetInv'
<1> USE DEF NetInv
<1>1. /\ at = "full" /\ UNCHANGED <<tap, rx_frame, tap_event_enabled, rxKick, txq, txKick, stalled>>
      /\ tap_event_enabled = TRUE /\ rx_frame # 0 /\ Dropped
  BY DEF full_chain, Phase, Wakes, NetTypes
<1>2. Numbered' /\ delivered' \in Seq(Nat) /\ rx_chain' = <<>>
  BY <1>1, DroppedNumbered
<1>3. rxq \in Nat /\ capacity \in Nat
  BY DEF NetTypes
<1>4. /\ rxq' \in Nat /\ room' \in Nat /\ room' <= capacity
      /\ \/ at' = "receive" /\ room' = capacity
         \/ at' = "poll" /\ rxq' = 0
  BY <1>3, SMTT(30) DEF full_chain
<1>5. NetTypes'
  BY <1>1, <1>2, <1>4, SMTT(30) DEF NetTypes
<1>6. Phase'
  BY <1>1, <1>2, <1>4, SMTT(30) DEF Phase
<1>7. Wakes'
  BY <1>1, <1>4 DEF Wakes
<1>8. TurnInv'
  BY <1>1, DroppedTurn
<1> QED BY <1>2, <1>5, <1>6, <1>7, <1>8

\* Every step of the device, the driver and the host keeps the invariant.
LEMMA NetKept == NetInv /\ [NetNext]_<<netVars, capacity>> => NetInv'
<1> SUFFICES ASSUME NetInv, [NetNext]_<<netVars, capacity>> PROVE NetInv'
  OBVIOUS
<1>1. CASE NetNext
  BY <1>1, OutsideKeeps, EventKeeps, NextChainKeeps, ReceiveKeeps, ReadKeeps, FullKeeps, SMTT(30) DEF NetNext, Handler
<1>2. CASE UNCHANGED <<netVars, capacity>>
  <2>1. /\ UNCHANGED <<at, tap, rx_frame, tap_event_enabled, rx_chain, room, rxq, rxKick, txq, txKick,
                       delivered, used, taken, stalled>>
        /\ capacity' = capacity
    BY <1>2 DEF netVars
  <2>2. TurnInv'
    BY <2>1, TurnSame DEF NetInv
  <2> QED BY <2>1, <2>2 DEF NetInv, NetTypes, Numbered, Received, Phase, Wakes, Size
<1> QED BY <1>1, <1>2

\* Two sequences that number their elements one after the other do so together.
LEMMA Joined ==
  ASSUME NEW s \in Seq(Nat), NEW r \in Seq(Nat),
         \A i \in 1 .. Len(s) : s[i] = i,
         \A i \in 1 .. Len(r) : r[i] = Len(s) + i
  PROVE  /\ s \o r \in Seq(Nat) /\ Len(s \o r) = Len(s) + Len(r)
         /\ \A i \in 1 .. Len(s \o r) : (s \o r)[i] = i
<1>1. /\ s \o r \in Seq(Nat) /\ Len(s \o r) = Len(s) + Len(r) /\ Len(s) \in Nat /\ Len(r) \in Nat
      /\ \A i \in 1 .. Len(s) + Len(r) : (s \o r)[i] = IF i <= Len(s) THEN s[i] ELSE r[i - Len(s)]
  OBVIOUS
<1>2. ASSUME NEW i \in 1 .. Len(s) + Len(r) PROVE (s \o r)[i] = i
  <2>1. CASE i <= Len(s)
    <3>1. i \in 1 .. Len(s)
      BY <1>1, <2>1
    <3> QED BY <1>1, <2>1, <3>1
  <2>2. CASE i > Len(s)
    <3>1. i - Len(s) \in 1 .. Len(r)
      BY <1>1, <2>2
    <3>2. r[i - Len(s)] = Len(s) + (i - Len(s))
      BY <3>1
    <3>3. (s \o r)[i] = r[i - Len(s)]
      BY <1>1, <2>2
    <3> QED BY <1>1, <3>2, <3>3
  <2> QED BY <1>1, <2>1, <2>2
<1> QED BY <1>1, <1>2

\* The invariant says that all frames together are numbered from 1.
LEMMA NumberedOnce == NetInv => OnceInTurn
<1> SUFFICES ASSUME NetInv PROVE OnceInTurn
  OBVIOUS
<1> DEFINE kept == IF rx_frame = 0 THEN <<>> ELSE <<rx_frame>>
           p == delivered \o rx_chain
           q == p \o kept
           seen == q \o tap
<1>1. /\ delivered \in Seq(Nat) /\ rx_chain \in Seq(Nat) /\ tap \in Seq(Nat) /\ rx_frame \in Nat
      /\ Len(delivered) \in Nat /\ Len(rx_chain) \in Nat
  BY DEF NetInv, NetTypes
<1>2. /\ \A i \in 1 .. Len(delivered) : delivered[i] = i
      /\ \A i \in 1 .. Len(rx_chain) : rx_chain[i] = Len(delivered) + i
      /\ \A i \in 1 .. Len(tap) : tap[i] = Received + i
      /\ rx_frame # 0 => rx_frame = Len(delivered) + Len(rx_chain) + 1
  BY DEF NetInv, Numbered
<1>3. p \in Seq(Nat) /\ Len(p) = Len(delivered) + Len(rx_chain) /\ \A i \in 1 .. Len(p) : p[i] = i
  BY <1>1, <1>2, Joined, Zenon
<1> HIDE DEF p
<1>4. /\ kept \in Seq(Nat) /\ Received = Len(p) + Len(kept)
      /\ \A i \in 1 .. Len(kept) : kept[i] = Len(p) + i
  <2>1. CASE rx_frame = 0
    <3>1. kept = <<>>
      BY <2>1
    <3> QED BY <1>1, <1>3, <2>1, <3>1 DEF Received
  <2>2. CASE rx_frame # 0
    <3>1. kept = <<rx_frame>>
      BY <2>2
    <3>2. rx_frame = Len(p) + 1
      BY <1>2, <1>3, <2>2
    <3>3. kept \in Seq(Nat) /\ Len(kept) = 1 /\ kept[1] = Len(p) + 1
      BY <1>1, <3>1, <3>2
    <3>4. Received = Len(p) + 1
      BY <1>3, <2>2 DEF Received
    <3> HIDE DEF kept
    <3> QED BY <3>3, <3>4
  <2> QED BY <2>1, <2>2
<1> HIDE DEF kept
<1>5. q \in Seq(Nat) /\ Len(q) = Len(p) + Len(kept) /\ \A i \in 1 .. Len(q) : q[i] = i
  BY <1>3, <1>4, Joined, SMTT(30)
<1> HIDE DEF q
<1>6. \A i \in 1 .. Len(tap) : tap[i] = Len(q) + i
  BY <1>2, <1>4, <1>5
<1>7. seen \in Seq(Nat) /\ \A i \in 1 .. Len(seen) : seen[i] = i
  BY <1>1, <1>5, <1>6, Joined, Zenon
<1> HIDE DEF seen
<1>8. seen = [i \in DOMAIN seen |-> i]
  BY <1>7
<1> QED BY <1>8, Zenon DEF OnceInTurn, seen, q, p, kept

\* The device passes on the frames of the tap once and in their order, the guest loses
\* only frames that shared a buffer with an earlier one, and a device that sleeps has
\* been left an event for every frame it could move but those behind a refused one, for
\* any number of frames and buffers of any size (handle_rx_tap, handle_rx_queue, handle_tx_queue).
THEOREM FramesStayInOrder == NetSpec => []FramesInOrder
<1>1. NetInv => FramesInOrder
  <2> SUFFICES ASSUME NetInv PROVE FramesInOrder
    OBVIOUS
  <2>1. rx_frame \in 0 .. Frames
    <3>1. Len(delivered) \in Nat /\ Len(rx_chain) \in Nat /\ Len(tap) \in Nat /\ rx_frame \in Nat
      BY DEF NetInv, NetTypes
    <3> QED BY <3>1, NetAssumption DEF NetInv, Numbered, Received
  <2>2. NetTypeOK
    BY <2>1 DEF NetInv, NetTypes, Phase, NetTypeOK
  <2>3. RxWakes /\ TxWakes
    BY DEF NetInv, NetTypes, Wakes, RxWakes, TxWakes
  <2> QED BY <2>2, <2>3, NumberedOnce DEF FramesInOrder, NetInv, TurnInv
<1> QED BY <1>1, NetBegins, NetKept, PTL DEF NetSpec
=============================================================================
