--------------------------- MODULE RegisterProofs ---------------------------
(***************************************************************************)
(* How an access of the guest reaches a register: Bus keeps its devices    *)
(* apart and routes every access to its owner, for every set of ranges     *)
(* that insert may be called with, and the virtio registers (VirtioRegs)   *)
(* do with it what their offsets say, for any queues, values and offsets.  *)
(***************************************************************************)
EXTENDS Bus, VirtioRegs, TLAPS

-----------------------------------------------------------------------------
(* Bus *)
\* Wherever a device starts at or before an address there is a last one.
HasLast ==
    \A a \in Int : (\E d \in devices : d.start <= a) => \E d \in devices : first_before(devices, a, d)

BusInv == TypeOK /\ NoOverlap /\ HasLast

\* Init establishes the inductive invariant.
LEMMA InitInv == Init => BusInv
BY DEF Init, BusInv, TypeOK, NoOverlap, HasLast

\* insert keeps the types.
LEMMA InsertType ==
    ASSUME BusInv, NEW base \in Bases, NEW len \in Lens, insert(base, len)
    PROVE  TypeOK'
BY BusAssumption DEF BusInv, TypeOK, insert, Accepts

\* A device that insert accepts overlaps none that is there.
LEMMA NewApart ==
    ASSUME BusInv, NEW base \in Bases, NEW len \in Lens, Accepts(devices, base, len), NEW e \in devices
    PROVE  base + len <= e.start \/ e.start + e.len <= base
<1>1. base \in Nat /\ len \in Nat \ {0}
  BY BusAssumption DEF Accepts
<1>2. e.start \in Nat /\ e.len \in Nat \ {0}
  BY DEF BusInv, TypeOK
<1>3. CASE e.start <= base
  <2>1. PICK d \in devices : first_before(devices, base, d)
    BY <1>1, <1>3 DEF BusInv, HasLast
  <2>2. d.start \in Nat /\ d.len \in Nat \ {0} /\ e.start <= d.start /\ d.start <= base
    BY <2>1, <1>3 DEF BusInv, TypeOK, first_before
  <2>3. d.start + d.len <= base
    BY <1>1, <2>1, <2>2 DEF Accepts, get_device
  <2>4. d = e \/ d.start + d.len <= e.start \/ e.start + e.len <= d.start
    BY DEF BusInv, NoOverlap
  <2> QED BY <1>1, <1>2, <2>2, <2>3, <2>4
<1>4. CASE e.start > base
  <2>1. SUFFICES ASSUME e.start <= base + len - 1 PROVE FALSE
    BY <1>1, <1>2
  <2>2. PICK d \in devices : first_before(devices, base + len - 1, d)
    BY <1>1, <2>1 DEF BusInv, HasLast
  <2>3. d.start \in Nat /\ d.start >= base
    BY <1>1, <1>2, <1>4, <2>1, <2>2 DEF BusInv, TypeOK, first_before
  <2> QED BY <2>2, <2>3 DEF Accepts
<1> QED BY <1>1, <1>2, <1>3, <1>4

\* insert keeps devices apart.
LEMMA InsertApart ==
    ASSUME BusInv, NEW base \in Bases, NEW len \in Lens, insert(base, len)
    PROVE  NoOverlap'
<1> DEFINE n == [start |-> base, len |-> len]
<1>1. devices' = devices \cup {n} /\ n.start = base /\ n.len = len
  BY DEF insert
<1>2. \A e \in devices : base + len <= e.start \/ e.start + e.len <= base
  BY NewApart DEF insert
<1> HIDE DEF n
<1> QED BY <1>1, <1>2 DEF BusInv, NoOverlap

\* After insert there is still a last device wherever there is one.
LEMMA InsertLast ==
    ASSUME BusInv, NEW base \in Bases, NEW len \in Lens, insert(base, len)
    PROVE  HasLast'
<1> DEFINE n == [start |-> base, len |-> len]
<1>1. devices' = devices \cup {n} /\ n.start = base /\ base \in Nat
  BY BusAssumption DEF insert
<1> HIDE DEF n
<1>2. SUFFICES ASSUME NEW a \in Int, \E d \in devices' : d.start <= a
               PROVE  \E d \in devices' : first_before(devices', a, d)
  BY DEF HasLast
<1>3. CASE \E d \in devices : d.start <= a
  <2>1. PICK d \in devices : first_before(devices, a, d)
    BY <1>3 DEF BusInv, HasLast
  <2>2. d.start \in Nat /\ \A e \in devices : e.start \in Nat
    BY DEF BusInv, TypeOK
  <2>3. CASE base <= a /\ d.start <= base
    <3>1. first_before(devices', a, n)
      BY <1>1, <2>1, <2>2, <2>3 DEF first_before
    <3> QED BY <3>1, <1>1
  <2>4. CASE ~(base <= a /\ d.start <= base)
    <3>1. first_before(devices', a, d)
      BY <1>1, <2>1, <2>2, <2>4 DEF first_before
    <3> QED BY <3>1, <1>1
  <2> QED BY <2>3, <2>4
<1>4. CASE ~\E d \in devices : d.start <= a
  <2>1. first_before(devices', a, n)
    BY <1>1, <1>2, <1>4 DEF first_before
  <2> QED BY <2>1, <1>1
<1> QED BY <1>3, <1>4

\* Every step keeps the inductive invariant.
LEMMA NextInv == BusInv /\ [Next]_devices => BusInv'
<1> SUFFICES ASSUME BusInv, [Next]_devices PROVE BusInv'
  OBVIOUS
<1>1. CASE Next
  <2>1. PICK base \in Bases, len \in Lens : insert(base, len)
    BY <1>1 DEF Next
  <2> QED BY <2>1, InsertType, InsertApart, InsertLast DEF BusInv
<1>2. CASE UNCHANGED devices
  BY <1>2 DEF BusInv, TypeOK, NoOverlap, HasLast, first_before
<1> QED BY <1>1, <1>2

\* The invariant implies that accesses reach the owner of the address.
LEMMA InvRoutes == BusInv => RoutedToOwner
<1> SUFFICES ASSUME BusInv, NEW d \in devices, NEW addr \in Range_(d), NEW e \in devices
             PROVE  get_device(devices, addr, e) <=> e = d
  BY DEF RoutedToOwner
<1>1. /\ d.start \in Nat /\ d.len \in Nat \ {0} /\ e.start \in Nat /\ e.len \in Nat \ {0}
      /\ addr \in Int /\ d.start <= addr /\ addr < d.start + d.len
  BY DEF BusInv, TypeOK, Range_
<1>2. \A x \in devices : x.start <= addr => x.start <= d.start
  <2> SUFFICES ASSUME NEW x \in devices, x.start <= addr PROVE x.start <= d.start
    OBVIOUS
  <2>1. x.start \in Nat /\ x.len \in Nat \ {0}
    BY DEF BusInv, TypeOK
  <2>2. x = d \/ d.start + d.len <= x.start \/ x.start + x.len <= d.start
    BY DEF BusInv, NoOverlap
  <2> QED BY <1>1, <2>1, <2>2
<1>3. get_device(devices, addr, d)
  BY <1>1, <1>2 DEF get_device, first_before
<1>4. ASSUME get_device(devices, addr, e) PROVE e = d
  <2>1. e.start = d.start
    BY <1>1, <1>2, <1>4 DEF get_device, first_before
  <2> QED BY <1>1, <2>1 DEF BusInv, NoOverlap
<1> QED BY <1>3, <1>4

\* No two devices of a bus ever overlap, as the comment on Bus requires.
THEOREM DevicesStayApart == Spec => []NoOverlap
<1>1. BusInv => NoOverlap
  BY DEF BusInv
<1> QED BY <1>1, InitInv, NextInv, PTL DEF Spec

\* get_device, which looks at a single device, always finds the right one.
THEOREM AccessesReachOwner == Spec => []RoutedToOwner
BY InitInv, NextInv, InvRoutes, PTL DEF Spec

\* A range that is free is accepted: each device insert looks at lies before its base or
\* after its last address.
LEMMA InvAccepts == BusInv => FreeAccepted
<1> SUFFICES ASSUME BusInv, NEW base \in Bases, NEW len \in Lens \ {0},
                    \A d \in devices : base + len <= d.start \/ d.start + d.len <= base
             PROVE  Accepts(devices, base, len)
  BY DEF FreeAccepted
<1>1. base \in Nat /\ len \in Nat /\ len # 0
  BY BusAssumption
<1>2. \A d \in devices : d.start \in Nat /\ d.len \in Nat \ {0}
  BY DEF BusInv, TypeOK
<1>3. ~\E d \in devices : get_device(devices, base, d)
  BY <1>1, <1>2 DEF get_device, first_before
<1>4. ~\E d \in devices : first_before(devices, base + len - 1, d) /\ d.start >= base
  BY <1>1, <1>2 DEF first_before
<1> QED BY <1>1, <1>3, <1>4 DEF Accepts

\* insert never refuses a range that overlaps no device.
THEOREM FreeRangesAccepted == Spec => []FreeAccepted
BY InitInv, NextInv, InvAccepts, PTL DEF Spec

-----------------------------------------------------------------------------
(* The registers *)

Stored == Longs \cup {0}
RegQueueType == [enabled : BOOLEAN, size : ValidSizes, area : [AreaRegs -> [Halves -> Stored]]]
RegsType == [status : SUBSET Longs, device_selected : 0 .. 2, guest_selected : 0 .. 2,
             guest_bits : [Halves -> Stored], selected_queue : 0 .. num_queues,
             queue : [RegQueues -> RegQueueType]]

\* The registers hold what was accepted.
RegsInv ==
    /\ regs \in RegsType
    /\ isr_bits \in BOOLEAN /\ irq \in BOOLEAN /\ handling \in BOOLEAN
    /\ notifier \in [Notifiers -> {"idle", "irqfd"}]
    /\ accepted = [queue |-> regs.queue, bits |-> regs.guest_bits]
    /\ ~astray /\ rung.woken = {rung.for} /\ config = InitialConfig

\* A queue after a reset.
LEMMA FreshType == FreshQueue \in RegQueueType /\ Zero \in [Halves -> Stored]
BY RegsAssumption DEF FreshQueue, RegQueueType, Zero, Stored

\* The device starts with its registers reset.
LEMMA RegsStart == RegsInit => RegsInv
<1>1. SUFFICES ASSUME RegsInit PROVE RegsInv
  OBVIOUS
<1>2. regs \in RegsType
  BY <1>1, FreshType, RegsAssumption, SMTT(30) DEF RegsInit, RegsType
<1>3. isr_bits \in BOOLEAN /\ irq \in BOOLEAN /\ handling \in BOOLEAN /\ ~astray
  BY <1>1, Zenon DEF RegsInit
<1>4. notifier \in [Notifiers -> {"idle", "irqfd"}]
  BY <1>1, SMTT(30) DEF RegsInit
<1>5. accepted = [queue |-> regs.queue, bits |-> regs.guest_bits]
  BY <1>1, SMTT(30) DEF RegsInit
<1>6. rung.woken = {rung.for} /\ config = InitialConfig
  BY <1>1 DEF RegsInit
<1>7. QED
  BY <1>2, <1>3, <1>4, <1>5, <1>6 DEF RegsInv

\* Every access that reaches a structure lies within the capability that announces it.
LEMMA TargetsAnnounced ==
    ASSUME NEW offset \in Nat, NEW len \in Lengths
    PROVE  /\ ReadTarget(offset, len) \in {"none"} \cup Announced(offset, len)
           /\ WriteTarget(offset, len) \in {"none"} \cup Announced(offset, len)
<1>1. ASSUME is_common_cfg_range(offset, len) PROVE "common" \in Announced(offset, len)
  <2> DEFINE c == [type |-> "common", offset |-> 0, len |-> 56, extra |-> 0]
  <2>1. c \in Capabilities /\ contains(c.offset, c.len, offset, len) /\ c.type = "common"
    BY <1>1 DEF Capabilities, is_common_cfg_range
  <2> HIDE DEF c
  <2>2. QED
    BY <2>1 DEF Announced
<1>2. ASSUME offset = 56, len = 1 PROVE "isr" \in Announced(offset, len)
  <2> DEFINE c == [type |-> "isr", offset |-> 56, len |-> 4, extra |-> 0]
  <2>1. c \in Capabilities /\ contains(c.offset, c.len, offset, len) /\ c.type = "isr"
    BY <1>2 DEF Capabilities, contains
  <2> HIDE DEF c
  <2>2. QED
    BY <2>1 DEF Announced
<1>3. ASSUME is_device_config_range(offset, len) PROVE "device" \in Announced(offset, len)
  <2> DEFINE c == [type |-> "device", offset |-> 2048, len |-> ConfigSize, extra |-> 0]
  <2>1. c \in Capabilities /\ contains(c.offset, c.len, offset, len) /\ c.type = "device"
    BY <1>3, SMTT(30) DEF Capabilities, is_device_config_range
  <2> HIDE DEF c
  <2>2. QED
    BY <2>1 DEF Announced
<1>4. QED
  BY <1>1, <1>2, <1>3, SMTT(30) DEF ReadTarget, WriteTarget

\* A write to the registers of the selected queue.
LEMMA SelectedWrite ==
    ASSUME RegsInv, NEW vq,
           regs.selected_queue \in RegQueues /\ ~regs.queue[regs.selected_queue].enabled => vq \in RegQueueType
    PROVE  /\ with_selected(vq) \in RegsType
           /\ with_selected(vq).guest_bits = regs.guest_bits
           /\ with_selected(vq).queue =
                 IF regs.selected_queue \in RegQueues /\ ~regs.queue[regs.selected_queue].enabled
                 THEN [regs.queue EXCEPT ![regs.selected_queue] = vq] ELSE regs.queue
<1>1. regs \in RegsType /\ regs.queue \in [RegQueues -> RegQueueType]
  BY Zenon DEF RegsInv, RegsType
<1>2. CASE regs.selected_queue \in RegQueues /\ ~regs.queue[regs.selected_queue].enabled
  <2> DEFINE qs == [regs.queue EXCEPT ![regs.selected_queue] = vq]
  <2>1. qs \in [RegQueues -> RegQueueType]
    BY <1>1, <1>2
  <2>2. with_selected(vq) = [regs EXCEPT !.queue = qs]
    BY <1>2 DEF with_selected
  <2> HIDE DEF qs
  <2>3. QED
    BY <1>1, <1>2, <2>1, <2>2, SMTT(30) DEF RegsType, qs
<1>3. CASE ~(regs.selected_queue \in RegQueues /\ ~regs.queue[regs.selected_queue].enabled)
  BY <1>1, <1>3 DEF with_selected
<1>4. QED
  BY <1>2, <1>3, SMTT(30)

\* The registers after a write, whatever structure it reaches.
Written(offset, len, n) ==
    IF WriteTarget(offset, len) = "common" THEN common_config_write(offset, len, n) ELSE regs

\* A write of the wrong width or elsewhere changes no register.
LEMMA OtherWrites ==
    ASSUME RegsInv, NEW offset \in Nat, NEW len \in Lengths, NEW n,
           ~(len = 1 /\ offset = 20), ~(len = 2 /\ offset \in {22, 24, 28}),
           ~(len = 4 /\ offset \in {0, 8, 12} \cup AreaOffsets)
    PROVE  Written(offset, len, n) = regs /\ Accept(offset, len, n) = accepted
<1>1. common_config_write(offset, len, n) = regs
  BY SMTT(30) DEF common_config_write
<1>2. Accept(offset, len, n) = accepted
  BY DEF Accept
<1>3. QED
  BY <1>1, <1>2 DEF Written

\* The registers lie in the common configuration.
LEMMA RegistersCommon ==
    ASSUME NEW offset \in Nat, NEW len \in Lengths, NEW n,
           \/ (len = 1 /\ offset = 20) \/ (len = 2 /\ offset \in {22, 24, 28})
           \/ (len = 4 /\ offset \in {0, 8, 12} \cup AreaOffsets)
    PROVE  Written(offset, len, n) = common_config_write(offset, len, n)
BY SMTT(30) DEF Written, WriteTarget, is_common_cfg_range, contains, AreaOffsets

\* The selectors and the status.
LEMMA SelectorWrites ==
    ASSUME RegsInv, NEW offset \in Nat, NEW len \in Lengths, NEW n \in Values(offset),
           (len = 1 /\ offset = 20) \/ (len = 2 /\ offset = 22) \/ (len = 4 /\ offset \in {0, 8})
    PROVE  /\ Written(offset, len, n) \in RegsType
           /\ Accept(offset, len, n) = [queue |-> Written(offset, len, n).queue,
                                        bits |-> Written(offset, len, n).guest_bits]
<1>1. regs \in RegsType /\ accepted = [queue |-> regs.queue, bits |-> regs.guest_bits]
  BY SMTT(30) DEF RegsInv
<1>2. Accept(offset, len, n) = accepted
  BY DEF Accept, AreaOffsets
<1>3. Written(offset, len, n) = common_config_write(offset, len, n)
  BY RegistersCommon
<1>4. CASE len = 1 /\ offset = 20
  <2>1. n \in Longs /\ common_config_write(offset, len, n) = [regs EXCEPT !.status = @ \cup {n}]
    BY <1>4 DEF common_config_write, Values
  <2>2. QED
    BY <1>1, <1>2, <1>3, <2>1 DEF RegsType
<1>5. CASE len = 2 /\ offset = 22
  <2>1. n \in 0 .. num_queues /\ common_config_write(offset, len, n) = [regs EXCEPT !.selected_queue = n]
    BY <1>5 DEF common_config_write, Values
  <2>2. QED
    BY <1>1, <1>2, <1>3, <2>1 DEF RegsType
<1>6. CASE len = 4 /\ offset = 0
  <2>1. n \in 0 .. 2 /\ common_config_write(offset, len, n) = [regs EXCEPT !.device_selected = n]
    BY <1>6 DEF common_config_write, Values, AreaOffsets
  <2>2. QED
    BY <1>1, <1>2, <1>3, <2>1 DEF RegsType
<1>7. CASE len = 4 /\ offset = 8
  <2>1. n \in 0 .. 2 /\ common_config_write(offset, len, n) = [regs EXCEPT !.guest_selected = n]
    BY <1>7, SMTT(30) DEF common_config_write, Values, AreaOffsets
  <2>2. QED
    BY <1>1, <1>2, <1>3, <2>1 DEF RegsType
<1>8. QED
  BY <1>4, <1>5, <1>6, <1>7, SMTT(30)

\* A feature word goes where guest_feature_select says.
LEMMA FeatureWrites ==
    ASSUME RegsInv, NEW n \in Values(12)
    PROVE  /\ Written(12, 4, n) \in RegsType
           /\ Accept(12, 4, n) = [queue |-> Written(12, 4, n).queue, bits |-> Written(12, 4, n).guest_bits]
<1>1. regs \in RegsType /\ accepted = [queue |-> regs.queue, bits |-> regs.guest_bits]
  BY Zenon DEF RegsInv
<1>2. n \in Stored
  BY DEF Values, Stored
<1>3. Written(12, 4, n) = write_feature_word(n)
  <2>1. Written(12, 4, n) = common_config_write(12, 4, n)
    BY RegistersCommon DEF Lengths
  <2>2. QED
    BY <2>1 DEF common_config_write, AreaOffsets
<1>4. regs.guest_selected \in 0 .. 2 /\ regs.guest_bits \in [Halves -> Stored]
  BY <1>1 DEF RegsType
<1>5. ASSUME NEW h \in Halves, write_feature_word(n) = [regs EXCEPT !.guest_bits[h] = n],
             Accept(12, 4, n) = [accepted EXCEPT !.bits[h] = n]
      PROVE  /\ Written(12, 4, n) \in RegsType
             /\ Accept(12, 4, n) = [queue |-> Written(12, 4, n).queue, bits |-> Written(12, 4, n).guest_bits]
  <2> DEFINE bits == [regs.guest_bits EXCEPT ![h] = n]
  <2>1. bits \in [Halves -> Stored]
    BY <1>2, <1>4
  <2>2. /\ Written(12, 4, n) = [regs EXCEPT !.guest_bits = bits]
        /\ Accept(12, 4, n) = [queue |-> regs.queue, bits |-> bits]
    BY <1>1, <1>3, <1>5
  <2> HIDE DEF bits
  <2>3. QED
    BY <1>1, <2>1, <2>2 DEF RegsType
<1>6. CASE regs.guest_selected = 0
  <2>1. /\ write_feature_word(n) = [regs EXCEPT !.guest_bits["lo"] = n]
        /\ Accept(12, 4, n) = [accepted EXCEPT !.bits["lo"] = n]
    BY <1>6 DEF write_feature_word, Accept, AreaOffsets
  <2>2. QED
    BY <1>5, <2>1 DEF Halves
<1>7. CASE regs.guest_selected = 1
  <2>1. /\ write_feature_word(n) = [regs EXCEPT !.guest_bits["hi"] = n]
        /\ Accept(12, 4, n) = [accepted EXCEPT !.bits["hi"] = n]
    BY <1>7, SMTT(30) DEF write_feature_word, Accept, AreaOffsets
  <2>2. QED
    BY <1>5, <2>1 DEF Halves
<1>8. CASE regs.guest_selected = 2
  <2>1. write_feature_word(n) = regs /\ Accept(12, 4, n) = accepted
    BY <1>8 DEF write_feature_word, Accept, AreaOffsets
  <2>2. QED
    BY <1>1, <1>3, <2>1
<1>9. regs.guest_selected = 0 \/ regs.guest_selected = 1 \/ regs.guest_selected = 2
  BY <1>4
<1>10. QED
  BY <1>6, <1>7, <1>8, <1>9, SMTT(30)

\* What is accepted for the selected queue when it becomes vq.
LEMMA QueueWrites ==
    ASSUME RegsInv, NEW offset \in Nat, NEW len \in Lengths, NEW n, NEW vq,
           Written(offset, len, n) = with_selected(vq),
           regs.selected_queue \in RegQueues /\ ~regs.queue[regs.selected_queue].enabled =>
               /\ vq \in RegQueueType
               /\ Accept(offset, len, n) = [accepted EXCEPT !.queue[regs.selected_queue] = vq],
           ~(regs.selected_queue \in RegQueues /\ ~regs.queue[regs.selected_queue].enabled) =>
               Accept(offset, len, n) = accepted
    PROVE  /\ Written(offset, len, n) \in RegsType
           /\ Accept(offset, len, n) = [queue |-> Written(offset, len, n).queue,
                                        bits |-> Written(offset, len, n).guest_bits]
<1>1. accepted = [queue |-> regs.queue, bits |-> regs.guest_bits]
  BY DEF RegsInv
<1>2. CASE regs.selected_queue \in RegQueues /\ ~regs.queue[regs.selected_queue].enabled
  <2> DEFINE qs == [regs.queue EXCEPT ![regs.selected_queue] = vq]
  <2>1. Accept(offset, len, n) = [queue |-> qs, bits |-> regs.guest_bits]
    BY <1>1, <1>2
  <2>2. /\ with_selected(vq) \in RegsType /\ with_selected(vq).guest_bits = regs.guest_bits
        /\ with_selected(vq).queue = qs
    BY <1>2, SelectedWrite
  <2> HIDE DEF qs
  <2>3. QED
    BY <2>1, <2>2
<1>3. CASE ~(regs.selected_queue \in RegQueues /\ ~regs.queue[regs.selected_queue].enabled)
  <2>1. /\ with_selected(vq) \in RegsType /\ with_selected(vq).guest_bits = regs.guest_bits
        /\ with_selected(vq).queue = regs.queue
    BY <1>3, SelectedWrite, Zenon
  <2>2. QED
    BY <1>1, <1>3, <2>1
<1>4. QED
  BY <1>2, <1>3

\* The size, the enable bit and the halves of the addresses of the selected queue.
LEMMA QueueRegisterWrites ==
    ASSUME RegsInv, NEW offset \in Nat, NEW len \in Lengths, NEW n \in Values(offset),
           (len = 2 /\ offset \in {24, 28}) \/ (len = 4 /\ offset \in AreaOffsets)
    PROVE  /\ Written(offset, len, n) \in RegsType
           /\ Accept(offset, len, n) = [queue |-> Written(offset, len, n).queue,
                                        bits |-> Written(offset, len, n).guest_bits]
<1> DEFINE cur == regs.queue[regs.selected_queue]
           open == regs.selected_queue \in RegQueues /\ ~cur.enabled
<1>1. /\ regs \in RegsType /\ accepted = [queue |-> regs.queue, bits |-> regs.guest_bits]
      /\ regs.selected_queue \in RegQueues => cur \in RegQueueType
  BY Zenon DEF RegsInv, RegsType
<1>2. Written(offset, len, n) = common_config_write(offset, len, n)
  BY RegistersCommon, SMTT(30)
<1>3. accepted.queue = regs.queue
  BY <1>1, ZenonT(30)
<1>4. CASE len = 2 /\ offset = 24
  <2> DEFINE vq == [cur EXCEPT !.size = n]
  <2>1. CASE n \in ValidSizes
    <3>1. Written(offset, len, n) = with_selected(vq)
      BY <1>2, <1>4, <2>1 DEF common_config_write, queue_set_size
    <3>2. open => vq \in RegQueueType
      BY <1>1, <2>1 DEF RegQueueType
    <3>3. open => Accept(offset, len, n) = [accepted EXCEPT !.queue[regs.selected_queue] = vq]
      BY <1>3, <1>4, <2>1 DEF Accept
    <3>4. ~open => Accept(offset, len, n) = accepted
      BY <1>3, <1>4, SMTT(30) DEF Accept
    <3> HIDE DEF vq
    <3>5. QED
      BY <3>1, <3>2, <3>3, <3>4, QueueWrites
  <2>2. CASE n \notin ValidSizes
    <3>1. Written(offset, len, n) = regs
      BY <1>2, <1>4, <2>2 DEF common_config_write, queue_set_size
    <3>2. Accept(offset, len, n) = accepted
      BY <1>4, <2>2, SMTT(30) DEF Accept
    <3>3. QED
      BY <1>1, <3>1, <3>2, Zenon
  <2>3. QED
    BY <2>1, <2>2
<1>5. CASE len = 2 /\ offset = 28
  <2> DEFINE vq == [cur EXCEPT !.enabled = TRUE]
  <2>1. Written(offset, len, n) = with_selected(vq)
    BY <1>2, <1>5 DEF common_config_write, queue_enable
  <2>2. open => vq \in RegQueueType
    BY <1>1, Zenon DEF RegQueueType
  <2>3. open => Accept(offset, len, n) = [accepted EXCEPT !.queue[regs.selected_queue] = vq]
    BY <1>3, <1>5 DEF Accept
  <2>4. ~open => Accept(offset, len, n) = accepted
    BY <1>3, <1>5 DEF Accept
  <2> HIDE DEF vq
  <2>5. QED
    BY <2>1, <2>2, <2>3, <2>4, QueueWrites
<1>6. CASE len = 4 /\ offset \in AreaOffsets
  <2> DEFINE a == AreaAt(offset).area
             h == AreaAt(offset).half
             vq == queue_set_area(a, h, n)
  <2>1. a \in AreaRegs /\ h \in Halves
    BY DEF AreaAt, AreaRegs, Halves
  <2>2. n \in Stored
    BY <1>6 DEF Values, Stored, AreaOffsets
  <2>3. vq = [cur EXCEPT !.area[a][h] = n]
    BY DEF queue_set_area, SetHalf
  <2>4. Written(offset, len, n) = IF regs.selected_queue \in RegQueues THEN with_selected(vq) ELSE regs
    BY <1>2, <1>6 DEF common_config_write, AreaOffsets
  <2>5. Written(offset, len, n) = with_selected(vq)
    BY <2>4, SMTT(30) DEF with_selected
  <2>6. open => Accept(offset, len, n) = [accepted EXCEPT !.queue[regs.selected_queue].area[a][h] = n]
    BY <1>3, <1>6, SMTT(30) DEF Accept, AreaOffsets
  <2>7. ~open => Accept(offset, len, n) = accepted
    BY <1>3, <1>6, SMTT(30) DEF Accept, AreaOffsets
  <2> HIDE DEF a, h, vq
  <2>8. open => vq \in RegQueueType
    BY <1>1, <2>1, <2>2, <2>3, ZenonT(30) DEF RegQueueType
  <2>9. open => Accept(offset, len, n) = [accepted EXCEPT !.queue[regs.selected_queue] = vq]
    BY <1>3, <2>3, <2>6, SMTT(30)
  <2>10. QED
    BY <2>5, <2>7, <2>8, <2>9, QueueWrites
<1>7. QED
  BY <1>4, <1>5, <1>6

\* A write at any offset, of any width.
LEMMA WriteKeeps ==
    ASSUME RegsInv, NEW offset \in Offsets, NEW len \in Lengths, NEW n \in Values(offset),
           write_bar(offset, len, n)
    PROVE  RegsInv'
<1>1. offset \in Nat
  BY RegsAssumption, SMTT(30)
<1>2. /\ regs' = Written(offset, len, n) /\ accepted' = Accept(offset, len, n)
      /\ UNCHANGED <<isr_bits, irq, handling, notifier, rung>>
  BY SMTT(30) DEF write_bar, Written
<1>3. config' = InitialConfig
  BY SMTT(30) DEF write_bar, write_config, is_writeable, RegsInv
<1>4. ~astray'
  BY <1>1, TargetsAnnounced, ZenonT(30) DEF write_bar, RegsInv
<1>5. /\ Written(offset, len, n) \in RegsType
      /\ Accept(offset, len, n) = [queue |-> Written(offset, len, n).queue,
                                   bits |-> Written(offset, len, n).guest_bits]
  <2>1. CASE (len = 1 /\ offset = 20) \/ (len = 2 /\ offset = 22) \/ (len = 4 /\ offset \in {0, 8})
    BY <1>1, <2>1, SelectorWrites, SMTT(30)
  <2>2. CASE len = 4 /\ offset = 12
    BY <2>2, FeatureWrites, SMTT(30)
  <2>3. CASE (len = 2 /\ offset \in {24, 28}) \/ (len = 4 /\ offset \in AreaOffsets)
    BY <1>1, <2>3, QueueRegisterWrites, SMTT(30)
  <2>4. CASE /\ ~(len = 1 /\ offset = 20) /\ ~(len = 2 /\ offset \in {22, 24, 28})
             /\ ~(len = 4 /\ offset \in {0, 8, 12} \cup AreaOffsets)
    BY <1>1, <2>4, OtherWrites, SMTT(30) DEF RegsInv
  <2>5. QED
    BY <2>1, <2>2, <2>3, <2>4, SMTT(30)
<1>6. QED
  BY <1>2, <1>3, <1>4, <1>5, Zenon DEF RegsInv

\* The doorbell of a queue wakes that queue.
LEMMA RingKeeps ==
    ASSUME RegsInv, Ring
    PROVE  RegsInv'
<1> DEFINE cap == CHOOSE c \in Capabilities : c.type = "notify"
           n == [type |-> "notify", offset |-> 1024, len |-> 1024, extra |-> 4]
<1>1. n \in Capabilities /\ \A c \in Capabilities : c.type = "notify" => c = n
  BY DEF Capabilities
<1>2. cap = n
  BY <1>1
<1>3. common_config_read(regs, 30) = regs.selected_queue
  BY DEF common_config_read, AreaOffsets
<1> HIDE DEF cap
<1>4. cap.offset = 1024 /\ cap.extra = 4
  BY <1>2, SMTT(30)
<1>5. /\ regs.selected_queue \in RegQueues
      /\ rung' = [for |-> regs.selected_queue,
                  woken |-> {q \in RegQueues : create_ioevent(q) = cap.offset + regs.selected_queue * cap.extra}]
      /\ UNCHANGED <<regs, config, isr_bits, irq, handling, notifier, accepted, astray>>
  BY <1>3, Zenon DEF Ring, cap
<1>6. \A q \in RegQueues : create_ioevent(q) = 1024 + regs.selected_queue * 4 <=> q = regs.selected_queue
  BY <1>5, RegsAssumption DEF create_ioevent, RegQueues
<1>7. rung'.woken = {rung'.for}
  BY <1>4, <1>5, <1>6
<1>8. QED
  BY <1>5, <1>7, SMTT(30) DEF RegsInv

\* Every access, reset and interrupt keeps the invariant.
LEMMA RegsKeep ==
    ASSUME RegsInv, [RegsNext]_regsVars
    PROVE  RegsInv'
<1>1. CASE UNCHANGED regsVars
  BY <1>1, SMTT(30) DEF regsVars, RegsInv
<1>2. ASSUME NEW offset \in Offsets, NEW len \in Lengths, read_bar(offset, len) PROVE RegsInv'
  <2>1. ~astray'
    BY <1>2, TargetsAnnounced, RegsAssumption, Zenon DEF read_bar, RegsInv
  <2>2. isr_bits' \in BOOLEAN /\ handling' \in BOOLEAN
    BY <1>2, Zenon DEF read_bar, RegsInv
  <2>3. QED
    BY <1>2, <2>1, <2>2, SMTT(30) DEF read_bar, RegsInv
<1>3. CASE DriverReset
  <2>1. reset_regs \in RegsType /\ reset_regs.queue = [q \in RegQueues |-> FreshQueue] /\ reset_regs.guest_bits = Zero
    <3>1. regs \in RegsType /\ [q \in RegQueues |-> FreshQueue] \in [RegQueues -> RegQueueType]
      BY FreshType DEF RegsInv
    <3>2. regs.device_selected \in 0 .. 2 /\ 0 \in 0 .. 2 /\ 0 \in 0 .. num_queues
      BY <3>1, RegsAssumption, SMTT(30) DEF RegsType
    <3>3. QED
      BY <3>1, <3>2, FreshType, Zenon DEF reset_regs, RegsType
  <2>2. QED
    BY <1>3, <2>1, ZenonT(30) DEF DriverReset, RegsInv
<1>4. CASE Interrupt
  BY <1>4, ZenonT(30) DEF Interrupt, RegsInv
<1>5. ASSUME NEW w \in Notifiers, notify_queue(w) PROVE RegsInv'
  <2>1. notifier' \in [Notifiers -> {"idle", "irqfd"}]
    BY <1>5 DEF notify_queue, RegsInv
  <2>2. isr_bits' \in BOOLEAN /\ irq' \in BOOLEAN
    BY <1>5, ZenonT(30) DEF notify_queue, RegsInv
  <2>3. QED
    BY <1>5, <2>1, <2>2 DEF notify_queue, RegsInv
<1>6. QED
  BY <1>1, <1>2, <1>3, <1>4, <1>5, WriteKeeps, RingKeeps, SMTT(30) DEF RegsNext

\* The registers hold what was accepted, always.
THEOREM RegsInvariant == RegsSpec => []RegsInv
<1>1. RegsInv /\ [RegsNext]_regsVars => RegsInv'
  BY RegsKeep
<1>2. QED
  BY <1>1, RegsStart, PTL DEF RegsSpec

\* The driver reads back what it wrote, through whichever widths, halves and queues it
\* goes; every access is decoded as the capabilities announce it, a doorbell wakes its
\* own queue and the configuration is constant (common_config_write, add_pci_capabilities,
\* create_ioevent), for any number of queues and at any offsets.
THEOREM RegsAccessesDecoded == RegsSpec => []AccessesDecoded
<1>1. RegsInv => AccessesDecoded
  <2>1. SUFFICES ASSUME RegsInv PROVE AccessesDecoded
    OBVIOUS
  <2>2. regs \in RegsType /\ accepted.queue = regs.queue /\ accepted.bits = regs.guest_bits
    BY <2>1 DEF RegsInv
  <2>3. RegsTypeOK
    BY <2>1, SMTT(30) DEF RegsInv, RegsType, RegQueueType, Stored, RegsTypeOK
  <2>4. ASSUME NEW q \in RegQueues, NEW s, s = [regs EXCEPT !.selected_queue = q]
        PROVE  /\ \A o \in AreaOffsets :
                      common_config_read(s, o) = accepted.queue[q].area[AreaAt(o).area][AreaAt(o).half]
               /\ common_config_read(s, 24) = accepted.queue[q].size
               /\ common_config_read(s, 28) = (IF accepted.queue[q].enabled THEN 1 ELSE 0)
    <3>1. s.selected_queue = q /\ s.queue = accepted.queue
      BY <2>2, <2>4 DEF RegsType
    <3>2. ASSUME NEW o \in AreaOffsets
          PROVE  common_config_read(s, o) = accepted.queue[q].area[AreaAt(o).area][AreaAt(o).half]
      BY <2>4, <3>1, <3>2 DEF common_config_read, AreaOffsets
    <3>3. common_config_read(s, 24) = accepted.queue[q].size
      BY <2>4, <3>1 DEF common_config_read, AreaOffsets
    <3>4. common_config_read(s, 28) = (IF accepted.queue[q].enabled THEN 1 ELSE 0)
      BY <2>4, <3>1 DEF common_config_read, AreaOffsets
    <3>5. QED
      BY <3>2, <3>3, <3>4, Zenon
  <2>5. ASSUME NEW k \in {0, 1}
        PROVE  common_config_read([regs EXCEPT !.guest_selected = k], 12) = WordOf(accepted.bits, k)
    <3> DEFINE s == [regs EXCEPT !.guest_selected = k]
    <3>1. s.guest_selected = k /\ s.guest_bits = accepted.bits
      BY <2>2 DEF RegsType
    <3> HIDE DEF s
    <3>2. common_config_read(s, 12) = WordOf(accepted.bits, k)
      BY <3>1, SMTT(30) DEF common_config_read, AreaOffsets
    <3>3. QED
      BY <3>2 DEF s
  <2>6. ReadBack
    BY <2>4, <2>5 DEF ReadBack
  <2>7. QED
    BY <2>1, <2>3, <2>6 DEF RegsInv, AccessesDecoded, CapsDecoded, RingsRightQueue, ConfigConstant
<1>2. QED
  BY <1>1, RegsInvariant, PTL

\* An event in ISR is always about to be announced, announced, or about to be read,
\* whatever the number of workers that raise interrupts (notify_queue).
THEOREM RegsEventAnnounced == RegsSpec => []EventAnnounced
<1>1. RegsInit => EventAnnounced
  BY DEF RegsInit, EventAnnounced
<1>2. ASSUME RegsInv, EventAnnounced, [RegsNext]_regsVars PROVE EventAnnounced'
  <2>1. CASE UNCHANGED <<isr_bits, irq, handling, notifier>>
    BY <1>2, <2>1 DEF EventAnnounced
  <2>2. CASE isr_bits' = FALSE
    BY <2>2 DEF EventAnnounced
  <2>3. CASE Interrupt
    BY <2>3 DEF Interrupt, EventAnnounced
  <2>4. ASSUME NEW w \in Notifiers, notify_queue(w) PROVE EventAnnounced'
    <3>1. notifier \in [Notifiers -> {"idle", "irqfd"}]
      BY <1>2 DEF RegsInv
    <3>2. CASE notifier' = [notifier EXCEPT ![w] = "irqfd"]
      BY <3>1, <3>2 DEF EventAnnounced
    <3>3. CASE irq' = TRUE
      BY <3>3 DEF EventAnnounced
    <3>4. QED
      BY <2>4, <3>2, <3>3, Zenon DEF notify_queue
  <2>5. ASSUME NEW offset \in Offsets, NEW len \in Lengths, read_bar(offset, len) PROVE EventAnnounced'
    BY <2>1, <2>2, <2>5, Zenon DEF read_bar
  <2>6. ASSUME NEW offset \in Offsets, NEW len \in Lengths, NEW n \in Values(offset), write_bar(offset, len, n)
        PROVE  EventAnnounced'
    BY <2>1, <2>6 DEF write_bar
  <2>7. CASE DriverReset \/ Ring
    BY <2>1, <2>2, <2>7, Zenon DEF DriverReset, Ring
  <2>8. CASE UNCHANGED regsVars
    BY <2>1, <2>8 DEF regsVars
  <2>9. QED
    BY <1>2, <2>3, <2>4, <2>5, <2>6, <2>7, <2>8 DEF RegsNext
<1>3. RegsInv /\ EventAnnounced /\ [RegsNext]_regsVars => EventAnnounced'
  BY <1>2
<1>4. QED
  BY <1>1, <1>3, RegsInvariant, PTL DEF RegsSpec
=============================================================================
