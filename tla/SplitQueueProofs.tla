-------------------------- MODULE SplitQueueProofs --------------------------
(***************************************************************************)
(* Safety of SplitQueue, and that it implements RequestQueue, for every    *)
(* queue size, every index space that is a multiple of it, and every set   *)
(* of machines.                                                            *)
(***************************************************************************)
EXTENDS SplitQueue, FiniteSetTheorems, TLAPS

-----------------------------------------------------------------------------
(* The wrapping indices *)

\* The index space is larger than the ring, so a full ring is not taken for an
\* empty one.
LEMMA IndexModType == /\ IndexMod \in Nat
                      /\ IndexMod >= 2 * QueueSize
                      /\ IndexMod > QueueSize
BY QueueSizeAssumption, LapsAssumption, SMT DEF IndexMod

\* Incrementing a u16 index gives a u16 index, and never the same one.
LEMMA IncType == ASSUME NEW i \in Index
                 PROVE  Inc(i) \in Index /\ Inc(i) # i
BY IndexModType, QueueSizeAssumption DEF Index, Inc

\* The distance between two indices, and when it is zero.
LEMMA DistType == ASSUME NEW i \in Index, NEW lo \in Index
                  PROVE  /\ Dist(i, lo) \in Nat
                         /\ Dist(i, lo) < IndexMod
                         /\ (Dist(i, lo) = 0) <=> (i = lo)
BY IndexModType DEF Index, Dist

\* Moving the upper end of a window up by one makes it one longer.
LEMMA DistIncHi == ASSUME NEW i \in Index, NEW lo \in Index,
                          Dist(i, lo) < IndexMod - 1
                   PROVE  Dist(Inc(i), lo) = Dist(i, lo) + 1
BY IndexModType DEF Index, Dist, Inc

\* Moving the lower end of a window that is not empty makes it one shorter.
LEMMA DistIncLo == ASSUME NEW i \in Index, NEW lo \in Index, i # lo
                   PROVE  Dist(i, Inc(lo)) = Dist(i, lo) - 1
BY IndexModType DEF Index, Dist, Inc

\* Two indices at the same distance from a third are equal.
LEMMA DistInj == ASSUME NEW i \in Index, NEW j \in Index, NEW lo \in Index,
                        Dist(i, lo) = Dist(j, lo)
                 PROVE  i = j
BY IndexModType DEF Index, Dist

\* ring_idx % queue_size is a ring slot.
LEMMA SlotType == ASSUME NEW i \in Nat
                  PROVE  Slot(i) \in Slots
BY QueueSizeAssumption, SMT DEF Slot, Slots

\* Quotient and remainder.
LEMMA DivMod == ASSUME NEW a \in Nat, NEW n \in Nat \ {0}
                PROVE  /\ a % n \in Nat
                       /\ a % n < n
                       /\ a \div n \in Int
                       /\ a = n * (a \div n) + (a % n)
BY SMT

\* A positive multiple of n is at least n.
LEMMA MultipleAtLeast == ASSUME NEW n \in Nat \ {0}, NEW k \in Int, n * k > 0
                         PROVE  n * k >= n
<1>1. k >= 1
  BY SMT
<1>2. QED
  BY <1>1, SMT

\* Numbers that are different and less than n apart have different remainders.
LEMMA ModDiffers == ASSUME NEW n \in Nat \ {0}, NEW a \in Nat, NEW b \in Nat,
                           a < b, b - a < n
                    PROVE  a % n # b % n
<1> SUFFICES ASSUME a % n = b % n PROVE FALSE
  OBVIOUS
<1> DEFINE qa == a \div n
           qb == b \div n
           r == a % n
<1>1. qa \in Int /\ r \in Nat /\ a = n * qa + r
  BY DivMod
<1>2. qb \in Int /\ b = n * qb + r
  BY DivMod
<1> HIDE DEF qa, qb, r
<1>3. b - a = n * (qb - qa)
  BY <1>1, <1>2, SMT
<1>4. qb - qa \in Int /\ n * (qb - qa) > 0
  BY <1>1, <1>2, <1>3, SMT
<1>5. n * (qb - qa) >= n
  BY <1>4, MultipleAtLeast
<1>6. QED
  BY <1>3, <1>5, SMT

\* The same, with a whole number of laps between them.
LEMMA ModDiffersWrapped ==
    ASSUME NEW a \in Index, NEW b \in Index, a < b, a + IndexMod - b < QueueSize
    PROVE  a % QueueSize # b % QueueSize
<1> SUFFICES ASSUME a % QueueSize = b % QueueSize PROVE FALSE
  OBVIOUS
<1> DEFINE n == QueueSize
           qa == a \div n
           qb == b \div n
           r == a % n
<1>0. a \in Nat /\ b \in Nat /\ n \in Nat \ {0}
  BY QueueSizeAssumption, IndexModType DEF Index
<1>1. qa \in Int /\ r \in Nat /\ a = n * qa + r
  BY <1>0, DivMod
<1>2. qb \in Int /\ b = n * qb + r
  BY <1>0, DivMod
<1>3. IndexMod = n * Laps /\ Laps \in Int
  BY LapsAssumption DEF IndexMod
<1> HIDE DEF qa, qb, r, n
<1>4. a + IndexMod - b = n * (qa + Laps - qb)
  BY <1>0, <1>1, <1>2, <1>3, SMT
<1>5. qa + Laps - qb \in Int /\ n * (qa + Laps - qb) > 0
  BY <1>0, <1>1, <1>2, <1>3, <1>4, IndexModType, SMT DEF Index
<1>6. n * (qa + Laps - qb) >= n
  BY <1>0, <1>5, MultipleAtLeast
<1>7. QED
  BY <1>4, <1>6, IndexModType, <1>0, SMT DEF Index, n

\* Two indices of a window no longer than the ring use different slots.
LEMMA SlotInj ==
    ASSUME NEW lo \in Index, NEW i \in Index, NEW j \in Index, i # j,
           Dist(i, lo) < QueueSize, Dist(j, lo) < QueueSize
    PROVE  Slot(i) # Slot(j)
<1>1. \A x, y \in Index : x < y /\ (y - x < QueueSize \/ x + IndexMod - y < QueueSize)
                          => Slot(x) # Slot(y)
  <2> SUFFICES ASSUME NEW x \in Index, NEW y \in Index, x < y,
                      y - x < QueueSize \/ x + IndexMod - y < QueueSize
               PROVE  Slot(x) # Slot(y)
    OBVIOUS
  <2>1. x \in Nat /\ y \in Nat
    BY IndexModType DEF Index
  <2>2. QED
    BY <2>1, ModDiffers, ModDiffersWrapped, QueueSizeAssumption DEF Slot
<1>2. \/ i < j /\ (j - i < QueueSize \/ i + IndexMod - j < QueueSize)
      \/ j < i /\ (i - j < QueueSize \/ j + IndexMod - i < QueueSize)
  BY IndexModType, QueueSizeAssumption DEF Index, Dist
<1>3. QED
  BY <1>1, <1>2

-----------------------------------------------------------------------------
(* Types *)

\* The next-state relation written out, one disjunct per action.
LEMMA NextCases ==
    ASSUME [Next]_vars
    PROVE  /\ machine' = machine
           /\ \/ \E h \in Heads : AddBuffer(h)
              \/ Publish \/ Kick
              \/ wait_ready \/ read_ioevent \/ next_chain \/ load_avail_entry
              \/ put_used_entry \/ write_used_idx \/ need_interrupt
              \/ set_isr \/ write_irqfd \/ unlock
              \/ DrainStore
              \/ TakeInterrupt \/ isr_read \/ DisableInterrupts \/ Reap \/ ReapedAll
              \/ EnableInterrupts \/ Recheck \/ EndOfInterrupt
              \/ UNCHANGED queueVars
BY DEF Next, Step, Worker, Handler, vars

\* Every index falls on an entry of the ring (the % of the ring accessors).
LEMMA SlotOfIndex == ASSUME NEW i \in Index PROVE Slot(i) \in Slots
<1>1. i \in Nat
  BY IndexModType DEF Index
<1>2. QED
  BY <1>1, SlotType

\* A queue starts with indices and rings of their types.
LEMMA TypeInit == Init => TypeOK
<1> USE IndexModType, QueueSizeAssumption
<1>1. 0 \in Index /\ 0 \in Slots
  BY DEF Index, Slots
<1>2. QED
  BY <1>1 DEF Init, TypeOK, Heads, WorkerSteps, HandlerSteps

\* No step takes an index or a ring entry out of its type.
LEMMA TypeStep == TypeOK /\ [Next]_vars => TypeOK'
<1> SUFFICES ASSUME TypeOK, [Next]_vars PROVE TypeOK'
  OBVIOUS
<1> USE DEF TypeOK, WorkerSteps, HandlerSteps, guestMem, backend, line, handler
<1>s. \A i \in Index : Slot(i) \in Slots /\ Inc(i) \in Index
  BY SlotOfIndex, IncType
<1>1. ASSUME NEW h \in Heads, AddBuffer(h) PROVE TypeOK'
  <2>1. availRing' \in [Slots -> Heads]
    BY <1>1 DEF AddBuffer
  <2>2. free' \subseteq Heads /\ adding' \in BOOLEAN
    BY <1>1 DEF AddBuffer
  <2>3. QED
    BY <1>1, <2>1, <2>2 DEF AddBuffer
<1>2. CASE Publish
  BY <1>2, <1>s DEF Publish
<1>3. CASE Kick
  BY <1>3 DEF Kick
<1>4. CASE wait_ready
  BY <1>4 DEF wait_ready, load_avail_idx
<1>5. CASE read_ioevent
  BY <1>5 DEF read_ioevent
<1>6. CASE next_chain
  BY <1>6 DEF next_chain, load_avail_idx
<1>7. CASE load_avail_entry
  BY <1>7, <1>s DEF load_avail_entry
<1>8. CASE put_used_entry
  BY <1>8, <1>s DEF put_used_entry
<1>9. CASE write_used_idx
  BY <1>9 DEF write_used_idx
<1>10. CASE need_interrupt
  BY <1>10 DEF need_interrupt
<1>11. CASE set_isr
  BY <1>11 DEF set_isr
<1>12. CASE write_irqfd
  BY <1>12 DEF write_irqfd
<1>13. CASE unlock
  BY <1>13 DEF unlock
<1>14. CASE DrainStore
  BY <1>14 DEF DrainStore
<1>15. CASE TakeInterrupt
  BY <1>15 DEF TakeInterrupt
<1>16. CASE isr_read
  BY <1>16 DEF isr_read, SuppressIrq
<1>17. CASE DisableInterrupts
  BY <1>17 DEF DisableInterrupts, SetNoInterrupt
<1>18. CASE Reap
  BY <1>18, <1>s DEF Reap
<1>19. CASE ReapedAll
  BY <1>19 DEF ReapedAll, HandlerGoto
<1>20. CASE EnableInterrupts
  BY <1>20 DEF EnableInterrupts, SetNoInterrupt
<1>21. CASE Recheck
  BY <1>21 DEF Recheck, HandlerGoto
<1>22. CASE EndOfInterrupt
  BY <1>22 DEF EndOfInterrupt, HandlerGoto
<1>23. CASE UNCHANGED queueVars
  BY <1>23 DEF queueVars
<1>24. QED
  BY <1>1, <1>2, <1>3, <1>4, <1>5, <1>6, <1>7, <1>8, <1>9, <1>10, <1>11, <1>12,
     <1>13, <1>14, <1>15, <1>16, <1>17, <1>18, <1>19, <1>20, <1>21, <1>22, <1>23,
     NextCases

\* Type correctness of the queue, the worker and the driver.
THEOREM TypeCorrect == Spec => []TypeOK
BY TypeInit, TypeStep, PTL DEF Spec

-----------------------------------------------------------------------------
(* Windows of indices *)

\* A window that reaches one further contains one index more.
LEMMA WindowGrow ==
    ASSUME NEW lo \in Index, NEW hi \in Index
    PROVE  /\ Window(lo, Dist(hi, lo) + 1) = Window(lo, Dist(hi, lo)) \cup {hi}
           /\ hi \notin Window(lo, Dist(hi, lo))
<1>1. \A i \in Index : Dist(i, lo) = Dist(hi, lo) <=> i = hi
  BY DistInj
<1>2. \A i \in Index : Dist(i, lo) \in Nat
  BY DistType
<1>3. QED
  BY <1>1, <1>2, SMT DEF Window

\* A window that starts one later has lost its first index.
LEMMA WindowShrink ==
    ASSUME NEW lo \in Index, NEW n \in Nat \ {0}, n <= QueueSize
    PROVE  /\ Window(Inc(lo), n - 1) = Window(lo, n) \ {lo}
           /\ lo \in Window(lo, n)
<1>1. \A i \in Index \ {lo} : Dist(i, Inc(lo)) = Dist(i, lo) - 1
  BY DistIncLo
<1>2. Dist(lo, Inc(lo)) = IndexMod - 1 /\ Dist(lo, lo) = 0
  BY IndexModType, QueueSizeAssumption DEF Dist, Inc, Index
<1>3. \A i \in Index : Dist(i, lo) \in Nat
  BY DistType
<1>4. n - 1 < IndexMod - 1
  BY IndexModType, QueueSizeAssumption
<1>5. QED
  BY <1>1, <1>2, <1>3, <1>4, IndexModType, SMT DEF Window

\* Different indices of a window of at most QueueSize use different slots.
LEMMA WindowSlots ==
    ASSUME NEW lo \in Index, NEW n \in Nat, n <= QueueSize
    PROVE  \A i, j \in Window(lo, n) : i # j => Slot(i) # Slot(j)
<1> SUFFICES ASSUME NEW i \in Window(lo, n), NEW j \in Window(lo, n), i # j
             PROVE  Slot(i) # Slot(j)
  OBVIOUS
<1>1. i \in Index /\ j \in Index /\ Dist(i, lo) < n /\ Dist(j, lo) < n
  BY DEF Window
<1>2. Dist(i, lo) \in Nat /\ Dist(j, lo) \in Nat
  BY <1>1, DistType
<1>3. Dist(i, lo) < QueueSize /\ Dist(j, lo) < QueueSize
  BY <1>1, <1>2, QueueSizeAssumption
<1>4. QED
  BY <1>1, <1>3, SlotInj

\* A window holds indices only.
LEMMA WindowInIndex == \A lo, n : Window(lo, n) \subseteq Index
BY DEF Window

-----------------------------------------------------------------------------
(* Ownership of heads *)

\* The lengths the conservation law speaks of, and the bounds it implies.
LEMMA Lengths ==
    ASSUME TypeOK, Conservation
    PROVE  /\ IsFiniteSet(free) /\ Cardinality(free) \in Nat
           /\ AvailLen \in Nat /\ UsedLen \in Nat /\ HeldLen \in {0, 1}
           /\ Cardinality(free) + AvailLen + HeldLen + UsedLen = QueueSize
           /\ AvailLen <= QueueSize /\ UsedLen <= QueueSize
<1>1. IsFiniteSet(Heads)
  BY FS_Interval, QueueSizeAssumption DEF Heads, Slots
<1>2. IsFiniteSet(free) /\ Cardinality(free) \in Nat
  BY <1>1, FS_Subset, FS_CardinalityType DEF TypeOK
<1>3. Dist(avail_idx, next_avail) \in Nat /\ UsedLen \in Nat
  BY DistType DEF TypeOK, UsedLen
<1>4. AvailLen \in Nat /\ HeldLen \in {0, 1}
  BY <1>3 DEF AvailLen, HeldLen
<1>5. QED
  BY <1>2, <1>3, <1>4, QueueSizeAssumption DEF Conservation

\* At the start every head is free and the indices coincide.
LEMMA InitOwnership == Init => Ownership /\ IndexOrder
<1> SUFFICES ASSUME Init PROVE Ownership /\ IndexOrder
  OBVIOUS
<1>1. 0 \in Index /\ Dist(0, 0) = 0
  BY IndexModType, QueueSizeAssumption DEF Index, Dist
<1>2. AvailLen = 0 /\ UsedLen = 0 /\ HeldLen = 0
  BY <1>1 DEF Init, AvailLen, UsedLen, HeldLen
<1>3. AvailWindow = {} /\ UsedWindow = {}
  <2>1. \A i \in Index : Dist(i, 0) \in Nat
    BY <1>1, DistType
  <2>2. QED
    BY <1>2, <2>1 DEF Init, AvailWindow, UsedWindow, Window
<1>4. Cardinality(free) = QueueSize
  BY FS_Interval, QueueSizeAssumption DEF Init, Heads, Slots
<1>5. Conservation
  BY <1>2, <1>4, QueueSizeAssumption DEF Conservation
<1>6. QED
  BY <1>1, <1>3, <1>5
  DEF Ownership, AvailOwned, UsedOwned, HeldOwned, IndexOrder, Init

\* Steps that move no head and no window.
LEMMA QuietOwnership ==
    ASSUME Ownership,
           UNCHANGED <<availRing, avail_idx, next_avail, adding, usedRing,
                       next_used_idx, last_used_idx, free, chain>>,
           wpc' = "put_used_entry" <=> wpc = "put_used_entry"
    PROVE  Ownership'
<1>1. AvailLen' = AvailLen /\ UsedLen' = UsedLen /\ HeldLen' = HeldLen
  BY DEF AvailLen, UsedLen, HeldLen
<1>2. AvailWindow' = AvailWindow /\ UsedWindow' = UsedWindow
  BY <1>1 DEF AvailWindow, UsedWindow
<1>3. QED
  BY <1>1, <1>2
  DEF Ownership, Conservation, AvailOwned, UsedOwned, HeldOwned

\* A head leaves the free set for the slot behind the avail window.
LEMMA AddBufferOwnership ==
    ASSUME TypeOK, Ownership, NEW h \in Heads, AddBuffer(h)
    PROVE  Ownership'
<1>1. /\ IsFiniteSet(free) /\ Cardinality(free') = Cardinality(free) - 1
      /\ Cardinality(free) \in Nat \ {0}
  <2>1. IsFiniteSet(free)
    BY Lengths DEF Ownership
  <2>2. h \in free /\ free' = free \ {h}
    BY DEF AddBuffer
  <2>3. Cardinality(free') = Cardinality(free) - 1 /\ Cardinality(free) \in Nat
    BY <2>1, <2>2, FS_RemoveElement, FS_CardinalityType
  <2>4. Cardinality(free) # 0
    BY <2>1, <2>2, FS_EmptySet
  <2>5. QED
    BY <2>1, <2>3, <2>4
<1>2. /\ AvailLen = Dist(avail_idx, next_avail) /\ AvailLen' = AvailLen + 1
      /\ UsedLen' = UsedLen /\ HeldLen' = HeldLen
  BY DistType DEF AddBuffer, AvailLen, UsedLen, HeldLen, backend, handler, TypeOK
<1>3. AvailLen' \in Nat /\ AvailLen' <= QueueSize /\ Conservation'
  BY <1>1, <1>2, Lengths, QueueSizeAssumption DEF Ownership, Conservation
<1>4. /\ AvailWindow' = AvailWindow \cup {avail_idx}
      /\ avail_idx \notin AvailWindow
      /\ UsedWindow' = UsedWindow
  BY <1>2, WindowGrow DEF AvailWindow, UsedWindow, AddBuffer, TypeOK, backend, handler
<1>5. \A i, j \in AvailWindow' : i # j => Slot(i) # Slot(j)
  <2>1. next_avail' \in Index
    BY DEF AddBuffer, backend, TypeOK
  <2>2. QED
    BY <2>1, <1>3, WindowSlots DEF AvailWindow
<1>6. /\ availRing'[Slot(avail_idx)] = h
      /\ \A i \in AvailWindow : availRing'[Slot(i)] = availRing[Slot(i)]
  <2>1. \A i \in Index : Slot(i) \in Slots
    BY SlotOfIndex
  <2>2. AvailWindow \subseteq Index /\ avail_idx \in Index
    BY WindowInIndex DEF AvailWindow, TypeOK
  <2>3. QED
    BY <1>4, <1>5, <2>1, <2>2 DEF AddBuffer, TypeOK
<1>7. /\ h \in free /\ free' = free \ {h}
      /\ UNCHANGED <<usedRing, chain, wpc>>
  BY DEF AddBuffer
<1>8. AvailOwned'
  BY <1>4, <1>6, <1>7 DEF Ownership, AvailOwned
<1>9. UsedOwned'
  BY <1>4, <1>6, <1>7 DEF Ownership, UsedOwned
<1>10. HeldOwned'
  BY <1>4, <1>6, <1>7 DEF Ownership, HeldOwned
<1>11. QED
  BY <1>3, <1>8, <1>9, <1>10 DEF Ownership

\* Publishing moves the boundary inside the avail window, not its end.
LEMMA PublishOwnership ==
    ASSUME TypeOK, Ownership, Publish
    PROVE  Ownership' /\ Dist(avail_idx', next_avail) = Dist(avail_idx, next_avail) + 1
<1>1. AvailLen = Dist(avail_idx, next_avail) + 1 /\ AvailLen <= QueueSize
  BY Lengths DEF AvailLen, Publish, Ownership
<1>2. Dist(avail_idx, next_avail) < IndexMod - 1
  <2>1. Dist(avail_idx, next_avail) \in Nat
    BY DistType DEF TypeOK
  <2>2. QED
    BY <1>1, <2>1, IndexModType, QueueSizeAssumption
<1>3. Dist(avail_idx', next_avail) = Dist(avail_idx, next_avail) + 1
  BY <1>2, DistIncHi DEF Publish, TypeOK
<1>4. /\ next_avail' = next_avail /\ ~adding'
      /\ UNCHANGED <<availRing, usedRing, next_used_idx, last_used_idx, free, chain, wpc>>
  BY DEF Publish, backend, handler
<1>5. AvailLen' = AvailLen /\ UsedLen' = UsedLen /\ HeldLen' = HeldLen
  <2>1. Dist(avail_idx, next_avail) \in Nat
    BY DistType DEF TypeOK
  <2>2. AvailLen' = Dist(avail_idx', next_avail) + 0
    BY <1>4 DEF AvailLen
  <2>3. AvailLen' = AvailLen
    BY <1>1, <1>3, <2>1, <2>2
  <2>4. QED
    BY <1>4, <2>3 DEF UsedLen, HeldLen
<1>6. AvailWindow' = AvailWindow /\ UsedWindow' = UsedWindow
  BY <1>4, <1>5 DEF AvailWindow, UsedWindow
<1>7. Ownership'
  BY <1>4, <1>5, <1>6
  DEF Ownership, Conservation, AvailOwned, UsedOwned, HeldOwned
<1>8. QED
  BY <1>3, <1>7

\* The device takes the first entry of the avail window.
LEMMA LoadOwnership ==
    ASSUME TypeOK, Ownership, IndexOrder, load_avail_entry
    PROVE  /\ Ownership'
           /\ avail_idx # next_avail
<1>1. avail_idx # next_avail
  <2>1. Dist(cached_avail_idx, next_avail) \in Nat
        /\ Dist(cached_avail_idx, next_avail) # 0
    BY DistType DEF TypeOK, IndexOrder, load_avail_entry
  <2>2. Dist(avail_idx, next_avail) \in Nat /\ Dist(avail_idx, next_avail) # 0
    BY <2>1, DistType DEF TypeOK, IndexOrder
  <2>3. QED
    BY <2>2, DistType DEF TypeOK
<1>2. Dist(avail_idx, Inc(next_avail)) = Dist(avail_idx, next_avail) - 1
      /\ Dist(avail_idx, next_avail) \in Nat \ {0}
  BY <1>1, DistIncLo, DistType DEF TypeOK
<1>3. /\ next_avail' = Inc(next_avail) /\ wpc = "load_avail_entry"
      /\ wpc' = "put_used_entry" /\ chain' = availRing[Slot(next_avail)]
      /\ UNCHANGED <<availRing, avail_idx, adding, usedRing, next_used_idx,
                     last_used_idx, free>>
  BY DEF load_avail_entry, guestMem, handler
<1>4. /\ AvailLen' = AvailLen - 1 /\ UsedLen' = UsedLen
      /\ HeldLen = 0 /\ HeldLen' = 1
  BY <1>2, <1>3 DEF AvailLen, UsedLen, HeldLen
<1>5. AvailLen \in Nat \ {0} /\ AvailLen <= QueueSize
  BY <1>2, Lengths DEF AvailLen, Ownership
<1>6. /\ AvailWindow' = AvailWindow \ {next_avail}
      /\ next_avail \in AvailWindow
      /\ UsedWindow' = UsedWindow
  BY <1>3, <1>4, <1>5, WindowShrink DEF AvailWindow, UsedWindow, TypeOK
<1>7. Conservation'
  BY <1>3, <1>4, Lengths, QueueSizeAssumption DEF Conservation, Ownership
<1>8. AvailOwned'
  BY <1>3, <1>6 DEF Ownership, AvailOwned
<1>9. UsedOwned'
  BY <1>3, <1>6 DEF Ownership, UsedOwned
<1>10. HeldOwned'
  BY <1>3, <1>6 DEF Ownership, HeldOwned, AvailOwned, UsedOwned
<1>11. QED
  BY <1>1, <1>7, <1>8, <1>9, <1>10 DEF Ownership

\* The head the device holds goes into the slot behind the used window.
LEMMA PutUsedOwnership ==
    ASSUME TypeOK, Ownership, put_used_entry
    PROVE  /\ Ownership'
           /\ Dist(next_used_idx', last_used_idx) = Dist(next_used_idx, last_used_idx) + 1
<1>1. HeldLen = 1 /\ UsedLen \in Nat /\ UsedLen + 1 <= QueueSize
  <2>1. HeldLen = 1
    BY DEF HeldLen, put_used_entry
  <2>2. QED
    BY <2>1, Lengths, QueueSizeAssumption DEF Ownership
<1>2. Dist(next_used_idx', last_used_idx) = Dist(next_used_idx, last_used_idx) + 1
  BY <1>1, DistIncHi, IndexModType, QueueSizeAssumption
  DEF UsedLen, put_used_entry, TypeOK
<1>3. /\ wpc = "put_used_entry" /\ wpc' = "write_used_idx"
      /\ usedRing' = [usedRing EXCEPT ![Slot(next_used_idx)] = chain]
      /\ UNCHANGED <<availRing, avail_idx, next_avail, adding, last_used_idx, free, chain>>
  BY DEF put_used_entry, handler
<1>4. AvailLen' = AvailLen /\ UsedLen' = UsedLen + 1 /\ HeldLen' = 0
  BY <1>2, <1>3 DEF AvailLen, UsedLen, HeldLen
<1>5. /\ UsedWindow' = UsedWindow \cup {next_used_idx}
      /\ next_used_idx \notin UsedWindow
      /\ AvailWindow' = AvailWindow
  BY <1>3, <1>4, WindowGrow DEF UsedWindow, AvailWindow, UsedLen, TypeOK
<1>6. \A i, j \in UsedWindow' : i # j => Slot(i) # Slot(j)
  <2>1. last_used_idx' \in Index /\ UsedLen' \in Nat /\ UsedLen' <= QueueSize
    BY <1>1, <1>3, <1>4 DEF TypeOK
  <2>2. QED
    BY <2>1, WindowSlots DEF UsedWindow
<1>7. /\ usedRing'[Slot(next_used_idx)] = chain
      /\ \A i \in UsedWindow : usedRing'[Slot(i)] = usedRing[Slot(i)]
  <2>1. \A i \in Index : Slot(i) \in Slots
    BY SlotOfIndex
  <2>2. UsedWindow \subseteq Index /\ next_used_idx \in Index
    BY WindowInIndex DEF UsedWindow, TypeOK
  <2>3. QED
    BY <1>3, <1>5, <1>6, <2>1, <2>2 DEF TypeOK
<1>8. Conservation'
  BY <1>1, <1>3, <1>4, Lengths, QueueSizeAssumption DEF Conservation, Ownership
<1>9. AvailOwned'
  BY <1>3, <1>5 DEF Ownership, AvailOwned
<1>10. UsedOwned'
  BY <1>3, <1>5, <1>7 DEF Ownership, UsedOwned, HeldOwned
<1>11. HeldOwned'
  BY <1>3 DEF HeldOwned
<1>12. QED
  BY <1>2, <1>8, <1>9, <1>10, <1>11 DEF Ownership

\* The first head of the used window becomes free.
LEMMA ReapOwnership ==
    ASSUME TypeOK, Ownership, IndexOrder, Reap
    PROVE  Ownership' /\ last_used_idx # next_used_idx
<1>1. last_used_idx # next_used_idx
  BY DEF Reap, IndexOrder
<1>2. /\ Dist(next_used_idx, Inc(last_used_idx)) = UsedLen - 1
      /\ UsedLen \in Nat \ {0} /\ UsedLen <= QueueSize
  BY <1>1, DistIncLo, DistType, Lengths DEF TypeOK, UsedLen, Ownership
<1> DEFINE h == usedRing[Slot(last_used_idx)]
<1>3. /\ last_used_idx' = Inc(last_used_idx) /\ free' = free \cup {h}
      /\ UNCHANGED <<availRing, avail_idx, next_avail, adding, usedRing,
                     next_used_idx, chain, wpc>>
  BY DEF Reap, guestMem, backend
<1>4. AvailLen' = AvailLen /\ UsedLen' = UsedLen - 1 /\ HeldLen' = HeldLen
  BY <1>2, <1>3 DEF AvailLen, UsedLen, HeldLen
<1>5. /\ UsedWindow' = UsedWindow \ {last_used_idx}
      /\ last_used_idx \in UsedWindow
      /\ AvailWindow' = AvailWindow
  BY <1>2, <1>3, <1>4, WindowShrink DEF UsedWindow, AvailWindow, TypeOK
<1>6. h \notin free
  BY <1>5 DEF Ownership, UsedOwned
<1>7. Cardinality(free') = Cardinality(free) + 1
  <2>1. IsFiniteSet(free)
    BY Lengths DEF Ownership
  <2>2. QED
    BY <1>3, <1>6, <2>1, FS_AddElement
<1>8. Conservation'
  BY <1>2, <1>4, <1>7, Lengths, QueueSizeAssumption DEF Conservation, Ownership
<1>9. AvailOwned'
  BY <1>3, <1>5 DEF Ownership, AvailOwned, UsedOwned
<1>10. UsedOwned'
  BY <1>3, <1>5 DEF Ownership, UsedOwned
<1>11. HeldOwned'
  BY <1>3, <1>5 DEF Ownership, HeldOwned
<1>12. QED
  BY <1>1, <1>8, <1>9, <1>10, <1>11 DEF Ownership

-----------------------------------------------------------------------------
(* The inductive invariant *)

IInv == TypeOK /\ Ownership /\ IndexOrder

\* Every action keeps each head in one place.
LEMMA OwnershipStep ==
    ASSUME IInv, [Next]_vars
    PROVE  Ownership'
<1> USE DEF IInv, guestMem, backend, line, handler
<1>1. ASSUME NEW h \in Heads, AddBuffer(h) PROVE Ownership'
  BY <1>1, AddBufferOwnership
<1>2. CASE Publish
  BY <1>2, PublishOwnership
<1>3. CASE load_avail_entry
  BY <1>3, LoadOwnership
<1>4. CASE put_used_entry
  BY <1>4, PutUsedOwnership
<1>5. CASE Reap
  BY <1>5, ReapOwnership
<1>6. CASE Kick \/ wait_ready \/ read_ioevent \/ next_chain \/ write_used_idx
           \/ need_interrupt \/ set_isr \/ write_irqfd \/ unlock
  <2>1. UNCHANGED <<availRing, avail_idx, next_avail, adding, usedRing,
                    next_used_idx, last_used_idx, free, chain>>
    BY <1>6 DEF Kick, wait_ready, read_ioevent, next_chain, write_used_idx,
                need_interrupt, set_isr, write_irqfd, unlock
  <2>2. wpc' = "put_used_entry" <=> wpc = "put_used_entry"
    BY <1>6 DEF Kick, wait_ready, read_ioevent, next_chain, write_used_idx,
                need_interrupt, set_isr, write_irqfd, unlock
  <2>3. QED
    BY <2>1, <2>2, QuietOwnership
<1>7. CASE DrainStore \/ TakeInterrupt \/ isr_read \/ DisableInterrupts \/ ReapedAll
           \/ EnableInterrupts \/ Recheck \/ EndOfInterrupt \/ UNCHANGED queueVars
  <2>1. UNCHANGED <<availRing, avail_idx, next_avail, adding, usedRing,
                    next_used_idx, last_used_idx, free, chain, wpc>>
    BY <1>7 DEF DrainStore, TakeInterrupt, isr_read, DisableInterrupts, ReapedAll,
                EnableInterrupts, Recheck, EndOfInterrupt, SetNoInterrupt,
                HandlerGoto, queueVars
  <2>2. QED
    BY <2>1, QuietOwnership
<1>8. QED
  BY <1>1, <1>2, <1>3, <1>4, <1>5, <1>6, <1>7, NextCases

\* Every action keeps the indices in order.
LEMMA IndexOrderStep ==
    ASSUME IInv, [Next]_vars
    PROVE  IndexOrder'
<1> USE DEF IInv, TypeOK, guestMem, backend, line, handler, IndexOrder
<1>d. /\ Dist(avail_idx, next_avail) \in Nat
      /\ Dist(cached_avail_idx, next_avail) \in Nat
      /\ (Dist(cached_avail_idx, next_avail) = 0) <=> (cached_avail_idx = next_avail)
  BY DistType
<1>1. ASSUME NEW h \in Heads, AddBuffer(h) PROVE IndexOrder'
  BY <1>1 DEF AddBuffer
<1>2. CASE Publish
  <2>1. Dist(avail_idx', next_avail) = Dist(avail_idx, next_avail) + 1
    BY <1>2, PublishOwnership
  <2>2. UNCHANGED <<cached_avail_idx, next_avail, wpc, used_idx, next_used_idx,
                    last_used_idx>>
    BY <1>2 DEF Publish
  <2>3. QED
    BY <1>d, <2>1, <2>2
<1>3. CASE wait_ready \/ next_chain
  <2>1. UNCHANGED <<avail_idx, next_avail, used_idx, next_used_idx, last_used_idx>>
    BY <1>3 DEF wait_ready, next_chain
  <2>2. cached_avail_idx' = IF cached_avail_idx = next_avail
                            THEN avail_idx ELSE cached_avail_idx
    BY <1>3 DEF wait_ready, next_chain, load_avail_idx
  <2>3. wpc' = "load_avail_entry" => cached_avail_idx' # next_avail
    BY <1>3, <2>2 DEF wait_ready, next_chain, is_empty
  <2>4. used_idx = next_used_idx /\ wpc' # "write_used_idx"
    BY <1>3 DEF wait_ready, next_chain
  <2>5. QED
    BY <1>d, <2>1, <2>2, <2>3, <2>4
<1>4. CASE load_avail_entry
  <2>1. avail_idx # next_avail /\ cached_avail_idx # next_avail
    BY <1>4, LoadOwnership DEF load_avail_entry
  <2>2. /\ Dist(avail_idx, Inc(next_avail)) = Dist(avail_idx, next_avail) - 1
        /\ Dist(cached_avail_idx, Inc(next_avail)) = Dist(cached_avail_idx, next_avail) - 1
    BY <2>1, DistIncLo
  <2>3. QED
    BY <1>4, <1>d, <2>2 DEF load_avail_entry
<1>5. CASE put_used_entry
  <2>1. used_idx = next_used_idx /\ next_used_idx' = Inc(next_used_idx)
        /\ UNCHANGED <<avail_idx, next_avail, cached_avail_idx, used_idx, last_used_idx>>
        /\ wpc' = "write_used_idx"
    BY <1>5 DEF put_used_entry
  <2>2. Dist(next_used_idx', last_used_idx) # 0
    BY <1>5, PutUsedOwnership, DistType
  <2>3. last_used_idx # next_used_idx' /\ used_idx # next_used_idx'
    BY <2>1, <2>2, DistType, IncType
  <2>4. QED
    BY <2>1, <2>3
<1>6. CASE Reap
  <2>1. last_used_idx # used_idx /\ last_used_idx # next_used_idx
        /\ last_used_idx' = Inc(last_used_idx)
        /\ UNCHANGED <<avail_idx, next_avail, cached_avail_idx, used_idx, next_used_idx, wpc>>
    BY <1>6, ReapOwnership DEF Reap
  <2>2. used_idx # next_used_idx => Inc(last_used_idx) # next_used_idx
    BY <2>1, IndexModType DEF Inc, Index
  <2>3. QED
    BY <2>1, <2>2
<1>7. CASE Kick \/ read_ioevent \/ write_used_idx \/ need_interrupt \/ set_isr
           \/ write_irqfd \/ unlock \/ DrainStore
  BY <1>7 DEF Kick, read_ioevent, write_used_idx, need_interrupt, set_isr,
              write_irqfd, unlock, DrainStore, Drained
<1>8. CASE TakeInterrupt \/ isr_read \/ DisableInterrupts \/ ReapedAll
           \/ EnableInterrupts \/ Recheck \/ EndOfInterrupt \/ UNCHANGED queueVars
  <2>1. UNCHANGED <<avail_idx, next_avail, cached_avail_idx, used_idx,
                    next_used_idx, last_used_idx, wpc>>
    BY <1>8 DEF TakeInterrupt, isr_read, DisableInterrupts, ReapedAll,
                EnableInterrupts, Recheck, EndOfInterrupt, SetNoInterrupt,
                HandlerGoto, queueVars
  <2>2. QED
    BY <2>1
<1>9. QED
  BY <1>1, <1>2, <1>3, <1>4, <1>5, <1>6, <1>7, <1>8, NextCases

\* The three parts together are inductive.
LEMMA Inductive == Spec => []IInv
<1>1. Init => IInv
  BY TypeInit, InitOwnership DEF IInv
<1>2. IInv /\ [Next]_vars => IInv'
  BY TypeStep, OwnershipStep, IndexOrderStep DEF IInv
<1>3. QED
  BY <1>1, <1>2, PTL DEF Spec

\* Whatever the queue size, each descriptor head is in one place at a time: a
\* request is neither lost, nor served twice, nor reported twice, when the u16
\* indices wrap and when stores become visible late.
THEOREM HeadsOwnedOnce == Spec => []Ownership
BY Inductive, PTL DEF IInv

\* The cached avail index and the visible used index keep their places.
THEOREM IndicesInOrder == Spec => []IndexOrder
BY Inductive, PTL DEF IInv

-----------------------------------------------------------------------------
(* Kicks *)

\* A published chain never waits for a worker that nobody will wake.
THEOREM KickNotLost == Spec => []NoLostKick
<1>1. Init => NoLostKick
  BY DEF Init, NoLostKick
<1>2. TypeOK /\ NoLostKick /\ [Next]_vars => NoLostKick'
  <2> SUFFICES ASSUME TypeOK, NoLostKick, [Next]_vars PROVE NoLostKick'
    OBVIOUS
  <2> USE DEF NoLostKick, TypeOK, guestMem, backend, line, handler
  <2>1. ASSUME NEW h \in Heads, AddBuffer(h) PROVE NoLostKick'
    BY <2>1 DEF AddBuffer
  <2>2. CASE Publish \/ Kick
    BY <2>2 DEF Publish, Kick
  <2>3. CASE wait_ready \/ read_ioevent \/ next_chain \/ load_avail_entry
             \/ put_used_entry \/ write_used_idx
    BY <2>3 DEF wait_ready, read_ioevent, next_chain, load_avail_entry,
                put_used_entry, write_used_idx, is_empty
  <2>4. CASE need_interrupt \/ set_isr \/ write_irqfd \/ unlock \/ DrainStore
    BY <2>4 DEF need_interrupt, set_isr, write_irqfd, unlock, DrainStore
  <2>5. CASE TakeInterrupt \/ isr_read \/ DisableInterrupts \/ Reap \/ ReapedAll
             \/ EnableInterrupts \/ Recheck \/ EndOfInterrupt \/ UNCHANGED queueVars
    BY <2>5 DEF TakeInterrupt, isr_read, DisableInterrupts, Reap, ReapedAll,
                EnableInterrupts, Recheck, EndOfInterrupt, SetNoInterrupt,
                HandlerGoto, queueVars
  <2>6. QED
    BY <2>1, <2>2, <2>3, <2>4, <2>5, NextCases
<1>3. QED
  BY <1>1, <1>2, TypeCorrect, PTL DEF Spec

-----------------------------------------------------------------------------
(* Interrupts *)

\* The handler is going to look at used_ring.idx again.
Looking == \/ hpc \in {"disable", "reap", "enable", "recheck"}
           \/ hpc = "isr_read" /\ isr

\* What is behind NoLostInterrupt.  Interrupts are suppressed only while the
\* handler is going to look again; the index is visible before the decision
\* about an interrupt, or that decision is always yes; and a completion that
\* nobody is going to look at is covered by put_used or by an interrupt that
\* will find the ISR bit set.
IrqInv ==
    Reliable =>
        /\ no_interrupt => SuppressIrq /\ hpc \in {"reap", "enable"}
        /\ hpc \in {"disable", "enable", "recheck"} => SuppressIrq
        /\ ~StoreBuffer /\ used_idx # next_used_idx => wpc = "write_used_idx"
        /\ used_idx # next_used_idx =>
              wpc \in {"write_used_idx", "need_interrupt", "set_isr"}
        /\ ~Looking /\ last_used_idx # used_idx =>
              \/ wpc \in {"need_interrupt", "set_isr"}
              \/ wpc = "write_irqfd" /\ isr
              \/ irq /\ isr

\* No step of the worker, the handler or the store buffer loses a completion.
LEMMA IrqInvStep ==
    ASSUME IInv, IrqInv, [Next]_vars
    PROVE  IrqInv'
<1>0. machine' = machine
  BY NextCases
<1> USE <1>0 DEF IInv, IrqInv, Looking, TypeOK, guestMem, backend, line, handler,
                 Reliable, StoreBuffer, SuppressIrq, IrqLatched
<1>1. ASSUME NEW h \in Heads, AddBuffer(h) PROVE IrqInv'
  BY <1>1 DEF AddBuffer
<1>2. CASE Publish \/ Kick
  BY <1>2 DEF Publish, Kick
<1>3. CASE wait_ready \/ read_ioevent \/ next_chain \/ load_avail_entry
  BY <1>3 DEF wait_ready, read_ioevent, next_chain, load_avail_entry
<1>4. CASE put_used_entry
  BY <1>4 DEF put_used_entry, IndexOrder
<1>5. CASE write_used_idx
  BY <1>5 DEF write_used_idx, IndexOrder
<1>6. CASE need_interrupt
  BY <1>6 DEF need_interrupt
<1>7. CASE set_isr
  BY <1>7 DEF set_isr, Drained
<1>8. CASE write_irqfd
  BY <1>8 DEF write_irqfd
<1>9. CASE unlock
  BY <1>9 DEF unlock, Drained
<1>10. CASE DrainStore
  BY <1>10 DEF DrainStore
<1>11. CASE TakeInterrupt
  BY <1>11 DEF TakeInterrupt
<1>12. CASE isr_read
  BY <1>12 DEF isr_read
<1>13. CASE DisableInterrupts
  BY <1>13 DEF DisableInterrupts, SetNoInterrupt
<1>14. CASE Reap
  BY <1>14 DEF Reap
<1>15. CASE ReapedAll
  BY <1>15 DEF ReapedAll, HandlerGoto
<1>16. CASE EnableInterrupts
  BY <1>16 DEF EnableInterrupts, SetNoInterrupt
<1>17. CASE Recheck
  BY <1>17 DEF Recheck, HandlerGoto
<1>18. CASE EndOfInterrupt
  BY <1>18 DEF EndOfInterrupt, HandlerGoto
<1>19. CASE UNCHANGED queueVars
  BY <1>19 DEF queueVars
<1>20. QED
  BY <1>1, <1>2, <1>3, <1>4, <1>5, <1>6, <1>7, <1>8, <1>9, <1>10, <1>11, <1>12,
     <1>13, <1>14, <1>15, <1>16, <1>17, <1>18, <1>19, NextCases

\* On a reliable machine, one with a latched interrupt and either no store buffering
\* or no interrupt suppression, no completion goes unannounced.
THEOREM InterruptNotLost == Spec => [](Reliable => NoLostInterrupt)
<1>1. Init => IrqInv
  BY DEF Init, IrqInv
<1>2. IInv /\ IrqInv /\ [Next]_vars => IrqInv'
  BY IrqInvStep
<1>3. IrqInv => (Reliable => NoLostInterrupt)
  BY DEF IrqInv, NoLostInterrupt, Looking
<1>4. QED
  BY <1>1, <1>2, <1>3, Inductive, PTL DEF Spec

\* Neither the worker nor the driver sleeps with work in front of it and no wake-up
\* under way.
THEOREM WakeupsNotLost == Spec => []NoLostWakeup
<1>1. NoLostKick /\ (Reliable => NoLostInterrupt) => NoLostWakeup
  BY DEF NoLostWakeup
<1>2. QED
  BY <1>1, KickNotLost, InterruptNotLost, PTL

-----------------------------------------------------------------------------
(* The entries of a ring as a sequence *)

\* Adding a whole number of laps does not change the slot.
LEMMA SlotLap == ASSUME NEW i \in Nat
                 PROVE  Slot(i + IndexMod) = Slot(i)
<1> DEFINE n == QueueSize
           j == i + IndexMod
           qi == i \div n
           qj == j \div n
           ri == i % n
           rj == j % n
<1>0. n \in Nat \ {0} /\ j \in Nat /\ Laps \in Int /\ j = i + n * Laps
  BY QueueSizeAssumption, LapsAssumption, IndexModType DEF IndexMod
<1>1. qi \in Int /\ ri \in Nat /\ ri < n /\ i = n * qi + ri
  BY <1>0, DivMod
<1>2. qj \in Int /\ rj \in Nat /\ rj < n /\ j = n * qj + rj
  BY <1>0, DivMod
<1> HIDE DEF n, j, qi, qj, ri, rj
<1>3. rj - ri = n * (qi + Laps - qj)
  BY <1>0, <1>1, <1>2, SMT
<1>4. ri - rj = n * (qj - qi - Laps)
  BY <1>0, <1>1, <1>2, SMT
<1>5. ~(n * (qi + Laps - qj) > 0)
  BY <1>0, <1>1, <1>2, <1>3, MultipleAtLeast, SMT
<1>6. ~(n * (qj - qi - Laps) > 0)
  BY <1>0, <1>1, <1>2, <1>4, MultipleAtLeast, SMT
<1>7. ri = rj
  BY <1>1, <1>2, <1>3, <1>4, <1>5, <1>6, SMT
<1>8. QED
  BY <1>7 DEF ri, rj, j, n, Slot

\* The k-th index of a window, as an index and by its slot.
LEMMA SlotAt ==
    ASSUME NEW lo \in Index, NEW k \in Nat, k < IndexMod
    PROVE  \E i \in Index : Dist(i, lo) = k /\ Slot(i) = Slot(lo + k)
<1>1. CASE lo + k < IndexMod
  <2>1. lo + k \in Index /\ Dist(lo + k, lo) = k
    BY <1>1, IndexModType DEF Index, Dist
  <2>2. QED
    BY <2>1
<1>2. CASE lo + k >= IndexMod
  <2> DEFINE i == lo + k - IndexMod
  <2>1. i \in Index /\ i \in Nat /\ Dist(i, lo) = k /\ i + IndexMod = lo + k
    BY <1>2, IndexModType DEF Index, Dist
  <2>2. Slot(i + IndexMod) = Slot(i)
    BY <2>1, SlotLap
  <2>3. QED
    BY <2>1, <2>2
<1>3. QED
  BY <1>1, <1>2, IndexModType DEF Index

\* The slot of an index, found from the start of a window that ends there.
LEMMA SlotOfDist ==
    ASSUME NEW lo \in Index, NEW i \in Index
    PROVE  Slot(lo + Dist(i, lo)) = Slot(i)
<1>1. Dist(i, lo) \in Nat /\ Dist(i, lo) < IndexMod
  BY DistType
<1>2. PICK j \in Index : Dist(j, lo) = Dist(i, lo) /\ Slot(j) = Slot(lo + Dist(i, lo))
  BY <1>1, SlotAt
<1>3. QED
  BY <1>2, DistInj

\* The entries of a window are a sequence of heads, as long as the window.
LEMMA EntriesType ==
    ASSUME NEW ring \in [Slots -> Heads], NEW lo \in Index, NEW n \in Nat
    PROVE  Entries(ring, lo, n) \in Seq(Heads) /\ Len(Entries(ring, lo, n)) = n
<1>1. \A k \in 1..n : ring[Slot(lo + k - 1)] \in Heads
  BY SlotType DEF Index
<1>2. QED
  BY <1>1 DEF Entries

\* An empty window has no entries.
LEMMA EntriesNone ==
    ASSUME NEW ring \in [Slots -> Heads], NEW lo \in Index
    PROVE  Entries(ring, lo, 0) = <<>>
BY EntriesType

\* A window that reaches one further has one entry more, at its end.
LEMMA EntriesGrow ==
    ASSUME NEW ring \in [Slots -> Heads], NEW lo \in Index, NEW n \in Nat
    PROVE  Entries(ring, lo, n + 1) = Append(Entries(ring, lo, n), ring[Slot(lo + n)])
<1>1. Entries(ring, lo, n) \in Seq(Heads) /\ Len(Entries(ring, lo, n)) = n
  BY EntriesType
<1>2. Entries(ring, lo, n + 1) \in Seq(Heads) /\ Len(Entries(ring, lo, n + 1)) = n + 1
  BY EntriesType
<1>3. ring[Slot(lo + n)] \in Heads
  BY SlotType DEF Index
<1>4. QED
  BY <1>1, <1>2, <1>3 DEF Entries

\* A window that starts one later has lost its first entry.
LEMMA EntriesShrink ==
    ASSUME NEW ring \in [Slots -> Heads], NEW lo \in Index, NEW n \in Nat
    PROVE  /\ Head(Entries(ring, lo, n + 1)) = ring[Slot(lo)]
           /\ Tail(Entries(ring, lo, n + 1)) = Entries(ring, Inc(lo), n)
<1>1. Entries(ring, lo, n + 1) \in Seq(Heads) /\ Len(Entries(ring, lo, n + 1)) = n + 1
  BY EntriesType
<1>2. Inc(lo) \in Index
  BY IncType
<1>3. Entries(ring, Inc(lo), n) \in Seq(Heads) /\ Len(Entries(ring, Inc(lo), n)) = n
  BY <1>2, EntriesType
<1>4. ASSUME NEW k \in 1..n PROVE Slot(Inc(lo) + k - 1) = Slot(lo + (k + 1) - 1)
  <2>1. CASE lo = IndexMod - 1
    BY <2>1, SlotLap, IndexModType DEF Inc, Index
  <2>2. CASE lo # IndexMod - 1
    BY <2>2, IndexModType DEF Inc, Index
  <2>3. QED
    BY <2>1, <2>2
<1>5. \A k \in 1..n : Entries(ring, Inc(lo), n)[k] = Entries(ring, lo, n + 1)[k + 1]
  BY <1>4 DEF Entries
<1>6. Head(Entries(ring, lo, n + 1)) = ring[Slot(lo)]
  BY <1>1, IndexModType DEF Entries, Index
<1>7. QED
  BY <1>1, <1>3, <1>5, <1>6

\* Entries looks at the slots of its window only.
LEMMA EntriesSame ==
    ASSUME NEW ring \in [Slots -> Heads], NEW new \in [Slots -> Heads], NEW lo \in Index,
           NEW n \in Nat, n <= QueueSize,
           \A i \in Window(lo, n) : new[Slot(i)] = ring[Slot(i)]
    PROVE  Entries(new, lo, n) = Entries(ring, lo, n)
<1>1. ASSUME NEW k \in 1..n PROVE new[Slot(lo + k - 1)] = ring[Slot(lo + k - 1)]
  <2>1. k - 1 \in Nat /\ k - 1 < IndexMod /\ k - 1 < n /\ lo + (k - 1) = lo + k - 1
    BY IndexModType, QueueSizeAssumption DEF Index
  <2>2. PICK i \in Index : Dist(i, lo) = k - 1 /\ Slot(i) = Slot(lo + (k - 1))
    BY <2>1, SlotAt
  <2>3. i \in Window(lo, n)
    BY <2>1, <2>2 DEF Window
  <2>4. QED
    BY <2>1, <2>2, <2>3
<1>2. QED
  BY <1>1 DEF Entries

\* The entries between an index and the next one.
LEMMA EntriesOne ==
    ASSUME NEW ring \in [Slots -> Heads], NEW lo \in Index
    PROVE  Entries(ring, lo, Dist(Inc(lo), lo)) = <<ring[Slot(lo)]>>
<1>1. Dist(Inc(lo), lo) = 0 + 1 /\ lo + 0 = lo
  BY IndexModType, QueueSizeAssumption DEF Dist, Inc, Index
<1>2. Entries(ring, lo, 0 + 1) = Append(Entries(ring, lo, 0), ring[Slot(lo + 0)])
  BY EntriesGrow
<1>3. Entries(ring, lo, 0) = <<>>
  BY EntriesNone
<1>4. \A x : Append(<<>>, x) = <<x>>
  OBVIOUS
<1>5. QED
  BY <1>1, <1>2, <1>3, <1>4

-----------------------------------------------------------------------------
(* The refinement of RequestQueue *)

\* The four sequences and sets that RequestQueue sees are well formed.
LEMMA AbsTypes ==
    ASSUME TypeOK
    PROVE  /\ Dist(avail_idx, next_avail) \in Nat /\ Dist(used_idx, last_used_idx) \in Nat
           /\ absSubmitted \in Seq(Heads) /\ absCompleted \in Seq(Heads)
           /\ Len(absSubmitted) = Dist(avail_idx, next_avail)
           /\ Len(absCompleted) = Dist(used_idx, last_used_idx)
<1>1. Dist(avail_idx, next_avail) \in Nat /\ Dist(used_idx, last_used_idx) \in Nat
  BY DistType DEF TypeOK
<1>2. QED
  BY <1>1, EntriesType DEF TypeOK, absSubmitted, absCompleted

\* What the device serves, in the three control states.
LEMMA ServingCases ==
    ASSUME TypeOK, IndexOrder
    PROVE  /\ wpc = "put_used_entry" => absServing = <<chain>>
           /\ wpc # "put_used_entry" /\ used_idx = next_used_idx => absServing = <<>>
           /\ used_idx # next_used_idx => absServing = <<usedRing[Slot(used_idx)]>>
<1>1. wpc = "put_used_entry" => absServing = <<chain>>
  BY DEF absServing
<1>2. ASSUME wpc # "put_used_entry", used_idx = next_used_idx PROVE absServing = <<>>
  <2>1. Dist(next_used_idx, used_idx) = 0
    BY <1>2, DistType DEF TypeOK
  <2>2. QED
    BY <1>2, <2>1, EntriesNone DEF absServing, TypeOK
<1>3. ASSUME used_idx # next_used_idx PROVE absServing = <<usedRing[Slot(used_idx)]>>
  <2>1. wpc # "put_used_entry" /\ next_used_idx = Inc(used_idx)
    BY <1>3 DEF IndexOrder
  <2>2. QED
    BY <2>1, EntriesOne DEF absServing, TypeOK
<1>4. QED
  BY <1>1, <1>2, <1>3

\* The window of the visible used entries is part of the used window.
LEMMA CompletedWindow ==
    ASSUME IInv
    PROVE  /\ Dist(used_idx, last_used_idx) <= UsedLen /\ UsedLen \in Nat /\ UsedLen <= QueueSize
           /\ used_idx # next_used_idx => UsedLen = Dist(used_idx, last_used_idx) + 1
<1>1. UsedLen \in Nat /\ UsedLen <= QueueSize
  BY Lengths DEF IInv, Ownership
<1>2. CASE used_idx = next_used_idx
  BY <1>1, <1>2, QueueSizeAssumption DEF UsedLen
<1>3. CASE used_idx # next_used_idx
  <2>1. next_used_idx = Inc(used_idx) /\ last_used_idx # next_used_idx
    BY <1>3 DEF IInv, IndexOrder
  <2>2. UsedLen = Dist(used_idx, last_used_idx) + 1
    BY <2>1, IndexModType, QueueSizeAssumption DEF UsedLen, Dist, Inc, Index, IInv, TypeOK
  <2>3. QED
    BY <1>1, <2>2, DistType DEF IInv, TypeOK
<1>4. QED
  BY <1>2, <1>3

\* Writing an entry that is not yet published changes nothing that counts.
LEMMA AddBufferStutters ==
    ASSUME IInv, NEW h \in Heads, AddBuffer(h)
    PROVE  UNCHANGED RQ!vars
<1> USE DEF IInv, TypeOK, guestMem, backend, line, handler
<1>1. /\ ~adding /\ h \in free /\ free' = free \ {h} /\ adding'
      /\ availRing' = [availRing EXCEPT ![Slot(avail_idx)] = h]
      /\ UNCHANGED <<avail_idx, next_avail, usedRing, used_idx, next_used_idx, last_used_idx, wpc, chain>>
  BY DEF AddBuffer
<1>2. Slot(avail_idx) \in Slots
  BY SlotOfIndex
<1>3. absFree' = absFree
  BY <1>1, <1>2 DEF absFree
<1>4. absServing' = absServing /\ absCompleted' = absCompleted
  BY <1>1 DEF absServing, absCompleted
<1> DEFINE n == Dist(avail_idx, next_avail)
<1>5. n \in Nat /\ n + 1 <= QueueSize
  <2>1. AvailLen = n /\ n \in Nat
    BY <1>1, DistType DEF AvailLen
  <2>2. Cardinality(free) # 0
    BY <1>1, Lengths, FS_EmptySet DEF Ownership
  <2>3. QED
    BY <2>1, <2>2, Lengths, QueueSizeAssumption DEF Ownership
<1>6. \A i \in Window(next_avail, n) : availRing'[Slot(i)] = availRing[Slot(i)]
  <2>1. /\ Window(next_avail, n + 1) = Window(next_avail, n) \cup {avail_idx}
        /\ avail_idx \notin Window(next_avail, n)
    BY WindowGrow
  <2>2. \A i, j \in Window(next_avail, n + 1) : i # j => Slot(i) # Slot(j)
    BY <1>5, WindowSlots
  <2>3. \A i \in Window(next_avail, n) : Slot(i) # Slot(avail_idx) /\ Slot(i) \in Slots
    BY <2>1, <2>2, SlotOfIndex, WindowInIndex
  <2>4. availRing \in [Slots -> Heads]
    OBVIOUS
  <2> HIDE DEF IInv, TypeOK
  <2>5. QED
    BY <1>1, <2>3, <2>4
<1>7. absSubmitted' = absSubmitted
  <2>1. availRing' \in [Slots -> Heads]
    BY <1>1
  <2> HIDE DEF n
  <2>0. n <= QueueSize
    BY <1>5, QueueSizeAssumption
  <2>2. Entries(availRing', next_avail, n) = Entries(availRing, next_avail, n)
    BY <1>5, <1>6, <2>0, <2>1, EntriesSame
  <2>3. QED
    BY <1>1, <2>2 DEF absSubmitted, n
<1>8. QED
  BY <1>3, <1>4, <1>7 DEF RQ!vars

\* Publishing an entry submits its head.
LEMMA PublishSubmits ==
    ASSUME IInv, Publish
    PROVE  \E h \in Heads : RQ!Submit(h)
<1> USE DEF IInv, TypeOK, guestMem, backend, line, handler
<1> DEFINE n == Dist(avail_idx, next_avail)
           h == availRing[Slot(avail_idx)]
<1>1. /\ adding /\ ~adding' /\ avail_idx' = Inc(avail_idx)
      /\ UNCHANGED <<availRing, free, next_avail, usedRing, used_idx, next_used_idx, last_used_idx, wpc, chain>>
  BY DEF Publish
<1>2. Slot(avail_idx) \in Slots /\ h \in Heads /\ n \in Nat
  BY SlotOfIndex, DistType
<1>3. Dist(avail_idx', next_avail) = n + 1
  BY PublishOwnership
<1>4. h \notin free
  <2>1. AvailWindow = Window(next_avail, n + 1)
    BY <1>1 DEF AvailWindow, AvailLen
  <2>2. avail_idx \in AvailWindow
    BY <2>1, WindowGrow
  <2>3. QED
    BY <2>2 DEF Ownership, AvailOwned
<1>5. absFree = free \cup {h} /\ absFree' = free
  BY <1>1 DEF absFree
<1>6. absSubmitted' = Append(absSubmitted, h)
  <2>1. absSubmitted' = Entries(availRing, next_avail, n + 1)
    BY <1>1, <1>3 DEF absSubmitted
  <2>2. Entries(availRing, next_avail, n + 1)
            = Append(Entries(availRing, next_avail, n), availRing[Slot(next_avail + n)])
    BY <1>2, EntriesGrow
  <2>3. Slot(next_avail + n) = Slot(avail_idx)
    BY SlotOfDist
  <2>4. QED
    BY <2>1, <2>2, <2>3 DEF absSubmitted
<1>7. UNCHANGED <<absServing, absCompleted>>
  BY <1>1 DEF absServing, absCompleted
<1>8. RQ!Submit(h)
  BY <1>4, <1>5, <1>6, <1>7 DEF RQ!Submit
<1>9. QED
  BY <1>2, <1>8

\* Loading an entry takes the oldest request.
LEMMA LoadTakes ==
    ASSUME IInv, load_avail_entry
    PROVE  RQ!Take
<1> USE DEF IInv, TypeOK, guestMem, backend, line, handler
<1> DEFINE n == Dist(avail_idx, Inc(next_avail))
<1>1. /\ wpc = "load_avail_entry" /\ wpc' = "put_used_entry"
      /\ chain' = availRing[Slot(next_avail)] /\ next_avail' = Inc(next_avail)
      /\ UNCHANGED <<availRing, avail_idx, adding, free, usedRing, used_idx, next_used_idx, last_used_idx>>
  BY DEF load_avail_entry
<1>2. used_idx = next_used_idx
  BY <1>1 DEF IndexOrder
<1>3. absServing = <<>>
  BY <1>1, <1>2, ServingCases
<1>4. Dist(avail_idx, next_avail) = n + 1 /\ n \in Nat
  BY LoadOwnership, DistIncLo, DistType, IncType
<1>5. absSubmitted = Entries(availRing, next_avail, n + 1)
  BY <1>4 DEF absSubmitted
<1> HIDE DEF n
<1>6. /\ absSubmitted # <<>> /\ Head(absSubmitted) = availRing[Slot(next_avail)]
      /\ Tail(absSubmitted) = Entries(availRing, Inc(next_avail), n)
  <2>1. /\ Head(absSubmitted) = availRing[Slot(next_avail)]
        /\ Tail(absSubmitted) = Entries(availRing, Inc(next_avail), n)
    BY <1>4, <1>5, EntriesShrink
  <2>2. absSubmitted \in Seq(Heads) /\ Len(absSubmitted) = n + 1
    BY <1>4, <1>5, EntriesType
  <2>3. absSubmitted # <<>>
    BY <1>4, <2>2
  <2>4. QED
    BY <2>1, <2>3
<1>7. absSubmitted' = Tail(absSubmitted)
  BY <1>1, <1>6 DEF absSubmitted, n
<1>8. absServing' = <<Head(absSubmitted)>>
  BY <1>1, <1>6 DEF absServing
<1>9. UNCHANGED <<absFree, absCompleted>>
  BY <1>1 DEF absFree, absCompleted
<1>10. QED
  BY <1>3, <1>6, <1>7, <1>8, <1>9 DEF RQ!Take

\* Writing the used element changes where the head that is served is kept.
LEMMA PutUsedStutters ==
    ASSUME IInv, put_used_entry
    PROVE  UNCHANGED RQ!vars
<1> USE DEF IInv, TypeOK, guestMem, backend, line, handler
<1> DEFINE n == Dist(used_idx, last_used_idx)
<1>1. /\ wpc = "put_used_entry" /\ wpc' = "write_used_idx"
      /\ usedRing' = [usedRing EXCEPT ![Slot(next_used_idx)] = chain]
      /\ next_used_idx' = Inc(next_used_idx)
      /\ UNCHANGED <<availRing, avail_idx, next_avail, adding, free, used_idx, last_used_idx>>
  BY DEF put_used_entry
<1>2. used_idx = next_used_idx /\ UsedLen = n
  BY <1>1 DEF IndexOrder, UsedLen
<1>3. absServing = <<chain>>
  BY <1>1 DEF absServing
<1>4. usedRing' \in [Slots -> Heads] /\ usedRing'[Slot(used_idx)] = chain
  BY <1>1, <1>2, SlotOfIndex
<1>5. absServing' = <<chain>>
  BY <1>1, <1>2, <1>4, EntriesOne DEF absServing
<1>6. n \in Nat /\ n + 1 <= QueueSize
  <2>1. HeldLen = 1
    BY <1>1 DEF HeldLen
  <2>2. QED
    BY <1>2, <2>1, Lengths, QueueSizeAssumption DEF Ownership
<1>7. \A i \in Window(last_used_idx, n) : usedRing'[Slot(i)] = usedRing[Slot(i)]
  <2>1. /\ Window(last_used_idx, n + 1) = Window(last_used_idx, n) \cup {used_idx}
        /\ used_idx \notin Window(last_used_idx, n)
    BY WindowGrow
  <2>2. \A i, j \in Window(last_used_idx, n + 1) : i # j => Slot(i) # Slot(j)
    BY <1>6, WindowSlots
  <2>3. \A i \in Window(last_used_idx, n) : Slot(i) # Slot(used_idx) /\ Slot(i) \in Slots
    BY <2>1, <2>2, SlotOfIndex, WindowInIndex
  <2>4. usedRing \in [Slots -> Heads]
    OBVIOUS
  <2> HIDE DEF IInv, TypeOK
  <2>5. QED
    BY <1>1, <1>2, <2>3, <2>4
<1> HIDE DEF n
<1>8. Entries(usedRing', last_used_idx, n) = Entries(usedRing, last_used_idx, n)
  <2>1. n <= QueueSize
    BY <1>6, QueueSizeAssumption
  <2>2. QED
    BY <1>4, <1>6, <1>7, <2>1, EntriesSame
<1>9. absCompleted' = absCompleted
  BY <1>1, <1>8 DEF absCompleted, n
<1>10. UNCHANGED <<absFree, absSubmitted>>
  BY <1>1 DEF absFree, absSubmitted
<1>11. QED
  BY <1>3, <1>5, <1>9, <1>10 DEF RQ!vars

\* The head that is served is completed when the new used_ring.idx becomes visible.
LEMMA VisibleCompletes ==
    ASSUME IInv, wpc # "put_used_entry", wpc' # "put_used_entry",
           used_idx # next_used_idx, used_idx' = next_used_idx,
           UNCHANGED <<availRing, avail_idx, next_avail, adding, free, usedRing, next_used_idx, last_used_idx>>
    PROVE  RQ!Complete
<1> USE DEF IInv, TypeOK
<1> DEFINE n == Dist(used_idx, last_used_idx)
           x == usedRing[Slot(used_idx)]
<1>1. absServing = <<x>>
  BY ServingCases
<1>2. n \in Nat /\ Dist(next_used_idx, last_used_idx) = n + 1
  BY CompletedWindow, DistType DEF UsedLen
<1>3. absCompleted \in Seq(Heads) /\ x \in Heads
  BY AbsTypes, SlotOfIndex
<1>4. absCompleted' = Append(absCompleted, x)
  <2>1. absCompleted' = Entries(usedRing, last_used_idx, n + 1)
    BY <1>2 DEF absCompleted
  <2>2. Entries(usedRing, last_used_idx, n + 1)
            = Append(Entries(usedRing, last_used_idx, n), usedRing[Slot(last_used_idx + n)])
    BY <1>2, EntriesGrow
  <2>3. Slot(last_used_idx + n) = Slot(used_idx)
    BY SlotOfDist
  <2>4. QED
    BY <2>1, <2>2, <2>3 DEF absCompleted
<1>5. absCompleted' = absCompleted \o <<x>>
  BY <1>3, <1>4
<1>6. absServing' = <<>>
  <2>1. Dist(next_used_idx, next_used_idx) = 0
    BY DistType
  <2>2. QED
    BY <2>1, EntriesNone DEF absServing
<1>7. UNCHANGED <<absFree, absSubmitted>>
  BY DEF absFree, absSubmitted
<1>8. <<x>> # <<>>
  OBVIOUS
<1> HIDE DEF x
<1>9. QED
  BY <1>1, <1>5, <1>6, <1>7, <1>8 DEF RQ!Complete

\* Reaping hands back the request completed first.
LEMMA ReapReaps ==
    ASSUME IInv, Reap
    PROVE  RQ!Reap
<1> USE DEF IInv, TypeOK, guestMem, backend, line, handler
<1> DEFINE n == Dist(used_idx, Inc(last_used_idx))
           x == usedRing[Slot(last_used_idx)]
<1>1. /\ last_used_idx # used_idx /\ free' = free \cup {x} /\ last_used_idx' = Inc(last_used_idx)
      /\ UNCHANGED <<availRing, avail_idx, next_avail, adding, usedRing, used_idx, next_used_idx, wpc, chain>>
  BY DEF Reap
<1>2. Dist(used_idx, last_used_idx) = n + 1 /\ n \in Nat
  BY <1>1, DistIncLo, DistType, IncType
<1>3. absCompleted = Entries(usedRing, last_used_idx, n + 1)
  BY <1>2 DEF absCompleted
<1> HIDE DEF n
<1>4. Head(absCompleted) = x /\ Tail(absCompleted) = Entries(usedRing, Inc(last_used_idx), n)
  BY <1>2, <1>3, EntriesShrink
<1>5. absCompleted # <<>>
  <2>1. absCompleted \in Seq(Heads) /\ Len(absCompleted) = n + 1
    BY <1>2, <1>3, EntriesType
  <2>2. QED
    BY <1>2, <2>1
<1>6. absCompleted' = Tail(absCompleted)
  BY <1>1, <1>4 DEF absCompleted, n
<1>7. absFree' = absFree \cup {x}
  BY <1>1 DEF absFree
<1>8. UNCHANGED <<absSubmitted, absServing>>
  BY <1>1 DEF absSubmitted, absServing
<1>9. QED
  BY <1>4, <1>5, <1>6, <1>7, <1>8 DEF RQ!Reap

\* Every step of the queue is a step of RequestQueue or changes nothing there.
LEMMA StepRefines ==
    ASSUME IInv, [Next]_vars
    PROVE  [RQ!Next]_RQ!vars
<1> USE DEF guestMem, backend, line, handler
<1>1. ASSUME NEW h \in Heads, AddBuffer(h) PROVE [RQ!Next]_RQ!vars
  BY <1>1, AddBufferStutters
<1>2. CASE Publish
  BY <1>2, PublishSubmits DEF RQ!Next
<1>3. CASE load_avail_entry
  BY <1>3, LoadTakes DEF RQ!Next
<1>4. CASE put_used_entry
  BY <1>4, PutUsedStutters
<1>5. CASE write_used_idx \/ DrainStore
  <2>1. /\ wpc # "put_used_entry" /\ wpc' # "put_used_entry"
        /\ UNCHANGED <<availRing, avail_idx, next_avail, adding, free, usedRing, next_used_idx,
                       last_used_idx, chain>>
        /\ used_idx' \in {used_idx, next_used_idx}
    BY <1>5 DEF write_used_idx, DrainStore
  <2>2. CASE used_idx' = used_idx
    BY <2>1, <2>2 DEF RQ!vars, absFree, absSubmitted, absServing, absCompleted
  <2>3. CASE used_idx' # used_idx
    BY <2>1, <2>3, VisibleCompletes DEF RQ!Next
  <2>4. QED
    BY <2>2, <2>3
<1>6. CASE Reap
  BY <1>6, ReapReaps DEF RQ!Next
<1>7. CASE Kick \/ wait_ready \/ read_ioevent \/ next_chain \/ need_interrupt \/ set_isr
           \/ write_irqfd \/ unlock
  <2>1. /\ wpc # "put_used_entry" \/ wpc' = wpc
        /\ wpc' # "put_used_entry" \/ wpc' = wpc
        /\ UNCHANGED <<availRing, avail_idx, next_avail, adding, free, usedRing, used_idx,
                       next_used_idx, last_used_idx, chain>>
    BY <1>7 DEF Kick, wait_ready, read_ioevent, next_chain, need_interrupt, set_isr, write_irqfd, unlock
  <2>2. QED
    BY <2>1 DEF RQ!vars, absFree, absSubmitted, absServing, absCompleted
<1>8. CASE TakeInterrupt \/ isr_read \/ DisableInterrupts \/ ReapedAll
           \/ EnableInterrupts \/ Recheck \/ EndOfInterrupt \/ UNCHANGED queueVars
  <2>1. UNCHANGED <<availRing, avail_idx, next_avail, adding, free, usedRing, used_idx,
                    next_used_idx, last_used_idx, chain, wpc>>
    BY <1>8 DEF TakeInterrupt, isr_read, DisableInterrupts, ReapedAll,
                EnableInterrupts, Recheck, EndOfInterrupt, SetNoInterrupt, HandlerGoto, queueVars
  <2>2. QED
    BY <2>1 DEF RQ!vars, absFree, absSubmitted, absServing, absCompleted
<1>9. QED
  BY <1>1, <1>2, <1>3, <1>4, <1>5, <1>6, <1>7, <1>8, NextCases

\* The rings, eventfds and interrupts implement the request queue: requests are taken
\* in the order in which they were published, completed once each, and handed back in
\* the order of completion, whatever the sizes and the machine.
THEOREM QueueImplementsRequests == Spec => ServesInOrder
<1>1. Init => RQ!Init
  <2> SUFFICES ASSUME Init PROVE RQ!Init
    OBVIOUS
  <2>1. 0 \in Index /\ Dist(0, 0) = 0
    BY IndexModType, QueueSizeAssumption DEF Index, Dist
  <2>2. TypeOK
    BY TypeInit
  <2>3. absSubmitted = <<>> /\ absCompleted = <<>> /\ absServing = <<>>
    BY <2>1, <2>2, EntriesNone DEF Init, absSubmitted, absCompleted, absServing, TypeOK
  <2>4. absFree = Heads
    BY DEF Init, absFree
  <2>5. QED
    BY <2>3, <2>4 DEF RQ!Init
<1>2. IInv /\ [Next]_vars => [RQ!Next]_RQ!vars
  BY StepRefines
<1>3. QED
  BY <1>1, <1>2, Inductive, PTL DEF Spec, ServesInOrder, RQ!Spec
=============================================================================
