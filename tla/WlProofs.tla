------------------------------ MODULE WlProofs ------------------------------
(***************************************************************************)
(* The records of the shared memory mapper agree for every window, every   *)
(* number of RAM regions and every set of buffer sizes.  For the Wayland   *)
(* device that is built on it: the invariant that ties its tables, its     *)
(* buffers and its input together, and that it is kept by the driver, by   *)
(* the compositor's side and by the commands of the output queue;          *)
(* WlInputProofs has the input side and the theorems.                      *)
(***************************************************************************)
EXTENDS VirtioWl, TLAPS

-----------------------------------------------------------------------------
(* The shared memory mapper *)

\* The inductive invariant: the types, the agreement of KVM with the mappings
\* table, the bitmap and the allocator, and regions that do not overlap.  Each
\* conjunct is one of the checked invariants; only together do they carry a
\* step, because a fresh slot is known to be free of a region only through the
\* bitmap, and a fresh range to be free of regions only through the allocator.
\* RamUnmapped keeps unregister away from the slots of RAM.
RamUnmapped == \A s \in Slots : s < Ram => mappings[s] = None
ShmInv == ShmTypeOK /\ RegionsDisjoint /\ RegionsBacked /\ NothingLeaks /\ RamUnmapped

\* None and the region of RAM are not ranges of the window.
LEMMA NotRanges == None \notin Ranges /\ RamRegion \notin Ranges /\ None # RamRegion
BY DEF None, RamRegion, Ranges

\* A window with no buffer in it has the agreement.
LEMMA ShmInvInit == ShmInit => ShmInv
<1> SUFFICES ASSUME ShmInit PROVE ShmInv
  OBVIOUS
<1> USE ShmAssumption, NotRanges DEF ShmInit
<1>1. ShmTypeOK
  BY DEF ShmTypeOK, Slots
<1>2. RegionsDisjoint
  BY DEF RegionsDisjoint
<1>3. RegionsBacked
  BY DEF RegionsBacked, Slots
<1>4. NothingLeaks
  BY DEF NothingLeaks
<1>5. RamUnmapped
  BY DEF RamUnmapped
<1> QED
  BY <1>1, <1>2, <1>3, <1>4, <1>5 DEF ShmInv

\* A new buffer keeps it: its slot had no region and its range meets none.
LEMMA ShmInvRegister ==
    ASSUME ShmInv, NEW n \in Sizes, NEW s \in Slots, NEW r \in Ranges, register(n, s, r)
    PROVE  ShmInv'
<1> USE ShmAssumption, NotRanges
<1>0. /\ s \notin slots /\ s \notin stuck /\ kvm[s] = None /\ mappings[s] = None
      /\ s >= Ram /\ kvm[s] # RamRegion
  BY DEF ShmInv, ShmTypeOK, RegionsDisjoint, RegionsBacked, NothingLeaks, register,
         allocate_slot, Slots
<1>1. /\ kvm' = [kvm EXCEPT ![s] = r] /\ mappings' = [mappings EXCEPT ![s] = r]
      /\ slots' = slots \union {s} /\ allocator' = allocator \union {r} /\ stuck' = stuck
  BY DEF register
<1>2. \A t \in Slots : kvm[t] \in Ranges => Disjoint(r, kvm[t])
  BY DEF ShmInv, NothingLeaks, register, FirstMatch, Fits
<1>3. ShmTypeOK'
  BY <1>1 DEF ShmInv, ShmTypeOK
<1>4. RegionsDisjoint'
  BY <1>0, <1>1, <1>2 DEF ShmInv, ShmTypeOK, RegionsDisjoint, Disjoint, Slots
<1>5. RegionsBacked'
  BY <1>0, <1>1 DEF ShmInv, ShmTypeOK, RegionsBacked
<1>6. NothingLeaks'
  BY <1>0, <1>1 DEF ShmInv, ShmTypeOK, NothingLeaks
<1>7. RamUnmapped'
  BY <1>0, <1>1 DEF ShmInv, ShmTypeOK, RamUnmapped, Slots
<1> QED
  BY <1>3, <1>4, <1>5, <1>6, <1>7 DEF ShmInv

\* Two regions of different slots are different ranges.
LEMMA RegionsDistinct ==
    ASSUME ShmInv, NEW s \in Slots, NEW t \in Slots, s # t, kvm[s] \in Ranges, kvm[t] \in Ranges
    PROVE  kvm[s] # kvm[t]
BY ShmAssumption DEF ShmInv, RegionsDisjoint, Disjoint, Ranges

\* Freeing a buffer keeps it: no other region has its range, so the range and
\* the slot given back belong to nobody else.
LEMMA ShmInvUnregister ==
    ASSUME ShmInv, NEW s \in Slots, unregister(s)
    PROVE  ShmInv'
<1> USE ShmAssumption, NotRanges
<1>1. /\ mappings[s] # None /\ mappings' = [mappings EXCEPT ![s] = None]
      /\ kvm' = [kvm EXCEPT ![s] = None] /\ stuck' = stuck
      /\ slots' = slots \ {s} /\ allocator' = allocator \ {mappings[s]}
  BY DEF unregister, free_range_and_slot
<1>2. s >= Ram /\ kvm[s] = mappings[s] /\ kvm[s] \in Ranges /\ s \notin stuck
  BY <1>1 DEF ShmInv, ShmTypeOK, RegionsBacked, RamUnmapped, Slots
<1>3. ShmTypeOK'
  BY <1>1 DEF ShmInv, ShmTypeOK
<1>4. RegionsDisjoint'
  BY <1>1, <1>2 DEF ShmInv, ShmTypeOK, RegionsDisjoint, Slots
<1>5. RegionsBacked'
  BY <1>1, <1>2 DEF ShmInv, ShmTypeOK, RegionsBacked
<1>6. slots' = {t \in Slots : kvm'[t] # None}
  BY <1>1 DEF ShmInv, ShmTypeOK, NothingLeaks
<1>7. \A t \in Slots : t # s /\ kvm[t] \in Ranges => kvm[t] # kvm[s]
  BY <1>2, RegionsDistinct
<1>8. allocator' = {kvm'[t] : t \in {u \in Slots : kvm'[u] \in Ranges}}
  BY <1>1, <1>2, <1>7 DEF ShmInv, ShmTypeOK, NothingLeaks
<1>9. RamUnmapped'
  BY <1>1, <1>2 DEF ShmInv, ShmTypeOK, RamUnmapped
<1> QED
  BY <1>3, <1>4, <1>5, <1>6, <1>8, <1>9 DEF ShmInv, NothingLeaks

\* A removal KVM refuses keeps it: only the mapping goes.
LEMMA ShmInvUnregisterFails ==
    ASSUME ShmInv, NEW s \in Slots, unregister_fails(s)
    PROVE  ShmInv'
<1> USE ShmAssumption, NotRanges
<1>1. /\ mappings[s] # None /\ mappings' = [mappings EXCEPT ![s] = None]
      /\ stuck' = stuck \union {s} /\ slots' = slots /\ allocator' = allocator /\ kvm' = kvm
  BY DEF unregister_fails
<1>2. s >= Ram /\ kvm[s] # None
  BY <1>1 DEF ShmInv, ShmTypeOK, RegionsBacked, RamUnmapped, Slots
<1>3. ShmTypeOK'
  BY <1>1 DEF ShmInv, ShmTypeOK
<1>4. RegionsDisjoint' /\ NothingLeaks'
  BY <1>1 DEF ShmInv, RegionsDisjoint, NothingLeaks
<1>5. RegionsBacked' /\ RamUnmapped'
  BY <1>1, <1>2 DEF ShmInv, ShmTypeOK, RegionsBacked, RamUnmapped
<1> QED
  BY <1>3, <1>4, <1>5 DEF ShmInv

\* Every call of the manager keeps the agreement.
LEMMA ShmInvNext == ShmInv /\ [ShmNext]_shmVars => ShmInv'
<1> SUFFICES ASSUME ShmInv, [ShmNext]_shmVars PROVE ShmInv'
  OBVIOUS
<1>1. CASE Register
  BY <1>1, ShmInvRegister DEF Register
<1>2. CASE Unregister
  BY <1>2, ShmInvUnregister DEF Unregister
<1>3. CASE UnregisterFails
  BY <1>3, ShmInvUnregisterFails DEF UnregisterFails
<1>4. CASE RegisterFails \/ UNCHANGED shmVars
  BY <1>4 DEF RegisterFails, register_fails, shmVars, ShmInv, ShmTypeOK, RegionsDisjoint,
              RegionsBacked, NothingLeaks, RamUnmapped
<1> QED
  BY <1>1, <1>2, <1>3, <1>4 DEF ShmNext

\* No sequence of allocations and releases, with KVM refusing any of them, makes
\* two regions overlap or takes the slot of a RAM region (register, unregister).
THEOREM RegionsStayDisjoint == ShmSpec => []RegionsDisjoint
BY ShmInvInit, ShmInvNext, PTL DEF ShmSpec, ShmInv

\* A buffer the table holds is where the guest was told it is, and a region with
\* no mapping behind it is one KVM refused to remove (unregister's early return).
THEOREM RegionsStayBacked == ShmSpec => []RegionsBacked
BY ShmInvInit, ShmInvNext, PTL DEF ShmSpec, ShmInv

\* Slots and ranges are lost to refused removals only (free_range_and_slot).
THEOREM OnlyRefusedRemovalsLeak == ShmSpec => []NothingLeaks
BY ShmInvInit, ShmInvNext, PTL DEF ShmSpec, ShmInv

\* Device memory stays whole for every window, every number of RAM regions and every
\* set of buffer sizes, whatever KVM refuses (register, unregister).
THEOREM MemoryStaysIntact == ShmSpec => []MemoryIntact
<1>1. ShmInv => MemoryIntact
  BY DEF ShmInv, MemoryIntact
<1> QED BY <1>1, ShmInvInit, ShmInvNext, PTL DEF ShmSpec

-----------------------------------------------------------------------------
(* The Wayland device *)

\* Ids the device gave to files of the compositor.
Given == (GuestIds + 1) .. (next_vfd_id - 1)

VfdType == [kind : {"absent", "socket", "pipe", "writer", "shm"}, open : BOOLEAN, remote : BOOLEAN,
            polled : BOOLEAN, slot : Slots \union {-1}, inbox : Seq(Items)]
JobType == [id : Ids \union {0}, fds : Seq({"file", "pipe", "writer"}), got : Seq(Nat)]
MessageType == [id : Ids, hup : BOOLEAN, vfds : Seq(Nat), cur : Nat]
CommandType == [op : Ops, id : Ids]

WlTypes ==
    /\ vfd_map \in [Ids -> VfdType] /\ job \in JobType /\ outq \in Seq(CommandType)
    /\ in_queue_pending \in Seq(MessageType)
    /\ next_vfd_id \in Nat /\ next_vfd_id > GuestIds /\ next_vfd_id <= GuestIds + HostIds + 1
    /\ at \in {"poll", "vfds", "drain_in", "drain_vfds", "ended"}
    /\ batch \subseteq Ids /\ known \subseteq Ids /\ inq \in Nat /\ inKick \in BOOLEAN /\ short \in BOOLEAN

\* The message at place k of a vfd's inbox carries files.
Carries(v, k) == Fds(v.inbox[k]) # <<>>

\* The files on their way find ids: one message with files at most, and it fits.
RoomInv ==
    /\ job.fds # <<>> => next_vfd_id + Len(job.fds) <= GuestIds + HostIds + 1
    /\ \A id \in Ids : \A k \in DOMAIN vfd_map[id].inbox : Carries(vfd_map[id], k) =>
         /\ job = NoJob /\ next_vfd_id + Len(Fds(vfd_map[id].inbox[k])) <= GuestIds + HostIds + 1
         /\ \A j \in Ids : \A l \in DOMAIN vfd_map[j].inbox : Carries(vfd_map[j], l) => j = id /\ l = k

\* The vfds of the messages were given out, each for one place of one message, and
\* only the oldest message is partly announced.
PendInv ==
    /\ \A k \in DOMAIN job.got : job.got[k] \in Given
    /\ \A k, l \in DOMAIN job.got : job.got[k] = job.got[l] => k = l
    /\ \A i \in DOMAIN in_queue_pending :
         /\ in_queue_pending[i].cur <= Len(in_queue_pending[i].vfds)
         /\ in_queue_pending[i].cur > 0 => i = 1
         /\ \A k \in DOMAIN in_queue_pending[i].vfds :
              /\ in_queue_pending[i].vfds[k] \in Given
              /\ \A l \in DOMAIN job.got : in_queue_pending[i].vfds[k] # job.got[l]
              /\ \A j \in DOMAIN in_queue_pending : \A l \in DOMAIN in_queue_pending[j].vfds :
                   in_queue_pending[i].vfds[k] = in_queue_pending[j].vfds[l] => i = j /\ k = l

\* The commands in flight are for different vfds, and a new one is for a free id.
OutInv ==
    /\ \A i, j \in DOMAIN outq : outq[i].id = outq[j].id => i = j
    /\ \A i \in DOMAIN outq : outq[i].op \in {"NEW", "NEW_DMABUF", "NEW_CTX", "NEW_PIPE"} =>
          outq[i].id \in Guest \ known

\* The vfds the driver knows or closes, those it is still to hear of and those it will
\* never hear of are apart, and together they are the vfds of the device.
Lost == orphans \union skipped
TableInv ==
    /\ VfdsKnown
    /\ Lost \subseteq Given /\ Unannounced \subseteq Given
    /\ known \intersect Closing = {}
    /\ (known \union Closing) \intersect (Unannounced \union Lost) = {}
    /\ Unannounced \intersect Lost = {}
    /\ known \union Closing \subseteq Guest \union Given

\* A buffer belongs to one vfd.
OwnInv ==
    /\ \A id \in Ids : vfd_map[id].kind = "shm" => vfd_map[id].slot \in Slots /\ mappings[vfd_map[id].slot] # None
    /\ \A s \in Slots : mappings[s] # None => \E id \in Ids : vfd_map[id].kind = "shm" /\ vfd_map[id].slot = s
    /\ \A i, j \in Ids : vfd_map[i].kind = "shm" /\ vfd_map[j].kind = "shm" /\ vfd_map[i].slot = vfd_map[j].slot => i = j

\* Input that is pending comes from a vfd in the map, or its vfd has been closed.
HupInv ==
    /\ HupLast
    /\ \A i \in DOMAIN in_queue_pending : in_queue_pending[i].id \in stale \/ Present(in_queue_pending[i].id)
    /\ \A id \in Ids : vfd_map[id].open => Present(id)
    /\ job # NoJob => at = "vfds" /\ job.id \in Ids /\ vfd_map[job.id].open /\ vfd_map[job.id].polled

SleepInv == at = "poll" => in_queue_pending = <<>> \/ inq = 0 \/ inKick \/ short

WlInv == ShmInv /\ WlTypes /\ RoomInv /\ PendInv /\ OutInv /\ TableInv /\ OwnInv /\ HupInv /\ SleepInv

\* The device begins with empty tables.
LEMMA WlBegins == WlInit => WlInv
<1> SUFFICES ASSUME WlInit PROVE WlInv
  OBVIOUS
<1> USE WlAssumption
<1>1. /\ ShmInit /\ vfd_map = [id \in Ids |-> Absent] /\ next_vfd_id = GuestIds + 1 /\ in_queue_pending = <<>>
      /\ at = "poll" /\ batch = {} /\ job = NoJob /\ outq = <<>> /\ inq = 0 /\ inKick = FALSE
      /\ known = {} /\ orphans = {} /\ skipped = {} /\ stale = {} /\ short = FALSE
  BY DEF WlInit
<1>2. ShmInv
  BY <1>1, ShmInvInit
<1>3. Absent \in VfdType /\ Absent.kind = "absent" /\ Absent.inbox = <<>> /\ Absent.open = FALSE
  BY DEF Absent, Vfd, VfdType
<1>4. NoJob \in JobType /\ NoJob.fds = <<>> /\ NoJob.got = <<>>
  BY DEF NoJob, JobType
<1>5. WlTypes
  <2>1. vfd_map \in [Ids -> VfdType] /\ job \in JobType
    BY <1>1, <1>3, <1>4
  <2>2. outq \in Seq(CommandType) /\ in_queue_pending \in Seq(MessageType)
    BY <1>1
  <2>3. next_vfd_id \in Nat /\ next_vfd_id > GuestIds /\ next_vfd_id <= GuestIds + HostIds + 1 /\ inq \in Nat
    BY <1>1
  <2> QED BY <1>1, <2>1, <2>2, <2>3, Zenon DEF WlTypes
<1>6. RoomInv
  BY <1>1, <1>3, <1>4 DEF RoomInv
<1>7. PendInv
  BY <1>1, <1>4 DEF PendInv
<1>8. OutInv
  BY <1>1 DEF OutInv
<1>9. TableInv
  <2>1. Closing = {} /\ Unannounced = {} /\ Lost = {}
    BY <1>1, <1>4 DEF Closing, Unannounced, Lost, Range
  <2>2. VfdsKnown
    BY <1>1, <1>3, <2>1 DEF VfdsKnown, Present
  <2> QED BY <1>1, <2>1, <2>2 DEF TableInv
<1>10. OwnInv
  <2>1. \A s \in Slots : mappings[s] = None
    BY <1>1 DEF ShmInit
  <2> QED BY <1>1, <1>3, <2>1 DEF OwnInv
<1>11. HupInv
  BY <1>1, <1>3 DEF HupInv, HupLast
<1>12. SleepInv
  BY <1>1 DEF SleepInv
<1> QED BY <1>2, <1>5, <1>6, <1>7, <1>8, <1>9, <1>10, <1>11, <1>12 DEF WlInv

\* What a vfd in the map is made of.
LEMMA VfdFields ==
  ASSUME WlTypes, NEW id \in Ids
  PROVE  /\ vfd_map[id] \in VfdType /\ vfd_map[id].inbox \in Seq(Items)
         /\ vfd_map[id].open \in BOOLEAN /\ vfd_map[id].polled \in BOOLEAN /\ vfd_map[id].remote \in BOOLEAN
         /\ vfd_map[id].slot \in Slots \union {-1} /\ vfd_map[id].kind \in {"absent", "socket", "pipe", "writer", "shm"}
<1>1. vfd_map[id] \in VfdType
  BY DEF WlTypes
<1> QED BY <1>1 DEF VfdType

\* What a pending message is made of.
LEMMA MessageFields ==
  ASSUME WlTypes, NEW i \in DOMAIN in_queue_pending
  PROVE  /\ in_queue_pending[i] \in MessageType /\ in_queue_pending[i].id \in Ids
         /\ in_queue_pending[i].hup \in BOOLEAN /\ in_queue_pending[i].cur \in Nat
         /\ in_queue_pending[i].vfds \in Seq(Nat) /\ Len(in_queue_pending[i].vfds) \in Nat
<1>1. in_queue_pending[i] \in MessageType
  BY DEF WlTypes
<1> QED BY <1>1 DEF MessageType

\* Messages that stay where they are keep what is said of them.
LEMMA PendSame ==
  ASSUME PendInv, UNCHANGED <<in_queue_pending, job, next_vfd_id>>
  PROVE  PendInv' /\ Unannounced' = Unannounced /\ Given' = Given
<1>1. in_queue_pending' = in_queue_pending /\ job' = job /\ Given' = Given
  BY DEF Given
<1>2. Unannounced' = Unannounced
  BY <1>1 DEF Unannounced
<1>3. PendInv'
  BY <1>1 DEF PendInv
<1> QED BY <1>1, <1>2, <1>3

\* An inbox that stays, loses its first item or is emptied leaves the files on their
\* way with enough ids.
LEMMA RoomShrinks ==
  ASSUME WlTypes, RoomInv, UNCHANGED <<job, next_vfd_id>>,
         \A id \in Ids : \/ vfd_map'[id].inbox = vfd_map[id].inbox
                         \/ vfd_map'[id].inbox = <<>>
                         \/ vfd_map[id].inbox # <<>> /\ vfd_map'[id].inbox = Tail(vfd_map[id].inbox)
  PROVE  RoomInv'
<1> DEFINE before(id, k) == IF vfd_map'[id].inbox = vfd_map[id].inbox THEN k ELSE k + 1
<1>1. ASSUME NEW id \in Ids, NEW k \in DOMAIN vfd_map'[id].inbox
      PROVE  /\ before(id, k) \in DOMAIN vfd_map[id].inbox /\ k \in Nat
             /\ vfd_map'[id].inbox[k] = vfd_map[id].inbox[before(id, k)]
  <2>1. vfd_map[id].inbox \in Seq(Items)
    BY VfdFields
  <2>2. CASE vfd_map'[id].inbox = vfd_map[id].inbox
    BY <2>1, <2>2
  <2>3. CASE vfd_map'[id].inbox # vfd_map[id].inbox
    <3>1. vfd_map[id].inbox # <<>> /\ vfd_map'[id].inbox = Tail(vfd_map[id].inbox)
      BY <1>1, <2>3
    <3>2. before(id, k) = k + 1
      BY <2>3
    <3> DEFINE s == vfd_map[id].inbox
    <3> HIDE DEF s
    <3>3. s \in Seq(Items) /\ s # <<>> /\ vfd_map'[id].inbox = Tail(s) /\ k \in DOMAIN Tail(s)
      BY <1>1, <2>1, <3>1 DEF s
    <3>4. k + 1 \in DOMAIN s /\ Tail(s)[k] = s[k + 1] /\ k \in Nat
      BY <3>3
    <3> QED BY <3>2, <3>3, <3>4 DEF s
  <2> QED BY <2>2, <2>3
<1> HIDE DEF before
<1>2. ASSUME NEW id \in Ids, NEW k \in DOMAIN vfd_map'[id].inbox, Carries(vfd_map[id], k)'
      PROVE  /\ job' = NoJob /\ next_vfd_id' + Len(Fds(vfd_map'[id].inbox[k])) <= GuestIds + HostIds + 1
             /\ \A j \in Ids : \A l \in DOMAIN vfd_map'[j].inbox : Carries(vfd_map[j], l)' => j = id /\ l = k
  <2>1. Carries(vfd_map[id], before(id, k)) /\ before(id, k) \in DOMAIN vfd_map[id].inbox
    BY <1>1, <1>2 DEF Carries
  <2>2. /\ job = NoJob /\ next_vfd_id + Len(Fds(vfd_map[id].inbox[before(id, k)])) <= GuestIds + HostIds + 1
        /\ \A j \in Ids : \A l \in DOMAIN vfd_map[j].inbox : Carries(vfd_map[j], l) => j = id /\ l = before(id, k)
    BY <2>1 DEF RoomInv
  <2>3. ASSUME NEW j \in Ids, NEW l \in DOMAIN vfd_map'[j].inbox, Carries(vfd_map[j], l)'
        PROVE  j = id /\ l = k
    <3>1. Carries(vfd_map[j], before(j, l)) /\ before(j, l) \in DOMAIN vfd_map[j].inbox
      BY <1>1, <2>3 DEF Carries
    <3>2. j = id /\ before(j, l) = before(id, k)
      BY <2>2, <3>1
    <3>3. k \in Nat /\ l \in Nat
      BY <1>1, <2>3
    <3> QED BY <3>2, <3>3 DEF before
  <2>4. next_vfd_id' + Len(Fds(vfd_map'[id].inbox[k])) <= GuestIds + HostIds + 1
    BY <1>1, <2>2
  <2> QED BY <2>2, <2>3, <2>4
<1>3. job'.fds # <<>> => next_vfd_id' + Len(job'.fds) <= GuestIds + HostIds + 1
  BY DEF RoomInv
<1> QED BY <1>2, <1>3 DEF RoomInv

\* The shared memory mapper keeps its agreement while it is left alone.
LEMMA ShmSame == ASSUME ShmInv, UNCHANGED shmVars PROVE ShmInv' /\ mappings' = mappings
<1>1. mappings' = mappings
  BY DEF shmVars
<1> QED BY <1>1, ShmInvNext

\* Tables that stay as they are keep what is said of them.
LEMMA TableSame ==
  ASSUME TableInv, PendInv, UNCHANGED <<in_queue_pending, job, next_vfd_id, outq, known, orphans, skipped>>,
         DOMAIN vfd_map' = DOMAIN vfd_map, \A id \in DOMAIN vfd_map : vfd_map'[id].kind = vfd_map[id].kind
  PROVE  TableInv'
<1>1. Unannounced' = Unannounced /\ Given' = Given
  BY PendSame
<1>2. Closing' = Closing /\ Lost' = Lost /\ known' = known
  BY DEF Closing, Lost
<1>3. VfdsKnown'
  <2>1. \A id \in DOMAIN vfd_map : Present(id)' <=> Present(id)
    BY DEF Present
  <2>2. (known \union Closing \union Unannounced \union orphans \union skipped)'
          = known \union Closing \union Unannounced \union orphans \union skipped
    BY <1>1, <1>2
  <2> QED BY <2>1, <2>2 DEF TableInv, VfdsKnown
<1> QED BY <1>1, <1>2, <1>3 DEF TableInv

\* A step that moves the loop, or posts a chain, and leaves the tables alone.
LEMMA LoopKeeps ==
  ASSUME WlInv,
         UNCHANGED <<vfd_map, next_vfd_id, in_queue_pending, job, outq, known, orphans, skipped, stale, shmVars>>,
         at' \in {"poll", "vfds", "drain_in", "drain_vfds", "ended"}, batch' \subseteq Ids, inq' \in Nat,
         inKick' \in BOOLEAN, short' \in BOOLEAN, SleepInv', job # NoJob => at' = "vfds"
  PROVE  WlInv'
<1>1. ShmInv' /\ mappings' = mappings
  BY ShmSame DEF WlInv
<1>2. WlTypes'
  BY DEF WlInv, WlTypes
<1>3. RoomInv'
  <2>1. \A id \in Ids : vfd_map'[id].inbox = vfd_map[id].inbox
    OBVIOUS
  <2> QED BY <2>1, RoomShrinks DEF WlInv
<1>4. PendInv'
  BY PendSame DEF WlInv
<1>5. OutInv'
  BY DEF WlInv, OutInv
<1>6. TableInv'
  BY TableSame DEF WlInv
<1>7. OwnInv'
  BY <1>1 DEF WlInv, OwnInv
<1>8. HupInv'
  BY DEF WlInv, HupInv, HupLast, Present
<1> QED BY <1>1, <1>2, <1>3, <1>4, <1>5, <1>6, <1>7, <1>8 DEF WlInv

\* The steps of the loop between its handlers, and the driver posting a chain.
LEMMA QuietKeeps ==
  ASSUME WlInv, PostIn \/ process_poll_events \/ vfds_done \/ in_vq_ready \/ drained
  PROVE  WlInv'
<1>0. /\ inq \in Nat /\ inKick \in BOOLEAN /\ short \in BOOLEAN /\ batch \subseteq Ids
      /\ at \in {"poll", "vfds", "drain_in", "drain_vfds", "ended"}
      /\ job # NoJob => at = "vfds"
      /\ at = "poll" => in_queue_pending = <<>> \/ inq = 0 \/ inKick \/ short
  BY DEF WlInv, WlTypes, HupInv, SleepInv
<1>1. CASE PostIn
  <2>1. /\ UNCHANGED <<vfd_map, next_vfd_id, in_queue_pending, job, outq, known, orphans, skipped, stale, shmVars>>
        /\ UNCHANGED <<at, batch, short>> /\ inq' = inq + 1 /\ inKick' = TRUE
    BY <1>1 DEF PostIn, ghosts
  <2>2. inq' \in Nat
    BY <1>0, <2>1
  <2>3. SleepInv'
    BY <2>1 DEF SleepInv
  <2> QED BY <1>0, <2>1, <2>2, <2>3, LoopKeeps
<1>2. CASE process_poll_events
  <2>1. /\ UNCHANGED <<vfd_map, next_vfd_id, in_queue_pending, job, outq, known, orphans, skipped, stale, shmVars>>
        /\ UNCHANGED <<inq, inKick, short>> /\ at' = "vfds" /\ batch' = Ready
    BY <1>2 DEF process_poll_events, ghosts, queues
  <2>2. batch' \subseteq Ids
    BY <2>1 DEF Ready
  <2>3. SleepInv'
    BY <2>1 DEF SleepInv
  <2> QED BY <1>0, <2>1, <2>2, <2>3, LoopKeeps
<1>3. CASE vfds_done
  <2>1. /\ UNCHANGED <<vfd_map, next_vfd_id, in_queue_pending, job, outq, known, orphans, skipped, stale, shmVars>>
        /\ UNCHANGED <<batch, inq, inKick, short>> /\ at' = "drain_vfds" /\ job = NoJob
    BY <1>3 DEF vfds_done, ghosts, queues
  <2>2. SleepInv'
    BY <2>1 DEF SleepInv
  <2> QED BY <1>0, <2>1, <2>2, LoopKeeps
<1>4. CASE in_vq_ready
  <2>1. /\ UNCHANGED <<vfd_map, next_vfd_id, in_queue_pending, job, outq, known, orphans, skipped, stale, shmVars>>
        /\ UNCHANGED <<batch, inq, short>> /\ at' = "drain_in" /\ at = "poll" /\ inKick' = FALSE
    BY <1>4 DEF in_vq_ready, ghosts
  <2>2. SleepInv'
    BY <2>1 DEF SleepInv
  <2> QED BY <1>0, <2>1, <2>2, LoopKeeps, Zenon
<1>5. CASE drained
  <2>1. /\ UNCHANGED <<vfd_map, next_vfd_id, in_queue_pending, job, outq, known, orphans, skipped, stale, shmVars>>
        /\ UNCHANGED <<batch, inq, inKick>> /\ at' = "poll" /\ at # "vfds" /\ short' = FALSE
        /\ in_queue_pending = <<>> \/ inq = 0
    BY <1>5 DEF drained, queues
  <2>2. SleepInv'
    BY <2>1 DEF SleepInv
  <2> QED BY <1>0, <2>1, <2>2, LoopKeeps, Zenon
<1> QED BY <1>1, <1>2, <1>3, <1>4, <1>5

\* A command of the driver is for an id no other command is for.
LEMMA SubmitKeeps == ASSUME WlInv, NEW op \in Ops, NEW id \in Ids, Submit(op, id) PROVE WlInv'
<1> DEFINE cmd == [op |-> op, id |-> id]
           n == Len(outq)
<1>1. /\ \A i \in DOMAIN outq : outq[i].id # id
      /\ outq' = Append(outq, cmd)
      /\ UNCHANGED <<vfd_map, next_vfd_id, in_queue_pending, job, orphans, skipped, stale, shmVars>>
      /\ UNCHANGED <<at, batch, inq, inKick, short>>
      /\ \/ op \in {"NEW", "NEW_DMABUF", "NEW_CTX", "NEW_PIPE"} /\ id \in Guest \ known /\ UNCHANGED known
         \/ op = "SEND" /\ id \in known /\ UNCHANGED known
         \/ op = "CLOSE" /\ id \in known /\ known' = known \ {id}
  BY DEF Submit
<1>2. cmd \in CommandType /\ cmd.op = op /\ cmd.id = id
  BY DEF CommandType
<1> HIDE DEF cmd
<1>3. /\ outq' \in Seq(CommandType) /\ outq'[n + 1] = cmd /\ n \in Nat
      /\ DOMAIN outq' = 1 .. n + 1 /\ DOMAIN outq = 1 .. n
      /\ \A i \in 1 .. n : outq'[i] = outq[i]
  BY <1>1, <1>2 DEF WlInv, WlTypes
<1> HIDE DEF n
<1>4. \A i \in 1 .. n + 1 : i \in 1 .. n \/ i = n + 1
  BY <1>3
<1>5. ShmInv' /\ mappings' = mappings
  BY <1>1, ShmSame DEF WlInv
<1>6. WlTypes'
  BY <1>1, <1>3, Zenon DEF WlInv, WlTypes
<1>7. RoomInv'
  <2>1. \A i \in Ids : vfd_map'[i].inbox = vfd_map[i].inbox
    BY <1>1, Zenon
  <2> QED BY <1>1, <2>1, RoomShrinks, Zenon DEF WlInv
<1>8. PendInv' /\ Unannounced' = Unannounced /\ Given' = Given
  BY <1>1, PendSame DEF WlInv
<1>9. OutInv'
  <2>1. known' \subseteq known
    BY <1>1
  <2>2. ASSUME NEW i \in 1 .. n + 1, NEW j \in 1 .. n + 1, outq'[i].id = outq'[j].id PROVE i = j
    <3>1. CASE i \in 1 .. n /\ j \in 1 .. n
      BY <1>3, <2>2, <3>1, Zenon DEF WlInv, OutInv
    <3>2. CASE i = n + 1 /\ j \in 1 .. n
      BY <1>1, <1>2, <1>3, <2>2, <3>2, Zenon
    <3>3. CASE j = n + 1 /\ i \in 1 .. n
      BY <1>1, <1>2, <1>3, <2>2, <3>3
    <3> QED BY <1>4, <3>1, <3>2, <3>3
  <2>3. ASSUME NEW i \in 1 .. n + 1, outq'[i].op \in {"NEW", "NEW_DMABUF", "NEW_CTX", "NEW_PIPE"}
        PROVE  outq'[i].id \in Guest \ known'
    <3>1. CASE i \in 1 .. n
      <4>1. OutInv
        BY Zenon DEF WlInv
      <4> QED BY <1>3, <2>1, <2>3, <3>1, <4>1 DEF OutInv
    <3>2. CASE i = n + 1
      BY <1>1, <1>2, <1>3, <2>1, <2>3, <3>2
    <3> QED BY <1>4, <3>1, <3>2
  <2> QED BY <1>3, <2>2, <2>3 DEF OutInv
<1>10. TableInv'
  <2>1. Closing' = Closing \union (IF op = "CLOSE" THEN {id} ELSE {})
    <3>1. ASSUME NEW x PROVE x \in Closing' <=> \E i \in 1 .. n + 1 : outq'[i].op = "CLOSE" /\ outq'[i].id = x
      BY <1>3 DEF Closing
    <3>2. ASSUME NEW x PROVE x \in Closing <=> \E i \in 1 .. n : outq[i].op = "CLOSE" /\ outq[i].id = x
      BY <1>3 DEF Closing
    <3>3. n + 1 \in 1 .. n + 1 /\ \A i \in 1 .. n : i \in 1 .. n + 1
      BY <1>3
    <3>4. ASSUME NEW x PROVE x \in Closing' <=> x \in Closing \/ (op = "CLOSE" /\ x = id)
      BY <1>2, <1>3, <1>4, <3>1, <3>2, <3>3
    <3> QED BY <3>4
  <2>2. known' \union Closing' = known \union Closing /\ known' \subseteq known /\ known' \intersect Closing' = {}
    BY <1>1, <2>1 DEF WlInv, TableInv
  <2>3. Lost' = Lost /\ orphans' = orphans /\ skipped' = skipped
    BY <1>1 DEF Lost
  <2>4. VfdsKnown'
    <3>1. (known \union Closing \union Unannounced \union orphans \union skipped)'
            = known \union Closing \union Unannounced \union orphans \union skipped
      BY <1>8, <2>2, <2>3
    <3>2. vfd_map' = vfd_map /\ \A i \in DOMAIN vfd_map : Present(i)' <=> Present(i)
      BY <1>1 DEF Present
    <3> QED BY <3>1, <3>2 DEF WlInv, TableInv, VfdsKnown
  <2> QED BY <1>8, <2>2, <2>3, <2>4 DEF WlInv, TableInv
<1>11. OwnInv'
  BY <1>1, <1>5, Zenon DEF WlInv, OwnInv
<1>12. HupInv'
  BY <1>1 DEF WlInv, HupInv, HupLast, Present
<1>13. SleepInv'
  BY <1>1 DEF WlInv, SleepInv
<1> QED BY <1>5, <1>6, <1>7, <1>8, <1>9, <1>10, <1>11, <1>12, <1>13 DEF WlInv

\* A vfd that keeps its kind and its slot keeps its buffer.
LEMMA OwnSame ==
  ASSUME WlTypes, OwnInv, mappings' = mappings,
         \A id \in Ids : vfd_map'[id].kind = vfd_map[id].kind /\ vfd_map'[id].slot = vfd_map[id].slot
  PROVE  OwnInv'
BY DEF OwnInv

\* The compositor writes to a vfd.
LEMMA PeerSendKeeps == ASSUME WlInv, NEW id \in Ids, NEW item \in Items, PeerSend(id, item) PROVE WlInv'
<1> DEFINE s == vfd_map[id].inbox
           n == Len(s)
<1>1. /\ vfd_map' = [vfd_map EXCEPT ![id].inbox = Append(s, item)]
      /\ UNCHANGED <<next_vfd_id, in_queue_pending, job, outq, known, orphans, skipped, stale, shmVars>>
      /\ UNCHANGED <<at, batch, inq, inKick, short>>
      /\ Fds(item) # <<>> =>
            /\ job = NoJob /\ next_vfd_id + Len(Fds(item)) - 1 <= GuestIds + HostIds
            /\ \A i \in Ids : \A k \in DOMAIN vfd_map[i].inbox : Fds(vfd_map[i].inbox[k]) = <<>>
  BY DEF PeerSend, ghosts, queues
<1>2. WlTypes /\ vfd_map \in [Ids -> VfdType] /\ next_vfd_id \in Nat
  BY DEF WlInv, WlTypes
<1>3. s \in Seq(Items) /\ n \in Nat /\ DOMAIN s = 1 .. n
  BY <1>2, VfdFields
<1>4. /\ Append(s, item) \in Seq(Items) /\ DOMAIN Append(s, item) = 1 .. n + 1 /\ Append(s, item)[n + 1] = item
      /\ \A k \in 1 .. n : Append(s, item)[k] = s[k]
  BY <1>3
<1> DEFINE longer == Append(s, item)
<1> HIDE DEF longer
<1>5. vfd_map' = [vfd_map EXCEPT ![id].inbox = longer]
  BY <1>1 DEF longer
<1>6. /\ vfd_map'[id].inbox = longer
      /\ \A i \in Ids : i # id => vfd_map'[i] = vfd_map[i]
      /\ \A i \in Ids : /\ vfd_map'[i].kind = vfd_map[i].kind /\ vfd_map'[i].slot = vfd_map[i].slot
                        /\ vfd_map'[i].open = vfd_map[i].open /\ vfd_map'[i].polled = vfd_map[i].polled
      /\ DOMAIN vfd_map' = Ids /\ DOMAIN vfd_map = Ids
  BY <1>2, <1>5 DEF VfdType
<1>7. vfd_map' \in [Ids -> VfdType]
  <2>1. longer \in Seq(Items)
    BY <1>4 DEF longer
  <2>2. [vfd_map[id] EXCEPT !.inbox = longer] \in VfdType
    BY <1>2, <2>1, Zenon DEF VfdType
  <2> QED BY <1>2, <1>5, <2>2
<1>8. WlTypes'
  BY <1>1, <1>7 DEF WlInv, WlTypes
<1>9. ShmInv' /\ mappings' = mappings
  BY <1>1, ShmSame DEF WlInv
<1>10. RoomInv'
  <2> HIDE DEF s, n
  <2>1. /\ DOMAIN vfd_map'[id].inbox = 1 .. n + 1 /\ DOMAIN vfd_map[id].inbox = 1 .. n
        /\ vfd_map'[id].inbox[n + 1] = item
        /\ \A k \in 1 .. n : vfd_map'[id].inbox[k] = vfd_map[id].inbox[k]
    BY <1>3, <1>4, <1>6 DEF longer, s
  <2>2. \A k \in 1 .. n + 1 : k \in 1 .. n \/ k = n + 1
    BY <1>3
  <2>3. job'.fds # <<>> => next_vfd_id' + Len(job'.fds) <= GuestIds + HostIds + 1
    BY <1>1 DEF WlInv, RoomInv
  <2>4. ASSUME NEW i \in Ids, NEW k \in DOMAIN vfd_map'[i].inbox, ~(i = id /\ k = n + 1)
        PROVE  k \in DOMAIN vfd_map[i].inbox /\ vfd_map'[i].inbox[k] = vfd_map[i].inbox[k]
    BY <1>6, <2>1, <2>2, <2>4, Zenon
  <2>5. CASE Fds(item) = <<>>
    <3>1. ASSUME NEW i \in Ids, NEW k \in DOMAIN vfd_map'[i].inbox, Carries(vfd_map[i], k)'
          PROVE  /\ k \in DOMAIN vfd_map[i].inbox /\ vfd_map'[i].inbox[k] = vfd_map[i].inbox[k]
                 /\ Carries(vfd_map[i], k)
      <4>1. ~(i = id /\ k = n + 1)
        BY <2>1, <2>5, <3>1 DEF Carries
      <4> QED BY <2>4, <3>1, <4>1 DEF Carries
    <3>2. ASSUME NEW i \in Ids, NEW k \in DOMAIN vfd_map'[i].inbox, Carries(vfd_map[i], k)'
          PROVE  /\ job' = NoJob /\ next_vfd_id' + Len(Fds(vfd_map'[i].inbox[k])) <= GuestIds + HostIds + 1
                 /\ \A j \in Ids : \A l \in DOMAIN vfd_map'[j].inbox : Carries(vfd_map[j], l)' => j = i /\ l = k
      <4>1. /\ k \in DOMAIN vfd_map[i].inbox /\ vfd_map'[i].inbox[k] = vfd_map[i].inbox[k]
            /\ Carries(vfd_map[i], k)
        BY <3>1, <3>2
      <4>2. /\ job = NoJob /\ next_vfd_id + Len(Fds(vfd_map[i].inbox[k])) <= GuestIds + HostIds + 1
            /\ \A j \in Ids : \A l \in DOMAIN vfd_map[j].inbox : Carries(vfd_map[j], l) => j = i /\ l = k
        BY <4>1 DEF WlInv, RoomInv
      <4> QED BY <1>1, <3>1, <4>1, <4>2
    <3> QED BY <2>3, <3>2 DEF RoomInv
  <2>6. CASE Fds(item) # <<>>
    <3>1. ASSUME NEW i \in Ids, NEW k \in DOMAIN vfd_map'[i].inbox, Carries(vfd_map[i], k)'
          PROVE  i = id /\ k = n + 1
      BY <1>1, <2>4, <2>6, <3>1 DEF Carries
    <3>2. next_vfd_id + Len(Fds(item)) <= GuestIds + HostIds + 1
      <4>1. Len(Fds(item)) \in Nat
        BY DEF Fds
      <4> QED BY <1>1, <1>2, <2>6, <4>1, WlAssumption
    <3>3. vfd_map'[id].inbox[n + 1] = item /\ job' = NoJob /\ next_vfd_id' = next_vfd_id
      BY <1>1, <2>1, <2>6, Zenon
    <3> QED BY <2>3, <3>1, <3>2, <3>3 DEF RoomInv
  <2> QED BY <2>5, <2>6
<1>11. PendInv'
  BY <1>1, PendSame DEF WlInv
<1>12. OutInv'
  BY <1>1 DEF WlInv, OutInv
<1>13. TableInv'
  BY <1>1, <1>6, TableSame DEF WlInv
<1>14. OwnInv'
  BY <1>2, <1>6, <1>9, OwnSame DEF WlInv
<1>15. HupInv'
  <2>1. \A i \in DOMAIN in_queue_pending : in_queue_pending[i].id \in Ids
    BY <1>2, MessageFields
  <2>2. HupLast'
    BY <1>1, <1>6, <2>1 DEF WlInv, HupInv, HupLast
  <2> QED BY <1>1, <1>6, <2>1, <2>2 DEF WlInv, HupInv, Present
<1>16. SleepInv'
  BY <1>1 DEF WlInv, SleepInv
<1> QED BY <1>8, <1>9, <1>10, <1>11, <1>12, <1>13, <1>14, <1>15, <1>16 DEF WlInv

\* A command that is answered leaves the queue, and with it the list of ids being closed.
LEMMA AnsweredQueue ==
  ASSUME WlInv, NEW op, NEW id, Command(op, id), Answered
  PROVE  /\ op \in Ops /\ id \in Ids /\ at = "poll" /\ job = NoJob
         /\ outq' \in Seq(CommandType)
         /\ Closing' = IF op = "CLOSE" THEN Closing \ {id} ELSE Closing
         /\ op = "CLOSE" => id \in Closing
         /\ op \in {"NEW", "NEW_DMABUF", "NEW_CTX", "NEW_PIPE"} => id \in Guest \ known
         /\ \A i \in DOMAIN outq' : outq'[i].id # id
         /\ \A i, j \in DOMAIN outq' : outq'[i].id = outq'[j].id => i = j
         /\ \A i \in DOMAIN outq' : outq'[i].op \in {"NEW", "NEW_DMABUF", "NEW_CTX", "NEW_PIPE"} =>
               outq'[i].id \in Guest \ known
         /\ UNCHANGED <<next_vfd_id, in_queue_pending, at, batch, job, inq, inKick, orphans, skipped, short>>
<1> DEFINE n == Len(outq)
           c == [op |-> op, id |-> id]
<1>1. outq \in Seq(CommandType)
  BY DEF WlInv, WlTypes
<1>2. outq # <<>> /\ Head(outq) = c /\ at = "poll" /\ outq' = Tail(outq)
  BY DEF Command, Answered
<1>3. c.op = op /\ c.id = id
  OBVIOUS
<1> HIDE DEF c
<1>4. /\ n \in Nat /\ n >= 1 /\ DOMAIN outq = 1 .. n /\ outq[1] = c /\ c \in CommandType
      /\ outq' \in Seq(CommandType) /\ DOMAIN outq' = 1 .. n - 1 /\ \A i \in 1 .. n - 1 : outq'[i] = outq[i + 1]
  BY <1>1, <1>2
<1> HIDE DEF n
<1>5. op \in Ops /\ id \in Ids
  BY <1>3, <1>4 DEF CommandType
<1>6. /\ \A i, j \in 1 .. n : outq[i].id = outq[j].id => i = j
      /\ \A i \in 1 .. n : outq[i].op \in {"NEW", "NEW_DMABUF", "NEW_CTX", "NEW_PIPE"} => outq[i].id \in Guest \ known
  BY <1>4, Zenon DEF WlInv, OutInv
<1>7. 1 \in 1 .. n /\ \A i \in 1 .. n - 1 : i + 1 \in 1 .. n /\ i + 1 # 1
  BY <1>4
<1>8. \A i \in 1 .. n : i = 1 \/ (i - 1 \in 1 .. n - 1 /\ (i - 1) + 1 = i)
  BY <1>4
<1>9. \A i \in 1 .. n - 1 : outq'[i].id # id
  BY <1>3, <1>4, <1>6, <1>7
<1>10. ASSUME NEW i \in 1 .. n - 1, NEW j \in 1 .. n - 1, outq'[i].id = outq'[j].id PROVE i = j
  <2>1. outq[i + 1].id = outq[j + 1].id
    BY <1>4, <1>10
  <2>2. i + 1 = j + 1
    BY <1>6, <1>7, <2>1
  <2> QED BY <2>2
<1>11. ASSUME NEW i \in 1 .. n - 1, outq'[i].op \in {"NEW", "NEW_DMABUF", "NEW_CTX", "NEW_PIPE"}
       PROVE  outq'[i].id \in Guest \ known
  BY <1>4, <1>6, <1>7, <1>11
<1>12. op \in {"NEW", "NEW_DMABUF", "NEW_CTX", "NEW_PIPE"} => id \in Guest \ known
  BY <1>3, <1>4, <1>6, <1>7
<1>13. ASSUME NEW x PROVE x \in Closing <=> \E i \in 1 .. n : outq[i].op = "CLOSE" /\ outq[i].id = x
  BY <1>4 DEF Closing
<1>14. ASSUME NEW x PROVE x \in Closing' <=> \E i \in 1 .. n - 1 : outq'[i].op = "CLOSE" /\ outq'[i].id = x
  BY <1>4, Zenon DEF Closing
<1>15. op = "CLOSE" => id \in Closing
  BY <1>3, <1>4, <1>7, <1>13
<1>16. ASSUME NEW x PROVE x \in Closing' => x \in Closing /\ x # id
  <2> SUFFICES ASSUME x \in Closing' PROVE x \in Closing /\ x # id
    OBVIOUS
  <2>1. PICK i \in 1 .. n - 1 : outq'[i].op = "CLOSE" /\ outq'[i].id = x
    BY <1>14
  <2> QED BY <1>4, <1>7, <1>9, <1>13, <2>1
<1>17. ASSUME NEW x PROVE x \in Closing /\ ~(op = "CLOSE" /\ x = id) => x \in Closing'
  <2> SUFFICES ASSUME x \in Closing, ~(op = "CLOSE" /\ x = id) PROVE x \in Closing'
    OBVIOUS
  <2>1. PICK i \in 1 .. n : outq[i].op = "CLOSE" /\ outq[i].id = x
    BY <1>13
  <2>2. i # 1
    BY <1>3, <1>4, <2>1
  <2>3. i - 1 \in 1 .. n - 1 /\ outq'[i - 1] = outq[i]
    BY <1>4, <1>8, <2>2
  <2> QED BY <1>14, <2>1, <2>3
<1>18. Closing' = IF op = "CLOSE" THEN Closing \ {id} ELSE Closing
  <2>1. CASE op = "CLOSE"
    <3>1. Closing' = Closing \ {id}
      BY <1>16, <1>17, <2>1
    <3> QED BY <2>1, <3>1
  <2>2. CASE op # "CLOSE"
    <3>1. Closing' = Closing
      BY <1>16, <1>17, <2>2
    <3> QED BY <2>2, <3>1
  <2> QED BY <2>1, <2>2
<1>19. job = NoJob
  BY <1>2 DEF WlInv, HupInv
<1>20. UNCHANGED <<next_vfd_id, in_queue_pending, at, batch, job, inq, inKick, orphans, skipped, short>>
  BY DEF Answered
<1> QED BY <1>2, <1>4, <1>5, <1>9, <1>10, <1>11, <1>12, <1>15, <1>18, <1>19, <1>20, Zenon

\* A new buffer for a free id belongs to it alone.
LEMMA OwnAdded ==
  ASSUME WlInv, NEW n \in Sizes, NEW s \in Slots, NEW r \in Ranges, register(n, s, r),
         NEW id \in Ids, vfd_map[id].kind = "absent", vfd_map' = [vfd_map EXCEPT ![id] = Shm(s)]
  PROVE  ShmInv' /\ OwnInv' /\ Shm(s) \in VfdType
<1>1. ShmInv'
  BY ShmInvRegister DEF WlInv
<1>2. mappings' = [mappings EXCEPT ![s] = r] /\ mappings \in [Slots -> Ranges \union {None}] /\ r # None
  BY NotRanges DEF register, WlInv, ShmInv, ShmTypeOK
<1>3. mappings[s] = None
  <2>1. s \notin slots
    BY DEF register, allocate_slot
  <2>2. kvm[s] = None
    BY <2>1 DEF WlInv, ShmInv, NothingLeaks
  <2>3. CASE s < Ram
    BY <2>3 DEF WlInv, ShmInv, RamUnmapped
  <2>4. CASE ~(s < Ram)
    <3>1. s >= Ram
      BY <2>4, ShmAssumption DEF Slots
    <3> QED BY <2>2, <3>1 DEF WlInv, ShmInv, RegionsBacked
  <2> QED BY <2>3, <2>4
<1>4. Shm(s) = [kind |-> "shm", open |-> FALSE, remote |-> FALSE, polled |-> FALSE, slot |-> s, inbox |-> <<>>]
  BY Zenon DEF Shm, Vfd
<1>5. Shm(s) \in VfdType
  BY <1>4 DEF VfdType
<1>6. /\ vfd_map'[id].kind = "shm" /\ vfd_map'[id].slot = s /\ \A i \in Ids : i # id => vfd_map'[i] = vfd_map[i]
  BY <1>4 DEF WlInv, WlTypes
<1>7. mappings'[s] # None /\ \A u \in Slots : u # s => mappings'[u] = mappings[u]
  BY <1>2, Zenon
<1>8. \A i \in Ids : vfd_map[i].kind = "shm" => vfd_map[i].slot # s
  BY <1>3, Zenon DEF WlInv, OwnInv
<1>9. OwnInv'
  <2>1. \A i \in Ids : vfd_map'[i].kind = "shm" => vfd_map'[i].slot \in Slots /\ mappings'[vfd_map'[i].slot] # None
    BY <1>6, <1>7, <1>8 DEF WlInv, OwnInv
  <2>2. \A u \in Slots : mappings'[u] # None => \E i \in Ids : vfd_map'[i].kind = "shm" /\ vfd_map'[i].slot = u
    BY <1>6, <1>7 DEF WlInv, OwnInv
  <2>3. \A i, j \in Ids : vfd_map'[i].kind = "shm" /\ vfd_map'[j].kind = "shm" /\ vfd_map'[i].slot = vfd_map'[j].slot => i = j
    BY <1>6, <1>8 DEF WlInv, OwnInv
  <2> QED BY <2>1, <2>2, <2>3, ZenonT(30) DEF OwnInv
<1> QED BY <1>1, <1>5, <1>9

\* A vfd without a buffer in the place of a free id changes no buffer.
LEMMA OwnOther ==
  ASSUME WlInv, UNCHANGED shmVars, NEW id \in Ids, vfd_map[id].kind # "shm",
         NEW v, v.kind # "shm", vfd_map' = [vfd_map EXCEPT ![id] = v]
  PROVE  ShmInv' /\ OwnInv'
<1>1. ShmInv' /\ mappings' = mappings
  BY ShmSame DEF WlInv
<1>2. vfd_map'[id] = v /\ \A i \in Ids : i # id => vfd_map'[i] = vfd_map[i]
  BY ZenonT(30) DEF WlInv, WlTypes
<1>3. OwnInv'
  <2>1. ASSUME NEW i \in Ids
        PROVE  /\ vfd_map'[i].kind = "shm" <=> vfd_map[i].kind = "shm"
               /\ vfd_map[i].kind = "shm" => vfd_map'[i] = vfd_map[i]
    <3>1. CASE i = id
      BY <1>2, <3>1
    <3>2. CASE i # id
      BY <1>2, <3>2
    <3> QED BY <3>1, <3>2
  <2> QED BY <1>1, <2>1 DEF WlInv, OwnInv
<1> QED BY <1>1, <1>3

\* A refused command, and the ones that change nothing.
LEMMA RefusedKeeps == ASSUME WlInv, NEW op, NEW id, Command(op, id), Refused, UNCHANGED shmVars, op # "CLOSE" PROVE WlInv'
<1>1. Answered /\ vfd_map' = vfd_map /\ known' = known /\ stale' = stale
  BY DEF Refused
<1>2. /\ outq' \in Seq(CommandType) /\ Closing' = Closing
      /\ \A i, j \in DOMAIN outq' : outq'[i].id = outq'[j].id => i = j
      /\ \A i \in DOMAIN outq' : outq'[i].op \in {"NEW", "NEW_DMABUF", "NEW_CTX", "NEW_PIPE"} =>
            outq'[i].id \in Guest \ known
      /\ UNCHANGED <<next_vfd_id, in_queue_pending, at, batch, job, inq, inKick, orphans, skipped, short>>
  BY <1>1, AnsweredQueue
<1>3. ShmInv' /\ mappings' = mappings
  BY ShmSame DEF WlInv
<1>4. WlTypes'
  BY <1>1, <1>2 DEF WlInv, WlTypes
<1>5. RoomInv'
  <2>1. \A i \in Ids : vfd_map'[i].inbox = vfd_map[i].inbox
    BY <1>1, Zenon
  <2> QED BY <1>2, <2>1, RoomShrinks DEF WlInv
<1>6. PendInv' /\ Unannounced' = Unannounced /\ Given' = Given
  BY <1>2, PendSame, ZenonT(30) DEF WlInv
<1>7. OutInv'
  BY <1>1, <1>2, ZenonT(30) DEF OutInv
<1>8. TableInv'
  <2>1. Lost' = Lost /\ orphans' = orphans /\ skipped' = skipped
    BY <1>2 DEF Lost
  <2>2. VfdsKnown'
    <3>1. (known \union Closing \union Unannounced \union orphans \union skipped)'
            = known \union Closing \union Unannounced \union orphans \union skipped
      BY <1>1, <1>2, <1>6, <2>1
    <3>2. \A i \in DOMAIN vfd_map : Present(i)' <=> Present(i)
      BY <1>1 DEF Present
    <3> QED BY <1>1, <3>1, <3>2 DEF WlInv, TableInv, VfdsKnown
  <2> QED BY <1>1, <1>2, <1>6, <2>1, <2>2 DEF WlInv, TableInv
<1>9. OwnInv'
  BY <1>1, <1>3, Zenon DEF WlInv, OwnInv
<1>10. HupInv'
  BY <1>1, <1>2 DEF WlInv, HupInv, HupLast, Present
<1>11. SleepInv'
  BY <1>2 DEF WlInv, SleepInv
<1> QED BY <1>3, <1>4, <1>5, <1>6, <1>7, <1>8, <1>9, <1>10, <1>11 DEF WlInv

\* The id of a command for a new vfd is free.
LEMMA NewIsFree ==
  ASSUME WlInv, NEW op \in {"NEW", "NEW_DMABUF", "NEW_CTX", "NEW_PIPE"}, NEW id, Command(op, id), Answered
  PROVE  /\ id \in Guest \ known /\ id \in Ids /\ vfd_map[id].kind = "absent"
         /\ id \notin Closing /\ id \notin Unannounced /\ id \notin Lost
<1>1. id \in Ids /\ id \in Guest \ known /\ Closing' = Closing /\ \A i \in DOMAIN outq' : outq'[i].id # id
  BY AnsweredQueue
<1>2. id \notin Closing'
  BY <1>1 DEF Closing
<1>3. id \notin Given
  BY <1>1, WlAssumption DEF Guest, Given
<1>4. id \notin Unannounced /\ id \notin Lost
  BY <1>3 DEF WlInv, TableInv
<1>5. ~Present(id)
  <2>1. id \in DOMAIN vfd_map
    BY <1>1 DEF WlInv, WlTypes
  <2>2. id \notin known \union Closing \union Unannounced \union orphans \union skipped
    BY <1>1, <1>2, <1>4 DEF Lost
  <2> QED BY <2>1, <2>2 DEF WlInv, TableInv, VfdsKnown
<1> QED BY <1>1, <1>2, <1>4, <1>5 DEF Present

\* A new vfd is in both tables at once, and input still pending under its id is old.
LEMMA CreatedKeeps ==
  ASSUME WlInv, NEW op \in {"NEW", "NEW_DMABUF", "NEW_CTX", "NEW_PIPE"}, NEW id, Command(op, id),
         NEW v \in VfdType, v.kind # "absent", v.inbox = <<>>, Created(id, v), ShmInv', OwnInv'
  PROVE  WlInv'
<1>1. Answered /\ vfd_map' = [vfd_map EXCEPT ![id] = v] /\ known' = known \union {id} /\ stale' = stale
  BY Zenon DEF Created
<1>2. /\ outq' \in Seq(CommandType) /\ Closing' = Closing /\ job = NoJob
      /\ \A i \in DOMAIN outq' : outq'[i].id # id
      /\ \A i, j \in DOMAIN outq' : outq'[i].id = outq'[j].id => i = j
      /\ \A i \in DOMAIN outq' : outq'[i].op \in {"NEW", "NEW_DMABUF", "NEW_CTX", "NEW_PIPE"} =>
            outq'[i].id \in Guest \ known
      /\ UNCHANGED <<next_vfd_id, in_queue_pending, at, batch, job, inq, inKick, orphans, skipped, short>>
  BY <1>1, AnsweredQueue
<1>3. /\ id \in Guest \ known /\ id \in Ids /\ vfd_map[id].kind = "absent"
      /\ id \notin Closing /\ id \notin Unannounced /\ id \notin Lost
  BY <1>1, NewIsFree, Zenon
<1>4. WlTypes /\ vfd_map \in [Ids -> VfdType] /\ DOMAIN vfd_map = Ids
  BY Zenon DEF WlInv, WlTypes
<1>5. /\ vfd_map' \in [Ids -> VfdType] /\ DOMAIN vfd_map' = Ids
      /\ vfd_map'[id] = v /\ \A i \in Ids : i # id => vfd_map'[i] = vfd_map[i]
  BY <1>1, <1>3, <1>4, Zenon
<1>6. WlTypes'
  <2>1. known' \subseteq Ids
    BY <1>1, <1>3, Zenon DEF WlInv, WlTypes
  <2> QED BY <1>2, <1>5, <2>1, Zenon DEF WlInv, WlTypes
<1>7. RoomInv'
  <2>1. \A i \in Ids : vfd_map'[i].inbox = vfd_map[i].inbox \/ vfd_map'[i].inbox = <<>>
    BY <1>5
  <2> QED BY <1>2, <1>4, <2>1, RoomShrinks, ZenonT(30) DEF WlInv
<1>8. PendInv' /\ Unannounced' = Unannounced /\ Given' = Given
  BY <1>2, PendSame, Zenon DEF WlInv
<1>9. OutInv'
  BY <1>1, <1>2, Zenon DEF OutInv
<1>10. TableInv'
  <2>1. Lost' = Lost /\ orphans' = orphans /\ skipped' = skipped
    BY <1>2, Zenon DEF Lost
  <2>2. VfdsKnown'
    <3>1. (known \union Closing \union Unannounced \union orphans \union skipped)'
            = known \union Closing \union Unannounced \union orphans \union skipped \union {id}
      BY <1>1, <1>2, <1>8, <2>1
    <3>2. ASSUME NEW i \in Ids PROVE Present(i)' <=> (Present(i) \/ i = id)
      BY <1>5, ZenonT(30) DEF Present
    <3> QED BY <1>4, <1>5, <3>1, <3>2, ZenonT(30) DEF WlInv, TableInv, VfdsKnown
  <2> QED BY <1>1, <1>2, <1>3, <1>8, <2>1, <2>2, ZenonT(30) DEF WlInv, TableInv
<1>11. HupInv'
  <2>1. ASSUME NEW i \in DOMAIN in_queue_pending PROVE in_queue_pending[i].id \in Ids
    BY <1>4, <2>1, MessageFields
  <2>2. ASSUME NEW i \in DOMAIN in_queue_pending, in_queue_pending[i].id = id PROVE id \in stale
    BY <1>3, <2>2, Zenon DEF WlInv, HupInv, Present
  <2>3. HupLast'
    BY <1>1, <1>2, <1>5, <2>1, <2>2, Zenon DEF WlInv, HupInv, HupLast
  <2>4. \A i \in DOMAIN in_queue_pending : in_queue_pending[i].id \in stale \/ Present(in_queue_pending[i].id)'
    BY <1>2, <1>5, <2>1, <2>2, Zenon DEF WlInv, HupInv, Present
  <2>5. \A i \in Ids : vfd_map'[i].open => Present(i)'
    BY <1>5, Zenon DEF WlInv, HupInv, Present
  <2> QED BY <1>1, <1>2, <2>3, <2>4, <2>5, Zenon DEF HupInv, Present
<1>12. SleepInv'
  BY <1>2 DEF WlInv, SleepInv
<1> QED BY <1>6, <1>7, <1>8, <1>9, <1>10, <1>11, <1>12 DEF WlInv

\* A buffer goes with its vfd, whether or not KVM lets its region go.
LEMMA OwnClosed ==
  ASSUME WlInv, NEW id \in Ids, vfd_map' = [vfd_map EXCEPT ![id] = Absent],
         IF vfd_map[id].kind = "shm"
         THEN unregister(vfd_map[id].slot) \/ unregister_fails(vfd_map[id].slot)
         ELSE UNCHANGED shmVars
  PROVE  ShmInv' /\ OwnInv'
<1>1. Absent.kind = "absent"
  BY DEF Absent, Vfd
<1>2. CASE vfd_map[id].kind # "shm"
  BY <1>1, <1>2, OwnOther, ZenonT(30)
<1>3. CASE vfd_map[id].kind = "shm"
  <2> DEFINE s == vfd_map[id].slot
  <2> HIDE DEF s
  <2>1. s \in Slots /\ (unregister(s) \/ unregister_fails(s))
    BY <1>3 DEF s, WlInv, OwnInv
  <2>2. ShmInv'
    BY <2>1, ShmInvUnregister, ShmInvUnregisterFails DEF WlInv
  <2>3. mappings' = [mappings EXCEPT ![s] = None] /\ mappings \in [Slots -> Ranges \union {None}]
    BY <2>1 DEF unregister, unregister_fails, WlInv, ShmInv, ShmTypeOK
  <2>4. mappings'[s] = None /\ \A u \in Slots : u # s => mappings'[u] = mappings[u]
    BY <2>1, <2>3
  <2>5. vfd_map'[id].kind # "shm" /\ \A i \in Ids : i # id => vfd_map'[i] = vfd_map[i]
    BY <1>1 DEF WlInv, WlTypes
  <2>6. \A i \in Ids : i # id /\ vfd_map[i].kind = "shm" => vfd_map[i].slot # s
    BY <1>3, Zenon DEF s, WlInv, OwnInv
  <2>7. \A i \in Ids : vfd_map'[i].kind = "shm" => vfd_map'[i].slot \in Slots /\ mappings'[vfd_map'[i].slot] # None
    BY <2>4, <2>5, <2>6 DEF WlInv, OwnInv
  <2>8. ASSUME NEW u \in Slots, mappings'[u] # None
        PROVE  \E i \in Ids : vfd_map'[i].kind = "shm" /\ vfd_map'[i].slot = u
    <3>1. u # s /\ mappings[u] # None
      BY <2>4, <2>8, ZenonT(30)
    <3>2. PICK i \in Ids : vfd_map[i].kind = "shm" /\ vfd_map[i].slot = u
      BY <3>1 DEF WlInv, OwnInv
    <3>3. i # id
      BY <3>1, <3>2, ZenonT(30) DEF s
    <3> QED BY <2>5, <3>2, <3>3, ZenonT(30)
  <2>9. \A i, j \in Ids : vfd_map'[i].kind = "shm" /\ vfd_map'[j].kind = "shm" /\ vfd_map'[i].slot = vfd_map'[j].slot => i = j
    BY <2>5 DEF WlInv, OwnInv
  <2> QED BY <2>2, <2>7, <2>8, <2>9, Zenon DEF OwnInv
<1> QED BY <1>2, <1>3

\* A close takes the vfd out of the device's table; the driver's is without it already.
LEMMA ClosedKeeps == ASSUME WlInv, NEW id, cmd_close(id) PROVE WlInv'
<1>1. /\ Command("CLOSE", id) /\ Answered /\ vfd_map' = [vfd_map EXCEPT ![id] = Absent] /\ known' = known
      /\ stale' = IF \E i \in DOMAIN in_queue_pending : in_queue_pending[i].id = id THEN stale \union {id} ELSE stale
  BY Zenon DEF cmd_close, Closed
<1>2. /\ outq' \in Seq(CommandType) /\ Closing' = Closing \ {id} /\ id \in Closing /\ job = NoJob /\ id \in Ids
      /\ \A i, j \in DOMAIN outq' : outq'[i].id = outq'[j].id => i = j
      /\ \A i \in DOMAIN outq' : outq'[i].op \in {"NEW", "NEW_DMABUF", "NEW_CTX", "NEW_PIPE"} =>
            outq'[i].id \in Guest \ known
      /\ UNCHANGED <<next_vfd_id, in_queue_pending, at, batch, job, inq, inKick, orphans, skipped, short>>
  BY <1>1, AnsweredQueue, ZenonT(30)
<1>3. id \notin known /\ id \notin Unannounced /\ id \notin Lost
  BY <1>2 DEF WlInv, TableInv
<1>4. WlTypes /\ vfd_map \in [Ids -> VfdType] /\ DOMAIN vfd_map = Ids
  BY DEF WlInv, WlTypes
<1>5. Absent \in VfdType /\ Absent.kind = "absent" /\ Absent.inbox = <<>> /\ Absent.open = FALSE
  BY DEF Absent, Vfd, VfdType
<1>6. /\ vfd_map' \in [Ids -> VfdType] /\ DOMAIN vfd_map' = Ids
      /\ vfd_map'[id] = Absent /\ \A i \in Ids : i # id => vfd_map'[i] = vfd_map[i]
  BY <1>1, <1>2, <1>4, <1>5, Zenon
<1>7. ShmInv' /\ OwnInv'
  BY <1>1, <1>2, OwnClosed, Zenon DEF cmd_close
<1>8. WlTypes'
  BY <1>1, <1>2, <1>6, Zenon DEF WlInv, WlTypes
<1>9. RoomInv'
  <2>1. \A i \in Ids : vfd_map'[i].inbox = vfd_map[i].inbox \/ vfd_map'[i].inbox = <<>>
    BY <1>5, <1>6, Zenon
  <2> QED BY <1>2, <1>4, <2>1, RoomShrinks, Zenon DEF WlInv
<1>10. PendInv' /\ Unannounced' = Unannounced /\ Given' = Given
  BY <1>2, PendSame, Zenon DEF WlInv
<1>11. OutInv'
  BY <1>1, <1>2, Zenon DEF OutInv
<1>12. TableInv'
  <2>1. Lost' = Lost /\ orphans' = orphans /\ skipped' = skipped
    BY <1>2 DEF Lost
  <2>2. VfdsKnown'
    <3>1. (known \union Closing \union Unannounced \union orphans \union skipped)'
            = (known \union Closing \union Unannounced \union orphans \union skipped) \ {id}
      BY <1>1, <1>2, <1>3, <1>10, <2>1 DEF Lost
    <3>2. ASSUME NEW i \in Ids PROVE Present(i)' <=> (Present(i) /\ i # id)
      BY <1>5, <1>6, Zenon DEF Present
    <3> QED BY <1>4, <1>6, <3>1, <3>2, ZenonT(30) DEF WlInv, TableInv, VfdsKnown
  <2> QED BY <1>1, <1>2, <1>10, <2>1, <2>2, Zenon DEF WlInv, TableInv
<1>13. HupInv'
  <2>1. ASSUME NEW i \in DOMAIN in_queue_pending PROVE in_queue_pending[i].id \in Ids
    BY <1>4, <2>1, MessageFields
  <2>2. stale \subseteq stale' /\ \A i \in DOMAIN in_queue_pending : in_queue_pending[i].id = id => id \in stale'
    BY <1>1, Zenon
  <2>3. HupLast'
    BY <1>2, <1>6, <2>1, <2>2, Zenon DEF WlInv, HupInv, HupLast
  <2>4. \A i \in DOMAIN in_queue_pending : in_queue_pending[i].id \in stale' \/ Present(in_queue_pending[i].id)'
    BY <1>2, <1>6, <2>1, <2>2, ZenonT(30) DEF WlInv, HupInv, Present
  <2>5. \A i \in Ids : vfd_map'[i].open => Present(i)'
    BY <1>5, <1>6 DEF WlInv, HupInv, Present
  <2> QED BY <1>2, <2>3, <2>4, <2>5 DEF HupInv, Present
<1>14. SleepInv'
  BY <1>2, Zenon DEF WlInv, SleepInv
<1> QED BY <1>7, <1>8, <1>9, <1>10, <1>11, <1>12, <1>13, <1>14 DEF WlInv

\* What a new socket and a new pipe are made of.
LEMMA NewVfds ==
  /\ Socket \in VfdType /\ Socket.kind = "socket" /\ Socket.inbox = <<>>
  /\ \A k \in {"pipe", "writer"}, b \in BOOLEAN :
       Pipe(k, b) \in VfdType /\ Pipe(k, b).kind = k /\ Pipe(k, b).inbox = <<>>
  /\ \A s \in Slots : Shm(s).kind = "shm" /\ Shm(s).inbox = <<>> /\ Shm(s).open = FALSE
BY DEF Socket, Pipe, Shm, Vfd, VfdType

\* Every command keeps the agreement.
LEMMA OutVqKeeps == ASSUME WlInv, OutVq PROVE WlInv'
<1>1. PICK id \in Ids : \/ cmd_new_alloc(id) \/ cmd_new_dmabuf(id) \/ cmd_new_ctx(id)
                        \/ cmd_new_pipe(id) \/ cmd_send(id) \/ cmd_close(id)
  BY Zenon DEF OutVq
<1>2. ASSUME NEW op \in {"NEW", "NEW_DMABUF"}, Command(op, id), NEW n \in Sizes, NEW s \in Slots, NEW r \in Ranges,
             register(n, s, r), Created(id, Shm(s))
      PROVE  WlInv'
  <2>1. vfd_map' = [vfd_map EXCEPT ![id] = Shm(s)] /\ vfd_map[id].kind = "absent"
    BY <1>2, NewIsFree DEF Created
  <2>2. ShmInv' /\ OwnInv' /\ Shm(s) \in VfdType
    BY <1>2, <2>1, OwnAdded, ZenonT(30)
  <2>3. Shm(s).kind # "absent" /\ Shm(s).inbox = <<>>
    BY NewVfds, ZenonT(30)
  <2> QED BY <1>2, <2>2, <2>3, CreatedKeeps, Zenon
<1>3. ASSUME NEW op \in {"NEW_CTX", "NEW_PIPE"}, Command(op, id), NEW v \in {Socket, Pipe("pipe", TRUE), Pipe("writer", TRUE)},
             Created(id, v), UNCHANGED shmVars
      PROVE  WlInv'
  <2>1. vfd_map' = [vfd_map EXCEPT ![id] = v] /\ vfd_map[id].kind = "absent"
    BY <1>3, NewIsFree DEF Created
  <2>2. v \in VfdType /\ v.kind # "shm" /\ v.kind # "absent" /\ v.inbox = <<>>
    BY <1>3, NewVfds, Zenon
  <2>3. ShmInv' /\ OwnInv'
    BY <1>3, <2>1, <2>2, OwnOther, Zenon
  <2> QED BY <1>3, <2>2, <2>3, CreatedKeeps
<1>4. CASE cmd_new_alloc(id)
  BY <1>2, <1>4, RefusedKeeps DEF cmd_new_alloc, register_fails
<1>5. CASE cmd_new_dmabuf(id)
  BY <1>2, <1>5, RefusedKeeps DEF cmd_new_dmabuf
<1>6. CASE cmd_new_ctx(id)
  BY <1>3, <1>6, RefusedKeeps DEF cmd_new_ctx
<1>7. CASE cmd_new_pipe(id)
  BY <1>3, <1>7, RefusedKeeps, Zenon DEF cmd_new_pipe
<1>8. CASE cmd_send(id)
  BY <1>8, RefusedKeeps DEF cmd_send
<1>9. CASE cmd_close(id)
  BY <1>9, ClosedKeeps
<1> QED BY <1>1, <1>4, <1>5, <1>6, <1>7, <1>8, <1>9
=============================================================================
