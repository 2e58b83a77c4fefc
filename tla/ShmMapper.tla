------------------------------ MODULE ShmMapper ------------------------------
(***************************************************************************)
(* Device shared memory (src/io/shm_mapper.rs): buffers backed by a file   *)
(* descriptor, each given a range of guest-physical pages above RAM and a  *)
(* KVM memory slot.  Four records have to agree about every buffer: the    *)
(* slot bitmap, the address allocator, the mappings table that owns the    *)
(* host mapping, and KVM itself.                                           *)
(*                                                                         *)
(* The address window is Pages pages and RAM occupies the first Ram slots. *)
(* A buffer takes at least one page, so slots beyond Ram + Pages are never *)
(* reached.  The manager serialises its callers with a mutex; one action   *)
(* is one call.                                                            *)
(***************************************************************************)
EXTENDS Integers

CONSTANTS
    Pages,       \* size of the device memory window (WL_SHM_SIZE) in pages
    Ram,         \* guest RAM regions, whose slots are taken from the start
    Sizes,       \* the sizes of buffers asked for, in pages
    KvmFaults    \* TRUE: KVM may refuse to add or to remove a region

ASSUME ShmAssumption ==
    /\ Pages \in Nat /\ Ram \in Nat /\ Sizes \subseteq Nat /\ KvmFaults \in BOOLEAN

VARIABLES
    slots,       \* BitSet of the slots in use
    allocator,   \* ranges handed out by the AddressAllocator
    mappings,    \* HashMap slot -> SharedMemoryMapping, by its guest range
    kvm,         \* the region KVM maps in each slot
    stuck        \* ghost: slots whose region KVM refused to remove

shmVars == <<slots, allocator, mappings, kvm, stuck>>

Slots == 0 .. (Ram + Pages)
Ranges == {r \in [first : 0 .. (Pages - 1), last : 0 .. (Pages - 1)] : r.first <= r.last}
None == [first |-> 0, last |-> -1]
RamRegion == [first |-> -1, last |-> -1]

Disjoint(r, q) == r.last < q.first \/ q.last < r.first

ShmInit ==
    /\ slots = {s \in Slots : s < Ram}
    /\ allocator = {}
    /\ mappings = [s \in Slots |-> None]
    /\ kvm = [s \in Slots |-> IF s < Ram THEN RamRegion ELSE None]
    /\ stuck = {}

-----------------------------------------------------------------------------
\* AddressAllocator.allocate with AllocPolicy::FirstMatch (crate vm-allocator):
\* the lowest range of n pages that meets no range handed out before.
Fits(n, r) == r.last = r.first + n - 1 /\ \A q \in allocator : Disjoint(r, q)
FirstMatch(n, r) ==
    Fits(n, r) /\ \A q \in Ranges : q.first < r.first => ~ Fits(n, q)

\* allocate_slot: the first clear bit.
allocate_slot(s) == s \notin slots /\ \A t \in Slots : t < s => t \in slots

\* A size of 0 never gets here: mmap refuses it in create_memfd and from_file.
register(n, s, r) ==
    /\ n > 0
    /\ FirstMatch(n, r)
    /\ allocate_slot(s)
    /\ slots' = slots \union {s}
    /\ allocator' = allocator \union {r}
    /\ kvm' = [kvm EXCEPT ![s] = r]
    /\ mappings' = [mappings EXCEPT ![s] = r]
    /\ UNCHANGED stuck

\* The window is full, the mapping cannot be made, or KVM refuses the region:
\* then the range and the slot go back (free_range_and_slot).
register_fails(n) ==
    /\ \/ n = 0
       \/ \A r \in Ranges : ~ FirstMatch(n, r)
       \/ KvmFaults
    /\ UNCHANGED shmVars

free_range_and_slot(s) ==
    /\ allocator' = allocator \ {mappings[s]}
    /\ slots' = slots \ {s}

\* Mutant: the buffer is forgotten but its region stays with KVM.
unregister_keeps_region(s) ==
    /\ mappings[s] # None
    /\ mappings' = [mappings EXCEPT ![s] = None]
    /\ free_range_and_slot(s)
    /\ UNCHANGED <<kvm, stuck>>

\* The mapping leaves the table first and is unmapped when unregister returns.
unregister(s) ==
    /\ mappings[s] # None
    /\ mappings' = [mappings EXCEPT ![s] = None]
    /\ kvm' = [kvm EXCEPT ![s] = None]
    /\ free_range_and_slot(s)
    /\ UNCHANGED stuck

\* KVM refuses to remove the region: `?` returns before free_range_and_slot.
unregister_fails(s) ==
    /\ KvmFaults
    /\ mappings[s] # None
    /\ mappings' = [mappings EXCEPT ![s] = None]
    /\ stuck' = stuck \union {s}
    /\ UNCHANGED <<slots, allocator, kvm>>

Register == \E n \in Sizes, s \in Slots, r \in Ranges : register(n, s, r)
RegisterFails == \E n \in Sizes : register_fails(n)
Unregister == \E s \in Slots : unregister(s)
UnregisterFails == \E s \in Slots : unregister_fails(s)

ShmNext == Register \/ RegisterFails \/ Unregister \/ UnregisterFails
ShmSpec == ShmInit /\ [][ShmNext]_shmVars

-----------------------------------------------------------------------------
\* The four records have the types the code gives them.
ShmTypeOK ==
    /\ slots \subseteq Slots
    /\ allocator \subseteq Ranges
    /\ mappings \in [Slots -> Ranges \union {None}]
    /\ kvm \in [Slots -> Ranges \union {None, RamRegion}]
    /\ stuck \subseteq Slots

\* Guest memory stays intact: no two regions of KVM overlap, and the slots of
\* guest RAM keep their regions, whatever fails on the way (allocate_slot,
\* register, unregister).
RegionsDisjoint ==
    /\ \A s \in Slots : s < Ram => kvm[s] = RamRegion
    /\ \A s, t \in Slots :
        (s # t /\ kvm[s] \in Ranges /\ kvm[t] \in Ranges) => Disjoint(kvm[s], kvm[t])

\* A buffer in the mappings table is visible to the guest at its range, and a
\* region without a host mapping behind it is one KVM refused to remove
\* (register, unregister).
RegionsBacked ==
    \A s \in Slots : s >= Ram =>
        /\ mappings[s] # None => kvm[s] = mappings[s]
        /\ (kvm[s] # None /\ mappings[s] = None) <=> s \in stuck

\* Nothing leaks but what KVM kept: the bitmap holds exactly the slots of RAM
\* and of KVM's regions, the allocator exactly their ranges (free_range_and_slot
\* on every path but the early return of unregister).
NothingLeaks ==
    /\ slots = {s \in Slots : kvm[s] # None}
    /\ allocator = {kvm[s] : s \in {t \in Slots : kvm[t] \in Ranges}}

\* Guest memory and the records of it stay whole: regions are apart and backed, and
\* nothing is lost but what KVM kept.
MemoryIntact == RegionsDisjoint /\ RegionsBacked /\ NothingLeaks
=============================================================================
