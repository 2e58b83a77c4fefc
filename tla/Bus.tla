-------------------------------- MODULE Bus --------------------------------
(***************************************************************************)
(* An address space shared by devices, src/io/bus.rs: insert puts a device *)
(* at a range, get_device finds the one an access goes to.  insert looks   *)
(* only at the last device that starts at or before the new range's base,  *)
(* and at the last one that starts at or before its end.                   *)
(***************************************************************************)
EXTENDS Integers

CONSTANTS Bases, Lens      \* what insert may be called with
ASSUME BusAssumption == Bases \subseteq Nat /\ Lens \subseteq Nat

VARIABLE devices           \* the ranges of the devices: [start, len]

Range_(d) == d.start..d.start + d.len - 1

\* Mutant: a device that starts at the address is not found.
first_before_strict(devs, addr, d) ==
    /\ d \in devs /\ d.start < addr
    /\ \A e \in devs : e.start < addr => e.start <= d.start
\* first_before: d is the last device of devs that starts at or before addr.
first_before(devs, addr, d) ==
    /\ d \in devs /\ d.start <= addr
    /\ \A e \in devs : e.start <= addr => e.start <= d.start

\* get_device: the access goes to d, at an offset below its length.
get_device(devs, addr, d) == first_before(devs, addr, d) /\ addr - d.start < d.len

\* Mutant: only the base is looked at.
Accepts_base(devs, base, len) ==
    /\ len # 0
    /\ ~\E d \in devs : get_device(devs, base, d)
\* insert reports no overlap.
Accepts(devs, base, len) ==
    /\ len # 0
    /\ ~\E d \in devs : get_device(devs, base, d)
    /\ ~\E d \in devs : first_before(devs, base + len - 1, d) /\ d.start >= base

Init == devices = {}
insert(base, len) ==
    /\ Accepts(devices, base, len)
    /\ devices' = devices \cup {[start |-> base, len |-> len]}
Next == \E base \in Bases, len \in Lens : insert(base, len)
Spec == Init /\ [][Next]_devices

-----------------------------------------------------------------------------
TypeOK == devices \subseteq [start : Nat, len : Nat \ {0}]

\* "no two devices can overlap in this address space" (the comment on Bus).
NoOverlap == \A d, e \in devices : d = e \/ d.start + d.len <= e.start \/ e.start + e.len <= d.start

\* Every access to an address of a device goes to that device and to no other,
\* although get_device looks at one device only.
RoutedToOwner ==
    \A d \in devices : \A addr \in Range_(d) :
        \A e \in devices : get_device(devices, addr, e) <=> e = d

\* A range that overlaps no device is never refused.
FreeAccepted ==
    \A base \in Bases, len \in Lens \ {0} :
        (\A d \in devices : base + len <= d.start \/ d.start + d.len <= base)
            => Accepts(devices, base, len)
=============================================================================
