--------------------------- MODULE DescriptorList ---------------------------
(***************************************************************************)
(* One half of a chain: the readable or the writeable descriptors          *)
(* (src/io/virtio/vq/chain.rs, DescriptorList).  Only the lengths of the   *)
(* descriptors are kept, in chain order: the code keeps them reversed, so  *)
(* that its current descriptor is the last of the vector; here it is the   *)
(* first of the sequence.                                                  *)
(***************************************************************************)
EXTENDS Integers, Sequences, FiniteSetsExt

Lists == [descriptors : Seq(Nat), offset : Nat, total_size : Nat, consumed_size : Nat]

SumLengths(s) == MapThenSumSet(LAMBDA i : s[i], DOMAIN s)

\* add_descriptor for each descriptor of the table walk.
NewList(lengths) ==
    [descriptors |-> lengths, offset |-> 0,
     total_size |-> SumLengths(lengths), consumed_size |-> 0]

\* Descriptor::remaining of the current descriptor; 0 when there is none.
CurrentRemaining(l) ==
    IF l.descriptors = <<>> \/ l.offset >= Head(l.descriptors) THEN 0
    ELSE Head(l.descriptors) - l.offset

\* Mutant: the last part of a descriptor is not counted as consumed.
inc_uncounted(l, len) ==
    IF l.descriptors = <<>> THEN l
    ELSE IF len >= CurrentRemaining(l)
    THEN [l EXCEPT !.offset = 0, !.descriptors = Tail(@)]
    ELSE [l EXCEPT !.consumed_size = @ + len, !.offset = @ + len]

\* inc moves past len bytes of the current descriptor, and to the next one
\* when that uses it up; it never moves past the end of a descriptor.
inc(l, len) ==
    IF l.descriptors = <<>> THEN l
    ELSE IF len >= CurrentRemaining(l)
    THEN [l EXCEPT !.consumed_size = @ + CurrentRemaining(l),
                   !.offset = 0,
                   !.descriptors = Tail(@)]
    ELSE [l EXCEPT !.consumed_size = @ + len, !.offset = @ + len]

\* clear forgets the descriptors but not the sizes.
clear(l) == [l EXCEPT !.descriptors = <<>>, !.offset = 0]

remaining(l) == l.total_size - l.consumed_size

\* What reads and writes can still reach, as opposed to what remaining says.
Reachable(l) == SumLengths(l.descriptors) - l.offset

=============================================================================
