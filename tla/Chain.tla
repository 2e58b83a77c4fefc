-------------------------------- MODULE Chain --------------------------------
(***************************************************************************)
(* A descriptor chain in the hands of a device (src/io/virtio/vq/chain.rs):*)
(* reads and writes that run across descriptors, the direct accesses       *)
(* through slices, and the return of the chain to the driver by            *)
(* flush_chain or by dropping it.  Bytes are counted, not kept.  A read or *)
(* write takes one step for each descriptor it touches.                    *)
(***************************************************************************)
EXTENDS DescriptorList

CONSTANTS
    Lengths,     \* the descriptor lengths a list may start with
    MaxSize      \* bound on the size of one read, write or copy

ASSUME ChainAssumption ==
    /\ Lengths \subseteq Seq(Nat)
    /\ MaxSize \in Nat

VARIABLES
    readable, writeable,  \* the two DescriptorLists
    head,                 \* Chain::head is Some
    alive,                \* the Chain has not been dropped
    op,                   \* the read or write in progress
    used,                 \* the lengths given to put_used, in order
    nread, nwrote         \* history: bytes moved from and to guest memory

vars == <<readable, writeable, head, alive, op, used, nread, nwrote>>

Idle == [kind |-> "none", left |-> 0, got |-> 0, exact |-> FALSE, excused |-> TRUE]

Init ==
    /\ \E r \in Lengths, w \in Lengths : readable = NewList(r) /\ writeable = NewList(w)
    /\ head = TRUE /\ alive = TRUE
    /\ op = Idle
    /\ used = <<>>
    /\ nread = 0 /\ nwrote = 0

\* The caller holds the chain and no call is running.
Callable == alive /\ op.kind = "none"

ListOf(kind) == IF kind = "read" THEN readable ELSE writeable

\* A list can only fall short of n bytes for one of these reasons.
Excused(l, n) == n > Reachable(l) \/ \E i \in DOMAIN l.descriptors : l.descriptors[i] = 0

\* read, write (exact = FALSE) and read_exact, write_all, r16 .. w64.
Call(kind, n, exact) ==
    /\ Callable
    /\ op' = [kind |-> kind, left |-> n, got |-> 0, exact |-> exact,
              excused |-> Excused(ListOf(kind), n)]
    /\ UNCHANGED <<readable, writeable, head, alive, used, nread, nwrote>>

\* n bytes are moved to or from the current descriptor, then inc.
Move(kind, n) ==
    /\ readable' = IF kind = "read" THEN inc(readable, n) ELSE readable
    /\ writeable' = IF kind = "write" THEN inc(writeable, n) ELSE writeable
    /\ nread' = IF kind = "read" THEN nread + n ELSE nread
    /\ nwrote' = IF kind = "write" THEN nwrote + n ELSE nwrote

\* Mutant: a call returns at the end of the first descriptor.
Transfer_one_descriptor ==
    /\ op.kind # "none" /\ op.left > 0
    /\ LET n == Min({op.left, CurrentRemaining(ListOf(op.kind))})
       IN  /\ n > 0
           /\ Move(op.kind, n)
           /\ op' = [op EXCEPT !.kind = "none", !.left = @ - n, !.got = @ + n]
    /\ UNCHANGED <<head, alive, used>>

\* One iteration of the loop in Chain::read or Chain::write.
Transfer ==
    /\ op.kind # "none" /\ op.left > 0
    /\ LET n == Min({op.left, CurrentRemaining(ListOf(op.kind))})
       IN  /\ n > 0
           /\ Move(op.kind, n)
           /\ op' = [op EXCEPT !.left = @ - n, !.got = @ + n]
    /\ UNCHANGED <<head, alive, used>>

\* The list returns 0, so the inner call returns what it got; read_exact and
\* write_all call again unless that was nothing.
TransferNothing ==
    /\ op.kind # "none" /\ op.left > 0
    /\ CurrentRemaining(ListOf(op.kind)) = 0
    /\ Move(op.kind, 0)
    /\ op' = IF op.exact /\ op.got > 0
             THEN [op EXCEPT !.got = 0]
             ELSE [op EXCEPT !.kind = "none"]
    /\ UNCHANGED <<head, alive, used>>

\* All bytes of the call have been moved.
Return ==
    /\ op.kind # "none" /\ op.left = 0
    /\ op' = [op EXCEPT !.kind = "none"]
    /\ UNCHANGED <<readable, writeable, head, alive, used, nread, nwrote>>

\* The caller reads n bytes through current_read_slice, then inc_read_offset.
inc_read_offset(n) ==
    /\ Callable
    /\ n <= CurrentRemaining(readable)
    /\ readable' = inc(readable, n)
    /\ nread' = nread + n
    /\ UNCHANGED <<writeable, head, alive, op, used, nwrote>>

\* The caller writes n bytes through current_write_slice, then
\* inc_write_offset, which first drops what is left to read.
inc_write_offset(n) ==
    /\ Callable
    /\ n <= CurrentRemaining(writeable)
    /\ readable' = IF readable.descriptors # <<>> THEN clear(readable) ELSE readable
    /\ writeable' = inc(writeable, n)
    /\ nwrote' = nwrote + n
    /\ UNCHANGED <<head, alive, op, used, nread>>

\* The reader supplies n bytes of the size asked for, into the current
\* descriptor only.
copy_from_reader(size, n) ==
    /\ Callable
    /\ n <= Min({size, CurrentRemaining(writeable)})
    /\ Move("write", n)
    /\ UNCHANGED <<head, alive, op, used>>

\* Mutant: the head is not taken, so a later drop returns it again.
Flush_keeps_head ==
    /\ readable' = clear(readable) /\ writeable' = clear(writeable)
    /\ used' = IF head THEN Append(used, writeable.consumed_size) ELSE used
    /\ head' = head

\* The body of flush_chain.
Flush ==
    /\ readable' = IF head THEN clear(readable) ELSE readable
    /\ writeable' = IF head THEN clear(writeable) ELSE writeable
    /\ used' = IF head THEN Append(used, writeable.consumed_size) ELSE used
    /\ head' = FALSE

flush_chain ==
    /\ Callable
    /\ Flush
    /\ UNCHANGED <<alive, op, nread, nwrote>>

drop ==
    /\ Callable
    /\ Flush
    /\ alive' = FALSE
    /\ UNCHANGED <<op, nread, nwrote>>

Step == Transfer \/ TransferNothing \/ Return

Next ==
    \/ Step
    \/ \E n \in 0 .. MaxSize :
        \/ \E kind \in {"read", "write"}, exact \in BOOLEAN : Call(kind, n, exact)
        \/ inc_read_offset(n)
        \/ inc_write_offset(n)
        \/ \E size \in 0 .. MaxSize : copy_from_reader(size, n)
    \/ flush_chain
    \/ drop

\* A call that has begun runs on; the device may keep a chain for ever.
Spec == Init /\ [][Next]_vars /\ WF_vars(Step)

-----------------------------------------------------------------------------
(* Properties *)

TypeOK ==
    /\ readable \in Lists /\ writeable \in Lists
    /\ head \in BOOLEAN /\ alive \in BOOLEAN
    /\ op \in [kind : {"none", "read", "write"}, left : Nat, got : Nat,
               exact : BOOLEAN, excused : BOOLEAN]
    /\ used \in Seq(Nat)
    /\ nread \in Nat /\ nwrote \in Nat

\* While a list has descriptors, what remaining_read and remaining_write
\* report is what is really left, and the offset stays inside the current
\* descriptor; once it has none, the report never exceeds the total.  Device
\* loops such as the block device's `while chain.remaining_read() >= ...` rely
\* on the first part.
Accounting ==
    \A l \in {readable, writeable} :
        /\ l.consumed_size <= l.total_size
        /\ l.descriptors # <<>> =>
              /\ remaining(l) = Reachable(l)
              /\ l.offset = 0 \/ l.offset < Head(l.descriptors)

\* Whatever mix of writes, slice accesses, copies and flushes a device makes,
\* the driver gets the chain back at most once, with a length equal to the
\* bytes written, and exactly once when the chain is dropped.  As the bytes
\* counted are those of the whole life of the chain, nothing is written after
\* flush_chain has returned it.
UsedLengthExact ==
    /\ Len(used) <= 1
    /\ \A i \in DOMAIN used : used[i] = nwrote
    /\ head <=> used = <<>>
    /\ ~alive => used # <<>>

\* After flush_chain the device does not read the buffers either.
NoReadAfterUsed == [][used # <<>> => nread' = nread]_vars

\* A read_exact or write_all that fails was asked for more than the list held
\* when it was called, or the list had a descriptor of length 0.
ShortTransferExcused ==
    op.kind = "none" /\ op.exact /\ op.left > 0 => op.excused

\* Every read and write returns, whatever the descriptor lengths.
CallsReturn == op.kind # "none" ~> op.kind = "none"

=============================================================================
