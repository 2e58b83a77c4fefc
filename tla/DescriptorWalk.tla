--------------------------- MODULE DescriptorWalk ---------------------------
(***************************************************************************)
(* SplitQueue::load_descriptor_lists: following a chain through the        *)
(* descriptor table.  The table is whatever the driver has written: chains *)
(* may be cyclic, point outside the table or at invalid memory.  One step  *)
(* is one iteration of the loop.                                           *)
(***************************************************************************)
EXTENDS Integers, Sequences, SequencesExt, FiniteSetsExt

CONSTANT QueueSize   \* number of entries of the descriptor table

Entries == 0 .. (QueueSize - 1)

\* A descriptor: whether its buffer lies in guest memory, the WRITE and NEXT
\* flags, and the next field, which may name no entry.
Descriptors == [valid : BOOLEAN, write : BOOLEAN, has_next : BOOLEAN, next : 0 .. QueueSize]

VARIABLES table, head, idx, ttl, readable, writeable, done

vars == <<table, head, idx, ttl, readable, writeable, done>>

Init ==
    /\ table \in [Entries -> Descriptors]
    /\ head \in Entries
    /\ idx = head
    /\ ttl = QueueSize
    /\ readable = <<>> /\ writeable = <<>>
    /\ done = FALSE

\* load_descriptor returns a descriptor only if its buffer is in guest memory
\* and its next field names an entry, whether or not the field is used.
load_descriptor(i) == table[i].valid /\ table[i].next < QueueSize

\* The end of the loop reverses both vectors.
Finish(r, w) ==
    /\ done' = TRUE
    /\ readable' = Reverse(r) /\ writeable' = Reverse(w)

\* Mutant: only a descriptor that cannot be loaded ends the walk.
Stop_without_ttl ==
    /\ ~done
    /\ ~load_descriptor(idx)
    /\ Finish(readable, writeable)
    /\ UNCHANGED <<table, head, idx, ttl>>

Stop ==
    /\ ~done
    /\ ~load_descriptor(idx) \/ ttl = 0
    /\ Finish(readable, writeable)
    /\ UNCHANGED <<table, head, idx, ttl>>

\* Mutant: a chain of QueueSize descriptors is cut short by one.
Advance_short_ttl ==
    /\ ~done
    /\ load_descriptor(idx) /\ ttl # 0
    /\ LET d == table[idx]
           r == IF d.write THEN readable ELSE Append(readable, idx)
           w == IF d.write THEN Append(writeable, idx) ELSE writeable
       IN  IF d.has_next /\ ttl > 2
           THEN /\ idx' = d.next
                /\ readable' = r /\ writeable' = w /\ done' = FALSE
           ELSE Finish(r, w) /\ idx' = idx
    /\ ttl' = ttl - 1
    /\ UNCHANGED <<table, head>>

Advance ==
    /\ ~done
    /\ load_descriptor(idx) /\ ttl # 0
    /\ LET d == table[idx]
           r == IF d.write THEN readable ELSE Append(readable, idx)
           w == IF d.write THEN Append(writeable, idx) ELSE writeable
       IN  IF d.has_next
           THEN /\ idx' = d.next
                /\ readable' = r /\ writeable' = w /\ done' = FALSE
           ELSE Finish(r, w) /\ idx' = idx
    /\ ttl' = ttl - 1
    /\ UNCHANGED <<table, head>>

Next == Stop \/ Advance

Spec == Init /\ [][Next]_vars /\ WF_vars(Next)

-----------------------------------------------------------------------------
(* Properties *)

TypeOK ==
    /\ table \in [Entries -> Descriptors]
    /\ head \in Entries /\ idx \in Entries
    /\ ttl \in 0 .. QueueSize
    /\ readable \in Seq(Entries) /\ writeable \in Seq(Entries)
    /\ done \in BOOLEAN

\* Every descriptor taken into a list is paid for from the ttl, so a chain
\* never yields more descriptors than the table has entries.
WalkBounded == TypeOK /\ Len(readable) + Len(writeable) + ttl = QueueSize

\* The k-th descriptor of the chain, as far as the next fields name entries.
Nth[k \in 0 .. QueueSize] ==
    IF k = 0 THEN head
    ELSE LET p == Nth[k - 1]
         IN  IF p \in Entries THEN table[p].next ELSE QueueSize

\* The first n descriptors of the chain can be loaded and are linked.
Linked(n) ==
    \A k \in 0 .. (n - 1) :
        /\ Nth[k] \in Entries
        /\ load_descriptor(Nth[k])
        /\ k > 0 => table[Nth[k - 1]].has_next

ChainLength == Max({n \in 0 .. QueueSize : Linked(n)})

ChainOf(write) ==
    SelectSeq([k \in 1 .. ChainLength |-> Nth[k - 1]], LAMBDA i : table[i].write = write)

\* The two lists are the readable and the writeable descriptors of the chain
\* in reverse chain order, up to the first descriptor that cannot be loaded,
\* and no more than the table has entries when the chain runs in a circle.
WalkFollowsChain ==
    done => /\ readable = Reverse(ChainOf(FALSE))
            /\ writeable = Reverse(ChainOf(TRUE))

\* The loop ends, on a cyclic chain as well.
WalkTerminates == <>done

=============================================================================
