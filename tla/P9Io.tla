-------------------------------- MODULE P9Io --------------------------------
(***************************************************************************)
(* Reading and writing an open file over 9P (p9_read and p9_write in       *)
(* server.rs, P9File and Buffer in file.rs).  Both loops move one          *)
(* descriptor of the chain at a time between guest memory and the file, at *)
(* the offset of the request plus what was moved so far.  The host may     *)
(* move less than asked, fail, or change the length of the file between    *)
(* two calls.                                                              *)
(*                                                                         *)
(* Bytes are identified by their place in the file, so a read is checked   *)
(* for which bytes it delivers, and a write for which places it fills.     *)
(***************************************************************************)
EXTENDS Integers, Sequences, SequencesExt, FiniteSetsExt

CONSTANTS
    Lengths,     \* lengths of a descriptor
    MaxParts,    \* bound: descriptors of a chain
    Counts,      \* byte counts of the requests
    Offsets,     \* offsets of the requests
    MaxLen       \* bound: length of the file

\* FileObject: a host file (perhaps opened with O_APPEND), a BufferFile, NotAFile.
Kinds == {"file", "append", "buffer", "none"}

VARIABLES
    kind,        \* the FileObject of the fid
    len,         \* length of the file
    op,          \* "read", "write", or "answered"
    turns,       \* history: calls that moved something
    slices,      \* the remaining descriptors; the first is the current one
    count, offset,
    nread,       \* bytes moved so far (both loops call it nread)
    moved,       \* history: the places in the file of the bytes moved, in order
    reply        \* "none", "read", "wrote" or "error"

vars == <<kind, len, op, turns, slices, count, offset, nread, moved, reply>>

Init ==
    /\ kind \in Kinds
    /\ len \in 0..MaxLen
    /\ op \in {"read", "write"}
    /\ slices \in SeqOf(Lengths, MaxParts)
    /\ count \in Counts /\ offset \in Offsets
    /\ nread = 0 /\ turns = 0 /\ moved = <<>> /\ reply = "none"

current_slice == IF slices = <<>> THEN 0 ELSE Head(slices)
\* DescriptorList::inc
inc(n) == IF n >= current_slice THEN Tail(slices) ELSE <<Head(slices) - n>> \o Tail(slices)

Answer(r) == op' = "answered" /\ reply' = r /\ UNCHANGED <<len, slices, turns, nread, moved>>

\* n bytes were moved from or to the places that start behind at.
Progress(at, n) ==
    /\ slices' = inc(n)
    /\ nread' = nread + n /\ turns' = turns + 1
    /\ moved' = moved \o [i \in 1..n |-> at + i]
    /\ UNCHANGED <<op, reply>>

\* What P9File::read_at may return for rlen bytes behind at.
Available(at) == IF kind = "none" \/ len <= at THEN 0 ELSE len - at
ReadSizes(at, rlen) ==
    LET most == Min({rlen, Available(at)})
    IN  IF most = 0 \/ kind = "buffer" THEN {most} ELSE 1..most

\* One turn of the loop of p9_read.  rlen is limited by count, not by what is
\* left of it.
p9_read ==
    /\ op = "read" /\ nread < count /\ current_slice > 0
    /\ \E n \in ReadSizes(offset + nread, Min({current_slice, count})) :
          IF n = 0 THEN Answer("read") ELSE Progress(offset + nread, n) /\ UNCHANGED len
    /\ UNCHANGED <<kind, count, offset>>

\* Mutant: a read of just the count is not finished.
read_done_late ==
    /\ op = "read" /\ (nread > count \/ current_slice = 0)
    /\ Answer("read")
    /\ UNCHANGED <<kind, count, offset>>

\* The loop is left at the count or at the end of the chain.
read_done ==
    /\ op = "read" /\ (nread >= count \/ current_slice = 0)
    /\ Answer("read")
    /\ UNCHANGED <<kind, count, offset>>

\* One turn of the loop of p9_write: the whole descriptor is offered.
p9_write ==
    /\ op = "write" /\ nread < count
    /\ CASE kind = "none" \/ (kind # "buffer" /\ current_slice = 0) -> Answer("wrote")
         [] kind = "buffer" -> Answer("error")
         [] OTHER ->
              \E n \in 1..current_slice :
                 LET at == IF kind = "append" THEN len ELSE offset + nread
                 IN  /\ at + n <= MaxLen
                     /\ Progress(at, n)
                     /\ len' = Max({len, at + n})
    /\ UNCHANGED <<kind, count, offset>>

write_done ==
    /\ op = "write" /\ nread >= count
    /\ Answer("wrote")
    /\ UNCHANGED <<kind, count, offset>>

\* read_at or write_at returns an error; what was moved before stays moved.
io_error ==
    /\ kind \in {"file", "append"}
    /\ \/ op = "read" /\ nread < count /\ current_slice > 0
       \/ op = "write" /\ nread < count /\ current_slice > 0
    /\ Answer("error")
    /\ UNCHANGED <<kind, count, offset>>

\* Another process truncates or extends the file.
HostResizes ==
    /\ op # "answered" /\ kind \in {"file", "append"}
    /\ \E l \in 0..MaxLen : l # len /\ len' = l
    /\ UNCHANGED <<kind, op, turns, slices, count, offset, nread, moved, reply>>

Server == p9_read \/ read_done \/ p9_write \/ write_done \/ io_error
Next == Server \/ HostResizes

Spec == Init /\ [][Next]_vars /\ WF_vars(Server)

-----------------------------------------------------------------------------
\* The length of the file is within its bound, every byte moved is counted, and a
\* turn of the loop that goes on has moved one.
TypeOK ==
    /\ len \in 0..MaxLen
    /\ nread \in Nat /\ Len(moved) = nread
    /\ turns <= nread

\* What a request moves is one run of the file that starts at its offset, in
\* order and without gaps or repetition, however the chain is cut into
\* descriptors and however little each call moves.
Contiguous == kind # "append" => moved = [i \in 1..nread |-> offset + i]

\* A read returns no more than the bytes asked for.  The exception is a read
\* that takes several calls: the last one may ask for count bytes again, so
\* the answer can hold almost twice the count.
ReadBounded ==
    reply = "read" => nread <= count \/ (turns > 1 /\ nread < 2 * count)

\* A read that returns less than was asked for met the end of the file, or the
\* end of the chain (or a descriptor of no length, which is taken for it).
ShortReadExcused ==
    reply = "read" /\ nread < count => Available(offset + nread) = 0 \/ current_slice = 0

\* Every request is answered: each turn of a loop moves something or ends it.
Answered == <>(op = "answered")
=============================================================================
