------------------------------ MODULE P9Readdir ------------------------------
(***************************************************************************)
(* Listing a directory over 9P (p9_readdir in server.rs, Fid::load_        *)
(* directory in file.rs, directory.rs, and readdir_populate of             *)
(* filesystem.rs and synthetic.rs).  A read at offset 0 takes a copy of the*)
(* directory; every read answers from that copy the entries behind the     *)
(* offset that fit.  Other processes add and remove files meanwhile.       *)
(* The guest asks for the whole listing, each read from the offset of the  *)
(* last entry it got, until it gets none, and may start again.             *)
(*                                                                         *)
(* A name stands for the size of its entry (P9DirEntry::size).             *)
(***************************************************************************)
EXTENDS Integers, Sequences, FiniteSets, SequencesExt, FiniteSetsExt

CONSTANTS
    Names,       \* entry sizes of the file names
    NotUtf8,     \* those that are not UTF-8
    Counts,      \* the byte counts the guest asks for
    Msizes,      \* the values of Server::msize
    Word,        \* the modulus of the 32-bit arithmetic on msize
    Checked,     \* the build checks that arithmetic for overflow
    HostActive   \* other processes change the directory

VARIABLES
    host,        \* the names in the directory
    entries,     \* Fid::directory: the names copied
    reading,     \* the Directory that readdir_populate is filling
    todo,        \* the names the directory stream has still to return
    phase,       \* "ready", "loading", "answering" or "panicked"
    msize, count,
    offset,      \* the guest's offset
    got,         \* the entries the guest has got, in order
    eof,         \* the guest got an answer without entries
    sent         \* the bytes of entries in the last answer

vars == <<host, entries, reading, todo, phase, msize, count, offset, got, eof, sent>>

Init ==
    /\ host \in SUBSET Names
    /\ entries = <<>> /\ reading = <<>> /\ todo = <<>>
    /\ phase = "ready"
    /\ msize \in Msizes /\ count \in Counts
    /\ offset = 0 /\ got = <<>> /\ eof = FALSE /\ sent = 0

Bytes(es) == MapThenSumSet(LAMBDA k : es[k], DOMAIN es)
\* P9DirEntry::offset of the i-th entry: the sizes of all entries up to it.
OffsetOf(i) == Bytes(SubSeq(entries, 1, i))

\* The guest reads on.  At offset 0 load_directory opens the directory.
p9_readdir ==
    /\ phase = "ready" /\ ~eof
    /\ IF offset = 0
       THEN /\ \E s \in [1..Cardinality(host) -> host] : IsInjective(s) /\ todo' = s
            /\ reading' = <<>> /\ phase' = "loading"
       ELSE phase' = "answering" /\ UNCHANGED <<reading, todo>>
    /\ UNCHANGED <<host, entries, msize, count, offset, got, eof, sent>>

\* from_direntry asks for the metadata of the next name and for the name.  If the
\* file has gone, or its name is not UTF-8, the whole request fails and the old
\* copy is kept.
populate ==
    /\ phase = "loading" /\ todo # <<>>
    /\ IF Head(todo) \in host \ NotUtf8
       THEN reading' = Append(reading, Head(todo)) /\ todo' = Tail(todo) /\ UNCHANGED phase
       ELSE reading' = <<>> /\ todo' = <<>> /\ phase' = "ready"
    /\ UNCHANGED <<host, entries, msize, count, offset, got, eof, sent>>

populated ==
    /\ phase = "loading" /\ todo = <<>>
    /\ entries' = reading /\ reading' = <<>>
    /\ phase' = "answering"
    /\ UNCHANGED <<host, todo, msize, count, offset, got, eof, sent>>

\* skip_while(offset of the entry <= offset)
First == Cardinality({i \in DOMAIN entries : OffsetOf(i) <= offset}) + 1

\* msize - 4 is computed in 32 bits.
Limit == Min({(msize - 4) % Word, count})

\* The entries from First on, up to the first that does not fit.
Fitting ==
    LET rest == SubSeq(entries, First, Len(entries))
        n == Max({k \in 0..Len(rest) : Bytes(SubSeq(rest, 1, k)) <= Limit})
    IN  SubSeq(rest, 1, n)

\* msize - 4 overflows, which ends the thread of the device in a checked build.
msize_overflows ==
    /\ phase = "answering" /\ Checked /\ msize < 4
    /\ phase' = "panicked"
    /\ UNCHANGED <<host, entries, reading, todo, msize, count, offset, got, eof, sent>>

\* write_entries, and what the guest makes of it.
write_entries ==
    /\ phase = "answering" /\ ~(Checked /\ msize < 4)
    /\ got' = got \o Fitting
    /\ sent' = Bytes(Fitting)
    /\ offset' = IF Fitting = <<>> THEN offset ELSE OffsetOf(First + Len(Fitting) - 1)
    /\ eof' = (Fitting = <<>>)
    /\ phase' = "ready"
    /\ UNCHANGED <<host, entries, reading, todo, msize, count>>

\* The guest lists the directory again through the same fid.
Rewind ==
    /\ phase = "ready" /\ eof
    /\ offset' = 0 /\ got' = <<>> /\ eof' = FALSE
    /\ \E c \in Counts : count' = c
    /\ UNCHANGED <<host, entries, reading, todo, phase, msize, sent>>

HostStep ==
    /\ HostActive
    /\ \E n \in Names : host' = IF n \in host THEN host \ {n} ELSE host \cup {n}
    /\ UNCHANGED <<entries, reading, todo, phase, msize, count, offset, got, eof, sent>>

Server == p9_readdir \/ populate \/ populated \/ msize_overflows \/ write_entries
Next == Server \/ Rewind \/ HostStep

Spec == Init /\ [][Next]_vars /\ WF_vars(Server)

-----------------------------------------------------------------------------
\* The directory, the cached entries and the request under way have their types.
TypeOK ==
    /\ host \subseteq Names
    /\ Range(entries) \subseteq Names /\ Range(got) \subseteq Names
    /\ offset \in Nat
    /\ phase \in {"ready", "loading", "answering", "panicked"}

\* However the listing is cut into answers, and whatever the host does to the
\* directory meanwhile, the guest gets the entries of the copy in their order,
\* none twice and none left out.
ListedOnce == IsPrefix(got, entries)

\* An answer without entries ends the listing, and then all of the copy was
\* delivered, unless the next entry alone is larger than the guest's count or
\* the limit from msize: that listing ends early and looks complete.
ListingComplete ==
    eof => got = entries \/ entries[Len(got) + 1] > Limit

\* The answer, with its header and byte count (7 + 4), fits in msize whenever
\* the guest's count leaves room for them: msize - 4 alone does not.
AnswerFits == count + 11 <= msize => sent + 11 <= msize

\* Left alone by other processes, a listing always comes to its end, in a directory
\* whose names are all UTF-8 and with an msize that is no overflow: with a name that is
\* not UTF-8 no listing ever succeeds, and the overflow leaves no thread to answer.
ListingEnds == ~HostActive => []<>(eof \/ host \cap NotUtf8 # {} \/ (Checked /\ msize < 4))
=============================================================================
