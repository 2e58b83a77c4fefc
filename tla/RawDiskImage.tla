---------------------------- MODULE RawDiskImage ----------------------------
(***************************************************************************)
(* A disk image file and the optional memory overlay above it              *)
(* (src/disk/raw.rs, src/disk/memory.rs, src/util/bitvec.rs).  Contents    *)
(* are kept by sector.  Host I/O may fail part of the way through.         *)
(***************************************************************************)
EXTENDS Integers, Sequences, FiniteSets

CONSTANTS
    NSectors,    \* sector_count(), fixed when the image is created
    MaxCount,    \* bound on the sectors of one read or write
    Values,      \* sector contents
    Images,      \* the contents an image may have at first, by sector
    None,        \* no content: beyond the end of a file
    OpenTypes,   \* the open types to consider
    HostFails    \* may host I/O fail?

ASSUME DiskAssumption ==
    /\ NSectors \in Nat \ {0} /\ MaxCount \in Nat \ {0}
    /\ None \notin Values
    /\ Images \subseteq [0 .. (NSectors - 1) -> Values]
    /\ OpenTypes \subseteq {"ReadOnly", "ReadWrite", "MemoryOverlay"}
    /\ HostFails \in BOOLEAN

\* The sectors considered include the first two beyond the end of the disk.
Sectors == 0 .. (NSectors + 1)
Contents == Values \union {None}

VARIABLES
    open_type,
    file,             \* the image file, by sector
    memory,           \* the overlay's memfd, by sector
    written_sectors,  \* the overlay's BitSet
    result,           \* the last call and what it returned
    expected          \* history: what each sector may correctly read as

diskVars == <<open_type, file, memory, written_sectors, result, expected>>

DiskInit ==
    /\ open_type \in OpenTypes
    /\ \E image \in Images :
        file = [s \in Sectors |-> IF s < NSectors THEN image[s] ELSE None]
    /\ memory = [s \in Sectors |-> None]
    /\ written_sectors = {}
    /\ result = [op |-> "none", ok |-> TRUE, start |-> 0, data |-> <<>>]
    /\ expected = [s \in Sectors |-> IF s < NSectors THEN {file[s]} ELSE {}]

seek_to_sector(s) == s <= NSectors

\* Positions of data stored from sector start on, the first k of them.
Store(f, start, data, k) ==
    [s \in Sectors |-> IF s \in start .. (start + k - 1) THEN data[s - start + 1] ELSE f[s]]

Span(start, n) == start .. (start + n - 1)

\* How far a write that may fail gets: all of the data, or less.
Progress(data, fails) == IF fails THEN 0 .. (Len(data) - 1) ELSE {Len(data)}

Expect(start, data, ok) ==
    expected' = [s \in Sectors |->
        IF s \notin Span(start, Len(data)) THEN expected[s]
        ELSE IF ok THEN {data[s - start + 1]}
        ELSE expected[s] \union {data[s - start + 1]}]

\* Mutant: the written sectors are recorded relative to the start.
overlay_write_sectors_relative(start, data) ==
    \E fails \in {FALSE, HostFails} : \E k \in Progress(data, fails) :
        /\ memory' = Store(memory, start, data, k)
        /\ written_sectors' = IF fails THEN written_sectors
                              ELSE written_sectors \union Span(0, Len(data))
        /\ result' = [op |-> "write", ok |-> ~fails, start |-> start, data |-> <<>>]
        /\ Expect(start, data, ~fails)
        /\ UNCHANGED file

\* MemoryOverlay::write_sectors: no check of the range; the sectors are
\* marked only when all of the data has been written.
overlay_write_sectors(start, data) ==
    \E fails \in {FALSE, HostFails} : \E k \in Progress(data, fails) :
        /\ memory' = Store(memory, start, data, k)
        /\ written_sectors' = IF fails THEN written_sectors
                              ELSE written_sectors \union Span(start, Len(data))
        /\ result' = [op |-> "write", ok |-> ~fails, start |-> start, data |-> <<>>]
        /\ Expect(start, data, ~fails)
        /\ UNCHANGED file

\* RawDiskImage::write_sectors without an overlay.  A write at or across the
\* end of the disk makes the file longer.
file_write_sectors(start, data) ==
    \/ /\ open_type # "ReadOnly" /\ seek_to_sector(start)
       /\ \E fails \in {FALSE, HostFails} : \E k \in Progress(data, fails) :
            /\ file' = Store(file, start, data, k)
            /\ result' = [op |-> "write", ok |-> ~fails, start |-> start, data |-> <<>>]
            /\ Expect(start, data, ~fails)
       /\ UNCHANGED <<memory, written_sectors>>
    \/ /\ open_type = "ReadOnly" \/ ~seek_to_sector(start)
       /\ result' = [op |-> "write", ok |-> FALSE, start |-> start, data |-> <<>>]
       /\ UNCHANGED <<file, memory, written_sectors, expected>>

write_sectors(start, data) ==
    /\ IF open_type = "MemoryOverlay"
       THEN overlay_write_sectors(start, data)
       ELSE file_write_sectors(start, data)
    /\ UNCHANGED open_type

Failed == [ok |-> FALSE, data |-> <<>>]

\* Reading n sectors of the file: the seek is checked against the size of the
\* disk, the end against the end of the file.
FileRead(start, n) ==
    IF seek_to_sector(start) /\ \A s \in Span(start, n) : file[s] # None
    THEN [ok |-> TRUE, data |-> [i \in 1 .. n |-> file[start + i - 1]]]
    ELSE Failed

\* MemoryOverlay::read_sectors.  The shortcut to the file is taken when none
\* of the sectors 0 .. n - 1 has been written: the test does not add start.
OverlayRead(start, n) ==
    IF \A i \in 0 .. (n - 1) : i \notin written_sectors
    THEN FileRead(start, n)
    ELSE IF \A s \in Span(start, n) \ written_sectors : FileRead(s, 1).ok
    THEN [ok |-> TRUE,
          data |-> [i \in 1 .. n |-> IF start + i - 1 \in written_sectors
                                     THEN memory[start + i - 1]
                                     ELSE FileRead(start + i - 1, 1).data[1]]]
    ELSE Failed

read_sectors(start, n) ==
    /\ \E fails \in {FALSE, HostFails} :
        LET r == IF fails THEN Failed
                 ELSE IF open_type = "MemoryOverlay" THEN OverlayRead(start, n)
                 ELSE FileRead(start, n)
        IN  result' = [op |-> "read", ok |-> r.ok, start |-> start, data |-> r.data]
    /\ UNCHANGED <<open_type, file, memory, written_sectors, expected>>

DiskNext ==
    \E start \in Sectors, n \in 1 .. MaxCount :
        /\ Span(start, n) \subseteq Sectors
        /\ \/ read_sectors(start, n)
           \/ \E data \in [1 .. n -> Values] : write_sectors(start, data)

DiskSpec == DiskInit /\ [][DiskNext]_diskVars

-----------------------------------------------------------------------------
(* Properties *)

DiskTypeOK ==
    /\ open_type \in OpenTypes
    /\ file \in [Sectors -> Contents] /\ memory \in [Sectors -> Contents]
    /\ written_sectors \subseteq Sectors
    /\ result \in [op : {"none", "read", "write"}, ok : BOOLEAN, start : Sectors, data : Seq(Values)]
    /\ expected \in [Sectors -> SUBSET Values]

\* The overlay's shortcut agrees with the sectors that the read covers.
ShortcutSound(start, n) ==
    \/ open_type # "MemoryOverlay"
    \/ Span(start, n) \intersect written_sectors = {}
    \/ Span(0, n) \intersect written_sectors # {}

\* A successful read returns, sector by sector, what the last successful write
\* stored, or what a write that failed since may have left: on a plain image
\* always, and on an overlay unless the shortcut of MemoryOverlay::read_sectors
\* is taken for sectors that have been written.  Then it returns the image's
\* content.
ReadsLatest ==
    result.op = "read" /\ result.ok =>
        LET n == Len(result.data)
        IN  \A i \in 1 .. n :
                LET s == result.start + i - 1
                IN  IF ShortcutSound(result.start, n)
                    THEN result.data[i] \in expected[s]
                    ELSE result.data[i] = file[s]

\* Only an image opened for writing is ever changed: what a guest writes to a
\* read-only image is refused and what it writes to an overlay stays in memory.
FileUntouched ==
    open_type # "ReadWrite" =>
        \E image \in Images : \A s \in Sectors : file[s] = IF s < NSectors THEN image[s] ELSE None

\* Each kind of image reads back what was written, with the one exception that
\* ReadsLatest names, and the file of a read-only image or below an overlay is as it
\* was opened.
DiskFaithful == ReadsLatest /\ FileUntouched

=============================================================================
