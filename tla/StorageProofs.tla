--------------------------- MODULE StorageProofs ----------------------------
(***************************************************************************)
(* What the storage of the guest rests on, for every value of the          *)
(* constants: a chain is returned once, with the number of bytes written   *)
(* to it, for any descriptor lengths and any sequence of accesses; the     *)
(* three kinds of disk image read back what was written, for any number of *)
(* sectors and host I/O that may fail part of the way; and what the 9P     *)
(* server remembers of a file lock is what the kernel holds, so that the   *)
(* guest is never told of two locks that exclude each other.               *)
(***************************************************************************)
EXTENDS Chain, RawDiskImage, P9Lock, TLAPS

(* Disk images *)

\* What a read of the sector finds is allowed: in the file for a sector that is not in
\* the overlay, and in the overlay's memory for one that is.
SectorHolds(s) ==
    /\ s \notin written_sectors /\ file[s] # None => file[s] \in expected[s]
    /\ s \in written_sectors => memory[s] \in expected[s]

DiskInv ==
    /\ file \in [Sectors -> Contents] /\ memory \in [Sectors -> Contents]
    /\ expected \in [Sectors -> SUBSET Values]
    /\ open_type \in OpenTypes /\ (open_type # "MemoryOverlay" => written_sectors = {})
    /\ \A s \in Sectors : SectorHolds(s)

\* Sector numbers are natural numbers.
LEMMA SectorsType ==
    /\ NSectors \in Nat /\ \A s \in Sectors : s \in Nat
    /\ None \notin Values
BY DiskAssumption, SMTT(30) DEF Sectors

\* An image that was just opened reads back its file.
LEMMA InitDisk == DiskInit => DiskInv /\ DiskFaithful
<1> SUFFICES ASSUME DiskInit PROVE DiskInv /\ DiskFaithful
  BY SMTT(30)
<1> USE SectorsType DEF DiskInit
<1>1. PICK image \in Images : file = [s \in Sectors |-> IF s < NSectors THEN image[s] ELSE None]
  BY SMTT(30)
<1>2. \A s \in Sectors : s < NSectors => image[s] \in Values
  BY DiskAssumption, SMTT(30) DEF Sectors
<1>3. file \in [Sectors -> Contents] /\ memory \in [Sectors -> Contents]
  BY <1>1, <1>2, SMTT(30) DEF Contents
<1>4. expected \in [Sectors -> SUBSET Values]
  BY <1>1, <1>2, SMTT(30)
<1>5. \A s \in Sectors : SectorHolds(s)
  BY <1>1, SMTT(30) DEF SectorHolds
<1>6. ReadsLatest /\ FileUntouched
  BY <1>1, SMTT(30) DEF ReadsLatest, FileUntouched
<1>7. QED
  BY <1>3, <1>4, <1>5, <1>6 DEF DiskInv, DiskFaithful

\* A write, whether all of it was done or the first k sectors.
LEMMA StoreFacts ==
    ASSUME NEW f \in [Sectors -> Contents], NEW start \in Sectors, NEW n \in Nat,
           NEW data \in [1 .. n -> Values], NEW k \in 0 .. n
    PROVE  /\ Store(f, start, data, k) \in [Sectors -> Contents]
           /\ \A s \in Sectors \ Span(start, n) : Store(f, start, data, k)[s] = f[s]
           /\ \A s \in Sectors \cap Span(start, n) :
                 /\ data[s - start + 1] \in Values
                 /\ Store(f, start, data, k)[s] \in {f[s], data[s - start + 1]}
                 /\ k = n => Store(f, start, data, k)[s] = data[s - start + 1]
<1> USE SectorsType DEF Store, Span, Contents
<1>1. \A s \in Sectors : s \in start .. (start + n - 1) => s - start + 1 \in 1 .. n
  OBVIOUS
<1>2. \A s \in Sectors : s \in start .. (start + k - 1) => s \in start .. (start + n - 1)
  BY SMTT(30)
<1>3. QED
  BY <1>1, <1>2

\* What is expected after a write.
LEMMA ExpectFacts ==
    ASSUME expected \in [Sectors -> SUBSET Values], NEW start \in Sectors, NEW n \in Nat,
           NEW data \in [1 .. n -> Values], NEW ok \in BOOLEAN, Expect(start, data, ok)
    PROVE  /\ expected' \in [Sectors -> SUBSET Values]
           /\ \A s \in Sectors \ Span(start, n) : expected'[s] = expected[s]
           /\ \A s \in Sectors \cap Span(start, n) :
                 /\ data[s - start + 1] \in expected'[s]
                 /\ ~ok => expected[s] \subseteq expected'[s]
<1> USE SectorsType DEF Expect, Span
<1>1. Len(data) = n
  OBVIOUS
<1>2. \A s \in Sectors : s \in start .. (start + n - 1) => data[s - start + 1] \in Values
  BY SMTT(30)
<1>3. QED
  BY <1>1, <1>2

\* A write to the overlay keeps what every sector holds, also when it fails on the way.
LEMMA OverlayWrite ==
    ASSUME DiskInv, open_type = "MemoryOverlay", UNCHANGED open_type,
           NEW start \in Sectors, NEW n \in Nat, NEW data \in [1 .. n -> Values],
           overlay_write_sectors(start, data)
    PROVE  DiskInv' /\ result'.op = "write" /\ file' = file
<1> USE SectorsType DEF DiskInv
<1>1. Len(data) = n
  BY SMTT(30)
<1>2a. PICK fails \in {FALSE, HostFails} : \E k \in Progress(data, fails) :
        /\ memory' = Store(memory, start, data, k)
        /\ written_sectors' = IF fails THEN written_sectors
                              ELSE written_sectors \union Span(start, Len(data))
        /\ result' = [op |-> "write", ok |-> ~fails, start |-> start, data |-> <<>>]
        /\ Expect(start, data, ~fails)
        /\ UNCHANGED file
  BY ZenonT(30) DEF overlay_write_sectors
<1>2. PICK k \in Progress(data, fails) :
        /\ memory' = Store(memory, start, data, k)
        /\ written_sectors' = IF fails THEN written_sectors
                              ELSE written_sectors \union Span(start, Len(data))
        /\ result' = [op |-> "write", ok |-> ~fails, start |-> start, data |-> <<>>]
        /\ Expect(start, data, ~fails)
        /\ UNCHANGED file
  BY <1>2a, Zenon
<1>3. fails \in BOOLEAN /\ k \in 0 .. n /\ (~fails => k = n)
  <2>1. fails \in BOOLEAN
    BY DiskAssumption, Zenon
  <2>2. CASE fails
    BY <1>1, <2>1, <2>2 DEF Progress
  <2>3. CASE ~fails
    BY <1>1, <2>1, <2>3 DEF Progress
  <2>4. QED
    BY <2>1, <2>2, <2>3
<1>4. /\ memory' \in [Sectors -> Contents]
      /\ \A s \in Sectors \ Span(start, n) : memory'[s] = memory[s]
      /\ \A s \in Sectors \cap Span(start, n) :
            /\ memory'[s] \in {memory[s], data[s - start + 1]}
            /\ k = n => memory'[s] = data[s - start + 1]
  <2> DEFINE f == Store(memory, start, data, k)
  <2>1. memory \in [Sectors -> Contents]
    BY SMTT(30)
  <2>2. /\ f \in [Sectors -> Contents]
        /\ \A s \in Sectors \ Span(start, n) : f[s] = memory[s]
        /\ \A s \in Sectors \cap Span(start, n) :
              /\ f[s] \in {memory[s], data[s - start + 1]}
              /\ k = n => f[s] = data[s - start + 1]
    BY <1>3, <2>1, StoreFacts, SMTT(30)
  <2>3. QED
    BY <1>2, <2>2
<1>5. /\ expected' \in [Sectors -> SUBSET Values]
      /\ \A s \in Sectors \ Span(start, n) : expected'[s] = expected[s]
      /\ \A s \in Sectors \cap Span(start, n) :
            /\ data[s - start + 1] \in expected'[s]
            /\ fails => expected[s] \subseteq expected'[s]
  BY <1>2, <1>3, ExpectFacts, ZenonT(30)
<1>6. ASSUME NEW s \in Sectors PROVE SectorHolds(s)'
  <2>1. SectorHolds(s)
    BY SMTT(30)
  <2>2. CASE s \notin Span(start, n)
    BY <1>1, <1>2, <1>4, <1>5, <2>1, <2>2, ZenonT(30) DEF SectorHolds
  <2>3. CASE s \in Span(start, n) /\ fails
    BY <1>2, <1>4, <1>5, <2>1, <2>3, ZenonT(30) DEF SectorHolds
  <2>4. CASE s \in Span(start, n) /\ ~fails
    BY <1>1, <1>2, <1>3, <1>4, <1>5, <2>4, ZenonT(30) DEF SectorHolds
  <2>5. QED
    BY <1>3, <2>2, <2>3, <2>4
<1>7. QED
  BY <1>2, <1>4, <1>5, <1>6

\* So does a write to the file.
LEMMA FileWrite ==
    ASSUME DiskInv, open_type # "MemoryOverlay", UNCHANGED open_type,
           NEW start \in Sectors, NEW n \in Nat, NEW data \in [1 .. n -> Values],
           file_write_sectors(start, data)
    PROVE  DiskInv' /\ result'.op = "write" /\ (open_type = "ReadOnly" => file' = file)
<1> USE SectorsType DEF DiskInv
<1>1. Len(data) = n
  BY SMTT(30)
<1>2. CASE open_type = "ReadOnly" \/ ~seek_to_sector(start)
  <2>1. UNCHANGED <<file, memory, written_sectors, expected>> /\ result'.op = "write"
    <3>1. ~(open_type # "ReadOnly" /\ seek_to_sector(start))
      BY <1>2, SMTT(30)
    <3>2. /\ UNCHANGED <<file, memory, written_sectors, expected>>
          /\ result' = [op |-> "write", ok |-> FALSE, start |-> start, data |-> <<>>]
      BY <3>1, ZenonT(30) DEF file_write_sectors
    <3>3. QED
      BY <3>2
  <2>2. QED
    BY <2>1, SMTT(30) DEF SectorHolds
<1>3. CASE open_type # "ReadOnly" /\ seek_to_sector(start)
  <2>0. PICK fails \in {FALSE, HostFails} : \E k \in Progress(data, fails) :
            /\ file' = Store(file, start, data, k)
            /\ result' = [op |-> "write", ok |-> ~fails, start |-> start, data |-> <<>>]
            /\ Expect(start, data, ~fails)
            /\ UNCHANGED <<memory, written_sectors>>
    BY <1>3, ZenonT(30) DEF file_write_sectors
  <2>1. PICK k \in Progress(data, fails) :
            /\ file' = Store(file, start, data, k)
            /\ result' = [op |-> "write", ok |-> ~fails, start |-> start, data |-> <<>>]
            /\ Expect(start, data, ~fails)
            /\ UNCHANGED <<memory, written_sectors>>
    BY <2>0, ZenonT(30)
  <2>2. fails \in BOOLEAN /\ k \in 0 .. n /\ (~fails => k = n)
    <3>1. fails \in BOOLEAN
      BY DiskAssumption, Zenon
    <3>2. CASE fails
      BY <1>1, <3>1, <3>2 DEF Progress
    <3>3. CASE ~fails
      BY <1>1, <3>1, <3>3 DEF Progress
    <3>4. QED
      BY <3>1, <3>2, <3>3, SMTT(30)
  <2>3. /\ file' \in [Sectors -> Contents]
        /\ \A s \in Sectors \ Span(start, n) : file'[s] = file[s]
        /\ \A s \in Sectors \cap Span(start, n) :
              /\ file'[s] \in {file[s], data[s - start + 1]}
              /\ k = n => file'[s] = data[s - start + 1]
    <3> DEFINE f == Store(file, start, data, k)
    <3>1. file \in [Sectors -> Contents]
      BY SMTT(30)
    <3> HIDE DEF DiskInv
    <3>2. /\ f \in [Sectors -> Contents]
          /\ \A s \in Sectors \ Span(start, n) : f[s] = file[s]
          /\ \A s \in Sectors \cap Span(start, n) :
                /\ f[s] \in {file[s], data[s - start + 1]}
                /\ k = n => f[s] = data[s - start + 1]
      BY <2>2, <3>1, StoreFacts, SMTT(30)
    <3>3. QED
      BY <2>1, <3>2
  <2>4. /\ expected' \in [Sectors -> SUBSET Values]
        /\ \A s \in Sectors \ Span(start, n) : expected'[s] = expected[s]
        /\ \A s \in Sectors \cap Span(start, n) :
              /\ data[s - start + 1] \in expected'[s]
              /\ fails => expected[s] \subseteq expected'[s]
    BY <2>1, <2>2, ExpectFacts, ZenonT(30)
  <2>5. ASSUME NEW s \in Sectors PROVE SectorHolds(s)'
    <3>1. SectorHolds(s) /\ s \notin written_sectors /\ s \notin written_sectors'
      BY <2>1
    <3>2. CASE s \notin Span(start, n)
      BY <2>3, <2>4, <3>1, <3>2, ZenonT(30) DEF SectorHolds
    <3>3. CASE s \in Span(start, n) /\ fails
      BY <2>3, <2>4, <3>1, <3>3, SMTT(30) DEF SectorHolds
    <3>4. CASE s \in Span(start, n) /\ ~fails
      BY <2>2, <2>3, <2>4, <3>1, <3>4, SMTT(30) DEF SectorHolds
    <3>5. QED
      BY <2>2, <3>2, <3>3, <3>4
  <2>6. QED
    BY <1>3, <2>1, <2>3, <2>4, <2>5, ZenonT(30)
<1>4. QED
  BY <1>2, <1>3

\* A successful read of the file.
LEMMA FileReadFacts ==
    ASSUME NEW start \in Sectors, NEW n \in Nat
    PROVE  /\ FileRead(start, n).ok \in BOOLEAN
           /\ FileRead(start, n).ok =>
                 /\ FileRead(start, n).data = [i \in 1 .. n |-> file[start + i - 1]]
                 /\ \A s \in Span(start, n) : file[s] # None
BY DEF FileRead, Failed

\* A read returns, sector by sector, what ReadsLatest allows.
LEMMA ReadReturns ==
    ASSUME DiskInv, NEW start \in Sectors, NEW n \in Nat \ {0}, Span(start, n) \subseteq Sectors,
           read_sectors(start, n)
    PROVE  ReadsLatest'
<1> USE SectorsType DEF DiskInv
<1> DEFINE r == IF open_type = "MemoryOverlay" THEN OverlayRead(start, n) ELSE FileRead(start, n)
<1>1. UNCHANGED <<open_type, file, memory, written_sectors, expected>>
  BY DEF read_sectors
<1>2. \A i \in 1 .. n : start + i - 1 \in Span(start, n) /\ start + i - 1 \in Sectors
  BY SMTT(30) DEF Span
<1>3. CASE ~result'.ok
  BY <1>3, SMTT(30) DEF ReadsLatest
<1>4. CASE result'.ok
  <2>1. r.ok /\ result' = [op |-> "read", ok |-> r.ok, start |-> start, data |-> r.data]
    <3>1. PICK fails \in {FALSE, HostFails} :
              result' = LET x == IF fails THEN Failed ELSE r
                        IN  [op |-> "read", ok |-> x.ok, start |-> start, data |-> x.data]
      BY Zenon DEF read_sectors
    <3>2. fails \in BOOLEAN
      BY DiskAssumption, ZenonT(30)
    <3>3. CASE fails
      BY <1>4, <3>1, <3>3 DEF Failed
    <3>4. CASE ~fails
      BY <1>4, <3>1, <3>4, SMTT(30)
    <3>5. QED
      BY <3>2, <3>3, <3>4, SMTT(30)
  <2>2. /\ DOMAIN r.data = 1 .. n
        /\ \A i \in 1 .. n :
              IF ShortcutSound(start, n) THEN r.data[i] \in expected[start + i - 1]
              ELSE r.data[i] = file[start + i - 1]
    <3>1. CASE open_type # "MemoryOverlay"
      <4>1. r = FileRead(start, n) /\ ShortcutSound(start, n)
        BY <3>1, SMTT(30) DEF ShortcutSound
      <4>2. r.data = [i \in 1 .. n |-> file[start + i - 1]] /\ \A s \in Span(start, n) : file[s] # None
        BY <2>1, <4>1, FileReadFacts, ZenonT(30)
      <4>3. QED
        BY <1>2, <3>1, <4>1, <4>2, Zenon DEF SectorHolds
    <3>2. CASE open_type = "MemoryOverlay" /\ \A i \in 0 .. (n - 1) : i \notin written_sectors
      <4>1. r = FileRead(start, n)
        BY <3>2, SMTT(30) DEF OverlayRead
      <4>2. r.data = [i \in 1 .. n |-> file[start + i - 1]] /\ \A s \in Span(start, n) : file[s] # None
        BY <2>1, <4>1, FileReadFacts, Zenon
      <4>3. ShortcutSound(start, n) => \A s \in Span(start, n) : s \notin written_sectors
        BY <3>2, SMTT(30) DEF ShortcutSound, Span
      <4>4. QED
        BY <1>2, <4>2, <4>3, ZenonT(30) DEF SectorHolds
    <3>3. CASE open_type = "MemoryOverlay" /\ \E i \in 0 .. (n - 1) : i \in written_sectors
      <4>1. ShortcutSound(start, n)
        BY <3>3 DEF ShortcutSound, Span
      <4>2. /\ r.data = [i \in 1 .. n |-> IF start + i - 1 \in written_sectors
                                          THEN memory[start + i - 1]
                                          ELSE FileRead(start + i - 1, 1).data[1]]
            /\ \A s \in Span(start, n) \ written_sectors : FileRead(s, 1).ok
        BY <2>1, <3>3, Zenon DEF OverlayRead, Failed
      <4>3. ASSUME NEW s \in Span(start, n) \ written_sectors
            PROVE  FileRead(s, 1).data[1] = file[s] /\ file[s] # None
        <5>1. s \in Sectors /\ s \in Span(s, 1) /\ s + 1 - 1 = s
          BY DEF Span
        <5>2. /\ FileRead(s, 1).data = [i \in 1 .. 1 |-> file[s + i - 1]]
              /\ \A t \in Span(s, 1) : file[t] # None
          BY <4>2, <5>1, FileReadFacts, Zenon
        <5>3. QED
          BY <5>1, <5>2, SMTT(30)
      <4>4. QED
        BY <1>2, <4>1, <4>2, <4>3, ZenonT(30) DEF SectorHolds
    <3>4. QED
      BY <3>1, <3>2, <3>3, ZenonT(30)
  <2> HIDE DEF r
  <2>3. Len(r.data) = n
    BY <2>2, SMTT(30)
  <2>4. (ShortcutSound(start, n))' = ShortcutSound(start, n)
    BY <1>1 DEF ShortcutSound
  <2>5. QED
    BY <1>1, <2>1, <2>2, <2>3, <2>4, ZenonT(30) DEF ReadsLatest
<1>5. QED
  BY <1>3, <1>4, SMTT(30)

\* On every kind of image a successful read returns what was last written, or what a
\* write that failed since may have left, except where MemoryOverlay::read_sectors
\* takes its shortcut for sectors that were written; and no file changes that was not
\* opened for writing.
THEOREM DiskStaysFaithful == DiskSpec => []DiskFaithful
<1>1. DiskInit => DiskInv /\ DiskFaithful
  BY InitDisk
<1>2. DiskInv /\ DiskFaithful /\ [DiskNext]_diskVars => (DiskInv /\ DiskFaithful)'
  <2> SUFFICES ASSUME DiskInv, DiskFaithful, [DiskNext]_diskVars PROVE (DiskInv /\ DiskFaithful)'
    OBVIOUS
  <2>1. CASE UNCHANGED diskVars
    <3>1. DiskInv' /\ FileUntouched'
      BY <2>1 DEF diskVars, DiskInv, SectorHolds, DiskFaithful, FileUntouched
    <3>2. ReadsLatest'
      BY <2>1 DEF diskVars, DiskFaithful, ReadsLatest, ShortcutSound
    <3>3. QED
      BY <3>1, <3>2 DEF DiskFaithful
  <2>2. CASE DiskNext
    <3>1. PICK start \in Sectors, n \in 1 .. MaxCount :
            /\ Span(start, n) \subseteq Sectors
            /\ \/ read_sectors(start, n)
               \/ \E data \in [1 .. n -> Values] : write_sectors(start, data)
      BY <2>2 DEF DiskNext
    <3>2. n \in Nat \ {0}
      BY DiskAssumption
    <3>3. CASE read_sectors(start, n)
      <4>1. ReadsLatest'
        BY <3>1, <3>2, <3>3, ReadReturns, SMTT(30)
      <4>2. UNCHANGED <<open_type, file, memory, written_sectors, expected>>
        BY <3>3 DEF read_sectors
      <4>3. DiskInv' /\ FileUntouched'
        BY <4>2 DEF DiskInv, SectorHolds, DiskFaithful, FileUntouched
      <4>4. QED
        BY <4>1, <4>3 DEF DiskFaithful
    <3>4. ASSUME NEW data \in [1 .. n -> Values], write_sectors(start, data)
          PROVE  (DiskInv /\ DiskFaithful)'
      <4>1. UNCHANGED open_type
        BY <3>4 DEF write_sectors
      <4>2. /\ DiskInv' /\ result'.op = "write"
            /\ open_type # "ReadWrite" => file' = file
        <5>1. CASE open_type = "MemoryOverlay"
          BY <3>2, <3>4, <4>1, <5>1, OverlayWrite DEF write_sectors
        <5>2. CASE open_type # "MemoryOverlay"
          <6>1. DiskInv' /\ result'.op = "write" /\ (open_type = "ReadOnly" => file' = file)
            BY <3>2, <3>4, <4>1, <5>2, FileWrite DEF write_sectors
          <6>2. open_type \in {"ReadOnly", "ReadWrite"}
            BY <5>2, DiskAssumption, SMTT(30) DEF DiskInv
          <6>3. QED
            BY <6>1, <6>2
        <5>3. QED
          BY <5>1, <5>2
      <4>3. FileUntouched' /\ ReadsLatest'
        BY <4>1, <4>2 DEF DiskFaithful, FileUntouched, ReadsLatest
      <4>4. QED
        BY <4>2, <4>3 DEF DiskFaithful
    <3>5. QED
      BY <3>1, <3>3, <3>4
  <2>3. QED
    BY <2>1, <2>2
<1>3. QED
  BY <1>1, <1>2, PTL DEF DiskSpec

-----------------------------------------------------------------------------
(* Descriptor chains *)

\* The part of a list's type that the argument needs: nothing is said of its
\* total size.
Shape(l) ==
    \E t : l \in [descriptors : Seq(Nat), offset : Nat, total_size : {t}, consumed_size : Nat]

Ops == [kind : {"none", "read", "write"}, left : Nat, got : Nat,
        exact : BOOLEAN, excused : BOOLEAN]

\* The bytes written are those counted by the list; while the chain is held
\* nothing has been returned, and afterwards both lists are empty, so that
\* nothing more can be counted.
ChainInv ==
    /\ Shape(readable) /\ Shape(writeable)
    /\ head \in BOOLEAN /\ alive \in BOOLEAN
    /\ op \in Ops
    /\ nread \in Nat /\ nwrote \in Nat
    /\ writeable.consumed_size = nwrote
    /\ head => used = <<>>
    /\ ~head => /\ used = <<nwrote>>
                /\ readable.descriptors = <<>> /\ writeable.descriptors = <<>>
    /\ ~alive => ~head

\* The three ways in which a list is changed keep it a record of the same type.
LEMMA RecordUpdates ==
    ASSUME NEW S, NEW T, NEW N,
           NEW l \in [descriptors : S, offset : N, total_size : T, consumed_size : N],
           NEW d \in S, NEW o \in N, NEW c \in N
    PROVE  /\ [l EXCEPT !.consumed_size = c, !.offset = o, !.descriptors = d]
                \in [descriptors : S, offset : N, total_size : T, consumed_size : N]
           /\ [l EXCEPT !.consumed_size = c, !.offset = o]
                \in [descriptors : S, offset : N, total_size : T, consumed_size : N]
           /\ [l EXCEPT !.descriptors = d, !.offset = o]
                \in [descriptors : S, offset : N, total_size : T, consumed_size : N]
  BY Zenon

\* CurrentRemaining is a number of bytes, and 0 for a list without descriptors.
LEMMA RemainingType ==
    ASSUME NEW l, Shape(l)
    PROVE  /\ CurrentRemaining(l) \in Nat
           /\ l.descriptors = <<>> => CurrentRemaining(l) = 0
<1>1. PICK t : l \in [descriptors : Seq(Nat), offset : Nat, total_size : {t}, consumed_size : Nat]
  BY DEF Shape
<1>2. CASE l.descriptors = <<>>
  BY <1>2 DEF CurrentRemaining
<1>3. CASE l.descriptors # <<>>
  <2>1. l.descriptors \in Seq(Nat) /\ l.offset \in Nat
    BY <1>1
  <2>2. Head(l.descriptors) \in Nat
    BY <1>3, <2>1, SMTT(30)
  <2> QED BY <1>3, <2>1, <2>2 DEF CurrentRemaining
<1> QED BY <1>2, <1>3

\* inc counts exactly the bytes it moves past, when these are no more than the
\* current descriptor has left, and a list that is empty stays so.
LEMMA IncCounts ==
    ASSUME NEW l, Shape(l), NEW n \in Nat, n <= CurrentRemaining(l)
    PROVE  /\ Shape(inc(l, n))
           /\ inc(l, n).consumed_size = l.consumed_size + n
           /\ l.descriptors = <<>> => inc(l, n).descriptors = <<>> /\ n = 0
<1>1. PICK t : l \in [descriptors : Seq(Nat), offset : Nat, total_size : {t}, consumed_size : Nat]
  BY DEF Shape
<1>2. CurrentRemaining(l) \in Nat /\ (l.descriptors = <<>> => CurrentRemaining(l) = 0)
  BY RemainingType
<1>3. CASE l.descriptors = <<>>
  <2>1. n = 0 /\ inc(l, n) = l
    BY <1>2, <1>3 DEF inc
  <2> QED BY <1>1, <1>3, <2>1
<1>4. CASE l.descriptors # <<>> /\ n >= CurrentRemaining(l)
  <2>1. n = CurrentRemaining(l)
    BY <1>2, <1>4
  <2>2. Tail(l.descriptors) \in Seq(Nat)
    BY <1>1, <1>4
  <2>3. inc(l, n) = [l EXCEPT !.consumed_size = l.consumed_size + CurrentRemaining(l),
                              !.offset = 0, !.descriptors = Tail(l.descriptors)]
    BY <1>4 DEF inc
  <2>4. inc(l, n) \in [descriptors : Seq(Nat), offset : Nat, total_size : {t}, consumed_size : Nat]
    <3>1. l.consumed_size + CurrentRemaining(l) \in Nat /\ 0 \in Nat
      BY <1>1, <1>2
    <3>2. [l EXCEPT !.consumed_size = l.consumed_size + CurrentRemaining(l), !.offset = 0,
                    !.descriptors = Tail(l.descriptors)]
            \in [descriptors : Seq(Nat), offset : Nat, total_size : {t}, consumed_size : Nat]
      BY <1>1, <2>2, <3>1, RecordUpdates, Zenon
    <3> QED BY <2>3, <3>2, Zenon
  <2>5. inc(l, n).consumed_size = l.consumed_size + n
    BY <1>1, <2>1, <2>3, SMTT(30)
  <2> QED BY <1>4, <2>4, <2>5 DEF Shape
<1>5. CASE l.descriptors # <<>> /\ ~(n >= CurrentRemaining(l))
  <2>1. inc(l, n) = [l EXCEPT !.consumed_size = l.consumed_size + n, !.offset = l.offset + n]
    BY <1>5 DEF inc
  <2>2. inc(l, n) \in [descriptors : Seq(Nat), offset : Nat, total_size : {t}, consumed_size : Nat]
    <3>1. l.consumed_size + n \in Nat /\ l.offset + n \in Nat
      BY <1>1
    <3>2. l.descriptors \in Seq(Nat)
      BY <1>1
    <3>3. [l EXCEPT !.consumed_size = l.consumed_size + n, !.offset = l.offset + n]
            \in [descriptors : Seq(Nat), offset : Nat, total_size : {t}, consumed_size : Nat]
      BY <1>1, <3>1, <3>2, RecordUpdates, Zenon
    <3> QED BY <2>1, <3>3, Zenon
  <2>3. inc(l, n).consumed_size = l.consumed_size + n
    BY <1>1, <2>1, SMTT(30)
  <2> QED BY <1>5, <2>2, <2>3 DEF Shape
<1> QED BY <1>3, <1>4, <1>5, SMTT(30)

\* clear empties a list and keeps its count.
LEMMA ClearKeeps ==
    ASSUME NEW l, Shape(l)
    PROVE  /\ Shape(clear(l))
           /\ clear(l).consumed_size = l.consumed_size
           /\ clear(l).descriptors = <<>>
<1>1. PICK t : l \in [descriptors : Seq(Nat), offset : Nat, total_size : {t}, consumed_size : Nat]
  BY DEF Shape
<1>2. clear(l) = [l EXCEPT !.descriptors = <<>>, !.offset = 0]
  BY DEF clear
<1>3. <<>> \in Seq(Nat)
  OBVIOUS
<1>4. clear(l) \in [descriptors : Seq(Nat), offset : Nat, total_size : {t}, consumed_size : Nat]
  <2>1. 0 \in Nat /\ l.consumed_size \in Nat
    BY <1>1
  <2>2. [l EXCEPT !.descriptors = <<>>, !.offset = 0] \in [descriptors : Seq(Nat), offset : Nat, total_size : {t}, consumed_size : Nat]
    BY <1>1, <1>3, <2>1, RecordUpdates, Zenon
  <2> QED BY <1>2, <2>2, Zenon
<1>5. clear(l).consumed_size = l.consumed_size /\ clear(l).descriptors = <<>>
  BY <1>1, <1>2
<1> QED BY <1>4, <1>5 DEF Shape

\* The lesser of two numbers is one of them.
LEMMA MinOfTwo ==
    ASSUME NEW a \in Nat, NEW b \in Nat
    PROVE  Min({a, b}) \in Nat /\ Min({a, b}) <= a /\ Min({a, b}) <= b
<1>1. CASE a <= b
  <2>1. \A x \in {a, b} : (\A y \in {a, b} : x <= y) => x = a
    BY <1>1
  <2>2. a \in {a, b} /\ \A y \in {a, b} : a <= y
    BY <1>1
  <2> QED BY <1>1, <2>1, <2>2 DEF Min
<1>2. CASE ~(a <= b)
  <2>1. b \in {a, b} /\ \A y \in {a, b} : b <= y
    BY <1>2
  <2>2. \A x \in {a, b} : (\A y \in {a, b} : x <= y) => x = b
    BY <1>2
  <2> QED BY <1>2, <2>1, <2>2 DEF Min
<1> QED BY <1>1, <1>2

\* Moving n bytes preserves the invariant, and moves nothing once the chain
\* has been returned.
LEMMA MoveStep ==
    ASSUME ChainInv, NEW kind \in {"read", "write"}, NEW n \in Nat,
           n <= CurrentRemaining(ListOf(kind)), Move(kind, n),
           op' \in Ops, UNCHANGED <<head, alive, used>>
    PROVE  ChainInv' /\ (used # <<>> => nread' = nread)
<1>1. CASE kind = "read"
  <2>1. readable' = inc(readable, n) /\ writeable' = writeable /\ nread' = nread + n /\ nwrote' = nwrote
    BY <1>1, SMTT(30) DEF Move
  <2>2. /\ Shape(readable') /\ readable.descriptors = <<>> => readable'.descriptors = <<>> /\ n = 0
    BY <1>1, <2>1, IncCounts, SMTT(30) DEF ChainInv, ListOf
  <2>3. /\ Shape(inc(readable, n))
    BY <1>1, IncCounts, SMTT(30) DEF ChainInv, ListOf
  <2> QED BY <2>1, <2>2, <2>3, SMTT(30) DEF ChainInv
<1>2. CASE kind = "write"
  <2>1. writeable' = inc(writeable, n) /\ readable' = readable /\ nread' = nread /\ nwrote' = nwrote + n
    BY <1>2, SMTT(30) DEF Move
  <2>2. /\ Shape(writeable')
        /\ writeable'.consumed_size = writeable.consumed_size + n
        /\ (writeable.descriptors = <<>> => writeable'.descriptors = <<>> /\ n = 0)
    BY <1>2, <2>1, IncCounts, SMTT(30) DEF ChainInv, ListOf
  <2> QED BY <2>1, <2>2 DEF ChainInv
<1> QED BY <1>1, <1>2, SMTT(30)

\* NewList gives a list that has counted nothing.
LEMMA NewListShape ==
    ASSUME NEW s \in Seq(Nat)
    PROVE  Shape(NewList(s)) /\ NewList(s).consumed_size = 0
<1> DEFINE t == SumLengths(s)
<1>1. NewList(s) = [descriptors |-> s, offset |-> 0, total_size |-> t, consumed_size |-> 0]
  BY SMTT(30) DEF NewList
<1> HIDE DEF t
<1>2. NewList(s) \in [descriptors : Seq(Nat), offset : Nat, total_size : {t}, consumed_size : Nat]
  BY <1>1, SMTT(30)
<1>3. NewList(s).consumed_size = 0
  BY <1>1, SMTT(30)
<1> QED BY <1>2, <1>3 DEF Shape

\* A chain starts unread, unwritten and not returned.
LEMMA ChainInvInit == Init => ChainInv
<1> SUFFICES ASSUME Init PROVE ChainInv
  OBVIOUS
<1>1. PICK r \in Lengths, w \in Lengths : readable = NewList(r) /\ writeable = NewList(w)
  BY DEF Init
<1>2. r \in Seq(Nat) /\ w \in Seq(Nat)
  BY <1>1, ChainAssumption
<1>3. Shape(readable) /\ Shape(writeable) /\ writeable.consumed_size = 0
  BY <1>1, <1>2, NewListShape, SMTT(30)
<1>4. op \in Ops
  BY DEF Init, Idle, Ops
<1> QED BY <1>3, <1>4 DEF Init, ChainInv

\* flush_chain and drop return the chain if it is held, with the bytes
\* counted, and leave both lists empty.
LEMMA FlushStep ==
    ASSUME ChainInv, Flush, alive' \in BOOLEAN, UNCHANGED <<op, nread, nwrote>>
    PROVE  ChainInv'
<1>1. /\ Shape(clear(readable)) /\ clear(readable).descriptors = <<>>
      /\ Shape(clear(writeable)) /\ clear(writeable).descriptors = <<>>
      /\ clear(writeable).consumed_size = writeable.consumed_size
  BY ClearKeeps, SMTT(30) DEF ChainInv
<1>2. CASE head
  <2>1. used' = <<nwrote>> /\ head' = FALSE
    BY <1>2 DEF Flush, ChainInv
  <2>2. readable' = clear(readable) /\ writeable' = clear(writeable)
    BY <1>2 DEF Flush
  <2> QED BY <1>1, <2>1, <2>2, Zenon DEF ChainInv
<1>3. CASE ~head
  <2>1. UNCHANGED <<readable, writeable, used>> /\ head' = FALSE
    BY <1>3 DEF Flush
  <2> QED BY <1>3, <2>1, Zenon DEF ChainInv
<1> QED BY <1>2, <1>3, SMTT(30)

\* Every step preserves the invariant, and reads nothing from a chain that
\* has been returned.
LEMMA ChainInvStep ==
    ASSUME ChainInv, [Next]_vars
    PROVE  ChainInv' /\ (used # <<>> => nread' = nread)
<1>1. CASE Transfer
  <2> DEFINE rem == CurrentRemaining(ListOf(op.kind))
             n == Min({op.left, rem})
  <2>1. op.kind \in {"read", "write"} /\ op.left \in Nat /\ op.got \in Nat
    BY <1>1, SMTT(30) DEF Transfer, ChainInv, Ops
  <2>2. rem \in Nat
    BY RemainingType DEF ChainInv, ListOf
  <2>3. n \in Nat /\ n <= op.left /\ n <= rem
    <3> HIDE DEF rem
    <3> QED BY <2>1, <2>2, MinOfTwo
  <2>4. Move(op.kind, n) /\ op' = [op EXCEPT !.left = @ - n, !.got = @ + n]
        /\ UNCHANGED <<head, alive, used>>
    BY <1>1 DEF Transfer
  <2>5. op' \in Ops
    <3> HIDE DEF n
    <3>1. op.left - n \in Nat /\ op.got + n \in Nat
      BY <2>1, <2>3
    <3> QED BY <2>4, <3>1, Zenon DEF ChainInv, Ops
  <2> HIDE DEF n
  <2> QED BY <2>1, <2>3, <2>4, <2>5, MoveStep
<1>2. CASE TransferNothing
  <2>1. op.kind \in {"read", "write"}
    BY <1>2 DEF TransferNothing, ChainInv, Ops
  <2>2. 0 <= CurrentRemaining(ListOf(op.kind)) /\ Move(op.kind, 0) /\ UNCHANGED <<head, alive, used>>
    BY <1>2 DEF TransferNothing
  <2>3. op' \in Ops
    BY <1>2 DEF TransferNothing, ChainInv, Ops
  <2> QED BY <2>1, <2>2, <2>3, MoveStep
<1>3. CASE Return
  <2>1. op' \in Ops
    BY <1>3 DEF Return, ChainInv, Ops
  <2> QED BY <1>3, <2>1 DEF Return, ChainInv
<1>4. ASSUME NEW n \in 0 .. MaxSize, NEW kind \in {"read", "write"}, NEW exact \in BOOLEAN,
             Call(kind, n, exact)
      PROVE  ChainInv' /\ (used # <<>> => nread' = nread)
  <2>1. Excused(ListOf(kind), n) \in BOOLEAN
    BY DEF Excused
  <2>2. op' \in Ops
    <3> DEFINE e == Excused(ListOf(kind), n)
    <3>1. op' = [kind |-> kind, left |-> n, got |-> 0, exact |-> exact, excused |-> e]
      BY <1>4 DEF Call
    <3>2. e \in BOOLEAN /\ n \in Nat
      BY <2>1, ChainAssumption
    <3> HIDE DEF e
    <3> QED BY <3>1, <3>2 DEF Ops
  <2> QED BY <1>4, <2>2 DEF Call, ChainInv
<1>5. ASSUME NEW n \in 0 .. MaxSize, inc_read_offset(n)
      PROVE  ChainInv' /\ (used # <<>> => nread' = nread)
  <2>1. Move("read", n)
    BY <1>5 DEF inc_read_offset, Move
  <2>2. n \in Nat /\ n <= CurrentRemaining(ListOf("read"))
    BY <1>5, ChainAssumption, SMTT(30) DEF inc_read_offset, ListOf
  <2>3. op' \in Ops /\ UNCHANGED <<head, alive, used>>
    BY <1>5, SMTT(30) DEF inc_read_offset, ChainInv
  <2> QED BY <2>1, <2>2, <2>3, MoveStep
<1>6. ASSUME NEW n \in 0 .. MaxSize, inc_write_offset(n)
      PROVE  ChainInv' /\ (used # <<>> => nread' = nread)
  <2>1. n \in Nat /\ n <= CurrentRemaining(writeable)
    BY <1>6, ChainAssumption, SMTT(30) DEF inc_write_offset
  <2>2. /\ Shape(writeable') /\ writeable'.consumed_size = writeable.consumed_size + n
        /\ (writeable.descriptors = <<>> => writeable'.descriptors = <<>> /\ n = 0)
    BY <1>6, <2>1, IncCounts, SMTT(30) DEF inc_write_offset, ChainInv
  <2>3. Shape(readable') /\ (readable.descriptors = <<>> => readable'.descriptors = <<>>)
    BY <1>6, ClearKeeps DEF inc_write_offset, ChainInv
  <2> QED BY <1>6, <2>1, <2>2, <2>3, SMTT(30) DEF inc_write_offset, ChainInv
<1>7. ASSUME NEW n \in 0 .. MaxSize, NEW size \in 0 .. MaxSize, copy_from_reader(size, n)
      PROVE  ChainInv' /\ (used # <<>> => nread' = nread)
  <2> DEFINE rem == CurrentRemaining(writeable)
  <2>1. rem \in Nat /\ size \in Nat /\ n \in Nat
    BY RemainingType, ChainAssumption DEF ChainInv
  <2>2. n <= Min({size, rem})
    BY <1>7 DEF copy_from_reader
  <2>3. n <= rem
    <3> HIDE DEF rem
    <3>1. Min({size, rem}) \in Nat /\ Min({size, rem}) <= rem
      BY <2>1, MinOfTwo, SMTT(30)
    <3> QED BY <2>1, <2>2, <3>1
  <2>4. Move("write", n) /\ op' \in Ops /\ UNCHANGED <<head, alive, used>>
    BY <1>7 DEF copy_from_reader, ChainInv
  <2>5. n <= CurrentRemaining(ListOf("write"))
    BY <2>3, SMTT(30) DEF ListOf
  <2> QED BY <2>1, <2>4, <2>5, MoveStep, SMTT(30)
<1>8. CASE flush_chain
  BY <1>8, FlushStep, SMTT(30) DEF flush_chain, ChainInv
<1>9. CASE drop
  BY <1>9, FlushStep, Zenon DEF drop, ChainInv
<1>10. CASE UNCHANGED vars
  BY <1>10 DEF vars, ChainInv, Shape
<1> QED
  BY <1>1, <1>2, <1>3, <1>4, <1>5, <1>6, <1>7, <1>8, <1>9, <1>10 DEF Next, Step

\* A chain is returned to the driver at most once, exactly once when it is
\* dropped, with the number of bytes that have been and ever will be written
\* to it: for every layout of the chain and every use of its operations.
THEOREM ChainReturnedOnce == Spec => []UsedLengthExact
<1>1. ChainInv => UsedLengthExact
  <2> SUFFICES ASSUME ChainInv PROVE UsedLengthExact
    BY SMTT(30)
  <2>1. CASE head
    <3>1. used = <<>> /\ alive
      BY <2>1 DEF ChainInv
    <3> QED BY <2>1, <3>1 DEF ChainInv, UsedLengthExact
  <2>2. CASE ~head
    <3>1. used = <<nwrote>> /\ nwrote \in Nat
      BY <2>2 DEF ChainInv
    <3>2. Len(used) = 1 /\ used # <<>> /\ \A i \in DOMAIN used : used[i] = nwrote
      BY <3>1
    <3> QED BY <2>2, <3>2 DEF UsedLengthExact
  <2> QED BY <2>1, <2>2
<1>2. ChainInv /\ [Next]_vars => ChainInv'
  BY ChainInvStep
<1> QED BY <1>1, <1>2, ChainInvInit, PTL DEF Spec

\* Nothing is read from the buffers of a chain that has been returned.
THEOREM ReturnedChainNotRead == Spec => NoReadAfterUsed
<1>1. ChainInv /\ [Next]_vars => ChainInv'
  BY ChainInvStep
<1>2. ChainInv /\ [Next]_vars => [used # <<>> => nread' = nread]_vars
  BY ChainInvStep
<1> QED BY <1>1, <1>2, ChainInvInit, PTL DEF Spec, NoReadAfterUsed

-----------------------------------------------------------------------------
(* Locks of the 9P server *)

\* flock(2) grants no lock against one that excludes it.
KernelExcludes ==
    \A o, p \in Owners : o # p /\ kern[o] = "ex" => kern[p] = "un"

\* getlock only tries a lock for a fid that believes to hold none.
ProbeUnlocked == probe # NoOne => lock[probe] = "un"

\* Only a lock of the kernel can be lost.
LostInKernel == lost \cap Memory = {}

LockInv == LockTypeOK /\ LockMirrored /\ KernelExcludes /\ ProbeUnlocked /\ LostInKernel

\* A call of flock(2) leaves the kernel's locks compatible: raw_flock relies on it.
LEMMA FlockExcludes ==
    ASSUME LockTypeOK, KernelExcludes, NEW o \in Owners, NEW t \in Types, kern' = Flocked(o, t)
    PROVE  KernelExcludes' /\ kern' \in [Owners -> Types]
<1>1. kern \in [Owners -> Types] /\ "un" \in Types
    BY DEF LockTypeOK, Types
<1>2. kern' \in [Owners -> Types]
    BY <1>1 DEF Flocked
<1>3. SUFFICES ASSUME NEW a \in Owners, NEW b \in Owners, a # b, kern'[a] = "ex"
               PROVE  kern'[b] = "un"
    BY <1>2 DEF KernelExcludes
<1>4. CASE a # o /\ b # o
    BY <1>1, <1>3, <1>4 DEF Flocked, KernelExcludes
<1>5. CASE a = o
    BY <1>1, <1>3, <1>5 DEF Flocked, Granted, Conflict, KernelExcludes
<1>6. CASE b = o
    <2>1. kern[a] = "ex"
        BY <1>1, <1>3, <1>6 DEF Flocked
    <2>2. kern[o] = "un" /\ (Granted(o, t) => t = "un")
        BY <1>1, <1>3, <1>6, <2>1 DEF KernelExcludes, Granted, Conflict, Types
    <2> QED BY <1>1, <1>6, <2>2 DEF Flocked
<1> QED BY <1>4, <1>5, <1>6

\* Dropping a lock leaves the others compatible: set_file, close and the end of getlock.
LEMMA DropExcludes ==
    ASSUME LockTypeOK, KernelExcludes, NEW o \in Owners, kern' = [kern EXCEPT ![o] = "un"]
    PROVE  KernelExcludes' /\ kern' \in [Owners -> Types]
BY DEF LockTypeOK, Types, KernelExcludes

\* LockInit establishes the invariant: no fid has a file.
LEMMA LocksBegin == LockInit => LockInv
BY P9LockAssumption, SMTT(30) DEF LockInit, LockInv, LockTypeOK, LockMirrored, KernelExcludes, ProbeUnlocked, LostInKernel, Types, Owners

\* Every request, the end of getlock and the other process keep the invariant.
LEMMA LocksKept == LockInv /\ [LockNext]_lockVars => LockInv'
<1> SUFFICES ASSUME LockInv, [LockNext]_lockVars PROVE LockInv'
    OBVIOUS
<1> USE DEF LockInv
<1>1. \A f \in Fids : f \in Owners /\ f # NoOne /\ f # Host
    BY P9LockAssumption DEF Owners
<1>2. ASSUME NEW f \in Fids, set_file(f) \/ close(f) PROVE LockInv'
    <2>1. kern' = [kern EXCEPT ![f] = "un"] /\ lost' = lost \ {f} /\ probe' = probe /\ probe = NoOne
        BY <1>2 DEF set_file, close, Ready
    <2>2. PICK l \in {"un", "closed"} : lock' = [lock EXCEPT ![f] = l]
        BY <1>2 DEF set_file, close
    <2>3. KernelExcludes' /\ kern' \in [Owners -> Types]
        BY <1>1, <2>1, DropExcludes, Zenon
    <2>4. LockTypeOK'
        BY <2>1, <2>2, <2>3 DEF LockTypeOK, Types
    <2>5. LockMirrored'
        BY <1>1, <2>1, <2>2 DEF LockTypeOK, LockMirrored
    <2> QED BY <2>1, <2>3, <2>4, <2>5 DEF ProbeUnlocked, LostInKernel
<1>3. ASSUME NEW f \in Fids, NEW t \in Types, flock(f, t) PROVE LockInv'
    <2>1. /\ kern' = Flocked(f, t) /\ probe' = probe /\ probe = NoOne
          /\ lock[f] # "closed" /\ f \notin Memory
        BY <1>3 DEF flock, Ready
    <2>2. KernelExcludes' /\ kern' \in [Owners -> Types]
        BY <1>1, <2>1, FlockExcludes, SMTT(30)
    <2>3. CASE Granted(f, t)
        <3>1. lock' = [lock EXCEPT ![f] = t] /\ lost' = lost \ {f} /\ kern' = [kern EXCEPT ![f] = t]
            BY <1>3, <2>1, <2>3 DEF flock, Flocked
        <3>2. LockTypeOK'
            BY <2>1, <2>2, <3>1 DEF LockTypeOK, Types
        <3>3. LockMirrored'
            BY <1>1, <2>1, <3>1, SMTT(30) DEF LockTypeOK, LockMirrored, Types
        <3> QED BY <2>1, <2>2, <3>1, <3>2, <3>3 DEF ProbeUnlocked, LostInKernel
    <2>4. CASE ~Granted(f, t)
        <3>1. /\ lock' = lock /\ lost' = (IF kern[f] # "un" THEN lost \cup {f} ELSE lost)
              /\ kern' = [kern EXCEPT ![f] = "un"]
            BY <1>3, <2>1, <2>4, SMTT(30) DEF flock, Flocked
        <3>2. f \notin lost => kern[f] = lock[f]
            BY <1>1, <2>1 DEF LockMirrored
        <3>3. LockTypeOK'
            BY <2>1, <2>2, <3>1, <3>2 DEF LockTypeOK, Types
        <3>4. LockMirrored'
            BY <1>1, <2>1, <3>1, <3>2 DEF LockTypeOK, LockMirrored, Types
        <3> QED BY <2>1, <2>2, <3>1, <3>3, <3>4 DEF ProbeUnlocked, LostInKernel
    <2> QED BY <2>3, <2>4
<1>4. ASSUME NEW f \in Fids, NEW t \in Types, getlock(f, t) PROVE LockInv'
    <2>1. probe = NoOne /\ lock[f] # "closed" /\ lock' = lock /\ lost' = lost
        BY <1>4 DEF getlock, Ready
    <2>2. CASE lock[f] = "un" /\ t # "un" /\ f \notin Memory
        <3>1. kern' = Flocked(f, t) /\ probe' = IF Granted(f, t) THEN f ELSE probe
            BY <1>4, <2>2 DEF getlock
        <3>2. f \notin lost /\ kern[f] = "un"
            BY <1>1, <2>1, <2>2 DEF LockTypeOK, LockMirrored
        <3>3. KernelExcludes' /\ kern' \in [Owners -> Types]
            BY <1>1, <3>1, FlockExcludes
        <3>4. LockTypeOK' /\ ProbeUnlocked'
            BY <2>1, <2>2, <3>1, <3>3 DEF LockTypeOK, ProbeUnlocked
        <3>5. LockMirrored'
            BY <1>1, <2>1, <2>2, <3>1, <3>2 DEF LockTypeOK, LockMirrored, Flocked
        <3> QED BY <2>1, <3>3, <3>4, <3>5 DEF LostInKernel
    <2>3. CASE ~(lock[f] = "un" /\ t # "un" /\ f \notin Memory)
        <3>1. kern' = kern /\ probe' = probe
            BY <1>4, <2>3 DEF getlock
        <3> QED BY <2>1, <3>1 DEF LockTypeOK, LockMirrored, KernelExcludes, ProbeUnlocked, LostInKernel
    <2> QED BY <2>2, <2>3
<1>5. ASSUME getlock_release PROVE LockInv'
    <2>1. /\ probe \in Fids /\ lock' = lock /\ lost' = lost /\ probe' = NoOne
          /\ kern' = [kern EXCEPT ![probe] = "un"] /\ lock[probe] = "un"
        BY <1>5 DEF getlock_release, LockTypeOK, ProbeUnlocked
    <2>2. KernelExcludes' /\ kern' \in [Owners -> Types]
        BY <1>1, <2>1, DropExcludes, Zenon
    <2>3. LockTypeOK' /\ ProbeUnlocked'
        BY <2>1, <2>2 DEF LockTypeOK, ProbeUnlocked
    <2>4. LockMirrored'
        BY <1>1, <2>1 DEF LockTypeOK, LockMirrored
    <2> QED BY <2>1, <2>2, <2>3, <2>4 DEF LostInKernel
<1>6. ASSUME NEW t \in Types, HostFlock(t) PROVE LockInv'
    <2>1. kern' = Flocked(Host, t) /\ lock' = lock /\ lost' = lost /\ probe' = probe /\ Host \in Owners
        BY <1>6 DEF HostFlock, Owners
    <2>2. KernelExcludes' /\ kern' \in [Owners -> Types]
        BY <2>1, FlockExcludes
    <2>3. \A f \in Fids : kern'[f] = kern[f]
        BY <1>1, <2>1 DEF LockTypeOK, Flocked
    <2>4. LockTypeOK'
        BY <2>1, <2>2 DEF LockTypeOK
    <2>5. LockMirrored'
        BY <2>1, <2>3, P9LockAssumption DEF LockMirrored
    <2> QED BY <2>1, <2>2, <2>4, <2>5 DEF ProbeUnlocked, LostInKernel
<1>7. ASSUME NEW f \in Fids, NEW t \in Types, flock_memory(f, t) PROVE LockInv'
    <2>1. /\ kern' = kern /\ probe' = probe /\ probe = NoOne /\ lost' = lost
          /\ lock' = [lock EXCEPT ![f] = t] /\ f \in Memory /\ f \notin lost
        BY <1>7 DEF flock_memory, Ready, LostInKernel
    <2>2. LockTypeOK'
        BY <2>1 DEF LockTypeOK, Types
    <2>3. LockMirrored'
        BY <2>1 DEF LockTypeOK, LockMirrored
    <2> QED BY <2>1, <2>2, <2>3 DEF KernelExcludes, ProbeUnlocked, LostInKernel
<1>8. CASE UNCHANGED lockVars
    BY <1>8 DEF lockVars, LockTypeOK, LockMirrored, KernelExcludes, ProbeUnlocked, LostInKernel
<1> QED BY <1>2, <1>3, <1>4, <1>5, <1>6, <1>7, <1>8, Zenon DEF LockNext, Server

\* What P9File::lock says is what the kernel holds, but for a probe of getlock, for a
\* lock lost in a refused conversion and for files in memory, whatever the fids.
THEOREM LockStaysMirrored == LockSpec => []LockMirrored
<1>1. LockInv => LockMirrored
    BY DEF LockInv
<1> QED BY <1>1, LocksBegin, LocksKept, PTL DEF LockSpec

\* Two fids are never both told to hold locks that exclude each other, apart from a
\* fid that lost its lock in a refused conversion and from files in memory.
THEOREM LocksStayExcluded == LockSpec => []Excluded
<1>1. LockInv => Excluded
    <2> SUFFICES ASSUME LockInv, NEW f \in Fids \ (lost \cup Memory), NEW g \in Fids \ (lost \cup Memory),
                        f # g, lock[f] = "ex"
                 PROVE  lock[g] \in {"un", "closed"}
        BY DEF Excluded
    <2>1. f # probe /\ kern[f] = "ex"
        BY P9LockAssumption DEF LockInv, LockMirrored, ProbeUnlocked
    <2>2. kern[g] = "un"
        BY <2>1 DEF LockInv, KernelExcludes, Owners
    <2>3. CASE g = probe
        BY <2>3, P9LockAssumption, SMTT(30) DEF LockInv, ProbeUnlocked
    <2>4. CASE g # probe
        BY <2>2, <2>4 DEF LockInv, LockMirrored
    <2> QED BY <2>3, <2>4
<1> QED BY <1>1, LocksBegin, LocksKept, PTL DEF LockSpec

\* The table of locks is true and safe for every set of fids (P9File::flock, getlock).
THEOREM LocksStayTrue == LockSpec => []LocksTrue
BY LockStaysMirrored, LocksStayExcluded, PTL DEF LocksTrue
=============================================================================
