----------------------------- MODULE VirtioBlock -----------------------------
(***************************************************************************)
(* The worker of the block device (src/devices/virtio_block.rs): it takes  *)
(* a chain, reads a request header, performs the request on the disk image *)
(* and writes a status byte.  The driver sends requests laid out as the    *)
(* header, the data and the status byte, split into descriptors in several *)
(* ways.  Descriptor lengths are in units that keep HEADER_SIZE below      *)
(* SECTOR_SIZE; the status takes one unit.                                 *)
(***************************************************************************)
EXTENDS RawDiskImage, DescriptorList

CONSTANTS
    HEADER_SIZE, SECTOR_SIZE,
    IdLen,        \* length of disk_image_id: that of "<dev><rdev><ino>", at most 20
    Requests      \* the requests a driver may make

\* rlens and wlens are the lengths of the readable and the writeable
\* descriptors; data holds the sectors of an OUT request.
RequestType == [type : {"IN", "OUT", "FLUSH", "GET_ID", "OTHER"}, sector : Sectors,
                rlens : Seq(Nat \ {0}), wlens : Seq(Nat \ {0}), data : Seq(Values)]

ASSUME BlockAssumption ==
    /\ HEADER_SIZE \in Nat \ {0} /\ SECTOR_SIZE \in Nat /\ SECTOR_SIZE >= HEADER_SIZE
    /\ IdLen \in Nat \ {0}
    /\ Requests \subseteq RequestType
    /\ \A r \in Requests : /\ r.rlens = <<>> \/ Head(r.rlens) >= HEADER_SIZE
                           /\ r.type = "GET_ID" => Head(r.wlens) >= IdLen

VARIABLES
    pc,                   \* where the worker is
    request,              \* the request in the chain being served
    readable, writeable,  \* the chain's lists
    head,                 \* the chain has not been returned
    sector,               \* MessageHandler::sector
    outcome,              \* the status about to be written
    buf,                  \* the data buffer: sectors placed in it, a status that went astray
    prior,                \* what the status byte held when the request was sent
    status,               \* the driver's status byte
    used                  \* the length the chain was returned with

workerVars == <<pc, request, readable, writeable, head, sector, outcome, buf, prior, status, used>>
vars == <<diskVars, workerVars>>

Init ==
    /\ DiskInit
    /\ pc = "wait"
    /\ request \in Requests
    /\ readable = NewList(<<>>) /\ writeable = NewList(<<>>)
    /\ head = FALSE
    /\ sector = 0
    /\ outcome = "none" /\ prior = "unset" /\ status = "unset"
    /\ buf = <<>> /\ used = 0

\* The queue hands out the next chain.  The driver need not have cleared the
\* status byte: it may still hold the OK of an earlier request.
wait_next_chain ==
    /\ pc = "wait"
    /\ \E r \in Requests :
        /\ request' = r
        /\ readable' = NewList(r.rlens) /\ writeable' = NewList(r.wlens)
    /\ head' = TRUE
    /\ pc' = "header"
    /\ prior' \in {"unset", "OK"} /\ status' = prior'
    /\ outcome' = "none" /\ buf' = <<>> /\ used' = 0
    /\ UNCHANGED <<diskVars, sector>>

\* The while loop of run ends and the chain is dropped, hence flushed.
end_chain ==
    /\ pc = "header"
    /\ remaining(readable) < HEADER_SIZE
    /\ readable' = clear(readable) /\ writeable' = clear(writeable)
    /\ used' = IF head THEN writeable.consumed_size ELSE used
    /\ head' = FALSE
    /\ pc' = "wait"
    /\ UNCHANGED <<diskVars, request, sector, outcome, buf, prior, status>>

read_header ==
    /\ pc = "header"
    /\ remaining(readable) >= HEADER_SIZE
    /\ readable.descriptors # <<>>
    /\ readable' = inc(readable, HEADER_SIZE)
    /\ sector' = request.sector
    /\ pc' = request.type
    /\ UNCHANGED <<diskVars, request, writeable, head, outcome, buf, prior, status, used>>

\* The chain has been flushed, but what was left to read still counts as
\* remaining: the header cannot be read, and the loop goes round again.
read_header_fails ==
    /\ pc = "header"
    /\ remaining(readable) >= HEADER_SIZE
    /\ readable.descriptors = <<>>
    /\ UNCHANGED vars

Finish(s) ==
    /\ outcome' = s
    /\ pc' = "status"
    /\ UNCHANGED <<request, readable, writeable, head, sector, buf, prior, status, used>>

\* Mutant: a failed read is not noticed.
handle_io_in_unchecked ==
    /\ pc = "IN"
    /\ LET nsectors == CurrentRemaining(writeable) \div SECTOR_SIZE
       IN  \/ nsectors = 0 /\ Finish("OK") /\ UNCHANGED diskVars
           \/ /\ nsectors > 0
              /\ read_sectors(sector, nsectors)
              /\ readable' = clear(readable)
              /\ writeable' = inc(writeable, nsectors * SECTOR_SIZE)
              /\ sector' = sector + nsectors
              /\ buf' = buf \o result'.data
              /\ UNCHANGED <<pc, request, head, outcome, prior, status, used>>

\* One iteration of handle_io_in: the whole sectors of the current writeable
\* descriptor; a descriptor shorter than a sector, the status, ends it.
handle_io_in ==
    /\ pc = "IN"
    /\ LET nsectors == CurrentRemaining(writeable) \div SECTOR_SIZE
       IN  \/ nsectors = 0 /\ Finish("OK") /\ UNCHANGED diskVars
           \/ /\ nsectors > 0
              /\ read_sectors(sector, nsectors)
              /\ \/ /\ result'.ok
                    /\ readable' = clear(readable)
                    /\ writeable' = inc(writeable, nsectors * SECTOR_SIZE)
                    /\ sector' = sector + nsectors
                    /\ buf' = buf \o result'.data
                    /\ UNCHANGED <<pc, request, head, outcome, prior, status, used>>
                 \/ ~result'.ok /\ Finish("IOERR")

\* The part of an OUT request's data that the next n sectors take.
DataAt(n) == SubSeq(request.data, sector - request.sector + 1, sector - request.sector + n)

\* One iteration of handle_io_out: all of the current readable descriptor,
\* which must be made of whole sectors.
handle_io_out ==
    /\ pc = "OUT"
    /\ LET len == CurrentRemaining(readable)
           nsectors == len \div SECTOR_SIZE
       IN  \/ len % SECTOR_SIZE # 0 /\ Finish("IOERR") /\ UNCHANGED diskVars
           \/ len = 0 /\ Finish("OK") /\ UNCHANGED diskVars
           \/ /\ len % SECTOR_SIZE = 0 /\ len > 0
              /\ write_sectors(sector, DataAt(nsectors))
              /\ \/ /\ result'.ok
                    /\ readable' = inc(readable, nsectors * SECTOR_SIZE)
                    /\ sector' = sector + nsectors
                    /\ UNCHANGED <<pc, request, writeable, head, outcome, buf, prior, status, used>>
                 \/ ~result'.ok /\ Finish("IOERR")

\* No image overrides DiskImage::flush, which does nothing.
handle_io_flush == pc = "FLUSH" /\ Finish("OK") /\ UNCHANGED diskVars

handle_get_id ==
    /\ pc = "GET_ID"
    /\ writeable' = inc(writeable, IdLen)
    /\ outcome' = "OK" /\ pc' = "status"
    /\ UNCHANGED <<diskVars, request, readable, head, sector, buf, prior, status, used>>

\* process_message writes UNSUPP itself and then reports Ok; that second
\* write_status finds the chain returned and changes nothing.
unexpected_command == pc = "OTHER" /\ Finish("UNSUPP") /\ UNCHANGED diskVars

\* The status goes to the first byte not written yet: the driver's status byte
\* when all of the data buffer has been written, a byte of the data otherwise.
write_status ==
    /\ pc = "status"
    /\ \/ Reachable(writeable) = 1 /\ status' = outcome /\ UNCHANGED buf
       \/ Reachable(writeable) # 1 /\ buf' = Append(buf, outcome) /\ UNCHANGED status
    /\ used' = inc(writeable, 1).consumed_size
    /\ readable' = clear(readable) /\ writeable' = clear(inc(writeable, 1))
    /\ head' = FALSE
    /\ pc' = "header"
    /\ UNCHANGED <<diskVars, request, sector, outcome, prior>>

Worker ==
    \/ end_chain \/ read_header \/ read_header_fails
    \/ handle_io_in \/ handle_io_out \/ handle_io_flush \/ handle_get_id \/ unexpected_command
    \/ write_status

Next == wait_next_chain \/ Worker

\* The worker thread runs; the driver may stop sending requests.
Spec == Init /\ [][Next]_vars /\ WF_vars(Worker)

-----------------------------------------------------------------------------
(* Properties *)

TypeOK ==
    /\ DiskTypeOK
    /\ pc \in {"wait", "header", "IN", "OUT", "FLUSH", "GET_ID", "OTHER", "status"}
    /\ request \in Requests
    /\ readable \in Lists /\ writeable \in Lists
    /\ head \in BOOLEAN
    /\ sector \in Nat
    /\ outcome \in {"none", "OK", "IOERR", "UNSUPP"}
    /\ prior \in {"unset", "OK"} /\ status \in {"unset", "OK", "IOERR", "UNSUPP"}
    /\ buf \in Seq(Values \union {"OK", "IOERR", "UNSUPP"})
    /\ used \in Nat

\* The sectors an IN or OUT request is about.
Count ==
    CASE request.type = "IN"  -> (SumLengths(request.wlens) - 1) \div SECTOR_SIZE
      [] request.type = "OUT" -> Len(request.data)
      [] OTHER -> 0

\* What a sector may read as; the shortcut of the overlay may also return the
\* content of the image (see ReadsLatest).
Readable(s) == expected[s] \union (IF open_type = "MemoryOverlay" THEN {file[s]} ELSE {})

\* The request has been answered.
Answered == ~head /\ outcome # "none"

\* The requests whose data buffer is not written to its end, so that what comes
\* next, the status, is put into the data: a read that fails, and a GET_ID whose
\* buffer is longer than the id (a driver gives it 20 bytes).
DataCutShort ==
    \/ request.type = "IN" /\ outcome = "IOERR"
    \/ request.type = "GET_ID" /\ IdLen < SumLengths(request.wlens) - 1

\* The sectors of buf, without a status put after them.
Placed == SelectSeq(buf, LAMBDA x : x \in Values)

\* Where the status of a request goes: to the status byte, for every request but
\* those of DataCutShort; for these the status byte keeps what the driver left in
\* it, be it the OK of an earlier request, and the data has a status in it, after
\* the sectors that were read.  A driver that did not clear the byte takes the
\* failed read for a success.
StatusPlaced ==
    Answered => IF DataCutShort THEN status = prior /\ buf = Append(Placed, outcome)
                ELSE status = outcome /\ buf = Placed

\* OK is written only for what was done: all of the data has been moved, to and
\* from the right sectors.  A disk error at any descriptor of the request makes
\* the status another one, and so does a request the device does not know.
OkMeansDone ==
    Answered /\ outcome = "OK" =>
        /\ request.type # "OTHER"
        /\ request.type = "IN" =>
              /\ Len(buf) = Count
              /\ \A i \in 1 .. Count : buf[i] \in Readable(request.sector + i - 1)
        /\ request.type = "OUT" =>
              \A i \in 1 .. Count : expected[request.sector + i - 1] = {request.data[i]}

\* The disk does what the request asks for.
Possible ==
    /\ ~HostFails
    /\ request.sector + Count <= NSectors
    /\ request.type = "OUT" => open_type # "ReadOnly"

\* When a read, write or flush that the disk can perform has been returned,
\* the status byte says OK and the used length counts the data and the status,
\* however the request is split into descriptors.
PossibleSucceeds ==
    Answered /\ request.type \in {"IN", "OUT", "FLUSH"} /\ Possible =>
        status = "OK" /\ used = SumLengths(request.wlens)

\* A worker that has taken a chain comes back for the next one, as long as no
\* OUT request fails and no unknown request carries data.  (When one does,
\* read_header_fails repeats for ever.)
EveryChainFinished == pc # "wait" ~> pc = "wait"

=============================================================================
