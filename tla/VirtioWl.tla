------------------------------ MODULE VirtioWl -------------------------------
(***************************************************************************)
(* The virtio-wl device (src/devices/virtio_wl/): one thread serves the    *)
(* guest's commands, receives what the host compositor writes to the       *)
(* sockets and pipes of the virtual file descriptors (vfds), and passes it *)
(* on through the in queue.  Composed with the shared memory mapper, which *)
(* backs the shared memory vfds.                                           *)
(*                                                                         *)
(* The device thread is interrupted by the driver and by the compositor    *)
(* between any two of its steps: a poll event, one vfd of a batch, one fd  *)
(* of a message, one chain of the in queue.  Guest ids are 1 .. GuestIds,  *)
(* host ids follow them (NEXT_VFD_ID_BASE).  What the compositor sent and  *)
(* the device has not read is the inbox of a vfd: "data", passed files (a  *)
(* "file" has a size and is mapped, a "pipe" and a "writer", the read and  *)
(* the write end of a pipe, do not), "eof" or "err".                       *)
(***************************************************************************)
EXTENDS ShmMapper, Sequences, FiniteSets, Functions

CONSTANTS
    GuestIds,    \* bound: ids the driver allocates from
    HostIds,     \* bound: ids given to files the compositor passes
    MaxOut,      \* bound: commands the driver has in flight
    MaxIn,       \* bound: chains the driver has posted for input
    MaxInbox,    \* bound: unread items of a vfd
    MaxPending,  \* bound: undelivered input, beyond which the peers wait
    Items,       \* what the compositor may send
    Ops,         \* the commands the driver issues
    ShortChains  \* TRUE: an in chain may be too short for its message

ASSUME WlAssumption == GuestIds \in Nat /\ HostIds \in Nat

Guest == 1 .. GuestIds
Ids == 1 .. (GuestIds + HostIds)

VARIABLES
    vfd_map,     \* HashMap id -> VfdObject, Absent where there is none
    next_vfd_id,
    in_queue_pending,
    at,          \* what the device thread does
    batch,       \* the vfds of the poll events not handled yet
    job,         \* the message recv_from_vfd is taking apart
    outq, outKick, inq, inKick,   \* the virtqueues and their ioeventfds
    known,       \* the driver's own table of open vfds
    merged,      \* ghost: kicks of the out queue that met one not yet read
    orphans,     \* ghost: vfds left by a message that failed midway
    skipped,     \* ghost: vfds whose VFD_NEW met a short chain
    silent,      \* ghost: vfds whose file was dropped by an error of recv
    stale,       \* ghost: ids closed while input from them was pending
    short        \* ghost: the last drain met a chain too short for its message

ghosts == <<merged, orphans, skipped, silent, stale, short>>
queues == <<outq, outKick, inq, inKick>>
wlVars == <<vfd_map, next_vfd_id, in_queue_pending, at, batch, job, queues,
            known, ghosts, shmVars>>

Vfd(kind, open, remote, slot) ==
    [kind |-> kind, open |-> open, remote |-> remote, polled |-> open, slot |-> slot, inbox |-> <<>>]
Absent == Vfd("absent", FALSE, FALSE, -1)
Socket == Vfd("socket", TRUE, FALSE, -1)
Pipe(kind, remote) == Vfd(kind, TRUE, remote, -1)
Shm(s) == Vfd("shm", FALSE, FALSE, s)

NoJob == [id |-> 0, fds |-> <<>>, got |-> <<>>]
Hup(id) == [id |-> id, hup |-> TRUE, vfds |-> <<>>, cur |-> 0]
Recv(id, vfds) == [id |-> id, hup |-> FALSE, vfds |-> vfds, cur |-> 0]

Present(id) == vfd_map[id].kind # "absent"

WlInit ==
    /\ ShmInit
    /\ vfd_map = [id \in Ids |-> Absent]
    /\ next_vfd_id = GuestIds + 1
    /\ in_queue_pending = <<>>
    /\ at = "poll" /\ batch = {} /\ job = NoJob
    /\ outq = <<>> /\ outKick = FALSE /\ inq = 0 /\ inKick = FALSE
    /\ known = {} /\ merged = 0 /\ orphans = {} /\ skipped = {} /\ silent = {}
    /\ stale = {} /\ short = FALSE

-----------------------------------------------------------------------------
\* The driver and the compositor.

\* The driver allocates ids of its own and closes each vfd once.  It forgets
\* the id with the close; a kick that meets an unread one leaves no trace.
Submit(op, id) ==
    /\ Len(outq) < MaxOut
    /\ \A i \in DOMAIN outq : outq[i].id # id
    /\ \/ op \in {"NEW", "NEW_DMABUF", "NEW_CTX", "NEW_PIPE"} /\ id \in Guest \ known /\ UNCHANGED known
       \/ op = "SEND" /\ id \in known /\ UNCHANGED known
       \/ op = "CLOSE" /\ id \in known /\ known' = known \ {id}
    /\ outq' = Append(outq, [op |-> op, id |-> id])
    /\ outKick' = TRUE
    /\ merged' = IF outKick THEN merged + 1 ELSE merged
    /\ UNCHANGED <<vfd_map, next_vfd_id, in_queue_pending, at, batch, job, inq, inKick,
                   orphans, skipped, silent, stale, short, shmVars>>

PostIn ==
    /\ inq < MaxIn
    /\ inq' = inq + 1 /\ inKick' = TRUE
    /\ UNCHANGED <<vfd_map, next_vfd_id, in_queue_pending, at, batch, job, outq, outKick,
                   known, ghosts, shmVars>>

Fds(item) == CASE item = "file" -> <<"file">>
               [] item = "two files" -> <<"file", "file">>
               [] item \in {"pipe", "writer"} -> <<item>>
               [] OTHER -> <<>>
Unread == {id \in Ids : vfd_map[id].inbox # <<>>}

\* The compositor writes, passes files, closes or fails; it has nothing to say at the
\* other end of a pipe the device writes to but that it is closed; only a socket
\* passes files, and no two such messages are on their way at once (HostIds).
PeerSend(id, item) ==
    LET v == vfd_map[id] IN
    /\ v.open
    /\ v.kind = "writer" => item = "eof"
    /\ Len(v.inbox) < MaxInbox /\ ~ \E i \in DOMAIN v.inbox : v.inbox[i] \in {"eof", "err"}
    /\ Len(in_queue_pending) + Cardinality(Unread) < MaxPending
    /\ Fds(item) # <<>> =>
        /\ v.kind = "socket" /\ job = NoJob
        /\ next_vfd_id + Len(Fds(item)) - 1 <= GuestIds + HostIds
        /\ \A i \in Ids : \A k \in DOMAIN vfd_map[i].inbox : Fds(vfd_map[i].inbox[k]) = <<>>
    /\ vfd_map' = [vfd_map EXCEPT ![id].inbox = Append(@, item)]
    /\ UNCHANGED <<next_vfd_id, in_queue_pending, at, batch, job, queues, known, ghosts, shmVars>>

-----------------------------------------------------------------------------
\* OUT_VQ_TOKEN: one read of the ioeventfd, one chain.

Command(op, id) == at = "poll" /\ outKick /\ outq # <<>> /\ Head(outq) = [op |-> op, id |-> id]

\* The chain goes back with a response, an error response if the handler failed.
Answered ==
    /\ outq' = Tail(outq) /\ outKick' = FALSE
    /\ UNCHANGED <<next_vfd_id, in_queue_pending, at, batch, job, inq, inKick,
                   merged, orphans, skipped, short>>

\* The VFD_NEW response tells the driver that the id is open.
Created(id, v) ==
    /\ vfd_map' = [vfd_map EXCEPT ![id] = v]
    /\ known' = known \union {id}
    /\ Answered /\ UNCHANGED <<silent, stale>>

Refused == Answered /\ UNCHANGED <<vfd_map, known, silent, stale>>

\* create_shm: OUT_OF_MEMORY when the buffer cannot be allocated or mapped.
cmd_new_alloc(id) ==
    /\ Command("NEW", id)
    /\ \/ \E n \in Sizes, s \in Slots, r \in Ranges : register(n, s, r) /\ Created(id, Shm(s))
       \/ \E n \in Sizes : register_fails(n) /\ Refused

\* create_dmabuf: also refused when dmabufs are off or the DRM allocator fails.
cmd_new_dmabuf(id) ==
    /\ Command("NEW_DMABUF", id)
    /\ \/ \E n \in Sizes, s \in Slots, r \in Ranges : register(n, s, r) /\ Created(id, Shm(s))
       \/ UNCHANGED shmVars /\ Refused

\* create_socket, which fails when the compositor is not there.
cmd_new_ctx(id) ==
    /\ Command("NEW_CTX", id)
    /\ Created(id, Socket) \/ Refused
    /\ UNCHANGED shmVars

\* create_pipe: the device keeps both ends, the remote one to be sent.
cmd_new_pipe(id) ==
    /\ Command("NEW_PIPE", id)
    /\ (\E kind \in {"pipe", "writer"} : Created(id, Pipe(kind, TRUE))) \/ Refused
    /\ UNCHANGED shmVars

\* cmd_send and cmd_dmabuf_sync change nothing here, whatever they answer.
cmd_send(id) == Command("SEND", id) /\ Refused /\ UNCHANGED shmVars

Closed(id) ==
    /\ vfd_map' = [vfd_map EXCEPT ![id] = Absent]
    /\ stale' = IF \E i \in DOMAIN in_queue_pending : in_queue_pending[i].id = id
                THEN stale \union {id} ELSE stale
    /\ silent' = silent \ {id}
    /\ UNCHANGED known
    /\ Answered

\* Mutant: the vfd goes without its buffer.
cmd_close_keeps_buffer(id) == Command("CLOSE", id) /\ Closed(id) /\ UNCHANGED shmVars

\* close_vfd: the vfd leaves the map whether or not its buffer can be freed.
cmd_close(id) ==
    /\ Command("CLOSE", id)
    /\ Closed(id)
    /\ IF vfd_map[id].kind = "shm"
       THEN unregister(vfd_map[id].slot) \/ unregister_fails(vfd_map[id].slot)
       ELSE UNCHANGED shmVars

\* Mutant: nothing is read from the queue while input waits.
OutVq_busy ==
    \/ \E id \in Ids : \/ cmd_new_alloc(id) \/ cmd_new_dmabuf(id) \/ cmd_new_ctx(id)
                       \/ cmd_new_pipe(id) \/ cmd_send(id) \/ cmd_close(id)
    \/ at = "poll" /\ outKick /\ in_queue_pending # <<>> /\ outKick' = FALSE
       /\ UNCHANGED <<vfd_map, next_vfd_id, in_queue_pending, at, batch, job, outq, inq,
                      inKick, known, ghosts, shmVars>>

OutVq ==
    \E id \in Ids : \/ cmd_new_alloc(id) \/ cmd_new_dmabuf(id) \/ cmd_new_ctx(id)
                    \/ cmd_new_pipe(id) \/ cmd_send(id) \/ cmd_close(id)

-----------------------------------------------------------------------------
\* VFDS_TOKEN: process_poll_events.

\* EPOLLIN; or EPOLLHUP alone: a pipe with nothing to read whose writers are gone; or
\* EPOLLERR alone: a pipe whose readers are gone.  They are not gone while the device
\* holds the remote end itself.
Has(v) == v.open /\ v.polled /\ v.inbox # <<>>
Ends(v, kind) == v.kind = kind /\ Head(v.inbox) = "eof"
Readable(v) == Has(v) /\ ~ Ends(v, "pipe") /\ ~ Ends(v, "writer")
HungUp(v) == Has(v) /\ ~ v.remote /\ Ends(v, "pipe")
Broken(v) == Has(v) /\ ~ v.remote /\ Ends(v, "writer")
Ready == {id \in Ids : Readable(vfd_map[id]) \/ HungUp(vfd_map[id]) \/ Broken(vfd_map[id])}

process_poll_events ==
    /\ at = "poll" /\ Ready # {}
    /\ at' = "vfds" /\ batch' = Ready
    /\ UNCHANGED <<vfd_map, next_vfd_id, in_queue_pending, job, queues, known, ghosts, shmVars>>

Take(id) == [vfd_map EXCEPT ![id].inbox = Tail(@)]
Drop(id) == LET v == vfd_map[id] IN [vfd_map EXCEPT ![id] = Vfd(v.kind, FALSE, v.remote, v.slot)]

\* VfdSocket::recv and VfdPipe::recv take the file out of the vfd and put it
\* back only after bytes or files arrived.
recv_data(id, item) ==
    /\ item = "data"
    /\ vfd_map' = Take(id)
    /\ in_queue_pending' = Append(in_queue_pending, Recv(id, <<>>))
    /\ UNCHANGED <<job, silent>>

recv_fds(id, item) ==
    /\ Fds(item) # <<>>
    /\ vfd_map' = Take(id)
    /\ job' = [id |-> id, fds |-> Fds(item), got |-> <<>>]
    /\ UNCHANGED <<in_queue_pending, silent>>

\* Mutant: the socket is put back after an empty read.
recv_eof_keeps_socket(id, item) ==
    /\ item = "eof"
    /\ in_queue_pending' = Append(in_queue_pending, Hup(id))
    /\ UNCHANGED <<vfd_map, job, silent>>

recv_eof(id, item) ==
    /\ item = "eof"
    /\ vfd_map' = Drop(id)
    /\ in_queue_pending' = Append(in_queue_pending, Hup(id))
    /\ UNCHANGED <<job, silent>>

recv_err(id, item) ==
    /\ item = "err"
    /\ vfd_map' = Drop(id)
    /\ silent' = silent \union {id}
    /\ UNCHANGED <<in_queue_pending, job>>

recv_from_vfd(id) ==
    /\ at = "vfds" /\ job = NoJob /\ id \in batch
    /\ Readable(vfd_map[id])
    /\ LET item == Head(vfd_map[id].inbox) IN
        recv_data(id, item) \/ recv_fds(id, item) \/ recv_eof(id, item) \/ recv_err(id, item)
    /\ batch' = batch \ {id}
    /\ UNCHANGED <<next_vfd_id, at, queues, known, merged, orphans, skipped, stale, short, shmVars>>

process_hangup_event(id) ==
    /\ at = "vfds" /\ job = NoJob /\ id \in batch
    /\ HungUp(vfd_map[id])
    /\ vfd_map' = [vfd_map EXCEPT ![id].polled = FALSE]
    /\ in_queue_pending' = Append(in_queue_pending, Hup(id))
    /\ batch' = batch \ {id}
    /\ UNCHANGED <<next_vfd_id, at, job, queues, known, ghosts, shmVars>>

\* An event that is neither readable nor a hangup is passed over, and comes again.
pass_over(id) ==
    /\ at = "vfds" /\ job = NoJob /\ id \in batch
    /\ Broken(vfd_map[id])
    /\ batch' = batch \ {id}
    /\ UNCHANGED <<vfd_map, next_vfd_id, in_queue_pending, at, job, queues, known, ghosts, shmVars>>

add_vfd_device(v) ==
    /\ vfd_map' = [vfd_map EXCEPT ![next_vfd_id] = v]
    /\ next_vfd_id' = next_vfd_id + 1
    /\ job' = [job EXCEPT !.fds = Tail(@), !.got = Append(@, next_vfd_id)]
    /\ UNCHANGED orphans

\* One passed file becomes a vfd.  When its buffer cannot be registered, `?`
\* drops the message and leaves the vfds made before it in the map.
vfd_from_file ==
    /\ job.fds # <<>>
    /\ \/ /\ Head(job.fds) = "file"
          /\ \E n \in Sizes, s \in Slots, r \in Ranges : register(n, s, r) /\ add_vfd_device(Shm(s))
       \/ /\ Head(job.fds) = "file"
          /\ \E n \in Sizes : register_fails(n)
          /\ orphans' = orphans \union Range(job.got)
          /\ job' = NoJob
          /\ UNCHANGED <<vfd_map, next_vfd_id>>
       \/ /\ Head(job.fds) \in {"pipe", "writer"}
          /\ add_vfd_device(Pipe(Head(job.fds), FALSE)) /\ UNCHANGED shmVars
    /\ UNCHANGED <<in_queue_pending, at, batch, queues, known, merged, skipped, silent, stale, short>>

recv_pushed ==
    /\ job # NoJob /\ job.fds = <<>>
    /\ in_queue_pending' = Append(in_queue_pending, Recv(job.id, job.got))
    /\ job' = NoJob
    /\ UNCHANGED <<vfd_map, next_vfd_id, at, batch, queues, known, ghosts, shmVars>>

vfds_done ==
    /\ at = "vfds" /\ batch = {} /\ job = NoJob
    /\ at' = "drain_vfds"
    /\ UNCHANGED <<vfd_map, next_vfd_id, in_queue_pending, batch, job, queues, known, ghosts, shmVars>>

-----------------------------------------------------------------------------
\* IN_VQ_TOKEN and drain_pending.

in_vq_ready ==
    /\ at = "poll" /\ inKick
    /\ inKick' = FALSE /\ at' = "drain_in"
    /\ UNCHANGED <<vfd_map, next_vfd_id, in_queue_pending, batch, job, outq, outKick, inq,
                   known, ghosts, shmVars>>

drained ==
    /\ at \in {"drain_in", "drain_vfds"}
    /\ in_queue_pending = <<>> \/ inq = 0
    /\ at' = "poll" /\ short' = FALSE
    /\ UNCHANGED <<vfd_map, next_vfd_id, in_queue_pending, batch, job, queues, known,
                   merged, orphans, skipped, silent, stale, shmVars>>

NextChain ==
    /\ at \in {"drain_in", "drain_vfds"} /\ in_queue_pending # <<>> /\ inq > 0
    /\ inq' = inq - 1
    /\ UNCHANGED <<vfd_map, next_vfd_id, batch, job, outq, outKick, inKick, merged,
                   orphans, silent, shmVars>>

\* next_vfd: the index moves before the message is written.
MoreVfds(msg) == msg.cur < Len(msg.vfds)
NextVfd(msg) == msg.vfds[msg.cur + 1]
Advance == [in_queue_pending EXCEPT ![1].cur = @ + 1]

\* HUP and RECV finish a message; before RECV each vfd of it is announced with
\* VFD_NEW, one chain each.  A vfd closed meanwhile uses its chain for nothing.
send_message(msg) ==
    IF MoreVfds(msg)
    THEN /\ in_queue_pending' = Advance
         /\ known' = IF Present(NextVfd(msg)) THEN known \union {NextVfd(msg)} ELSE known
         /\ UNCHANGED stale
    ELSE /\ in_queue_pending' = Tail(in_queue_pending)
         /\ stale' = {id \in stale : \E i \in DOMAIN in_queue_pending : i > 1 /\ in_queue_pending[i].id = id}
         /\ UNCHANGED known

send_next_input_message ==
    /\ NextChain
    /\ send_message(Head(in_queue_pending))
    /\ UNCHANGED <<at, skipped, short>>

\* The chain is too short.  An error ends the device when the driver's kick led
\* here (`?` in run) and is only logged when a vfd's event did.
send_fails ==
    LET msg == Head(in_queue_pending) IN
    /\ ShortChains /\ NextChain
    /\ IF MoreVfds(msg)
       THEN in_queue_pending' = Advance /\ skipped' = skipped \union {NextVfd(msg)}
       ELSE UNCHANGED <<in_queue_pending, skipped>>
    /\ at' = (IF at = "drain_in" THEN "ended" ELSE "poll") /\ short' = TRUE
    /\ UNCHANGED <<known, stale>>

Vfds == \/ \E id \in Ids : recv_from_vfd(id) \/ process_hangup_event(id) \/ pass_over(id)
        \/ vfd_from_file \/ recv_pushed \/ vfds_done
Drain == drained \/ send_next_input_message \/ send_fails
Device == OutVq \/ process_poll_events \/ Vfds \/ in_vq_ready \/ Drain

WlNext ==
    \/ \E op \in Ops, id \in Ids : Submit(op, id)
    \/ PostIn
    \/ \E id \in Ids, item \in Items : PeerSend(id, item)
    \/ Device

\* The device thread keeps running, and the loop of run() handles every event
\* one wait returns, so no token is passed over for ever.
WlFairness ==
    /\ WF_wlVars(Vfds) /\ WF_wlVars(Drain)
    /\ SF_wlVars(OutVq) /\ SF_wlVars(process_poll_events) /\ SF_wlVars(in_vq_ready)

WlSpec == WlInit /\ [][WlNext]_wlVars /\ WlFairness

-----------------------------------------------------------------------------
\* The tables, the queue of pending input and the loop are well formed: an id not yet
\* given out is free, and only the oldest message is partly announced.
WlTypeOK ==
    /\ known \subseteq DOMAIN vfd_map /\ batch \subseteq DOMAIN vfd_map
    /\ \A id \in DOMAIN vfd_map : id >= next_vfd_id => ~ Present(id)
    /\ \A i \in DOMAIN in_queue_pending :
        LET m == in_queue_pending[i] IN m.cur \in 0 .. Len(m.vfds) /\ (m.cur > 0 => i = 1)
    /\ at \in {"poll", "vfds", "drain_in", "drain_vfds", "ended"}

\* The vfds that own a buffer, and the buffers that have an owner, are the same:
\* no buffer outlives its vfd and no two vfds share one (create_shm,
\* vfd_from_file, close_vfd over register and unregister).
BuffersOwned ==
    LET owners == {id \in DOMAIN vfd_map : vfd_map[id].kind = "shm"}
    IN  /\ {s \in DOMAIN mappings : mappings[s] # None} = {vfd_map[id].slot : id \in owners}
        /\ \A i, j \in owners : vfd_map[i].slot = vfd_map[j].slot => i = j

Closing == {outq[i].id : i \in {k \in DOMAIN outq : outq[k].op = "CLOSE"}}
Unannounced ==
    Range(job.got) \union
    UNION {{in_queue_pending[i].vfds[k] : k \in {n \in DOMAIN in_queue_pending[i].vfds : n > in_queue_pending[i].cur}}
           : i \in DOMAIN in_queue_pending}

\* The driver's table of vfds and the device's are the same, up to what is on
\* its way: a vfd the driver does not know is being closed, is still to be
\* announced, or comes from a message the device dropped (the responses of
\* the commands, VFD_NEW in send_message, the early returns of recv_from_vfd).
VfdsKnown ==
    \A id \in DOMAIN vfd_map :
        Present(id) <=> id \in known \union Closing \union Unannounced \union orphans \union skipped

\* The driver's table of vfds and the device's agree, up to what is on its way, and
\* the vfds that own a buffer are, one to one, the buffers of the shared memory
\* mapper, whatever KVM refuses (close_vfd, recv_from_vfd, send_message).
TablesAgree == WlTypeOK /\ VfdsKnown /\ BuffersOwned

\* A hangup is the last thing a vfd has to say: nothing of it is queued behind
\* its HUP and it is not polled again, unless the guest has closed the id with
\* the HUP still pending, which close_vfd does not take back (recv_from_vfd,
\* process_hangup_event).
HupLast ==
    \A i \in DOMAIN in_queue_pending :
        LET m == in_queue_pending[i] IN
        (m.hup /\ m.id \notin stale) =>
            /\ \A j \in DOMAIN in_queue_pending : in_queue_pending[j].id = m.id => j <= i
            /\ ~ (vfd_map[m.id].open /\ vfd_map[m.id].polled)

\* While the device sleeps in its poll, input waits only for chains: with a
\* chain posted, there is a kick to come, unless the last chain was too short for
\* its message (drain_pending on both paths).
InputMoves ==
    (at = "poll" /\ in_queue_pending # <<>> /\ inq > 0) => (inKick \/ short)

\* A hangup is the last thing the guest hears of a vfd, and input that has a chain
\* to go into has a kick to come (process_hangup_event, drain_pending).
InputInOrder == HupLast /\ InputMoves

CommandSettled == Len(outq) <= merged \/ at = "ended"
HupQueued(id) == \E i \in DOMAIN in_queue_pending : in_queue_pending[i].hup /\ in_queue_pending[i].id = id
PeerClosed(id) ==
    /\ vfd_map[id].kind # "writer" /\ vfd_map[id].polled /\ ~ vfd_map[id].remote
    /\ \E k \in DOMAIN vfd_map[id].inbox : vfd_map[id].inbox[k] = "eof"
HupSettled(id) == HupQueued(id) \/ ~ Present(id) \/ id \in silent \/ at = "ended"
=============================================================================
