-------------------------------- MODULE P9Pdu --------------------------------
(***************************************************************************)
(* One 9P request and its reply (src/devices/virtio_9p/pdu.rs, and the     *)
(* order in which each handler of server.rs reads its arguments, calls the *)
(* filesystem and writes its answer).  PduParser reserves the header of    *)
(* the reply in read_done, appends the payload, and fills the header in    *)
(* afterwards through its address: write_done for an answer, write_err for *)
(* an error.  A failure after part of the payload was appended therefore   *)
(* leaves that part in the reply.                                          *)
(*                                                                         *)
(* Script gives each handler as the list of its calls on the parser and    *)
(* the filesystem.  Arguments and contents are abstracted; what is kept is *)
(* which calls may fail and how many bytes are appended between them.      *)
(***************************************************************************)
EXTENDS Integers, Sequences, SequencesExt

CONSTANTS
    Cmds,        \* the commands sent
    Rooms        \* the sizes of the writable part of the chain

P9_HEADER_LEN == 7

VARIABLES
    cmd,         \* the command
    todo,        \* the calls still to be made by the handler
    err,         \* the error being reported, or "none"
    start,       \* reply_start_addr is set
    room, wlen,  \* bytes left and bytes consumed in the writable descriptors
    payload,     \* what was appended after the header: "data" or an error
    header,      \* the header of the reply, once filled in
    head         \* Chain::head: the chain is still ours

vars == <<cmd, todo, err, start, room, wlen, payload, header, head>>

Call(what, n) == [call |-> what, n |-> n]
R == Call("read", 0)         \* r8 .. r64, read_string, read_attr, read_string_list
Fid == Call("fid", 0)        \* read_fid, read_fid_mut, remove_fid
Chk == Call("check", 0)      \* a test that may return system_error
Fs == Call("fs", 0)          \* a call on the filesystem or the file
Done == Call("read_done", 0)
W(n) == Call("write", n)
End == Call("write_done", 0)
Fail == Call("fail", 0)

\* Fid::join_name after a fid and a name were read: read_new_path.
NewPath == <<Fid, R, Chk>>
QidLen == 13
StatLen == 153

\* Mutant: the reply of mkdir is begun before the qid is read back.
p9_mkdir_early == NewPath \o <<R, R, Done, W(QidLen), Fs, Fs, End>>

p9_getattr == <<Fid, R, Done, Fs, W(StatLen), Fs, W(StatLen), End>>
p9_readdir == <<Fid, R, R, Done, Fs, Chk, W(4), W(24), End>>
p9_read == <<Fid, R, R, Done, Chk, W(4), Fs, End>>
p9_write == <<Fid, R, R, Chk, Fs, Done, W(4), End>>
p9_create == NewPath \o <<R, R, R, Done, Fs, Fs, W(QidLen), W(4), End>>
p9_rename == <<Fid>> \o NewPath \o <<Done, Fs, Fs, End>>
p9_renameat == NewPath \o NewPath \o <<Done, Fs, End>>
p9_mkdir == NewPath \o <<R, R, Done, Fs, Fs, W(QidLen), End>>
p9_symlink == NewPath \o <<R, R, Done, Fs, Fs, W(StatLen), End>>
p9_setattr == <<Fid, R, Done, Fs, Fs, Fs, Fs, Fs, End>>
p9_walk == <<Fid, R, R, Done, Chk, Fs, Fs, W(2), W(QidLen), End>>
p9_lock == <<Fid, R, R, R, Done, Chk, Chk, Fs, W(1), End>>
p9_getlock == <<Fid, R, R, R, Done, Chk, Fs, W(1), W(8), W(8), W(4), W(2), End>>
p9_attach == <<R, R, R, R, R, Done, Chk, Fs, W(QidLen), End>>
p9_unlinkat == NewPath \o <<R, Done, Chk, Fs, End>>
p9_link == <<Fid, Fid, R, Done, Chk, Fs, End>>
p9_statfs == <<Fid, Done, Fs, W(60), End>>
p9_open == <<Fid, R, Done, Fs, W(QidLen), W(4), End>>
p9_mknod == NewPath \o <<R, R, R, R, Done, Fail>>
p9_readlink == <<Fid, Done, Fs, W(2), W(1), End>>
p9_unsupported == <<Done, Fail>>
p9_fsync == <<Fid, R, Done, Chk, Fs, End>>
p9_version == <<R, R, Done, W(4), W(10), End>>
p9_flush == <<Done, End>>
p9_clunk == <<R, Done, Fid, End>>
p9_remove == <<R, Done, Fid, Fs, End>>

dispatch(c) ==
    CASE c = "statfs" -> p9_statfs
      [] c = "open" -> p9_open
      [] c = "create" -> p9_create
      [] c = "symlink" -> p9_symlink
      [] c = "mknod" -> p9_mknod
      [] c = "rename" -> p9_rename
      [] c = "readlink" -> p9_readlink
      [] c = "getattr" -> p9_getattr
      [] c = "setattr" -> p9_setattr
      [] c = "xattr" -> p9_unsupported
      [] c = "readdir" -> p9_readdir
      [] c = "fsync" -> p9_fsync
      [] c = "lock" -> p9_lock
      [] c = "getlock" -> p9_getlock
      [] c = "unlinkat" -> p9_unlinkat
      [] c = "link" -> p9_link
      [] c = "mkdir" -> p9_mkdir
      [] c = "renameat" -> p9_renameat
      [] c = "version" -> p9_version
      [] c = "attach" -> p9_attach
      [] c = "flush" -> p9_flush
      [] c = "walk" -> p9_walk
      [] c = "read" -> p9_read
      [] c = "write" -> p9_write
      [] c = "clunk" -> p9_clunk
      [] c = "remove" -> p9_remove
      [] OTHER -> <<>>

None == [type |-> "none", size |-> 0]

Init ==
    /\ cmd \in Cmds
    /\ todo = <<Call("command", 0)>>
    /\ err = "none"
    /\ start = FALSE
    /\ room \in Rooms /\ wlen = 0
    /\ payload = <<>>
    /\ header = None
    /\ head = TRUE

\* The handler's next call is what; it succeeds and the handler goes on.
At(what) == head /\ err = "none" /\ todo # <<>> /\ Head(todo).call = what
Goes == todo' = Tail(todo) /\ UNCHANGED <<cmd, err>>

\* command() read the size, the command and the tag: dispatch.
command ==
    /\ At("command")
    /\ todo' = dispatch(cmd)
    /\ UNCHANGED <<cmd, err, start, room, wlen, payload, header, head>>

\* handle: command() failed, a warning is all that happens.
command_fails ==
    /\ At("command")
    /\ todo' = <<>>
    /\ UNCHANGED <<cmd, err, start, room, wlen, payload, header, head>>

\* A call that appends nothing succeeds.
proceed ==
    /\ \E what \in {"read", "fid", "check", "fs"} : At(what)
    /\ Goes
    /\ UNCHANGED <<start, room, wlen, payload, header, head>>

\* Such a call returns an error, which handle gives to bail_err.
fails ==
    /\ \E what \in {"read", "fid", "check", "fs", "fail"} : At(what)
    /\ err' = "errno"
    /\ UNCHANGED <<cmd, todo, start, room, wlen, payload, header, head>>

\* The header is reserved if the descriptor holds 8 more bytes.
Reserve ==
    IF room >= 8
    THEN /\ start' = TRUE
         /\ room' = room - P9_HEADER_LEN /\ wlen' = wlen + P9_HEADER_LEN
    ELSE UNCHANGED <<start, room, wlen>>

read_done ==
    /\ At("read_done")
    /\ Reserve
    /\ err' = IF room >= 8 THEN "none" ELSE "EIO"
    /\ todo' = Tail(todo)
    /\ UNCHANGED <<cmd, payload, header, head>>

\* w8 .. w64, write_string: append, or fill what is left and fail.
Append_(what, n) ==
    LET fit == IF n <= room THEN n ELSE room
    IN  /\ room' = room - fit /\ wlen' = wlen + fit
        /\ payload' = IF fit = n THEN payload \o <<what>> ELSE payload

write ==
    /\ At("write")
    /\ Append_("data", Head(todo).n)
    /\ err' = IF Head(todo).n <= room THEN "none" ELSE "EIO"
    /\ todo' = Tail(todo)
    /\ UNCHANGED <<cmd, start, header, head>>

write_done ==
    /\ At("write_done")
    /\ header' = [type |-> "Rcmd", size |-> wlen]
    /\ head' = FALSE
    /\ Goes
    /\ UNCHANGED <<start, room, wlen, payload>>

\* bail_err and write_err: reserve the header if that was not done yet, then
\* append the code.  Without room the error is dropped with the chain.
write_err ==
    /\ head /\ err # "none"
    /\ IF start
       THEN /\ Append_(err, 4)
            /\ header' = IF room >= 4
                         THEN [type |-> "Rlerror", size |-> P9_HEADER_LEN + 4]
                         ELSE None
            /\ head' = FALSE
            /\ UNCHANGED start
       ELSE /\ Reserve
            /\ head' = (room >= 8)
            /\ UNCHANGED <<payload, header>>
    /\ UNCHANGED <<cmd, todo, err>>

\* The closure of on_each_chain returns and the chain is dropped.
drop ==
    /\ head /\ err = "none" /\ todo = <<>>
    /\ head' = FALSE
    /\ UNCHANGED <<cmd, todo, err, start, room, wlen, payload, header>>

Next ==
    \/ command \/ command_fails \/ proceed \/ fails
    \/ read_done \/ write \/ write_done \/ write_err \/ drop

Spec == Init /\ [][Next]_vars /\ WF_vars(Next)

-----------------------------------------------------------------------------
\* Counters and markers have their types, and a response that was started holds its
\* header.
TypeOK ==
    /\ err \in {"none", "errno", "EIO"}
    /\ room \in Nat /\ wlen \in Nat
    /\ header.type \in {"none", "Rcmd", "Rlerror"}
    /\ start => wlen >= P9_HEADER_LEN

\* The code in an Rlerror, its first payload word, is the error that happened.
\* Exempt are read, which appended its byte count before the file is read, and
\* getattr, which appends the attributes twice: a failure in between is
\* reported with the bytes already there in place of the code.
ErrorCarried ==
    header.type = "Rlerror" => Head(payload) = err \/ cmd \in {"read", "getattr"}

\* A returned chain holds a reply whose size field is what was written to it
\* (an error reply may be followed by payload of the answer that failed),
\* and an answer is only given when the handler ran to its end.
ReplyFramed ==
    /\ header.type = "Rcmd" => header.size = wlen /\ todo = <<>> /\ err = "none"
    /\ header.type = "Rlerror" => header.size <= wlen /\ err # "none"

\* A chain goes back without a reply only if its writable part was too small,
\* the command could not be read, or there is no handler for it.
SilenceExcused ==
    (~head /\ header = None) => room < 8 \/ dispatch(cmd) = <<>> \/ (~start /\ err = "none")

\* Every request is returned to the guest, whatever fails on the way.
ChainReturned == <>(~head)
=============================================================================
