-------------------------------- MODULE MCP9 --------------------------------
(***************************************************************************)
(* The 9P server, one aspect at a time.  part names it: "lock" (locks of   *)
(* files, over the values of the .cfg), "host", "walk" and "guest" (fids,  *)
(* with the tree changed by other processes too, with walks of two names,  *)
(* and with two names in the tree), "listing" and "ends" (reading a        *)
(* directory that others change, or do not), "io" (read and write) and     *)
(* "pdu" (the reply to each command).  Each aspect has its own state of    *)
(* the server, so one moves at a time and the others stay in an initial    *)
(* state.                                                                  *)
(***************************************************************************)
EXTENDS P9Lock, Naturals

VARIABLES part,
    tree, fids, req, reply, torn,
    host, entries, reading, todo, phase, msize, count, offset, got, eof, sent,
    kind, len, op, turns, slices, ioCount, ioOffset, nread, moved, ioReply,
    cmd, calls, err, start, room, wlen, payload, header, head

serverVars == <<tree, fids, req, reply, torn>>
listVars == <<host, entries, reading, todo, phase, msize, count, offset, got, eof, sent>>
ioVars == <<kind, len, op, turns, slices, ioCount, ioOffset, nread, moved, ioReply>>
pduVars == <<cmd, calls, err, start, room, wlen, payload, header, head>>
p9Vars == <<part, lockVars, serverVars, listVars, ioVars, pduVars>>

\* The exported directory is one name below the root of the host, or the root.
Hosts == INSTANCE P9Server WITH
    Root <- <<"a">>, Names <- {"a"}, Ids <- {1, 2}, Dirs <- {1, 2}, Files <- {3},
    MaxDepth <- 2, MaxNames <- 1, HostActive <- TRUE, ShortReplies <- TRUE
Walks == INSTANCE P9Server WITH
    Root <- <<"a">>, Names <- {"a"}, Ids <- {1, 2}, Dirs <- {1, 2}, Files <- {3},
    MaxDepth <- 2, MaxNames <- 2, HostActive <- FALSE, ShortReplies <- TRUE
Guests == INSTANCE P9Server WITH
    Root <- <<>>, Names <- {"a", "b"}, Ids <- {1, 2}, Dirs <- {1, 2}, Files <- {3},
    MaxDepth <- 2, MaxNames <- 1, HostActive <- FALSE, ShortReplies <- FALSE
Listing == INSTANCE P9Readdir WITH
    Names <- {3, 4, 6}, NotUtf8 <- {}, Counts <- {4, 20}, Msizes <- {3, 15, 18}, Word <- 65536,
    Checked <- FALSE, HostActive <- TRUE
Ends == INSTANCE P9Readdir WITH
    Names <- {3, 4, 6}, NotUtf8 <- {6}, Counts <- {4, 20}, Msizes <- {3, 15, 18}, Word <- 65536,
    Checked <- TRUE, HostActive <- FALSE
Io == INSTANCE P9Io WITH
    count <- ioCount, offset <- ioOffset, reply <- ioReply,
    Lengths <- {0, 2, 3}, MaxParts <- 3, Counts <- {0, 2}, Offsets <- {0, 1}, MaxLen <- 4
Pdu == INSTANCE P9Pdu WITH
    todo <- calls,
    Cmds <- {"statfs", "open", "create", "symlink", "mknod", "rename", "readlink", "getattr", "setattr",
             "xattr", "readdir", "fsync", "lock", "getlock", "unlinkat", "link", "mkdir", "renameat",
             "version", "attach", "flush", "walk", "read", "write", "clunk", "remove", "unknown"},
    Rooms <- {0, 7, 8, 10, 11, 12, 15, 20, 24, 30, 64, 160, 164, 400}

ListParked == host = {} /\ msize = 18 /\ count = 4
IoParked == kind = "none" /\ len = 0 /\ op = "read" /\ slices = <<>> /\ ioCount = 0 /\ ioOffset = 0
PduParked == cmd = "statfs" /\ room = 0
P9Init ==
    /\ part \in {"lock", "host", "walk", "guest", "listing", "ends", "io", "pdu"}
    /\ LockInit
    /\ IF part = "guest" THEN Guests!Init
       ELSE Hosts!Init /\ (part \notin {"host", "walk"} => tree[<<"a">>] = 1)
    /\ Listing!Init /\ (part \notin {"listing", "ends"} => ListParked)
    /\ Io!Init /\ (part # "io" => IoParked)
    /\ Pdu!Init /\ (part # "pdu" => PduParked)

P9Next ==
    \/ part = "lock" /\ LockNext /\ UNCHANGED <<part, serverVars, listVars, ioVars, pduVars>>
    \/ part = "host" /\ Hosts!Next /\ UNCHANGED <<part, lockVars, listVars, ioVars, pduVars>>
    \/ part = "walk" /\ Walks!Next /\ UNCHANGED <<part, lockVars, listVars, ioVars, pduVars>>
    \/ part = "guest" /\ Guests!Next /\ UNCHANGED <<part, lockVars, listVars, ioVars, pduVars>>
    \/ part = "listing" /\ Listing!Next /\ UNCHANGED <<part, lockVars, serverVars, ioVars, pduVars>>
    \/ part = "ends" /\ Ends!Next /\ UNCHANGED <<part, lockVars, serverVars, ioVars, pduVars>>
    \/ part = "io" /\ Io!Next /\ UNCHANGED <<part, lockVars, serverVars, listVars, pduVars>>
    \/ part = "pdu" /\ Pdu!Next /\ UNCHANGED <<part, lockVars, serverVars, listVars, ioVars>>

\* The thread of the device keeps running.
P9Spec ==
    /\ P9Init /\ [][P9Next]_p9Vars
    /\ WF_lockVars(part = "lock" /\ getlock_release)
    /\ WF_listVars(part = "ends" /\ Ends!Server)
    /\ WF_ioVars(part = "io" /\ Io!Server)
    /\ WF_pduVars(part = "pdu" /\ Pdu!Next)

-----------------------------------------------------------------------------
\* A fid stays what it was bound to: its path is inside the exported directory, its
\* qid was read at that path (but for a fid that set_path left torn, which takes
\* another process), a request that fails changes no fid but a torn one or one whose
\* answer did not fit, what is made is new, so that no other fid denotes it, and a
\* directory is removed only when that was asked (P9Server!RootContained, QidOfPath,
\* TornNeedsHost, ErrorKeepsFids, StaysBound, UnlinksAsked).
FidsExact ==
    /\ [](part \in {"host", "walk"} => Hosts!TypeOK /\ Hosts!RootContained /\ Hosts!QidOfPath)
    /\ [](part = "guest" => Guests!TypeOK /\ Guests!TornNeedsHost)
    /\ [][(part \in {"host", "walk"}) => Hosts!ErrorKeepsFids]_p9Vars
    /\ [][part = "guest" => Guests!StaysBound /\ Guests!UnlinksAsked]_p9Vars

\* What the guest is told is what happened: a listing has every entry of the copy
\* once and in order and its end is the end, the bytes of a read or write are one run
\* of the file and a short read met its end, and a reply has its size and an error
\* its code, apart from the cases that P9Readdir!ListingComplete, P9Io!ReadBounded
\* and P9Pdu!ErrorCarried name.
RepliesExact ==
    /\ part \in {"listing", "ends"} =>
        Listing!TypeOK /\ Listing!ListedOnce /\ Listing!ListingComplete /\ Listing!AnswerFits
    /\ part = "io" => Io!TypeOK /\ Io!Contiguous /\ Io!ReadBounded /\ Io!ShortReadExcused
    /\ part = "pdu" => Pdu!TypeOK /\ Pdu!ErrorCarried /\ Pdu!ReplyFramed /\ Pdu!SilenceExcused

\* Every request ends and its chain is returned, a listing left alone by other
\* processes comes to its end where it can (P9Readdir!ListingEnds says where), and a lock
\* that getlock took to see whether it could is given back (P9Io!Answered,
\* P9Pdu!ChainReturned, P9Readdir!ListingEnds, ProbeEnds).
RequestsEnd ==
    /\ (part = "io") ~> (op = "answered")
    /\ (part = "pdu") ~> ~ head
    /\ []<>(part # "ends" \/ eof \/ 6 \in host \/ msize < 4)
    /\ ProbeEnds
=============================================================================
