------------------------------ MODULE P9Server ------------------------------
(***************************************************************************)
(* The 9P server's fids over a directory tree of the host                  *)
(* (src/devices/virtio_9p/server.rs, the Fids and Fid of file.rs, and      *)
(* filesystem.rs).  A fid is a path and the qid read when it was bound; the*)
(* path is used again for every later request.  The server runs one        *)
(* request at a time, but other processes change the same tree, so a       *)
(* request takes one step for each call it makes on the filesystem.        *)
(*                                                                         *)
(* The host's tree maps paths to inodes.  Contents, modes, locks and       *)
(* directory streams are not part of this module.                          *)
(***************************************************************************)
EXTENDS Integers, Sequences, SequencesExt

CONSTANTS
    Root,        \* the exported directory, as the sequence of its names
    Names,       \* ordinary file names
    Ids,         \* the fid numbers the guest uses
    Dirs, Files, \* inode numbers of directories and of everything else
    MaxDepth,    \* bound: depth of the tree below Root
    MaxNames,    \* bound: names in one walk
    HostActive,  \* other processes change the tree
    ShortReplies \* the guest may leave too little room for an answer

Inodes == Dirs \cup Files
Paths == {Root \o s : s \in SeqOf(Names, MaxDepth)}

VARIABLES
    tree,        \* host: path -> inode, 0 where there is nothing
    fids,        \* fidmap: id -> Fid, NoFid where there is none; at is
                 \* history, the path where the qid was read
    req,         \* the request in progress
    reply,       \* the last reply: "ok", "partial" (a short walk), or "error", an
                 \* error or, where not even that fits, nothing
    torn         \* history: fids whose path was set but whose qid was not read

vars == <<tree, fids, req, reply, torn>>

NoFid == [path |-> <<>>, qid |-> 0, at |-> <<>>]
Idle == [op |-> "none", id |-> 0, to |-> 0, path |-> <<>>, qid |-> 0, names |-> <<>>, got |-> 0,
         flag |-> FALSE]

Init ==
    /\ \E r \in Dirs : tree = [p \in Paths |-> IF p = Root THEN r ELSE 0]
    /\ fids = [i \in Ids |-> NoFid]
    /\ req = Idle /\ reply = "ok"
    /\ torn = {}

Exists(i) == fids[i] # NoFid
Lookup(p) == IF p \in DOMAIN tree THEN tree[p] ELSE 0
Up(p) == IF p = <<>> THEN p ELSE Front(p)

\* The path a name of a directory fid stands for.  "." and names of several
\* components are refused; the empty name is the directory itself.
path_join_name(qid, path, name) ==
    CASE qid \notin Dirs -> [ok |-> FALSE, path |-> path]
      [] name = ".." -> [ok |-> IsPrefix(Root, Up(path)), path |-> Up(path)]
      [] name = "" -> [ok |-> TRUE, path |-> path]
      [] name \in Names -> [ok |-> TRUE, path |-> Append(path, name)]
      [] OTHER -> [ok |-> FALSE, path |-> path]

GuestNames == Names \cup {"..", "", "."}
join_name(i, name) == path_join_name(fids[i].qid, fids[i].path, name)

\* The request ends; handle writes the reply.
Reply(r) == req' = Idle /\ reply' = r
\* The handler appends its answer last; when that fails, handle reports an error.
Answer(r) == req' = Idle /\ reply' \in {r} \cup (IF ShortReplies THEN {"error"} ELSE {})
Ready == req = Idle

p9_version ==
    /\ Ready
    /\ fids' = [i \in Ids |-> NoFid]
    /\ torn' = {}
    /\ Answer("ok")
    /\ UNCHANGED tree

Bound(i, p) ==
    /\ fids' = [fids EXCEPT ![i] = [path |-> p, qid |-> Lookup(p), at |-> p]]
    /\ torn' = torn \ {i}

\* The fid is added after its qid has been appended to the reply.
p9_attach(i) ==
    /\ Ready
    /\ \/ /\ Exists(i) \/ Lookup(Root) = 0 \/ ShortReplies
          /\ Reply("error") /\ UNCHANGED <<fids, torn>>
       \/ ~Exists(i) /\ Lookup(Root) # 0 /\ Bound(i, Root) /\ Reply("ok")
    /\ UNCHANGED tree

p9_walk(i, new, names) ==
    /\ Ready
    /\ IF ~Exists(i) \/ (i # new /\ Exists(new))
       THEN Reply("error")
       ELSE /\ req' = [Idle EXCEPT !.op = "walk", !.id = i, !.to = new, !.names = names,
                                   !.path = fids[i].path, !.qid = fids[i].qid]
            /\ UNCHANGED reply
    /\ UNCHANGED <<tree, fids, torn>>

\* walk_extend for the next name; a failure after the first is a short walk.
walk_extend ==
    /\ req.op = "walk" /\ req.names # <<>>
    /\ LET j == path_join_name(req.qid, req.path, Head(req.names))
       IN  IF ~j.ok \/ Lookup(j.path) = 0
           THEN IF req.got = 0 THEN Reply("error") ELSE Answer("partial")
           ELSE /\ req' = [req EXCEPT !.names = Tail(@), !.path = j.path,
                                      !.qid = Lookup(j.path), !.got = @ + 1]
                /\ UNCHANGED reply
    /\ UNCHANGED <<tree, fids, torn>>

\* Fids::create and Fids::add, and then the list of qids is appended.
walk_bind ==
    /\ req.op = "walk" /\ req.names = <<>>
    /\ IF Lookup(req.path) = 0
       THEN Reply("error") /\ UNCHANGED <<fids, torn>>
       ELSE Bound(req.to, req.path) /\ Answer("ok")
    /\ UNCHANGED tree

p9_clunk(i) ==
    /\ Ready
    /\ fids' = [fids EXCEPT ![i] = NoFid]
    /\ torn' = torn \ {i}
    /\ Reply(IF Exists(i) THEN "ok" ELSE "error")
    /\ UNCHANGED tree

\* Opens what the path names now; the P9File is the subject of P9Lock and P9Io.
p9_open(i) ==
    /\ Ready
    /\ IF Exists(i) /\ Lookup(fids[i].path) # 0 THEN Answer("ok") ELSE Reply("error")
    /\ UNCHANGED <<tree, fids, torn>>

\* What the host does to the tree.
Used == {tree[p] : p \in DOMAIN tree}
CanMake(p) == p \in DOMAIN tree /\ p # Root /\ tree[p] = 0 /\ Lookup(Up(p)) \in Dirs
Made(p, ino) == [tree EXCEPT ![p] = ino]
Empty(p) == \A q \in DOMAIN tree : IsStrictPrefix(p, q) => tree[q] = 0
Removed(p) == [tree EXCEPT ![p] = 0]
Moved(from, to) ==
    [q \in DOMAIN tree |->
        CASE IsPrefix(to, q) -> Lookup(from \o SubSeq(q, Len(to) + 1, Len(q)))
          [] IsPrefix(from, q) -> 0
          [] OTHER -> tree[q]]
\* rename(2): nothing happens when both names are links to one file.
CanMove(from, to) ==
    /\ Lookup(from) # 0 /\ to \in DOMAIN tree
    /\ from # Root /\ to # Root
    /\ Lookup(Up(to)) \in Dirs
    /\ ~IsStrictPrefix(from, to)
    /\ Lookup(to) # 0 => (Lookup(to) \in Dirs <=> Lookup(from) \in Dirs) /\ Empty(to)
    /\ \A q \in DOMAIN tree :
          IsPrefix(from, q) /\ tree[q] # 0
              => to \o SubSeq(q, Len(from) + 1, Len(q)) \in DOMAIN tree
Rename(from, to) == IF Lookup(from) = Lookup(to) THEN tree ELSE Moved(from, to)

\* Create, mkdir and symlink make the object, then read it back.
Make(op, i, name, kinds) ==
    /\ Ready
    /\ IF Exists(i) /\ join_name(i, name).ok /\ CanMake(join_name(i, name).path)
       THEN /\ \E ino \in kinds \ Used : tree' = Made(join_name(i, name).path, ino)
            /\ req' = [Idle EXCEPT !.op = op, !.id = i, !.path = join_name(i, name).path]
            /\ UNCHANGED reply
       ELSE Reply("error") /\ UNCHANGED tree
    /\ UNCHANGED <<fids, torn>>

p9_create(i, name) == Make("create", i, name, Files)
p9_mkdir(i, name) == Make("mkdir", i, name, Dirs)
p9_symlink(i, name) == Make("symlink", i, name, Files)

read_back ==
    /\ req.op \in {"mkdir", "symlink"}
    /\ IF Lookup(req.path) = 0 THEN Reply("error") ELSE Answer("ok")
    /\ UNCHANGED <<tree, fids, torn>>

p9_rename(i, d, name) ==
    /\ Ready
    /\ IF Exists(i) /\ Exists(d) /\ join_name(d, name).ok
          /\ CanMove(fids[i].path, join_name(d, name).path)
       THEN /\ tree' = Rename(fids[i].path, join_name(d, name).path)
            /\ req' = [Idle EXCEPT !.op = "rename", !.id = i, !.path = join_name(d, name).path]
            /\ UNCHANGED reply
       ELSE Reply("error") /\ UNCHANGED tree
    /\ UNCHANGED <<fids, torn>>

\* Mutant: the old qid is kept.
set_path_noreload ==
    /\ req.op \in {"create", "rename"}
    /\ fids' = [fids EXCEPT ![req.id].path = req.path]
    /\ torn' = torn \ {req.id}
    /\ Reply("ok")
    /\ UNCHANGED tree

\* Fid::set_path takes the new path, then reads its qid.  Create goes on to append
\* the qid to its reply; the answer of rename has no content.
set_path ==
    /\ req.op \in {"create", "rename"}
    /\ LET ino == Lookup(req.path)
           f == [fids[req.id] EXCEPT !.path = req.path]
       IN  IF ino = 0
           THEN /\ fids' = [fids EXCEPT ![req.id] = f]
                /\ torn' = torn \cup {req.id}
                /\ Reply("error")
           ELSE /\ fids' = [fids EXCEPT ![req.id] =
                               [f EXCEPT !.qid = ino, !.at = req.path]]
                /\ torn' = torn \ {req.id}
                /\ IF req.op = "create" THEN Answer("ok") ELSE Reply("ok")
    /\ UNCHANGED tree

\* No fid is told of it.
p9_renameat(d, name, e, name2) ==
    LET from == join_name(d, name).path
        to == join_name(e, name2).path
    IN  /\ Ready
        /\ IF Exists(d) /\ Exists(e) /\ join_name(d, name).ok /\ join_name(e, name2).ok
              /\ CanMove(from, to)
           THEN tree' = Rename(from, to) /\ Reply("ok")
           ELSE Reply("error") /\ UNCHANGED tree
        /\ UNCHANGED <<fids, torn>>

p9_link(d, i, name) ==
    /\ Ready
    /\ IF Exists(d) /\ Exists(i) /\ join_name(d, name).ok
          /\ CanMake(join_name(d, name).path) /\ Lookup(fids[i].path) \in Files
       THEN tree' = Made(join_name(d, name).path, Lookup(fids[i].path)) /\ Reply("ok")
       ELSE Reply("error") /\ UNCHANGED tree
    /\ UNCHANGED <<fids, torn>>

\* remove_dir or remove_file, which the host refuses for the wrong kind.
Delete(p, asdir) ==
    IF /\ Lookup(p) # 0 /\ p # Root
       /\ Lookup(p) \in Dirs <=> asdir
       /\ Empty(p)
    THEN tree' = Removed(p) /\ Reply("ok")
    ELSE Reply("error") /\ UNCHANGED tree

\* path.is_dir() decides which call is made; rmdir is AT_REMOVEDIR.
p9_unlinkat(d, name, rmdir) ==
    /\ Ready
    /\ IF ~Exists(d) \/ ~join_name(d, name).ok
          \/ (Lookup(join_name(d, name).path) \in Dirs /\ ~rmdir)
       THEN Reply("error")
       ELSE /\ req' = [Idle EXCEPT !.op = "unlink", !.flag = rmdir,
                                   !.path = join_name(d, name).path]
            /\ UNCHANGED reply
    /\ UNCHANGED <<tree, fids, torn>>

\* path.is_dir() is asked again, and what it says may have changed when the
\* object is removed.
unlink_kind ==
    /\ req.op = "unlink"
    /\ req' = [req EXCEPT !.op = "delete",
                          !.got = IF Lookup(req.path) \in Dirs THEN 1 ELSE 0]
    /\ UNCHANGED <<tree, fids, reply, torn>>

unlink_delete ==
    /\ req.op = "delete"
    /\ Delete(req.path, req.got = 1)
    /\ UNCHANGED <<fids, torn>>

\* The fid goes whether or not the file does; its cached qid picks the call.
p9_remove(i) ==
    /\ Ready
    /\ fids' = [fids EXCEPT ![i] = NoFid]
    /\ torn' = torn \ {i}
    /\ IF Exists(i) THEN Delete(fids[i].path, fids[i].qid \in Dirs)
       ELSE Reply("error") /\ UNCHANGED tree
   

\* Another process of the host.
HostStep ==
    /\ HostActive
    /\ \E p \in Paths \ {Root} :
          \/ CanMake(p) /\ \E ino \in Inodes \ Used : tree' = Made(p, ino)
          \/ tree[p] # 0 /\ Empty(p) /\ tree' = Removed(p)
    /\ UNCHANGED <<fids, req, reply, torn>>

\* The requests that move or remove what a path names.
Disturbs ==
    \/ \E i, d \in Ids, n \in GuestNames : p9_rename(i, d, n)
    \/ \E d, e \in Ids, n, m \in GuestNames : p9_renameat(d, n, e, m)
    \/ unlink_delete
    \/ \E i \in Ids : p9_remove(i)

Keeps ==
    \/ p9_version
    \/ \E i \in Ids : p9_attach(i) \/ p9_clunk(i) \/ p9_open(i)
    \/ \E i, new \in Ids, names \in SeqOf(GuestNames, MaxNames) : p9_walk(i, new, names)
    \/ walk_extend \/ walk_bind \/ read_back \/ set_path \/ unlink_kind
    \/ \E i \in Ids, n \in GuestNames :
          \/ p9_create(i, n) \/ p9_mkdir(i, n) \/ p9_symlink(i, n)
          \/ \E rmdir \in BOOLEAN : p9_unlinkat(i, n, rmdir)
          \/ \E d \in Ids : p9_link(d, i, n)

Next == Disturbs \/ Keeps \/ HostStep

Spec == Init /\ [][Next]_vars

-----------------------------------------------------------------------------
\* The fid table, the tree and the requests under way have their types.
TypeOK ==
    /\ tree \in [Paths -> Inodes \cup {0}]
    /\ fids \in [Ids -> [path : Paths \cup {<<>>}, qid : Inodes \cup {0}, at : Paths \cup {<<>>}]]
    /\ \A i \in Ids : Exists(i) => fids[i].qid \in Inodes
    /\ reply \in {"ok", "error", "partial"}
    /\ torn \subseteq Ids

\* No fid, and no request on its way, ever has a path outside the exported
\* directory: the test in path_join_name is enough however names are walked.
RootContained ==
    /\ \A i \in Ids : Exists(i) => IsPrefix(Root, fids[i].path)
    /\ req.op # "none" => IsPrefix(Root, req.path)

\* The qid of a fid was read at the path the fid has, not at an earlier one.
\* The exception is a fid whose new path could not be read back by set_path,
\* which stores the path first and keeps the old qid.
QidOfPath == \A i \in Ids : Exists(i) /\ i \notin torn => fids[i].at = fids[i].path

\* Only another process of the host can come between a rename or a create
\* and the reading back of its result.
TornNeedsHost == HostActive \/ torn = {}

\* What a failed request may do to fid i, if not to leave it alone or (remove,
\* version) to drop it.  set_path gave it a path at which there is nothing any more,
\* and its old qid.  Or walk or create had done all they were asked for, and only the
\* answer did not fit: the fid is bound, although the guest is told that it is not.
LeftTorn(i) ==
    /\ req.op \in {"create", "rename"} /\ i = req.id /\ Lookup(req.path) = 0
    /\ fids'[i] = [fids[i] EXCEPT !.path = req.path]
LeftBound(i) ==
    /\ ShortReplies /\ Lookup(req.path) # 0
    /\ \/ req.op = "walk" /\ req.names = <<>> /\ i = req.to
       \/ req.op = "create" /\ i = req.id
    /\ fids'[i] = [path |-> req.path, qid |-> Lookup(req.path), at |-> req.path]

\* A request that fails, or a walk that ends early, changes no fid but in the two
\* ways above: in particular a walk that ends early binds nothing.
ErrorKeepsFids ==
    reply' # "ok" /\ req' = Idle
        => \A i \in Ids : fids'[i] \in {fids[i], NoFid} \/ LeftTorn(i) \/ LeftBound(i)

\* unlinkat removes a directory only if the guest said so with AT_REMOVEDIR.  Another
\* process may replace a file by a directory between the two tests of is_dir, and then
\* the empty directory goes; left alone, the server never does that.
UnlinksAsked ==
    req.op = "delete" /\ tree' # tree /\ ~HostActive => req.flag \/ Lookup(req.path) \notin Dirs

\* The file a fid denotes is found at its path with the inode of its qid.
Denotes(i) == Lookup(fids[i].path) = fids[i].qid

\* A request other than rename, renameat, unlinkat and remove never makes
\* another fid denote something else: what is made is always new.
StaysBound ==
    Keeps => \A i \in Ids : Exists(i) /\ Denotes(i) /\ fids'[i] = fids[i] => Denotes(i)'
=============================================================================
