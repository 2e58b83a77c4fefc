---------------------------- MODULE SyntheticFS ----------------------------
(***************************************************************************)
(* The filesystem a guest boots from, which exists only in the hypervisor: *)
(* the nodes, inode numbers and construction of                            *)
(* src/devices/virtio_9p/synthetic.rs, driven by create_bootfs in          *)
(* src/vm/setup.rs.  Directories are made as they are needed, the libraries*)
(* of ph-init and two configuration files are taken from the host with the *)
(* inode numbers they have there, and ph-init and sommelier are files in   *)
(* memory.  Which libraries there are, which files exist and what their    *)
(* inode numbers are is up to the host.                                    *)
(*                                                                         *)
(* A path is the sequence of its names, as path_names returns it.          *)
(***************************************************************************)
EXTENDS Integers, Sequences, FiniteSets, SequencesExt, FiniteSetsExt

CONSTANTS
    Libraries,   \* paths of libraries of the host that ldd may list
    HostInodes,  \* inode numbers a file of the host may have
    BASE_INODE,
    MaxLines,    \* bound: lines of ldd
    MaxInode     \* bound: numbers given out

VARIABLES
    nodes,       \* root: path -> [kind, inode] for every node of the tree
    inodes, current_inode,
    paths_added,
    real,        \* host: inode number of the file at each path, 0 if there is none
    dangling,    \* host: paths that are links to nothing
    gone,        \* history: files that went away while they were being added
    todo,        \* the calls create_bootfs has still to make
    failed,      \* create_bootfs returned an error
    leaked       \* history: numbers that no node has

vars == <<nodes, inodes, current_inode, paths_added, real, dangling, gone, todo, failed, leaked>>

mkdir(path) == [call |-> "mkdir", dir |-> path, name |-> ""]
add_memory_file(dir, name) == [call |-> "memory", dir |-> dir, name |-> name]
add_file(dir, name) == [call |-> "file", dir |-> dir, name |-> name]
add_path(path) == [call |-> "library", dir |-> Front(path), name |-> Last(path)]

Configs == {<<"etc", "ld.so.cache">>, <<"etc", "resolv.conf">>}
BootDirs == <<<<"tmp">>, <<"home", "user">>, <<"etc">>>>

\* The calls of create_bootfs when ldd lists libs, with three of the seven
\* directories.
create_bootfs(libs) ==
    [i \in DOMAIN BootDirs |-> mkdir(BootDirs[i])]
    \o [i \in DOMAIN libs |-> add_path(libs[i])]
    \o <<add_memory_file(<<"usr", "bin">>, "ph-init"),
         add_memory_file(<<"usr", "bin">>, "sommelier"),
         add_file(<<"etc">>, "ld.so.cache"), add_file(<<"etc">>, "resolv.conf")>>

Init ==
    /\ nodes = [p \in {<<>>} |-> [kind |-> "dir", inode |-> BASE_INODE]]
    /\ inodes = {BASE_INODE} /\ current_inode = BASE_INODE + 1
    /\ paths_added = {} /\ gone = {}
    /\ real \in [Libraries \cup Configs -> HostInodes \cup {0}]
    /\ dangling \in SUBSET {p \in Configs : real[p] # 0}
    /\ \E libs \in SeqOf(Libraries, MaxLines) : todo = create_bootfs(libs)
    /\ failed = FALSE /\ leaked = {}

\* The first number from current_inode on that is not in use, and the counter
\* after it.
next_inode(cur, used) ==
    LET i == Min({j \in cur..MaxInode : j \notin used}) IN [inode |-> i, cur |-> i + 1]

\* Mutant: the number of the host is used even if it is taken.
file_inode_host(p, cur, used) ==
    IF real[p] = 0 THEN next_inode(cur, used) ELSE [inode |-> real[p], cur |-> cur]
\* The number the file has on the host, unless it is taken or there is none.
file_inode(p, cur, used) ==
    IF real[p] = 0 \/ real[p] \in used THEN next_inode(cur, used) ELSE [inode |-> real[p], cur |-> cur]

\* Node::mkdir from the root: the directories missing on the way to dir get the
\* next numbers, outermost first; nothing is made if a file is in the way.
Blocked(dir) == \E p \in Prefixes(dir) \cap DOMAIN nodes : nodes[p].kind # "dir"
Missing(dir) == IF Blocked(dir) THEN {} ELSE Prefixes(dir) \ DOMAIN nodes
Given(dir) ==
    LET free == {i \in current_inode..MaxInode : i \notin inodes}
        depth(p) == Cardinality({q \in Missing(dir) : Len(q) <= Len(p)})
    IN  [p \in Missing(dir) |->
            CHOOSE i \in free : Cardinality({j \in free : j <= i}) = depth(p)]
WithDirs(dir) ==
    [p \in DOMAIN nodes \cup Missing(dir) |->
        IF p \in DOMAIN nodes THEN nodes[p] ELSE [kind |-> "dir", inode |-> Given(dir)[p]]]
Numbers(dir) == inodes \cup Range(Given(dir))
Current(dir) == Max({current_inode} \cup {i + 1 : i \in Range(Given(dir))})

Mkdir ==
    /\ todo # <<>> /\ Head(todo).call = "mkdir"
    /\ LET dir == Head(todo).dir IN
          /\ nodes' = WithDirs(dir)
          /\ inodes' = Numbers(dir) /\ current_inode' = Current(dir)
    /\ todo' = Tail(todo)
    /\ UNCHANGED <<paths_added, real, dangling, gone, failed, leaked>>

\* The node of a file is put under its directory with number n.inode, which is
\* lost if the file cannot be added.
Insert(c, kind, n, added) ==
    LET path == Append(c.dir, c.name)
        tree == WithDirs(c.dir)
    IN  /\ nodes' = IF added THEN (path :> [kind |-> kind, inode |-> n.inode]) @@ tree ELSE tree
        /\ inodes' = Numbers(c.dir) \cup {n.inode}
        /\ current_inode' = n.cur
        /\ leaked' = IF added THEN leaked ELSE leaked \cup {n.inode}

AddMemoryFile ==
    /\ todo # <<>> /\ Head(todo).call = "memory"
    /\ LET c == Head(todo)
           added == ~Blocked(c.dir)
       IN  /\ Insert(c, "memory", next_inode(Current(c.dir), Numbers(c.dir)), added)
           /\ failed' = ~added
           /\ todo' = IF added THEN Tail(todo) ELSE <<>>
    /\ UNCHANGED <<paths_added, real, dangling, gone>>

\* _add_file: the number is taken before the directory is looked up and before
\* the metadata of the file is read; errors are only logged.  The file may go away
\* before its number is asked for (~seen) or before its metadata is (~read), for good
\* or until a new one takes its place.
_add_file(c, path) ==
    \E seen, read \in BOOLEAN :
        /\ seen => real[path] # 0
        /\ read => seen /\ path \notin dangling
        /\ LET n == IF seen THEN file_inode(path, Current(c.dir), Numbers(c.dir))
                            ELSE next_inode(Current(c.dir), Numbers(c.dir))
               lost == real[path] # 0 /\ path \notin dangling /\ ~read
           IN  /\ Insert(c, "file", n, ~Blocked(c.dir) /\ read)
               /\ gone' = IF lost THEN gone \cup {path} ELSE gone
               /\ real' \in {real} \cup (IF lost THEN {[real EXCEPT ![path] = 0]} ELSE {})
        /\ todo' = Tail(todo)

AddFile ==
    /\ todo # <<>> /\ Head(todo).call = "file"
    /\ _add_file(Head(todo), Append(Head(todo).dir, Head(todo).name))
    /\ UNCHANGED <<paths_added, dangling, failed>>

Fresh(path) == path \notin paths_added

\* A line of ldd: skipped if the path does not exist or was added before.  It counts
\* as added even when add_file has only logged an error.
AddLibrary ==
    /\ todo # <<>> /\ Head(todo).call = "library"
    /\ LET path == Append(Head(todo).dir, Head(todo).name) IN
          IF real[path] # 0 /\ Fresh(path)
          THEN /\ _add_file(Head(todo), path)
               /\ paths_added' = paths_added \cup {path}
          ELSE /\ todo' = Tail(todo)
               /\ UNCHANGED <<nodes, inodes, current_inode, paths_added, real, gone, leaked>>
    /\ UNCHANGED <<dangling, failed>>

\* The library goes away after exists() and before the metadata() of add_path:
\* create_bootfs fails.
AddLibraryFails ==
    /\ todo # <<>> /\ Head(todo).call = "library"
    /\ real[Append(Head(todo).dir, Head(todo).name)] # 0
    /\ Fresh(Append(Head(todo).dir, Head(todo).name))
    /\ failed' = TRUE /\ todo' = <<>>
    /\ UNCHANGED <<nodes, inodes, current_inode, paths_added, real, dangling, gone, leaked>>

Next == Mkdir \/ AddMemoryFile \/ AddFile \/ AddLibrary \/ AddLibraryFails
Spec == Init /\ [][Next]_vars

\* SyntheticFS::lookup by descend.
lookup(path) == path \in DOMAIN nodes

-----------------------------------------------------------------------------
\* Every node has a kind and a number that was given out.
TypeOK ==
    /\ \A p \in DOMAIN nodes : nodes[p].kind \in {"dir", "file", "memory"} /\ nodes[p].inode \in inodes
    /\ current_inode \in BASE_INODE..MaxInode + 1

\* The qid of a node is its inode number, and no two nodes share one, although
\* numbers come from two sources: the host's files and the counter.
InodesUnique ==
    \A p, q \in DOMAIN nodes : nodes[p].inode = nodes[q].inode => p = q

\* Every node is reached from the root through directories.
TreeClosed ==
    \A p \in DOMAIN nodes \ {<<>>} : Front(p) \in DOMAIN nodes /\ nodes[Front(p)].kind = "dir"

\* statfs reports the numbers given out (node_count) as the number of files: that
\* is right but for files that were given a number and then not added.
FilesCounted ==
    Cardinality(inodes) = Cardinality(DOMAIN nodes) + Cardinality(leaked)

\* Whatever libraries and configuration files the host has, a boot file system that
\* is built has init and the directories it mounts on, and of the libraries that ldd
\* listed and the configuration files of the host it lacks exactly those that went
\* away while they were being added, even if they are there again: their errors are
\* logged, a library counts as added all the same, and nothing is tried twice.
BootComplete ==
    (todo = <<>> /\ ~failed) =>
        /\ lookup(<<"usr", "bin", "ph-init">>) /\ lookup(<<"usr", "bin", "sommelier">>)
        /\ \A i \in DOMAIN BootDirs : lookup(BootDirs[i])
        /\ \A p \in paths_added : lookup(p) <=> p \notin gone
        /\ \A p \in Configs \ dangling : lookup(p) <=> real[p] # 0 /\ p \notin gone
=============================================================================
