------------------------------ MODULE MCPhInit ------------------------------
(***************************************************************************)
(* What a guest boots from and its first process, one part at a time:      *)
(* "fs" is the construction of the boot file system, with a library in a   *)
(* directory of its own and one in a directory that later calls use;       *)
(* "init" is ph-init, for every configuration of the host below and root   *)
(* file systems that each lack, or have, one thing that matters.           *)
(***************************************************************************)
EXTENDS Naturals, Sequences, SequencesExt, TLC

CONSTANTS Pids

VARIABLES part,
    nodes, inodes, current_inode, paths_added, real, dangling, gone, todo, failed, leaked,
    config, rootTree, resolv, denied, at, init, mounts, tree, rootfs, nic, children, services

fsVars == <<nodes, inodes, current_inode, paths_added, real, dangling, gone, todo, failed, leaked>>
initVars == <<config, rootTree, resolv, denied, at, init, mounts, tree, rootfs, nic, children, services>>
vars == <<part, fsVars, initVars>>

Full == {<<"etc">>, <<"etc", "resolv.conf">>, <<"etc", "pulse">>, <<"sys">>, <<"proc">>, <<"dev">>, <<"run">>,
         <<"tmp">>, <<"home">>, <<"home", "user">>, <<"bin">>, <<"bin", "bash">>, <<"usr">>, <<"usr", "bin">>,
         <<"usr", "bin", "dbus-daemon">>}
Roots == {Full, Full \cup {<<"ro">>}, Full \cup {<<"opt">>, <<"opt", "ph">>}, Full \ {<<"etc", "resolv.conf">>},
          Full \ {<<"etc", "pulse">>}, Full \ {<<"usr", "bin", "dbus-daemon">>}, Full \ {<<"home", "user">>}}
\* Roots that lack a directory or the shell, and the calls the kernel may refuse: each
\* is met with the default home.
Without(p) == {q \in Full : ~IsPrefix(p, q)}
Bare == {Without(p) : p \in {<<"etc">>, <<"sys">>, <<"proc">>, <<"dev">>, <<"run">>, <<"tmp">>, <<"bin", "bash">>}}
Denied == {"sethostname", "setsid", "set_controlling_tty", "overlay", "cgroup", "write_xauth"}
Homes == {[home |-> <<"home", "user">>, realm |-> FALSE], [home |-> <<"home", "other">>, realm |-> FALSE],
          [home |-> <<"srv", "home">>, realm |-> FALSE],
          [home |-> <<"root">>, realm |-> FALSE], [home |-> <<"srv", "home">>, realm |-> TRUE]}
Configs == {c @@ h : c \in [disks : {<<>>, <<"rw">>, <<"ro", "rw">>}, network : BOOLEAN, wayland : BOOLEAN,
                            audio : BOOLEAN], h \in Homes}
Libraries == {<<"lib", "ld.so">>, <<"usr", "bin", "libm">>}

Ph == INSTANCE PhInit WITH Config <- Configs, Roots <- Roots \cup Bare, HasResolv <- BOOLEAN
Boot == INSTANCE SyntheticFS WITH
    Libraries <- Libraries, HostInodes <- {12, 16},
    BASE_INODE <- 10, MaxLines <- 3, MaxInode <- 40

FsParked == todo = Boot!create_bootfs(<<>>) /\ real = [p \in Libraries \cup Boot!Configs |-> 0]
InitParked ==
    /\ rootTree = Full /\ resolv = TRUE /\ denied = "nothing"
    /\ config = [disks |-> <<>>, network |-> FALSE, wayland |-> FALSE, audio |-> FALSE,
                 home |-> <<"home", "user">>, realm |-> FALSE]
Init ==
    /\ \/ part = "fs" /\ InitParked
       \/ part = "init" /\ FsParked
    /\ Boot!Init /\ Ph!Init
    /\ rootTree \in Bare \/ denied # "nothing" => config.home = <<"home", "user">> /\ resolv
    /\ denied # "nothing" => rootTree = Full
Next ==
    \/ part = "fs" /\ Boot!Next /\ UNCHANGED <<part, initVars>>
    \/ part = "init" /\ Ph!Next /\ UNCHANGED <<part, fsVars>>
Spec == Init /\ [][Next]_vars

\* The kernel may give a process any free pid.
Symmetry == Permutations(Pids)

-----------------------------------------------------------------------------
\* Whatever libraries and configuration files the host has, with whatever inode
\* numbers, and whichever of them go away meanwhile, the boot file system is a tree of
\* nodes with numbers of their own that has all that the guest boots from but the
\* files that went away (SyntheticFS!InodesUnique, TreeClosed, FilesCounted,
\* BootComplete).
BootTreeComplete ==
    part = "fs" =>
        /\ Boot!TypeOK /\ Boot!InodesUnique /\ Boot!TreeClosed
        /\ Boot!FilesCounted /\ Boot!BootComplete


\* The guest runs on the root that was asked for, in the mode that was asked for,
\* with nothing left of the boot; and the table of services has exactly those to be
\* waited for, so that the guest is up exactly as long as its shell, although pids
\* are used again (PhInit!RootModeMatches, OldRootClean, ServicesExact,
\* ShellAwaited).
GuestAsAsked ==
    part = "init" =>
        /\ Ph!RootModeMatches /\ Ph!OldRootClean
        /\ Ph!ServicesExact /\ Ph!ShellAwaited
=============================================================================
