------------------------------- MODULE PhInit -------------------------------
(***************************************************************************)
(* The first process of the guest, ph-init (ph-init/src), booting from     *)
(* what the host prepared for it: the kernel command line and the devices  *)
(* of setup_virtio, setup_network and setup_synthetic_bootfs of            *)
(* src/vm/setup.rs.                                                        *)
(*                                                                         *)
(* A path is the sequence of its names.  The state of the file systems is  *)
(* the mount table and, for every file system, the paths in it.  run_init  *)
(* is a sequence of operations, each of which fails as the system call     *)
(* would and ends the boot with the first failure.  Afterwards ph-init     *)
(* waits for its children, in the order in which the kernel lists them.    *)
(***************************************************************************)
EXTENDS Naturals, Sequences, SequencesExt, Functions, FiniteSets, TLC

CONSTANTS
    Config,      \* what the user asked for: [disks, network, wayland, audio, home, realm]
    Roots,       \* the trees that a root file system may have
    HasResolv,   \* whether the host has a resolv.conf to give to the guest
    Denied,      \* operations that the kernel of the guest may refuse
    Pids

VARIABLES
    config, rootTree, resolv, denied,   \* chosen at the start
    at,           \* number of operations of run_init done
    init,         \* "boot" | "failed" | "wait" | "rebooted" | "exited"
    mounts,       \* [mount point -> file system]
    tree,         \* [file system -> set of paths below its root]
    rootfs,       \* the root file system as it was mounted: [dev, readonly]
    nic,          \* of eth0: subset of {"addr", "up", "route"}
    children,     \* list of the kernel: [pid, name, dead]
    services      \* InitServer::services: [pid -> name]

fsVars == <<mounts, tree, rootfs>>
env == <<config, rootTree, resolv, denied>>
vars == <<env, at, init, fsVars, nic, children, services>>

-----------------------------------------------------------------------------
(* The host: the parts of the command line that ph-init looks at, in order. *)
Set(k, v) == <<k, v>>
NoValue == "none"

\* setup_virtio: the root is the first disk, or else the root directory of the host.
setup_root(c) ==
    IF c.disks = <<>>
    THEN <<Set("phinit.root", "9proot"), Set("phinit.rootfstype", "9p"), Set("phinit.rootflags", "trans=virtio")>>
    ELSE (IF c.disks[1] = "ro" THEN <<>> ELSE <<Set("phinit.root_rw", NoValue)>>)
         \o <<Set("phinit.root", "/dev/vda"), Set("phinit.rootfstype", "ext4")>>
setup_virtio(c) ==
    (IF c.home # <<"home", "user">> /\ ~c.realm THEN <<Set("phinit.home", c.home)>> ELSE <<>>)
    \o setup_root(c)
    \o (IF c.network THEN <<Set("phinit.ip", "172.17.0.22")>> ELSE <<>>)

\* setup_synthetic_bootfs: a file of the host that is not there is left out.
create_bootfs(r) ==
    {<<"tmp">>, <<"proc">>, <<"sys">>, <<"dev">>, <<"home">>, <<"home", "user">>, <<"bin">>, <<"etc">>,
     <<"usr">>, <<"usr", "bin">>, <<"usr", "bin", "sommelier">>}
    \cup (IF r THEN {<<"etc", "resolv.conf">>} ELSE {})

\* CmdLine: the last occurrence of a variable counts.
has_var(line, k) == \E i \in DOMAIN line : line[i][1] = k
lookup(line, k) == line[CHOOSE i \in DOMAIN line : line[i][1] = k /\ \A j \in i + 1 .. Len(line) : line[j][1] # k][2]

cmdline == setup_virtio(config)
homedir == IF has_var(cmdline, "phinit.home") THEN lookup(cmdline, "phinit.home") ELSE <<"home", "user">>
read_only == ~has_var(cmdline, "phinit.root_rw")

-----------------------------------------------------------------------------
(* The operations of run_init. *)
Sysroot == <<"tmp", "sysroot">>
Old == <<"opt", "ph">>
Do(op, p, src, needs) == [op |-> op, at |-> p, src |-> src, needs |-> needs]
Op(op, p) == Do(op, p, <<>>, <<>>)
mkdir(p) == Op("mkdir", p)
create_directories(ps) == [i \in DOMAIN ps |-> mkdir(ps[i])]
mount_tmpfs(p) == Op("tmpfs", p)
mount(fs, p) == Do("mount", p, fs, <<>>)
mount_procfs == mount("proc", <<"proc">>)
mount_sysfs == mount("sysfs", <<"sys">>)
mount_cgroup == mount("cgroup", <<"sys", "fs", "cgroup">>)
mount_devtmpfs == mount("devtmpfs", <<"dev">>)
mount_devpts == <<Op("mkdir_missing", <<"dev", "pts">>), mount("devpts", <<"dev", "pts">>)>>
mount_overlay(p) == Op("overlay", p)
mount_9p(p) == mount("9p home", p)
move_mount(p, q) == Do("move", q, p, <<>>)
bind_mount(p, q) == Do("bind", q, p, <<>>)

setup_readonly_root ==
    create_directories(<<<<"tmp", "ro">>, <<"tmp", "rw">>, <<"tmp", "rw", "upper">>, <<"tmp", "rw", "work">>>>)
    \o <<mount_tmpfs(<<"tmp", "rw">>)>>
    \o create_directories(<<<<"tmp", "rw", "upper">>, <<"tmp", "rw", "work">>>>)
    \o <<Op("root", <<"tmp", "ro">>), mount_overlay(Sysroot)>>
    \o create_directories(<<Sysroot \o <<"ro">>, Sysroot \o <<"rw">>>>)
    \o <<move_mount(<<"tmp", "ro">>, Sysroot \o <<"ro">>), move_mount(<<"tmp", "rw">>, Sysroot \o <<"rw">>)>>
    \o <<Op("mkdir_all", Sysroot \o Old), Op("pivot_root", Sysroot)>>
setup_writeable_root ==
    <<Op("root", Sysroot), Op("mkdir_all", Sysroot \o Old), Op("pivot_root", Sysroot)>>

\* AudioSupport::setup: only where there are sound devices.
setup_audio ==
    LET pulse == <<"run", "ph", "pulse">>
        IfSnd(o) == [o EXCEPT !.needs = <<"dev", "snd">>]
    IN  <<IfSnd(Op("mkdir_all", pulse)), IfSnd(Op("write", pulse \o <<"default.pa">>)),
          IfSnd(bind_mount(pulse, <<"etc", "pulse">>))>>
\* The directory is made when it is missing, but not its parents.
mount_home_if_exists == <<Op("mkdir_missing", homedir), mount_9p(homedir)>>
setup_filesystem ==
    <<mount_tmpfs(<<"tmp">>), mkdir(Sysroot)>>
    \o (IF read_only THEN setup_readonly_root ELSE setup_writeable_root)
    \o <<Op("write", <<"etc", "hosts">>),
         Op("umount", Old \o <<"tmp">>), Op("umount", Old \o <<"proc">>), Op("umount", Old \o <<"dev">>),
         mount_sysfs, mount_cgroup, mount_procfs, mount_devtmpfs>>
    \o mount_devpts
    \o <<mount_tmpfs(<<"run">>), mount_tmpfs(<<"tmp">>), mkdir(<<"dev", "shm">>), mount_tmpfs(<<"dev", "shm">>),
         mkdir(<<"run", "user">>), mkdir(<<"run", "user", "1000">>)>>
    \o setup_audio \o mount_home_if_exists \o <<Op("write", <<"run", "phinit.log">>)>>

write_xauth == Op("write_xauth", homedir \o <<".Xauthority">>)
\* run_daemons returns at once when there is no /dev/wl0.
run_daemons ==
    LET IfWl(o) == [o EXCEPT !.needs = <<"dev", "wl0">>]
        sommelier == Old \o <<"usr", "bin", "sommelier">>
    IN  <<IfWl(Op("chmod", <<"dev", "wl0">>)),
          IfWl(Do("launch", <<"usr", "bin", "dbus-daemon">>, "dbus-daemon", <<>>)),
          IfWl(Do("launch", sommelier, "sommelier", <<>>))>>
        \o (IF has_var(cmdline, "phinit.no_x11") THEN <<>>
            ELSE <<IfWl(mkdir(<<"tmp", ".X11-unix">>)), IfWl(write_xauth),
                   IfWl(Do("launch", sommelier, "sommelier-x", <<>>))>>)
configure_network == <<Op("add_ip_address", <<>>), Op("set_interface_up", <<>>), Op("add_default_route", <<>>)>>
setup_network ==
    IF ~has_var(cmdline, "phinit.ip") THEN <<>>
    ELSE configure_network \o <<bind_mount(Old \o <<"etc", "resolv.conf">>, <<"etc", "resolv.conf">>)>>
launch_console_shell ==
    <<Op("write", <<"run", "bashrc">>), Do("launch", <<"bin", "bash">>, "shell", <<>>)>>

\* CmdLine::load mounts /proc to read the command line from it.
create == <<mount_procfs, Op("sethostname", <<>>), Op("setsid", <<>>), Op("set_controlling_tty", <<>>)>>
run_init ==
    create \o setup_filesystem \o run_daemons \o setup_network \o launch_console_shell

-----------------------------------------------------------------------------
(* The kernel: what an operation needs and what it does. *)
Point(p) == CHOOSE m \in DOMAIN mounts : IsPrefix(m, p) /\ \A n \in DOMAIN mounts : IsPrefix(n, p) => Len(n) <= Len(m)
Below(p) == SubSeq(p, Len(Point(p)) + 1, Len(p))
Fs(p) == mounts[Point(p)]
Exists(p) == Below(p) = <<>> \/ Below(p) \in tree[Fs(p)]
ParentExists(p) == Exists(Front(p))
Free == Pids \ {children[i].pid : i \in DOMAIN children}

Allowed(o) == denied \notin {o.op, o.src}
Can(o) ==
    /\ Allowed(o)
    /\ CASE o.op = "mkdir" -> ~Exists(o.at) /\ ParentExists(o.at)
         [] o.op = "mkdir_missing" -> Exists(o.at) \/ ParentExists(o.at)
         [] o.op \in {"write", "write_xauth"} -> ParentExists(o.at)
         [] o.op \in {"tmpfs", "mount", "root", "overlay", "chmod"} -> Exists(o.at)
         [] o.op \in {"move", "bind"} -> Exists(o.at) /\ Exists(o.src)
         [] o.op = "umount" -> o.at \in DOMAIN mounts /\ \A m \in DOMAIN mounts : ~IsStrictPrefix(o.at, m)
         [] o.op = "pivot_root" -> o.at \in DOMAIN mounts /\ Exists(o.at \o Old)
         [] o.op \in {"mkdir_all", "sethostname", "setsid", "set_controlling_tty"} -> TRUE
         [] o.op = "launch" -> Exists(o.at) /\ Free # {}
         [] o.op \in {"add_ip_address", "set_interface_up"} -> config.network
         [] o.op = "add_default_route" -> {"addr", "up"} \subseteq nic

Add(p, new) == tree' = [tree EXCEPT ![Fs(p)] = @ \cup new] /\ UNCHANGED <<mounts, rootfs>>
Mounted(p, id, t) == mounts' = (p :> id) @@ mounts /\ tree' = (id :> t) @@ tree
Contents(fs) ==
    CASE fs = "sysfs" -> {<<"fs">>, <<"fs", "cgroup">>}
      [] fs = "devtmpfs" -> tree["devtmpfs"]
      [] OTHER -> {}

\* pivot_root: everything below the new root is now below /, and all else below its
\* opt/ph.
pivot_root(p) ==
    LET After(m) == IF IsPrefix(p, m) THEN SubSeq(m, Len(p) + 1, Len(m)) ELSE Old \o m
    IN  /\ mounts' = [n \in {After(m) : m \in DOMAIN mounts} |-> mounts[CHOOSE m \in DOMAIN mounts : After(m) = n]]
        /\ UNCHANGED <<tree, rootfs>>
\* Mutant: the mount is hidden, not removed.
umount_lazy(p) == UNCHANGED fsVars
umount(p) == mounts' = Restrict(mounts, DOMAIN mounts \ {p}) /\ UNCHANGED <<tree, rootfs>>
move(p, q) ==
    /\ mounts' = [m \in (DOMAIN mounts \ {p}) \cup {q} |-> IF m = q THEN mounts[p] ELSE mounts[m]]
    /\ UNCHANGED <<tree, rootfs>>
\* RootFS::mount.
mount_root(p) ==
    /\ rootfs' = [dev |-> lookup(cmdline, "phinit.root"), readonly |-> read_only]
    /\ Mounted(p, "root", rootTree)

\* The file system operations.
FileOp(o) ==
    \/ o.op \in {"mkdir", "mkdir_missing", "write", "write_xauth"} /\ Add(o.at, {Below(o.at)} \ {<<>>})
    \/ o.op = "mkdir_all" /\ Add(o.at, {Below(q) : q \in {r \in Prefixes(o.at) : Len(r) > Len(Point(o.at))}})
    \/ o.op = "tmpfs" /\ Mounted(o.at, "tmpfs" \o ToString(at), {}) /\ UNCHANGED rootfs
    \/ o.op = "mount" /\ Mounted(o.at, o.src, Contents(o.src)) /\ UNCHANGED rootfs
    \/ o.op = "bind" /\ Mounted(o.at, "bind" \o ToString(at), {}) /\ UNCHANGED rootfs
    \/ o.op = "root" /\ mount_root(o.at)
    \/ o.op = "overlay" /\ Mounted(o.at, "overlay", tree["root"]) /\ UNCHANGED rootfs
    \/ o.op = "move" /\ move(o.src, o.at)
    \/ o.op = "umount" /\ umount(o.at)
    \/ o.op = "pivot_root" /\ pivot_root(o.at)
    \/ o.op \in {"chmod", "sethostname", "setsid", "set_controlling_tty"} /\ UNCHANGED fsVars
NicOp(o) == nic' = nic \cup {[add_ip_address |-> "addr", set_interface_up |-> "up", add_default_route |-> "route"][o.op]}

\* ServiceLaunch::launch, and the insertion into services.
launch(name, p) ==
    /\ children' = Append(children, [pid |-> p, name |-> name, dead |-> FALSE])
    /\ services' = (p :> name) @@ services

Init ==
    /\ config \in Config /\ rootTree \in Roots /\ resolv \in HasResolv
    /\ denied \in Denied \cup {"nothing"}
    /\ at = 0 /\ init = "boot" /\ rootfs = [dev |-> "none", readonly |-> TRUE] /\ nic = {}
    /\ mounts = (<<>> :> "boot") @@ (<<"dev">> :> "devtmpfs")
    /\ tree = [boot |-> create_bootfs(resolv),
               devtmpfs |-> (IF config.wayland THEN {<<"wl0">>} ELSE {}) \cup (IF config.audio THEN {<<"snd">>} ELSE {})]
    /\ children = <<>> /\ services = <<>>

Skipped(o) == o.needs # <<>> /\ ~Exists(o.needs)
Now(o) == init = "boot" /\ ~Skipped(o) /\ Can(o)
Advance(n) == at' = at + 1 /\ init' = IF at + 1 = n THEN "wait" ELSE "boot"

\* The next operation is o, of n.
BootSkip(o, n) ==
    init = "boot" /\ Skipped(o) /\ Advance(n) /\ UNCHANGED <<env, fsVars, nic, children, services>>
BootFile(o, n) == Now(o) /\ FileOp(o) /\ Advance(n) /\ UNCHANGED <<env, nic, children, services>>
BootNic(o, n) ==
    /\ Now(o) /\ o \in Range(configure_network) /\ NicOp(o) /\ Advance(n)
    /\ UNCHANGED <<env, fsVars, children, services>>
BootLaunch(o, n) ==
    /\ Now(o) /\ o.op = "launch"
    /\ \E p \in Free : launch(o.src, p)
    /\ Advance(n) /\ UNCHANGED <<env, fsVars, nic>>
\* run_init returns the error and main returns: the first process exits, and the
\* kernel panics and restarts.
BootFails(o) ==
    /\ init = "boot" /\ ~Skipped(o) /\ ~Can(o) /\ init' = "failed"
    /\ UNCHANGED <<env, at, fsVars, nic, children, services>>

-----------------------------------------------------------------------------
(* InitServer::run *)
Reap(i) == children' = RemoveAt(children, i)
\* The first child in the kernel's list that has exited.
Zombie(i) == children[i].dead /\ \A j \in 1 .. i - 1 : ~children[j].dead

\* wait_for_next_child: the shell is recognised by the name under its pid.  There is
\* always a child to wait for (ShellAwaited), so that handle_waitpid_err is not met.
wait_for_next_child(i) ==
    /\ init = "wait" /\ Zombie(i) /\ Reap(i)
    /\ services' = Restrict(services, DOMAIN services \ {children[i].pid})
    /\ init' = IF children[i].pid \in DOMAIN services /\ services[children[i].pid] = "shell" THEN "rebooted" ELSE "wait"
    /\ UNCHANGED <<env, at, fsVars, nic>>
\* reboot fails: run returns the error, and the first process exits.
reboot_fails ==
    /\ init = "rebooted" /\ init' = "exited"
    /\ UNCHANGED <<env, at, fsVars, nic, children, services>>
\* A child exits; a process of the guest is left to the first one by its parent.
Exits(i) ==
    /\ init \in {"boot", "wait"} /\ ~children[i].dead /\ children' = [children EXCEPT ![i].dead = TRUE]
    /\ UNCHANGED <<env, at, init, fsVars, nic, services>>
Orphan(p) ==
    /\ init = "wait" /\ p \in Free
    /\ children' = Append(children, [pid |-> p, name |-> "orphan", dead |-> FALSE])
    /\ UNCHANGED <<env, at, init, fsVars, nic, services>>

Boot ==
    /\ init = "boot"
    /\ \E ops \in {run_init} : LET o == ops[at + 1]
                                n == Len(ops) IN
          BootSkip(o, n) \/ BootFile(o, n) \/ BootNic(o, n) \/ BootLaunch(o, n) \/ BootFails(o)
Run == \E i \in DOMAIN children : wait_for_next_child(i)
Next ==
    \/ Boot \/ Run \/ reboot_fails
    \/ \E i \in DOMAIN children : Exits(i)
    \/ \E p \in Pids : Orphan(p)
Spec == Init /\ [][Next]_vars /\ WF_vars(Boot) /\ WF_vars(Run)

-----------------------------------------------------------------------------
\* Everything has its type, and the kernel has one child for a pid.
TypeOK ==
    /\ init \in {"boot", "failed", "wait", "rebooted", "exited"} /\ at \in Nat
    /\ <<>> \in DOMAIN mounts /\ Range(mounts) \subseteq DOMAIN tree
    /\ nic \subseteq {"addr", "up", "route"} /\ DOMAIN services \subseteq Pids
    /\ \A i, j \in DOMAIN children : children[i].pid = children[j].pid => i = j

\* The guest's root is the first disk, or the 9p device, and is mounted read-only
\* exactly when that is read-only: the host's choice survives the command line.
RootModeMatches ==
    rootfs.dev # "none" =>
        /\ rootfs.dev = IF config.disks = <<>> THEN "9proot" ELSE "/dev/vda"
        /\ rootfs.readonly <=> config.disks = <<>> \/ config.disks[1] = "ro"

\* The directories of the root file system that the boot writes to or mounts on.
Needed == {<<"etc">>, <<"sys">>, <<"proc">>, <<"dev">>, <<"run">>, <<"tmp">>}

\* When the shell is up nothing of the boot is left mounted but the boot file system
\* itself, and the parts of the overlay are in sight exactly when there is one.
OldRootClean ==
    init = "wait" =>
        /\ {m \in DOMAIN mounts : IsPrefix(Old, m)} = {Old}
        /\ {m \in DOMAIN mounts : m \in {<<"ro">>, <<"rw">>}} = IF read_only THEN {<<"ro">>, <<"rw">>} ELSE {}
        /\ config.network => nic = {"addr", "up", "route"}

\* The table has exactly the services that have not been waited for, also when the
\* pid of one is used again for a process that the guest left behind.
ServicesExact ==
    /\ \A p \in DOMAIN services : \E i \in DOMAIN children : children[i].pid = p /\ children[i].name = services[p]
    /\ \A i \in DOMAIN children : children[i].name # "orphan" => children[i].pid \in DOMAIN services

\* The VM is up as long as the shell has not been waited for, and no longer: waitpid
\* never finds that there are no children.
ShellAwaited ==
    init \in {"wait", "rebooted", "exited"} =>
        (init = "wait" <=> \E i \in DOMAIN children : children[i].name = "shell")

ShellExited == \E i \in DOMAIN children : children[i].name = "shell" /\ children[i].dead
Unreaped(p) == \E i \in DOMAIN children : children[i].pid = p /\ children[i].dead
\* The boot is decided; and when the shell has exited the guest restarts, whatever
\* other children exit at the same time.
ShellEnds ==
    /\ <>(init # "boot")
    /\ ShellExited ~> init \in {"rebooted", "exited"}
\* No child that has exited stays behind for good.
ZombiesReaped == \A p \in Pids : Unreaped(p) ~> ~Unreaped(p) \/ init # "wait"
=============================================================================
