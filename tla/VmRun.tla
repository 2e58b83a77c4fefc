------------------------------- MODULE VmRun -------------------------------
(***************************************************************************)
(* A VM from the start of its vcpu threads to the end of the process:      *)
(* Vm::start of src/vm/setup.rs, the loop of src/vm/vcpu.rs, VmConfig::boot *)
(* of src/vm/config.rs, the i8042 device of src/io/manager.rs, and of the  *)
(* console (src/devices/virtio_serial.rs) what it does to the terminal     *)
(* from threads of its own.                                                *)
(*                                                                         *)
(* A device is behind a lock that a panic in its handler poisons.  A vcpu  *)
(* that is in the guest need never come out again.                         *)
(***************************************************************************)
EXTENDS Naturals, Sequences

CONSTANTS
    NCpus,       \* VmConfig::ncpus
    Devices,     \* devices on the buses, the console apart
    MaxTerms     \* bound on starts of the console

Console == "console"
Cpus == 1 .. NCpus

ASSUME RunAssumption == NCpus \in Nat \ {0} /\ MaxTerms \in Nat

VARIABLES
    main,       \* "spawn" | "join" | "restored" | "failed" | "panicked"
    exited,     \* the process has ended, and all its threads with it
    nextCpu,       \* the thread that main spawns or joins
    vcpu,       \* [Cpus -> "new" | "spawned" | "barrier" | "guest" | "check" | "ended" | "panicked"]
    shutdown,   \* the flag shared by the vcpus
    reset_evt,  \* the event of the i8042 device has been signalled
    poisoned,   \* devices whose lock is poisoned
    tty,        \* "cooked" | "raw"
    terms,      \* the threads of the console: [saved, at]
    late        \* history: a console thread changed the terminal after main restored it

runVars == <<main, exited, nextCpu, vcpu, shutdown, reset_evt, poisoned, tty, terms, late>>

RunInit ==
    /\ main = "spawn" /\ exited = FALSE /\ nextCpu = 1 /\ vcpu = [c \in Cpus |-> "new"]
    /\ shutdown = FALSE /\ reset_evt = FALSE /\ poisoned = {}
    /\ tty = "cooked" /\ terms = <<>> /\ late = FALSE

-----------------------------------------------------------------------------
(* Vm::start and VmConfig::boot *)
mainVars == <<main, exited, nextCpu>>
cpuVars == <<vcpu, shutdown, reset_evt, poisoned>>
ttyVars == <<tty, terms, late>>

spawn ==
    /\ main = "spawn" /\ vcpu' = [vcpu EXCEPT ![nextCpu] = "spawned"]
    /\ IF nextCpu = NCpus THEN main' = "join" /\ nextCpu' = 1 ELSE nextCpu' = nextCpu + 1 /\ UNCHANGED main
    /\ UNCHANGED <<exited, shutdown, reset_evt, poisoned, ttyVars>>
\* thread::spawn panics when there can be no more threads.
spawn_fails ==
    /\ main = "spawn" /\ main' = "panicked" /\ UNCHANGED <<exited, nextCpu, cpuVars, ttyVars>>
\* The threads are joined in the order of their creation.
join ==
    /\ main = "join" /\ nextCpu <= NCpus /\ vcpu[nextCpu] \in {"ended", "panicked"}
    /\ IF vcpu[nextCpu] = "panicked" THEN main' = "panicked" /\ UNCHANGED nextCpu
       ELSE nextCpu' = nextCpu + 1 /\ UNCHANGED main
    /\ UNCHANGED <<exited, cpuVars, ttyVars>>
restore ==
    /\ main = "join" /\ nextCpu > NCpus
    /\ main' = "restored" /\ tty' = "cooked" /\ UNCHANGED <<exited, nextCpu, cpuVars, terms, late>>
restore_fails ==
    /\ main = "join" /\ nextCpu > NCpus
    /\ main' = "failed" /\ UNCHANGED <<exited, nextCpu, cpuVars, ttyVars>>
\* boot returns or unwinds, restoring the palette, and the process ends with it.
boot ==
    /\ ~exited /\ main \in {"restored", "failed", "panicked"} /\ exited' = TRUE
    /\ UNCHANGED <<main, nextCpu, cpuVars, ttyVars>>

Main == spawn \/ join \/ restore \/ restore_fails \/ boot

-----------------------------------------------------------------------------
(* Vcpu::run *)
Alive == ~exited
To(c, s) == vcpu' = [vcpu EXCEPT ![c] = s]

\* Mutant: the barrier is for one thread.
barrier_wait_one(c) ==
    /\ Alive /\ vcpu[c] = "spawned" /\ To(c, "guest")
    /\ UNCHANGED <<mainVars, shutdown, reset_evt, poisoned, ttyVars>>
\* barrier.wait(): the last to arrive releases the others.
barrier_wait(c) ==
    /\ Alive /\ vcpu[c] = "spawned"
    /\ IF \A d \in Cpus \ {c} : vcpu[d] = "barrier" THEN vcpu' = [d \in Cpus |-> "guest"] ELSE To(c, "barrier")
    /\ UNCHANGED <<mainVars, shutdown, reset_evt, poisoned, ttyVars>>

\* handle_io_out, handle_io_in, handle_mmio_read, handle_mmio_write: the lock of the
\* device is taken with expect.
handle_io(c, d) ==
    /\ Alive /\ vcpu[c] = "guest" /\ To(c, IF d \in poisoned THEN "panicked" ELSE "check")
    /\ UNCHANGED <<mainVars, shutdown, reset_evt, poisoned, ttyVars>>
\* The handler of the device panics with the lock held.
handle_io_panics(c, d) ==
    /\ Alive /\ vcpu[c] = "guest" /\ d \notin poisoned
    /\ To(c, "panicked") /\ poisoned' = poisoned \cup {d}
    /\ UNCHANGED <<mainVars, shutdown, reset_evt, ttyVars>>
\* The write to the i8042 device that asks for a reset.  Nothing waits for the event.
i8042_write(c) ==
    /\ Alive /\ vcpu[c] = "guest" /\ To(c, "check") /\ reset_evt' = TRUE
    /\ UNCHANGED <<mainVars, shutdown, poisoned, ttyVars>>
\* The guest's driver starts the console: the current settings are taken as those to
\* go back to, and a thread is spawned.
start(c) ==
    /\ Alive /\ vcpu[c] = "guest" /\ Console \notin poisoned /\ Len(terms) < MaxTerms
    /\ To(c, "check") /\ terms' = Append(terms, [saved |-> tty, at |-> "setup"])
    /\ UNCHANGED <<mainVars, shutdown, reset_evt, poisoned, tty, late>>
handle_shutdown(c) ==
    /\ Alive /\ vcpu[c] = "guest" /\ To(c, "check") /\ shutdown' = TRUE
    /\ UNCHANGED <<mainVars, reset_evt, poisoned, ttyVars>>
\* An exit that is not handled, or EAGAIN.
unhandled(c) ==
    /\ Alive /\ vcpu[c] = "guest" /\ To(c, "check")
    /\ UNCHANGED <<mainVars, shutdown, reset_evt, poisoned, ttyVars>>
\* Any other error, EINTR included, ends this vcpu and no other.
run_error(c) ==
    /\ Alive /\ vcpu[c] = "guest" /\ To(c, "ended")
    /\ UNCHANGED <<mainVars, shutdown, reset_evt, poisoned, ttyVars>>
\* Mutant: the flag is looked at before the exit is handled.
check_blind(c) ==
    /\ Alive /\ vcpu[c] = "check" /\ To(c, "guest")
    /\ UNCHANGED <<mainVars, shutdown, reset_evt, poisoned, ttyVars>>
check(c) ==
    /\ Alive /\ vcpu[c] = "check" /\ To(c, IF shutdown THEN "ended" ELSE "guest")
    /\ UNCHANGED <<mainVars, shutdown, reset_evt, poisoned, ttyVars>>

Exit(c) ==
    \/ \E d \in Devices \cup {Console} : handle_io(c, d) \/ handle_io_panics(c, d)
    \/ i8042_write(c) \/ start(c) \/ handle_shutdown(c) \/ unhandled(c) \/ run_error(c)

-----------------------------------------------------------------------------
(* The console's threads: Terminal *)
SetTty(s) == tty' = s /\ late' = (late \/ main = "restored")
setup_term(t) ==
    /\ Alive /\ terms[t].at = "setup" /\ terms' = [terms EXCEPT ![t].at = "loop"]
    /\ SetTty("raw") /\ UNCHANGED <<mainVars, cpuVars>>
\* After three ^C, or when the thread panics and drops its Terminal.
restore_term(t) ==
    /\ Alive /\ terms[t].at = "loop" /\ terms' = [terms EXCEPT ![t].at = "restored"]
    /\ SetTty(terms[t].saved) /\ UNCHANGED <<mainVars, cpuVars>>

RunNext ==
    \/ Main \/ spawn_fails
    \/ \E c \in Cpus : barrier_wait(c) \/ check(c) \/ Exit(c)
    \/ \E t \in DOMAIN terms : setup_term(t) \/ restore_term(t)
RunSpec == RunInit /\ [][RunNext]_runVars
\* Threads are scheduled; no guest need ever exit, and no terminal thread be stopped.
RunFairSpec == RunSpec /\ WF_runVars(Main) /\ \A c \in Cpus : WF_runVars(barrier_wait(c)) /\ WF_runVars(check(c))

-----------------------------------------------------------------------------
\* Everything has its type; a thread runs only after it has been spawned.
RunTypeOK ==
    /\ main \in {"spawn", "join", "restored", "failed", "panicked"} /\ nextCpu \in 1 .. NCpus + 1
    /\ \A c \in Cpus : main = "spawn" => (vcpu[c] = "new" <=> c >= nextCpu)
    /\ poisoned \subseteq Devices \cup {Console} /\ tty \in {"cooked", "raw"} /\ Len(terms) <= MaxTerms

\* No vcpu runs the guest before every one of them can.
BarrierHolds ==
    (\E c \in Cpus : vcpu[c] \in {"guest", "check"}) => \A c \in Cpus : vcpu[c] \notin {"new", "spawned", "barrier"}

\* When the process has ended after main restored the terminal, the terminal is as it
\* was, however often the console was started; unless one of the console's threads
\* was still to act, and set it after main had.
TerminalRestored == exited /\ main = "restored" /\ tty = "raw" => late

\* A panic ends the process only through the join of its vcpu; and a vcpu that finds a
\* device's lock poisoned was preceded by one that panicked in its handler, a different
\* one for each lock.
PanicExplained ==
    /\ main = "panicked" => nextCpu <= NCpus /\ vcpu[nextCpu] \in {"new", "panicked"}
    /\ \E by \in [poisoned -> {c \in Cpus : vcpu[c] = "panicked"}] : \A d, e \in poisoned : by[d] = by[e] => d = e

\* No vcpu runs the guest before all can, a panic ends the process only through the
\* join of its vcpu, and a process that ended in order left the terminal as it was,
\* unless a thread of the console was still to act (barrier.wait, Vm::start, Terminal).
VcpusTogether == RunTypeOK /\ BarrierHolds /\ TerminalRestored /\ PanicExplained

\* The flag of one vcpu ends all of them, and the process, provided that every vcpu
\* leaves the guest again and again: a vcpu that stays in the guest is never told.
ShutdownEnds == (\A c \in Cpus : []<>(vcpu[c] # "guest")) => (shutdown ~> exited)

\* A vcpu that panicked ends the process once those before it have ended; until then
\* the VM runs on without it.
PanicSurfaces ==
    \A c \in Cpus :
        vcpu[c] = "panicked" /\ main = "join" /\ (\A d \in 1 .. c - 1 : vcpu[d] \in {"ended", "panicked"}) ~> exited
=============================================================================
