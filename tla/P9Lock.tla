------------------------------- MODULE P9Lock -------------------------------
(***************************************************************************)
(* Advisory locks on the open files of fids (P9File::flock and getlock in  *)
(* src/devices/virtio_9p/file.rs, p9_lock and p9_getlock in server.rs).    *)
(* All fids of this module have the same file open, those outside Memory   *)
(* through an open file description each, and another process of the host  *)
(* competes for the lock.  P9File keeps what it believes to hold in lock   *)
(* and takes the real lock with flock(2), which is the part of the kernel  *)
(* modelled here: converting a lock first gives up the old one, so a       *)
(* conversion that is refused loses it.                                    *)
(***************************************************************************)
EXTENDS FiniteSets

CONSTANTS
    Fids,        \* fids
    Memory,      \* those whose file has no descriptor (BufferFile, NotAFile)
    Host         \* the other process

Types == {"un", "sh", "ex"}
Owners == Fids \cup {Host}

VARIABLES
    lock,        \* P9File::lock, "closed" when the fid has no file
    kern,        \* the kernel's lock of each open file description
    probe,       \* the fid whose getlock has taken a lock to see if it can
    answer,      \* the last answer of getlock
    lost         \* history: fids whose lock was lost in a refused conversion

lockVars == <<lock, kern, probe, answer, lost>>

NoOne == "no one"

ASSUME P9LockAssumption == Host \notin Fids /\ NoOne \notin Fids /\ Memory \subseteq Fids

LockInit ==
    /\ lock = [f \in Fids |-> "closed"]
    /\ kern = [o \in Owners |-> "un"]
    /\ probe = NoOne
    /\ answer = "un"
    /\ lost = {}

\* flock(2) with LOCK_NB.
Conflict(o, t) ==
    \E p \in Owners \ {o} : (t = "ex" /\ kern[p] # "un") \/ (t = "sh" /\ kern[p] = "ex")
Granted(o, t) == kern[o] = t \/ ~Conflict(o, t)
Flocked(o, t) == [kern EXCEPT ![o] = IF Granted(o, t) THEN t ELSE "un"]

\* The server handles one request at a time; only getlock is cut in two.
Ready == probe = NoOne

\* p9_open and p9_create give the fid a new P9File, p9_clunk drops it; the
\* kernel drops the lock with the old description.
set_file(f) ==
    /\ Ready
    /\ lock' = [lock EXCEPT ![f] = "un"]
    /\ kern' = [kern EXCEPT ![f] = "un"]
    /\ lost' = lost \ {f}
    /\ UNCHANGED <<probe, answer>>

close(f) ==
    /\ Ready
    /\ lock' = [lock EXCEPT ![f] = "closed"]
    /\ kern' = [kern EXCEPT ![f] = "un"]
    /\ lost' = lost \ {f}
    /\ UNCHANGED <<probe, answer>>

\* Mutant: the new state is stored whatever flock said.
flock_blind(f, t) ==
    /\ Ready /\ lock[f] # "closed" /\ f \notin Memory
    /\ kern' = Flocked(f, t)
    /\ lock' = [lock EXCEPT ![f] = t]
    /\ lost' = lost \ {f}
    /\ UNCHANGED <<probe, answer>>

\* A file in memory takes the new state, and any other fid's state is not looked at.
flock_memory(f, t) ==
    /\ Ready /\ lock[f] # "closed" /\ f \in Memory
    /\ lock' = [lock EXCEPT ![f] = t]
    /\ UNCHANGED <<kern, probe, answer, lost>>

\* raw_flock, and the new state on success.  A call that fails for another
\* reason (P9_LOCK_ERROR) changes nothing.
flock(f, t) ==
    /\ Ready /\ lock[f] # "closed" /\ f \notin Memory
    /\ kern' = Flocked(f, t)
    /\ IF Granted(f, t)
       THEN lock' = [lock EXCEPT ![f] = t] /\ lost' = lost \ {f}
       ELSE lost' = (IF kern[f] # "un" THEN lost \cup {f} ELSE lost) /\ UNCHANGED lock
    /\ UNCHANGED <<probe, answer>>

\* A fid that holds no lock tries to take one of type t.
getlock(f, t) ==
    /\ Ready /\ lock[f] # "closed"
    /\ IF lock[f] = "un" /\ t # "un" /\ f \notin Memory
       THEN /\ kern' = Flocked(f, t)
            /\ IF Granted(f, t) THEN probe' = f /\ UNCHANGED answer
               ELSE answer' = "ex" /\ UNCHANGED probe
       ELSE answer' = "un" /\ UNCHANGED <<kern, probe>>
    /\ UNCHANGED <<lock, lost>>

\* What was taken is given back at once.
getlock_release ==
    /\ probe # NoOne
    /\ kern' = [kern EXCEPT ![probe] = "un"]
    /\ probe' = NoOne /\ answer' = "un"
    /\ UNCHANGED <<lock, lost>>

\* The other process takes and gives up its lock.
HostFlock(t) ==
    /\ kern' = Flocked(Host, t)
    /\ UNCHANGED <<lock, probe, answer, lost>>

Server ==
    \/ \E f \in Fids : set_file(f) \/ close(f)
    \/ \E f \in Fids, t \in Types : flock(f, t) \/ flock_memory(f, t) \/ getlock(f, t)
    \/ getlock_release

LockNext == Server \/ \E t \in Types : HostFlock(t)

LockSpec == LockInit /\ [][LockNext]_lockVars /\ WF_lockVars(getlock_release)

-----------------------------------------------------------------------------
\* Locks and their holders have their types; only a fid that believes in a lock can
\* have lost it.
LockTypeOK ==
    /\ lock \in [Fids -> Types \cup {"closed"}]
    /\ kern \in [Owners -> Types]
    /\ probe \in Fids \cup {NoOne}
    /\ lost \subseteq Fids
    /\ \A f \in lost : lock[f] \in {"sh", "ex"}

\* The kernel holds for a fid exactly the lock that P9File::lock says, but for
\* the moment in which getlock tries one, and for a fid whose conversion was
\* refused: there the lock is gone and the server goes on believing in it.  For a
\* file in memory the kernel holds nothing.
LockMirrored ==
    /\ \A f \in Fids \ (lost \cup {probe} \cup Memory) :
          kern[f] = (IF lock[f] = "closed" THEN "un" ELSE lock[f])
    /\ \A f \in Memory : kern[f] = "un"

\* Two fids are never both told to hold locks that exclude each other, unless
\* one of them lost its lock in a refused conversion or the file is in memory:
\* every lock of such a file is granted.
Excluded ==
    \A f, g \in Fids \ (lost \cup Memory) :
        f # g /\ lock[f] = "ex" => lock[g] \in {"un", "closed"}

\* What the server believes about the locks of host files is true and safe: no two
\* fids hold locks that exclude each other, and the kernel has the locks that the
\* table says.
LocksTrue == Excluded /\ LockMirrored

\* A lock that getlock takes to see whether it could is always given back, so
\* that it stays in nobody's way: a fid without a lock blocks the host for a
\* moment only.
ProbeEnds == \A f \in Fids : []<>(kern[f] = "un" \/ lock[f] # "un")
=============================================================================
