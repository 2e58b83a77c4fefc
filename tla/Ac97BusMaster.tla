---------------------------- MODULE Ac97BusMaster ----------------------------
(***************************************************************************)
(* The bus master of the AC97 device (src/devices/ac97/ac97_bus_master.rs, *)
(* ac97_regs.rs): the registers the driver writes from a vcpu, one audio   *)
(* worker thread per running function, the level interrupt of              *)
(* devices/irq_event.rs and the thread that resamples it.                  *)
(*                                                                         *)
(* Every step is one critical section of the `regs` mutex, or one access   *)
(* to the atomic thread_run, so the interleavings are those of the code.   *)
(* The descriptor ring has N entries (32 in the code).  A status or        *)
(* control register is the set of its bits.  A bdbar value stands for the  *)
(* descriptor list it points at.                                           *)
(***************************************************************************)
EXTENDS Naturals, Sequences

CONSTANTS
    Functions,    \* the audio functions in use: some of Input, Output and Microphone
    N,            \* entries of a descriptor ring
    Slots,        \* bound: worker threads of one function alive at once
    Frames,       \* frames in a buffer of the driver's list
    Requests,     \* frames the audio server asks for in one request, if not for a buffer
    Ioc,          \* ring indices whose descriptor asks for an interrupt
    Settings      \* what the driver and the audio server may do: see setting

ASSUME RingAssumption ==
    /\ Functions \subseteq {"Input", "Output", "Microphone"} /\ Functions # {}
    /\ N \in Nat /\ N >= 2
    /\ Slots \subseteq Nat \ {0}
    /\ Frames \in Nat /\ Requests \subseteq Nat

ASSUME SettingAssumption ==
    Settings \subseteq SUBSET {"faults", "holes", "resets", "interrupts", "pieces"}

VARIABLES
    setting,     \* rigid: the member of Settings that holds in this behaviour
    regs,        \* Ac97FunctionRegs of each function
    glob_cnt,    \* the reset bits of the global control register
    glob_sta,    \* the functions whose interrupt bit is set in glob_sta
    thread_run,  \* AudioThreadInfo.thread_run
    thread,      \* AudioThreadInfo.thread: the joinable worker, 0 if None
    workers,     \* the worker threads of each function
    main,        \* the vcpu inside the device: what is left of its handler
    line,        \* the interrupt line, raised by the trigger eventfd
    resample,    \* the resample eventfd is signalled
    rt,          \* the resample thread
    late,        \* ghost: functions enabled after their status bit was set
    missed,      \* ghost: stop() notified a worker that was not yet waiting
    lost,        \* ghost: functions whose stall at LVI an overlapping SR write undid
    expect       \* ghost: the frame due next at the server: see Due

irqVars == <<glob_sta, line, late>>
masterVars == <<regs, glob_cnt, thread_run, thread, workers, main, resample, rt,
                missed, lost, expect, irqVars>>
ac97Vars == <<masterVars, setting>>

\* opening, waiting for or answering a stream may fail
Faults == "faults" \in setting
\* the lists the driver points a bdbar at
Pointers == {"list"} \cup (IF "holes" \in setting THEN {"hole"} ELSE {})
\* the reset bits the driver writes to GLOB_CNT
GlobCnts == {{"COLD"}} \cup (IF "resets" \in setting THEN {{}, {"COLD", "WARM"}} ELSE {})
\* the sets of interrupt enables the driver writes to a CR
Enables == IF "interrupts" \in setting THEN {{"LVBIE", "IOCE"}} ELSE {{}}

\* the frames a request of the server may ask for
Asked == IF "pieces" \in setting THEN Requests ELSE {Frames}

SR_INT == {"LVBCI", "BCIS"}
SR == SR_INT \union {"DCH", "CELV"}
CR == {"RPBM", "LVBIE", "IOCE"}

NoBuffer == [index |-> N, left |-> 0]
\* Ghost: the server is due the last `left` frames of the buffer at index, which is N
\* once a frame came out of turn.  The next buffer gave `early` frames already; behind:
\* the buffer followed an empty answer.
Due(index, left) == [index |-> index, left |-> left, early |-> 0, behind |-> FALSE]
Gone == [pc |-> "gone", pending |-> <<>>, req |-> 0]
Idle == [pc |-> "idle"]

\* get_buffer_samples: the list at address zero is empty; a hole cannot be read
get_buffer_samples(bdbar) == IF bdbar = "list" THEN Frames ELSE 0

move_to_next_buffer(r) == [r EXCEPT !.civ = r.piv, !.piv = (r.piv + 1) % N]

do_reset(r) == [bdbar |-> "zero", civ |-> 0, lvi |-> 0, sr |-> r.sr, picb |-> 0,
                piv |-> 0, cr |-> r.cr \ {"RPBM"}]

int_mask(r) == (IF "LVBIE" \in r.cr THEN {"LVBCI"} ELSE {})
          \cup (IF "IOCE" \in r.cr THEN {"BCIS"} ELSE {})
has_irq(r) == r.sr \cap int_mask(r) # {}

check_between(low, high, value) ==
    IF low <= high THEN low <= value /\ value <= high
                   ELSE low <= value \/ value <= high

----------------------------------------------------------------------------
(* update_sr(f, r, val) stores registers r of f with status val; an          *)
(* interrupt bit that changed raises the line or clears the bit of glob_sta. *)

update_sr(f, r, val) ==
    /\ regs' = [regs EXCEPT ![f] = [r EXCEPT !.sr = val]]
    /\ IF r.sr \cap SR_INT = val \cap SR_INT
       THEN UNCHANGED irqVars
       ELSE /\ late' = late \ {f}
            /\ IF val \cap int_mask(r) # {}
               THEN glob_sta' = glob_sta \cup {f} /\ line' = TRUE
               ELSE glob_sta' = glob_sta \ {f} /\ UNCHANGED line

----------------------------------------------------------------------------
(* The register writes of the driver.  It pauses a function before it       *)
(* resets or repoints it and moves LVI only forward while it runs.          *)

Ac97Init ==
    /\ setting \in Settings
    /\ regs = [f \in Functions |-> [bdbar |-> "zero", civ |-> 0, lvi |-> 0,
                 sr |-> {"DCH"}, picb |-> 0, piv |-> 0, cr |-> {}]]
    /\ glob_cnt = {} /\ glob_sta = {}
    /\ thread_run = [f \in Functions |-> FALSE]
    /\ thread = [f \in Functions |-> 0]
    /\ workers = [f \in Functions |-> [w \in Slots |-> Gone]]
    /\ main = Idle
    /\ line = FALSE /\ resample = FALSE /\ rt = "wait"
    /\ late = {} /\ missed = FALSE /\ lost = {}
    /\ expect = [f \in Functions |-> Due(0, 0)]

threadVars == <<thread_run, thread, workers>>
ghosts == <<missed, lost, expect>>

is_cold_reset == "COLD" \notin glob_cnt

\* every byte and word write is ignored in cold reset, which is a stutter
Writable == main = Idle /\ ~is_cold_reset

set_bdbar(f) ==
    /\ Writable
    /\ "RPBM" \notin regs[f].cr
    /\ \E b \in Pointers : regs' = [regs EXCEPT ![f].bdbar = b]
    /\ UNCHANGED <<glob_cnt, threadVars, main, resample, rt, irqVars, ghosts>>

\* notify_one: one thread waiting on the function's condition variable wakes
Waiting(f) == {w \in Slots : workers[f][w].pc \in {"wait", "timed"}}
notify_one(f) ==
    IF Waiting(f) = {} THEN UNCHANGED workers
    ELSE \E w \in Waiting(f) :
            workers' = [workers EXCEPT ![f][w].pc =
                            IF @ = "wait" THEN "woken" ELSE @]

\* an index the driver may make the last valid one
NewLvi(f) ==
    IF "RPBM" \in regs[f].cr
    THEN {v \in 0 .. (N - 1) : (v + N - regs[f].civ) % N
                                 >= (regs[f].lvi + N - regs[f].civ) % N}
    ELSE 0 .. (N - 1)

\* a running function that stalled at LVI restarts
set_lvi(f) ==
    /\ Writable
    /\ \E v \in NewLvi(f) :
         LET r == [regs[f] EXCEPT !.lvi = v]
             m == IF "CELV" \in r.sr THEN move_to_next_buffer(r) ELSE r
         IN  IF "RPBM" \in r.cr /\ "DCH" \in r.sr /\ r.civ # v
             THEN /\ regs' = [regs EXCEPT ![f] = [m EXCEPT !.sr = @ \ {"DCH", "CELV"}]]
                  /\ notify_one(f)
             ELSE /\ regs' = [regs EXCEPT ![f] = r]
                  /\ UNCHANGED workers
    /\ UNCHANGED <<glob_cnt, thread_run, thread, main, resample, rt, irqVars, ghosts>>

\* set_sr reads the status in one critical section ...
set_sr(f) ==
    /\ Writable
    /\ \E val \in SUBSET SR_INT :
         main' = [pc |-> "sr", f |-> f, sr |-> regs[f].sr, clear |-> val]
    /\ UNCHANGED <<regs, glob_cnt, threadVars, resample, rt, irqVars, ghosts>>

\* ... and writes what it read, less the cleared bits, in another
set_sr_update ==
    /\ main.pc = "sr"
    /\ update_sr(main.f, regs[main.f], main.sr \ main.clear)
    /\ lost' = IF ("CELV" \in regs[main.f].sr) = ("CELV" \in main.sr)
               THEN lost ELSE lost \cup {main.f}
    /\ main' = Idle
    /\ UNCHANGED <<glob_cnt, threadVars, resample, rt, missed, expect>>

\* the enables of cr take effect without a look at the status
StoreCr(f, r, cr) ==
    LET new == [r EXCEPT !.cr = cr]
    IN  /\ regs' = [regs EXCEPT ![f] = new]
        /\ late' = IF ~has_irq(new) THEN late \ {f}
                   ELSE IF has_irq(r) THEN late ELSE late \cup {f}
        /\ UNCHANGED <<glob_sta, line>>

\* CR_RR: the registers are reset; no thread is stopped or looked at
set_cr_reset(f) ==
    /\ Writable
    /\ "RPBM" \notin regs[f].cr
    /\ update_sr(f, do_reset(regs[f]), {"DCH"})
    /\ UNCHANGED <<glob_cnt, threadVars, main, resample, rt, ghosts>>

set_cr_pause(f) ==
    /\ Writable
    /\ \E cr \in Enables :
         main' = [pc |-> "stop", todo |-> <<f>>, then |-> "pause", cr |-> cr, f |-> f]
    /\ UNCHANGED <<regs, glob_cnt, threadVars, resample, rt, irqVars, ghosts>>

\* create_audio_worker and AudioThreadInfo::start; failing leaves no worker.
\* The names of the threads do not matter: the new one takes the first free slot.
FreeSlots(f) == {w \in Slots : workers[f][w].pc = "gone"}
start_audio(f) ==
    \/ /\ Faults
       /\ UNCHANGED <<threadVars, expect, lost>>
    \/ /\ regs[f].bdbar # "hole"
       /\ \E w \in FreeSlots(f) :
            /\ \A v \in FreeSlots(f) : w <= v
            /\ workers' = [workers EXCEPT ![f][w] =
                               [Gone EXCEPT !.pc = "picb"]]
            /\ thread' = [thread EXCEPT ![f] = w]
       /\ thread_run' = [thread_run EXCEPT ![f] = TRUE]
       /\ expect' = [expect EXCEPT ![f] = Due(0, get_buffer_samples(regs[f].bdbar))]
       /\ lost' = lost \ {f}

set_cr_run(f) ==
    /\ Writable
    /\ \E enables \in Enables :
         main' = [pc |-> "cr", f |-> f, cr |-> enables \cup {"RPBM"}]
    /\ IF "RPBM" \in regs[f].cr
       THEN UNCHANGED <<regs, threadVars, expect, lost>>
       ELSE /\ regs' = [regs EXCEPT ![f].piv = 1 % N, ![f].civ = 0, ![f].sr = @ \ {"DCH"}]
            /\ start_audio(f)
    /\ UNCHANGED <<glob_cnt, resample, rt, irqVars, missed>>

set_cr_store ==
    /\ main.pc = "cr"
    /\ StoreCr(main.f, regs[main.f], main.cr)
    /\ main' = Idle
    /\ UNCHANGED <<glob_cnt, threadVars, resample, rt, ghosts>>

\* the order in which the functions are stopped
InUse(f) == IF f \in Functions THEN <<f>> ELSE <<>>
stop_all_audio == InUse("Input") \o InUse("Output") \o InUse("Microphone")

\* a global control write without COLD_RESET stops everything and resets;
\* WARM_RESET does so only when nothing runs; other writes are just stored
set_glob_cnt ==
    /\ main = Idle
    /\ \E cnt \in GlobCnts :
         IF "COLD" \in cnt /\ ("WARM" \in cnt => \E f \in Functions : thread_run[f])
         THEN glob_cnt' = cnt /\ UNCHANGED main
         ELSE /\ main' = [pc |-> "stop", todo |-> stop_all_audio, cnt |-> cnt,
                          then |-> IF "COLD" \notin cnt THEN "cold" ELSE "warm"]
              /\ UNCHANGED glob_cnt
    /\ UNCHANGED <<regs, threadVars, resample, rt, irqVars, ghosts>>

----------------------------------------------------------------------------
(* AudioThreadInfo::stop, for each function of main.todo in turn. *)

Target == Head(main.todo)

stop_store ==
    /\ main.pc = "stop"
    /\ thread_run' = [thread_run EXCEPT ![Target] = FALSE]
    /\ main' = [main EXCEPT !.pc = "notify"]
    /\ UNCHANGED <<regs, glob_cnt, thread, workers, resample, rt, irqVars, ghosts>>

\* the worker passed the test of thread_run and is about to find DMA halted
Passing(f) == /\ thread[f] # 0 /\ workers[f][thread[f]].pc = "gate"
              /\ "DCH" \in regs[f].sr

stop_notify ==
    /\ main.pc = "notify"
    /\ notify_one(Target)
    /\ missed' = Passing(Target)
    /\ main' = [main EXCEPT !.pc = "join"]
    /\ UNCHANGED <<regs, glob_cnt, thread_run, thread, resample, rt, irqVars, lost, expect>>

stop_join ==
    /\ main.pc = "join"
    /\ thread[Target] # 0 => workers[Target][thread[Target]].pc = "gone"
    /\ thread' = [thread EXCEPT ![Target] = 0]
    /\ main' = [main EXCEPT !.todo = Tail(@), !.pc = IF Len(main.todo) = 1 THEN "after" ELSE "stop"]
    /\ UNCHANGED <<regs, glob_cnt, thread_run, workers, resample, rt, irqVars, ghosts>>

\* what the handler does once its threads have stopped
set_cr_paused ==
    /\ main.pc = "after" /\ main.then = "pause"
    /\ StoreCr(main.f, [regs[main.f] EXCEPT !.sr = @ \cup {"DCH"}], main.cr)
    /\ main' = Idle
    /\ UNCHANGED <<glob_cnt, threadVars, resample, rt, ghosts>>

reset_audio_regs ==
    /\ main.pc = "after" /\ main.then = "cold"
    /\ regs' = [f \in Functions |-> [do_reset(regs[f]) EXCEPT !.sr = {"DCH"}]]
    /\ glob_sta' = glob_sta \ {f \in Functions : regs[f].sr \cap SR_INT # {}}
    /\ late' = {}
    /\ glob_cnt' = main.cnt
    /\ main' = Idle
    /\ UNCHANGED <<threadVars, line, resample, rt, ghosts>>

warm_reset ==
    /\ main.pc = "after" /\ main.then = "warm"
    /\ glob_cnt' = main.cnt \ {"WARM"}
    /\ main' = Idle
    /\ UNCHANGED <<regs, threadVars, resample, rt, irqVars, ghosts>>

----------------------------------------------------------------------------
(* AudioWorker::run *)

WorkerStep(f, w, from, to) ==
    /\ workers[f][w].pc = from
    /\ workers' = [workers EXCEPT ![f][w].pc = to]
mainVars == <<thread_run, thread, main, glob_cnt, resample, rt, missed>>

run_picb(f, w) ==
    \/ /\ regs[f].bdbar # "hole"
       /\ WorkerStep(f, w, "picb", "check")
       /\ regs' = [regs EXCEPT ![f].picb = get_buffer_samples(regs[f].bdbar)]
       /\ UNCHANGED <<mainVars, irqVars, lost, expect>>
    \/ /\ regs[f].bdbar = "hole"
       /\ WorkerStep(f, w, "picb", "ended")
       /\ UNCHANGED <<regs, mainVars, irqVars, lost, expect>>

run_check(f, w) ==
    /\ WorkerStep(f, w, "check", IF thread_run[f] THEN "gate" ELSE "ended")
    /\ UNCHANGED <<regs, mainVars, irqVars, lost, expect>>

run_gate(f, w) ==
    /\ WorkerStep(f, w, "gate", IF "DCH" \in regs[f].sr THEN "wait" ELSE "stream")
    /\ UNCHANGED <<regs, mainVars, irqVars, lost, expect>>

\* a condition variable may also wake its waiter without a notification
run_spurious(f, w) ==
    /\ WorkerStep(f, w, "wait", "woken")
    /\ UNCHANGED <<regs, mainVars, irqVars, lost, expect>>

\* Mutant: thread_run is not tested again
run_woken_blind(f, w) ==
    /\ WorkerStep(f, w, "woken", IF "DCH" \in regs[f].sr THEN "wait" ELSE "stream")
    /\ UNCHANGED <<regs, mainVars, irqVars, lost, expect>>

run_woken(f, w) ==
    /\ WorkerStep(f, w, "woken", IF ~thread_run[f] THEN "ended"
                           ELSE IF "DCH" \in regs[f].sr THEN "wait" ELSE "stream")
    /\ UNCHANGED <<regs, mainVars, irqVars, lost, expect>>

\* wait_for_next_action_with_timeout: a request, a timeout or an error
run_stream(f, w) ==
    /\ UNCHANGED <<regs, mainVars, irqVars, lost, expect>>
    /\ \/ WorkerStep(f, w, "stream", "check")
       \/ Faults /\ WorkerStep(f, w, "stream", "ended")
       \/ /\ workers[f][w].pc = "stream"
          /\ \E n \in Asked :
               workers' = [workers EXCEPT ![f][w].pc = "serve", ![f][w].req = n]

\* Mutant: CIV moves on past the last valid buffer
completed_past(r) == move_to_next_buffer(r)

\* buffer_completed: the new registers and status
completed(r) == IF r.civ = r.lvi THEN r ELSE move_to_next_buffer(r)
completed_sr(r) == (r.sr \ {"CELV"})
              \cup (IF r.bdbar = "list" /\ r.civ \in Ioc THEN {"BCIS"} ELSE {})
              \cup (IF r.civ = r.lvi THEN {"DCH", "CELV", "LVBCI"} ELSE {})
\* the buffer `offset` entries after CIV, if the worker may have it now
next_guest_buffer(r, offset) ==
    LET index == (r.civ + offset) % N
    IN  IF \/ "DCH" \in r.sr
           \/ ~check_between(r.civ, r.lvi, index)
           \/ "CELV" \in r.sr
        THEN NoBuffer
        ELSE [index |-> index, left |-> get_buffer_samples(r.bdbar)]

\* what the documentation of next_guest_buffer says makes it return None
DocumentedNone(r, offset) ==
    LET index == (r.civ + offset) % N
    IN  \/ "DCH" \in r.sr
        \/ ~check_between(r.civ, r.lvi, index)
        \/ index = r.lvi /\ "CELV" \in r.sr

\* the entries of pending that are some buffer; there are two entries at most (Ac97TypeOK)
RealCount(pending) ==
    LET real(i) == IF i <= Len(pending) /\ pending[i] # NoBuffer THEN 1 ELSE 0
    IN  real(1) + real(2)
Unconsumed(pending) == pending # <<>> /\ Head(pending).left > 0

\* ghost: what is due after n frames of buffer b; a buffer that followed an empty
\* answer is overtaken by one answer from the next
Given(e, size, b, n) ==
    LET next(i) == (i + 1) % N
    IN  CASE b = [index |-> e.index, left |-> e.left] ->
                IF n < e.left THEN [e EXCEPT !.left = @ - n]
                ELSE IF e.early < size \/ size = 0 THEN Due(next(e.index), size - e.early)
                ELSE Due(next(next(e.index)), size)
          [] e.behind /\ e.early = 0 /\ b = [index |-> next(e.index), left |-> size] ->
                [e EXCEPT !.early = n]
          [] OTHER -> Due(N, 0)

\* hand the i-th pending buffer to the server, where e is due; the answer may fail
Respond(f, w, pending, i, e) ==
    LET me == workers[f][w]
        n == IF me.req < pending[i].left THEN me.req ELSE pending[i].left
        used == [pending EXCEPT ![i].left = @ - n]
    IN  \/ /\ workers' = [workers EXCEPT ![f][w] = [me EXCEPT !.pc = "check", !.pending = used]]
           /\ expect' = [expect EXCEPT ![f] =
                            Given(e, get_buffer_samples(regs[f].bdbar), pending[i], n)]
        \/ /\ Faults
           /\ workers' = [workers EXCEPT ![f][w] = [me EXCEPT !.pc = "ended", !.pending = <<>>]]
           /\ UNCHANGED expect

\* ghost: what is due when buffer b is taken; a stall that was undone gives the last
\* valid buffer once more
Taken(f, b, pending) ==
    LET e == IF f \in lost /\ expect[f] = Due((b.index + 1) % N, b.left)
             THEN Due(b.index, b.left) ELSE expect[f]
    IN  IF b = [index |-> e.index, left |-> e.left]
        THEN [e EXCEPT !.behind = \E i \in DOMAIN pending : pending[i] = NoBuffer] ELSE e

\* take a new buffer from the ring, give up, or wait for LVI to move; a
\* quantifier over one value has TLC compute it once
Fetch(f, w, r, pending) ==
    \E b \in {next_guest_buffer(r, RealCount(pending))},
       me \in {[workers[f][w] EXCEPT !.pending = pending]} :
        \/ /\ b # NoBuffer /\ r.bdbar # "hole"
           /\ \E e \in {Taken(f, b, pending)} :
                 Respond(f, w, Append(pending, b), Len(pending) + 1, e)
           /\ lost' = lost \ {f}
        \/ /\ b # NoBuffer /\ r.bdbar = "hole"
           /\ workers' = [workers EXCEPT ![f][w] = [me EXCEPT !.pc = "ended", !.pending = <<>>]]
           /\ UNCHANGED <<lost, expect>>
        \/ /\ b = NoBuffer
           /\ \/ workers' = [workers EXCEPT ![f][w] = [me EXCEPT !.pc = "timed"]]
              \/ workers' = [workers EXCEPT ![f][w] =
                               [me EXCEPT !.pc = "check", !.pending = Append(@, NoBuffer)]]
           /\ UNCHANGED <<lost, expect>>

\* AudioWorker::next_guest_buffer when the front buffer has frames left
serve_front(f, w) ==
    /\ workers[f][w].pc = "serve" /\ Unconsumed(workers[f][w].pending)
    /\ Respond(f, w, workers[f][w].pending, 1, expect[f])
    /\ UNCHANGED <<regs, mainVars, irqVars, lost>>

\* fewer than two pending, or the oldest was an empty answer: nothing completes, and
\* the front is not looked at again
serve_fetch(f, w) ==
    LET p == workers[f][w].pending
        rest == IF Len(p) = 2 THEN Tail(p) ELSE p
    IN  /\ workers[f][w].pc = "serve" /\ ~Unconsumed(p)
        /\ Len(p) = 2 => Head(p) = NoBuffer
        /\ Fetch(f, w, regs[f], rest)
        /\ UNCHANGED <<regs, mainVars, irqVars>>

\* the oldest of two pending buffers is complete
serve_complete(f, w) ==
    LET p == workers[f][w].pending
        r == [completed(regs[f]) EXCEPT !.picb = get_buffer_samples(regs[f].bdbar)]
        sr == completed_sr(regs[f])
    IN  /\ workers[f][w].pc = "serve" /\ ~Unconsumed(p)
        /\ Len(p) = 2 /\ Head(p) # NoBuffer
        /\ \/ /\ regs[f].bdbar = "hole"
              /\ workers' = [workers EXCEPT ![f][w] = [Gone EXCEPT !.pc = "ended"]]
              /\ UNCHANGED <<regs, irqVars, lost, expect>>
           \/ /\ regs[f].bdbar # "hole"
              /\ update_sr(f, r, sr)
              /\ IF Unconsumed(Tail(p))
                 THEN Respond(f, w, Tail(p), 1, expect[f]) /\ UNCHANGED lost
                 ELSE Fetch(f, w, [r EXCEPT !.sr = sr], Tail(p))
        /\ UNCHANGED mainVars

\* woken by a notification or by the end of the message interval
serve_timed(f, w) ==
    /\ workers[f][w].pc = "timed"
    /\ Fetch(f, w, regs[f], workers[f][w].pending)
    /\ UNCHANGED <<regs, mainVars, irqVars>>

\* the closure of AudioThreadInfo::start after run() returned
run_ended(f, w) ==
    /\ workers[f][w].pc = "ended"
    /\ workers' = [workers EXCEPT ![f][w] = Gone]
    /\ thread_run' = [thread_run EXCEPT ![f] = FALSE]
    /\ UNCHANGED <<regs, thread, main, glob_cnt, resample, rt, missed, lost, irqVars, expect>>

----------------------------------------------------------------------------
(* The interrupt line: the guest ends the interrupt, which drops the line   *)
(* and signals resample; the resample thread raises it again if need be.    *)

guest_eoi ==
    /\ line
    /\ line' = FALSE /\ resample' = TRUE
    /\ UNCHANGED <<regs, glob_cnt, threadVars, main, rt, glob_sta, late, ghosts>>

wait_resample ==
    /\ rt = "wait" /\ resample
    /\ resample' = FALSE /\ rt' = "check"
    /\ UNCHANGED <<regs, glob_cnt, threadVars, main, irqVars, ghosts>>

\* Mutant: the resample thread raises no interrupt
check_resample_none ==
    /\ rt = "check" /\ rt' = "wait"
    /\ UNCHANGED <<regs, glob_cnt, threadVars, main, resample, irqVars, ghosts>>

check_resample ==
    /\ rt = "check" /\ rt' = "wait"
    /\ line' = (line \/ \E f \in Functions : has_irq(regs[f]))
    /\ UNCHANGED <<regs, glob_cnt, threadVars, main, resample, glob_sta, late, ghosts>>

----------------------------------------------------------------------------
Driver == \/ set_glob_cnt
          \/ \E f \in Functions : \/ set_bdbar(f) \/ set_lvi(f) \/ set_sr(f)
                                  \/ set_cr_reset(f) \/ set_cr_pause(f) \/ set_cr_run(f)
Handler == \/ set_sr_update \/ set_cr_store \/ set_cr_paused \/ reset_audio_regs
           \/ warm_reset \/ stop_store \/ stop_notify \/ stop_join
Worker(f, w) == \/ run_picb(f, w) \/ run_check(f, w) \/ run_gate(f, w)
                \/ run_woken(f, w) \/ run_stream(f, w) \/ run_ended(f, w)
                \/ serve_front(f, w) \/ serve_fetch(f, w)
                \/ serve_complete(f, w) \/ serve_timed(f, w)
Interrupt == guest_eoi \/ wait_resample \/ check_resample

Master == \/ Driver \/ Handler \/ Interrupt
          \/ \E f \in Functions, w \in Slots : Worker(f, w) \/ run_spurious(f, w)
Ac97Next == Master /\ UNCHANGED setting

\* the host schedules the vcpu inside a handler and every worker thread
Ac97Fairness == /\ WF_masterVars(Handler)
                /\ \A f \in Functions, w \in Slots : WF_masterVars(Worker(f, w))

Ac97Spec == Ac97Init /\ [][Ac97Next]_ac97Vars /\ Ac97Fairness

----------------------------------------------------------------------------
\* The registers, threads and ghosts range over the values the code gives
\* them; the indices stay inside the ring.
Ac97TypeOK ==
    /\ \A f \in Functions :
         /\ regs[f].bdbar \in {"zero", "list", "hole"}
         /\ {regs[f].civ, regs[f].lvi, regs[f].piv} \subseteq 0 .. (N - 1)
         /\ regs[f].sr \subseteq SR /\ regs[f].cr \subseteq CR
         /\ regs[f].picb \in {0, Frames}
         /\ \A w \in Slots : Len(workers[f][w].pending) <= 2
    /\ thread \in [Functions -> Slots \cup {0}]
    /\ thread_run \in [Functions -> BOOLEAN]
    /\ glob_sta \subseteq Functions /\ late \subseteq Functions
    /\ \A f \in Functions : expect[f].index \in 0 .. N /\ expect[f].left \in 0 .. Frames

\* A function with an enabled status bit keeps the guest interrupted: the
\* line is up, or the resample thread is about to look (set_irq_event's
\* thread and update_sr).  The one exception is an enable bit that set_cr
\* stores after the status bit is already set.
IrqNotLost ==
    \A f \in Functions :
        has_irq(regs[f]) => line \/ resample \/ rt = "check" \/ f \in late

\* A function never has two workers, and a worker that exists is the one
\* stop() would join, across pauses, resets and failed streams (start, stop).
OneWorker ==
    \A f \in Functions, w \in Slots :
        workers[f][w].pc # "gone" => thread[f] = w

\* In the cold reset state no worker is left running (set_glob_cnt,
\* reset_audio_regs): the joined threads cannot touch the reset registers.
ColdMeansQuiet ==
    is_cold_reset => \A f \in Functions, w \in Slots : workers[f][w].pc = "gone"

\* The server is given the frames of the driver's buffers in ring order, none twice
\* and none skipped, in pieces of whatever size it asks for (buffer_completed, set_lvi
\* and next_guest_buffer agree on CIV).  The code has two exceptions, each good for one
\* answer: when a buffer follows an empty answer and is not consumed at once, the pop of
\* the empty answer lets one piece of the next buffer overtake the rest; and an SR
\* write that overlaps the stall at LVI makes the last valid buffer be given again.
InOrder == \A f \in Functions : expect[f].index # N

\* next_guest_buffer has no buffer only in the cases its comment lists
NoneAsDocumented ==
    [][\A f \in Functions, w \in Slots :
         workers[f][w].pc = "serve" /\ workers'[f][w].pc = "timed"
           => DocumentedNone(regs'[f], RealCount(workers'[f][w].pending))]_ac97Vars

\* stop() returns, so the vcpu leaves its handler, unless the notification
\* fell between the worker's test of thread_run and its wait (lines 166-169
\* against 905-909).
StopReturns == main.pc = "join" ~> (main.pc # "join" \/ missed)

\* A worker stalled on DMA-halted runs again once set_lvi cleared the bit: the
\* notification is not lost.  An SR write that overlapped the stall clears
\* the bit too, and then nobody notifies the worker (`lost`).
Stalled(f) ==
    /\ "DCH" \notin regs[f].sr /\ f \notin lost
    /\ \E w \in DOMAIN workers[f] : workers[f][w].pc = "wait"
StallEnds == \A f \in Functions : Stalled(f) ~> ~Stalled(f)
====
