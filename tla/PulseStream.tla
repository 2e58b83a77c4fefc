----------------------------- MODULE PulseStream ------------------------------
(***************************************************************************)
(* The PulseAudio back end (src/audio/pulse/): the context thread, which   *)
(* takes the lock of PulseAudio's main loop on behalf of the others, the   *)
(* main loop thread, which runs the callbacks under that lock, and the     *)
(* audio client: a vcpu that opens a playback stream and the worker that   *)
(* then feeds it.  There is one playback worker at a time                  *)
(* (Ac97BusMaster!OneWorker).                                              *)
(*                                                                         *)
(* The lock is recursive and always taken by the context thread, so it is  *)
(* a depth.  A frame is one byte.  The server has room for Room bytes and  *)
(* reports it through the write callback.                                  *)
(***************************************************************************)
EXTENDS Naturals

CONSTANTS
    Room,         \* bytes the server buffers
    buffer_size,  \* frames the device asked for
    Word,         \* 2^64: a usize wraps there in a release build
    ServerFaults  \* TRUE: connecting, reading guest memory or writing may fail

ASSUME PulseAssumption ==
    Word \in Nat /\ Room \in 0 .. (Word - 1) /\ buffer_size \in 0 .. (Word - 1)

VARIABLES
    ctx,         \* the context thread
    depth,       \* how often it holds the main loop lock
    state,       \* of the context, then of the stream: pulse::stream::State
    call,        \* the message at the context thread
    pc,          \* the client
    amount,      \* bytes of the request being answered
    byte_count,  \* Available.byte_count
    room,        \* bytes the server can take
    raced,       \* ghost: bytes taken off a count that did not include them, mod Word
    failed       \* ghost: a write failed

pulseVars == <<ctx, depth, state, call, pc, amount, byte_count, room, raced, failed>>
context == <<ctx, depth, state>>
client == <<call, pc, amount>>
count == <<byte_count, room, raced, failed>>

PulseInit ==
    /\ ctx = "start" /\ depth = 0 /\ state = "connecting"
    /\ call = "none" /\ pc = "idle" /\ amount = 0
    /\ byte_count = 0 /\ room = 0 /\ raced = 0 /\ failed = FALSE

-----------------------------------------------------------------------------
\* The context thread.

mainloop_lock == depth' = depth + 1
mainloop_unlock == depth' = depth - 1

\* The lock is taken; connecting fails at once, and connect() unlocks again, or
\* the thread waits for the server's answer.
start_and_connect ==
    /\ ctx = "start"
    /\ \/ ServerFaults /\ ctx' = "ended" /\ UNCHANGED depth
       \/ ctx' = "connect" /\ mainloop_lock
    /\ UNCHANGED <<state, client, count>>

wait_context_connected ==
    /\ ctx = "connect" /\ state \in {"ready", "failed"}
    /\ ctx' = IF state = "ready" THEN "run" ELSE "ended"
    /\ mainloop_unlock
    /\ UNCHANGED <<state, client, count>>

dispatch_lock ==
    /\ ctx = "run" /\ call = "lock"
    /\ mainloop_lock
    /\ call' = "ok"
    /\ UNCHANGED <<ctx, state, pc, amount, count>>

dispatch_unlock ==
    /\ ctx = "run" /\ call = "unlock"
    /\ mainloop_unlock
    /\ call' = "ok"
    /\ UNCHANGED <<ctx, state, pc, amount, count>>

\* new_playback_stream locks and unlocks, then connect locks and asks the server.
dispatch_new ==
    /\ ctx = "run" /\ call = "new"
    /\ byte_count' = 0 /\ room' = 0
    /\ \/ ServerFaults /\ call' = "err" /\ UNCHANGED <<ctx, depth, state>>
       \/ /\ mainloop_lock
          /\ state' = "connecting" /\ ctx' = "stream"
          /\ UNCHANGED call
    /\ raced' = 0
    /\ UNCHANGED <<pc, amount, failed>>

wait_stream_connected ==
    /\ ctx = "stream" /\ state \in {"ready", "failed"}
    /\ call' = IF state = "ready" THEN "ok" ELSE "err"
    /\ mainloop_unlock
    /\ ctx' = "run"
    /\ UNCHANGED <<state, pc, amount, count>>

\* The context thread is gone: sending fails, or the reply channel is dropped.
exchange_fails ==
    /\ ctx = "ended" /\ call \in {"lock", "unlock", "new"}
    /\ call' = "err"
    /\ UNCHANGED <<context, pc, amount, count>>

-----------------------------------------------------------------------------
\* The main loop thread runs while nobody holds the lock.  mainloop_wait gives
\* up one level of it, which is enough only if there is no other.
LoopRuns == depth = 0 \/ (ctx \in {"connect", "stream"} /\ depth = 1)

ServerAnswers ==
    /\ ctx \in {"connect", "stream"} /\ state = "connecting" /\ LoopRuns
    /\ state' \in {"ready"} \union (IF ServerFaults THEN {"failed"} ELSE {})
    /\ UNCHANGED <<ctx, depth, client, count>>

Connected == pc \notin {"idle", "new"}

\* Available::update, the write callback: the count is set, not added to.
update(value) == byte_count' = value

\* The server has played something and asks for more.  Reported between a write and its
\* decrement, the room is less the bytes written already.
WriteCallback ==
    /\ Connected /\ LoopRuns /\ room < Room
    /\ \E more \in (room + 1) .. Room : room' = more /\ update(more)
    /\ raced' = IF pc \in {"unlock", "decrement"} THEN amount ELSE 0
    /\ UNCHANGED <<context, client, failed>>

-----------------------------------------------------------------------------
\* The client.  A call waits for its answer.

Send(m, next) == call' = m /\ pc' = next

Answer(at, ok, err) ==
    /\ pc = at /\ call \in {"ok", "err"}
    /\ call' = "none"
    /\ pc' = IF call = "ok" THEN ok ELSE err

new_stream ==
    /\ pc = "idle"
    /\ Send("new", "new")
    /\ UNCHANGED <<context, amount, count>>

new_stream_returns == Answer("new", "wait", "idle") /\ UNCHANGED <<context, amount, count>>

\* The worker is stopped between two requests.
stop == pc = "wait" /\ pc' = "idle" /\ UNCHANGED <<context, call, amount, count>>

\* wait_space without a timeout; the request is clamped to the buffer and the
\* device fills as much of it as its buffer holds.
wait_for_next_action ==
    /\ pc = "wait" /\ byte_count > 0
    /\ \E n \in 1 .. buffer_size : n <= byte_count /\ amount' = n
    /\ Send("lock", "uncork")
    /\ UNCHANGED <<context, count>>

uncork ==
    /\ pc = "uncork" /\ call \in {"ok", "err"}
    /\ IF call = "ok" THEN Send("unlock", "uncorked") ELSE Send("none", "idle")
    /\ UNCHANGED <<context, amount, count>>

uncorked == Answer("uncorked", "read", "idle") /\ UNCHANGED <<context, amount, count>>

\* read_slice: an address that is not guest memory ends the callback here.
callback_read ==
    /\ pc = "read"
    /\ Send("lock", "write") \/ (ServerFaults /\ Send("none", "idle"))
    /\ UNCHANGED <<context, amount, count>>

\* write_copy: `?` returns with the main loop locked.
callback_write ==
    /\ pc = "write" /\ call = "ok"
    /\ \/ /\ Send("unlock", "unlock")
          /\ IF amount > room
             THEN room' = 0 /\ raced' = (raced + amount - room) % Word
             ELSE room' = room - amount /\ UNCHANGED raced
          /\ UNCHANGED failed
       \/ ServerFaults /\ Send("none", "idle") /\ failed' = TRUE /\ UNCHANGED <<room, raced>>
    /\ UNCHANGED <<context, amount, byte_count>>

callback_unlocked == Answer("unlock", "decrement", "idle") /\ UNCHANGED <<context, amount, count>>

\* Available::decrement, after the unlock: the count may have been set meanwhile.
decrement ==
    /\ pc = "decrement" /\ pc' = "wait"
    /\ byte_count' = (byte_count + Word - amount) % Word
    /\ UNCHANGED <<context, call, amount, room, raced, failed>>

Context == \/ start_and_connect \/ wait_context_connected \/ dispatch_lock \/ dispatch_unlock
           \/ dispatch_new \/ wait_stream_connected \/ exchange_fails
Client == \/ new_stream_returns \/ wait_for_next_action \/ uncork \/ uncorked
          \/ callback_read \/ callback_write \/ callback_unlocked \/ decrement

PulseNext == Context \/ ServerAnswers \/ WriteCallback \/ new_stream \/ stop \/ Client

\* Threads keep running and the server answers a connection; the guest need not
\* start a stream and the server need not ask for more.
PulseSpec == /\ PulseInit /\ [][PulseNext]_pulseVars
             /\ WF_pulseVars(Context) /\ WF_pulseVars(ServerAnswers) /\ WF_pulseVars(Client)

-----------------------------------------------------------------------------
\* The threads, the lock depth and the counts stay in their ranges.
PulseTypeOK ==
    /\ ctx \in {"start", "connect", "run", "stream", "ended"}
    /\ depth \in Nat /\ state \in {"connecting", "ready", "failed"}
    /\ call \in {"none", "lock", "unlock", "new", "ok", "err"}
    /\ pc \in {"idle", "new", "wait", "uncork", "uncorked", "read", "write", "unlock", "decrement"}
    /\ amount \in 0 .. buffer_size /\ byte_count \in 0 .. (Word - 1) /\ room \in 0 .. Room
    /\ raced \in 0 .. (Word - 1)

\* Whoever locked the main loop unlocked it: with no call under way the lock is
\* free and the callbacks can run.  A failed write_copy is the only way to leave
\* it locked, and does (callback, uncork, connect and dispatch_message).
LockReleased ==
    (ctx = "run" /\ pc \in {"idle", "wait", "read", "decrement"})
        => depth = (IF failed THEN 1 ELSE 0)

\* The device is told of the room the server has, whenever the worker looks.  Only a
\* report after a write and before its decrement spoils the count, by the bytes of that
\* write and until the next report: it may then be too small, or wrap around
\* (Available::update and decrement around the unlock in callback).
CountExact ==
    pc \in {"wait", "uncork", "uncorked", "read", "write"}
        => byte_count = (room + Word - raced) % Word

\* Opening a stream returns, with the registers of the device locked around it,
\* unless a failed write left the main loop locked: then the context thread
\* waits for a main loop that cannot run (wait_stream_connected).
OpeningReturns == (pc = "new") ~> (pc # "new" \/ failed)

\* While the server has room the worker does not sleep (wait_space), unless the
\* count was spoilt by a report between a write and its decrement.
RoomIsUsed == (pc = "wait" /\ room > 0) ~> (pc # "wait" \/ raced # 0)
=============================================================================
