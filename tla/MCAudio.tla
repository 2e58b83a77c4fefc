------------------------------ MODULE MCAudio -------------------------------
(***************************************************************************)
(* The sound device and its back end.  part names what is looked at: the   *)
(* AC97 bus master ("ac97"), the bus master with a longer ring and a       *)
(* server that asks for a buffer in pieces ("pieces"), or the PulseAudio   *)
(* stream ("pulse").  The bus master meets the stream in the requests it   *)
(* answers (the pc "serve" of its worker) and they share no state, so one  *)
(* moves at a time.                                                        *)
(***************************************************************************)
EXTENDS Ac97BusMaster, PulseStream

VARIABLE part

vars == <<part, ac97Vars, pulseVars>>

\* In a ring of three the buffer before another one is not the buffer after it.
Long == INSTANCE Ac97BusMaster WITH N <- 3, Settings <- {{"pieces"}}

Init ==
    /\ part \in {"ac97", "pieces", "pulse"} /\ PulseInit
    /\ IF part = "pieces" THEN Long!Ac97Init ELSE Ac97Init
    /\ part = "pulse" <=> setting = {}
Next ==
    \/ part = "ac97" /\ Ac97Next /\ UNCHANGED <<part, pulseVars>>
    \/ part = "pieces" /\ Long!Ac97Next /\ UNCHANGED <<part, pulseVars>>
    \/ part = "pulse" /\ PulseNext /\ UNCHANGED <<part, ac97Vars>>

Spec == Init /\ [][Next]_vars

\* The host schedules the vCPU inside a handler, the audio workers and the threads of
\* PulseAudio, and the server answers a connection.
FairSpec ==
    /\ Spec
    /\ WF_masterVars(part = "ac97" /\ Handler)
    /\ WF_masterVars(part = "pieces" /\ Long!Handler)
    /\ \A f \in Functions :
         /\ WF_masterVars(part = "ac97" /\ \E w \in Slots : Worker(f, w))
         /\ WF_masterVars(part = "pieces" /\ \E w \in Slots : Long!Worker(f, w))
    /\ WF_pulseVars(part = "pulse" /\ (Context \/ ServerAnswers))
    /\ WF_pulseVars(part = "pulse" /\ Client)

-----------------------------------------------------------------------------
\* However the driver starts, pauses and resets a function while streams fail, it
\* has one worker at most, none in cold reset, and the server is given the frames of
\* the driver's buffers in ring order, none twice and none skipped, save the one answer
\* that each of the two exceptions of InOrder names.  The stream below is told of
\* exactly the room that the server has and gives the lock of PulseAudio's main loop
\* back (Ac97BusMaster!InOrder, PulseStream!CountExact).
BuffersInOrder ==
    /\ OneWorker /\ ColdMeansQuiet
    /\ IF part = "pieces" THEN Long!Ac97TypeOK /\ Long!InOrder ELSE Ac97TypeOK /\ InOrder
    /\ PulseTypeOK /\ CountExact /\ LockReleased

\* The vCPU comes back out of the device: stop() joins its worker and opening a
\* stream returns, apart from a notification that fell before the worker's wait and
\* from a lock that a failed write kept (Ac97BusMaster!StopReturns,
\* PulseStream!OpeningReturns).  A worker that waits is woken: by a new last valid
\* index, or by room for its stream, apart from bits lost in an overlapping write of
\* SR and a count spoilt by an overlapping report (StallEnds, RoomIsUsed).  As part
\* never changes, one formula states what leads to what in both parts.
WaitsEnd ==
    /\ (IF part = "pulse" THEN pc = "new" ELSE main.pc = "join")
           ~> (IF part = "pulse" THEN pc # "new" \/ failed ELSE main.pc # "join" \/ missed)
    /\ \A f \in Functions :
         (IF part = "pulse" THEN pc = "wait" /\ room > 0 ELSE Stalled(f))
           ~> (IF part = "pulse" THEN pc # "wait" \/ raced # 0 ELSE ~Stalled(f))
=============================================================================
