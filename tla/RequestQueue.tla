---------------------------- MODULE RequestQueue ----------------------------
(***************************************************************************)
(* What a virtqueue served by one device thread promises the guest driver: *)
(* requests are taken in the order in which they were published, served    *)
(* one at a time, completed exactly once, and handed back in the order of  *)
(* completion.  Nothing here says how (rings, indices, kicks, interrupts). *)
(***************************************************************************)
EXTENDS Sequences

CONSTANT Heads

VARIABLES
    free,        \* heads the driver may submit
    submitted,   \* published and not yet taken by the device, oldest first
    serving,     \* the head the device holds, as a sequence of at most one
    completed    \* visible to the driver as used, not yet reaped

vars == <<free, submitted, serving, completed>>

Init ==
    /\ free = Heads
    /\ submitted = <<>>
    /\ serving = <<>>
    /\ completed = <<>>

Submit(h) ==
    /\ h \in free
    /\ free' = free \ {h}
    /\ submitted' = Append(submitted, h)
    /\ UNCHANGED <<serving, completed>>

Take ==
    /\ serving = <<>>
    /\ submitted # <<>>
    /\ serving' = <<Head(submitted)>>
    /\ submitted' = Tail(submitted)
    /\ UNCHANGED <<free, completed>>

Complete ==
    /\ serving # <<>>
    /\ completed' = completed \o serving
    /\ serving' = <<>>
    /\ UNCHANGED <<free, submitted>>

Reap ==
    /\ completed # <<>>
    /\ free' = free \cup {Head(completed)}
    /\ completed' = Tail(completed)
    /\ UNCHANGED <<submitted, serving>>

Next ==
    \/ \E h \in Heads : Submit(h)
    \/ Take
    \/ Complete
    \/ Reap

Spec == Init /\ [][Next]_vars

=============================================================================
