-------------------------------- MODULE MCWl --------------------------------
(***************************************************************************)
(* The Wayland device on four instances: in "ids" and "tables" messages    *)
(* carry two files and KVM may refuse a region, with two ids of the guest  *)
(* and a small window in the first, more of the compositor's files in the  *)
(* second; "serves" and "commands" have chains that may be too short and   *)
(* are the ones whose progress is looked at, the first with passed pipes,  *)
(* the second with every command.  The constants of the model are those of *)
(* "tables".                                                               *)
(***************************************************************************)
EXTENDS VirtioWl

VARIABLE part

TwoIds == INSTANCE VirtioWl WITH
    Pages <- 1, Ram <- 1, Sizes <- {1}, KvmFaults <- TRUE, GuestIds <- 2, HostIds <- 2,
    MaxOut <- 1, MaxIn <- 1, MaxInbox <- 1, MaxPending <- 1, Items <- {"two files"},
    Ops <- {"NEW", "NEW_CTX", "CLOSE"}, ShortChains <- FALSE
Serves == INSTANCE VirtioWl WITH
    Pages <- 1, Ram <- 1, Sizes <- {1}, KvmFaults <- FALSE, GuestIds <- 1, HostIds <- 1,
    MaxOut <- 2, MaxIn <- 1, MaxInbox <- 1, MaxPending <- 1,
    Items <- {"data", "eof", "err", "pipe", "writer"}, Ops <- {"NEW", "NEW_CTX", "NEW_PIPE", "CLOSE"},
    ShortChains <- TRUE
Commands == INSTANCE VirtioWl WITH
    Pages <- 1, Ram <- 1, Sizes <- {1}, KvmFaults <- FALSE, GuestIds <- 1, HostIds <- 1,
    MaxOut <- 2, MaxIn <- 1, MaxInbox <- 1, MaxPending <- 1,
    Items <- {"data", "eof", "err", "file"},
    Ops <- {"NEW", "NEW_CTX", "NEW_PIPE", "NEW_DMABUF", "SEND", "CLOSE"}, ShortChains <- TRUE

Init == \/ part = "tables" /\ WlInit
        \/ part = "ids" /\ TwoIds!WlInit
        \/ part = "serves" /\ Serves!WlInit
        \/ part = "commands" /\ Commands!WlInit
Next == \/ part = "tables" /\ WlNext /\ UNCHANGED part
        \/ part = "ids" /\ TwoIds!WlNext /\ UNCHANGED part
        \/ part = "serves" /\ Serves!WlNext /\ UNCHANGED part
        \/ part = "commands" /\ Commands!WlNext /\ UNCHANGED part

\* A step of the device in the instance that moves.
Step(s, c) == (part = "serves" /\ s) \/ (part = "commands" /\ c)
\* WlFairness: the device thread keeps running, and its loop handles every event of
\* a wait, so no token is passed over for ever.
Spec ==
    /\ Init /\ [][Next]_<<part, wlVars>>
    /\ WF_wlVars(Step(Serves!Vfds, Commands!Vfds))
    /\ WF_wlVars(Step(Serves!Drain, Commands!Drain))
    /\ SF_wlVars(Step(Serves!OutVq, Commands!OutVq))
    /\ SF_wlVars(Step(Serves!process_poll_events, Commands!process_poll_events))
    /\ SF_wlVars(Step(Serves!in_vq_ready, Commands!in_vq_ready))

-----------------------------------------------------------------------------
\* Every command is answered but for a backlog of one command for each kick that was
\* merged with an earlier one, because an event takes one chain from the queue
\* (OUT_VQ_TOKEN in run): the backlog is never worked off, and it never grows otherwise.
\* And every hangup of the compositor is reported unless the guest closed the vfd
\* itself or reading failed, also while the event of a pipe without readers, which is
\* passed over, comes again and again.  Of such a pipe, and of a pipe the guest
\* created, whose remote end the device holds, no hangup is ever reported.
CommandsAnswered ==
    /\ (part \in {"serves", "commands"} /\ outq # <<>>) ~> CommandSettled
    /\ \A id \in {1, 2} :
        (part \in {"serves", "commands"} /\ PeerClosed(id)) ~> HupSettled(id)
=============================================================================
