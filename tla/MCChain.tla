------------------------------ MODULE MCChain -------------------------------
(***************************************************************************)
(* The two ends of a chain's life in one model.  part says which is        *)
(* looked at: "walk", load_descriptor_lists on every descriptor table of   *)
(* three entries, or "chain", the calls of a device on lists of up to two  *)
(* descriptors of 0 to 2 bytes.  They share no state.                      *)
(***************************************************************************)
EXTENDS Chain

VARIABLES part, table, first, idx, ttl, reads, writes, done

walkVars == <<table, first, idx, ttl, reads, writes, done>>
allVars == <<vars, walkVars, part>>

SmallLengths == UNION {[1 .. n -> 0 .. 2] : n \in 0 .. 2}

Walk == INSTANCE DescriptorWalk WITH
    QueueSize <- 3, head <- first, readable <- reads, writeable <- writes

NoWalk == table = <<>> /\ first = 0 /\ idx = 0 /\ ttl = 0 /\ reads = <<>> /\ writes = <<>> /\ done = FALSE
NoChain ==
    /\ readable = NewList(<<>>) /\ writeable = NewList(<<>>) /\ head = TRUE /\ alive = TRUE
    /\ op = Idle /\ used = <<>> /\ nread = 0 /\ nwrote = 0

ChainsInit == (part = "chain" /\ Init /\ NoWalk) \/ (part = "walk" /\ Walk!Init /\ NoChain)
ChainsNext ==
    \/ part = "chain" /\ Next /\ UNCHANGED <<walkVars, part>>
    \/ part = "walk" /\ Walk!Next /\ UNCHANGED <<vars, part>>
ChainsSpec ==
    /\ ChainsInit /\ [][ChainsNext]_allVars
    /\ WF_vars(part = "chain" /\ Step) /\ WF_walkVars(part = "walk" /\ Walk!Next)

\* While a list has descriptors, what it reports as left is what is left; and a
\* read_exact or write_all fails only if it was asked for more than that or met a
\* descriptor of length 0 (Chain!Accounting, ShortTransferExcused).
TransfersExact == Accounting /\ ShortTransferExcused

\* The lists that load_descriptor_lists builds are the chain
\* (DescriptorWalk!WalkFollowsChain): no descriptor is missed, repeated or on the
\* wrong list, whatever the table holds; nor are there more than the table has
\* entries (WalkBounded).
WalkFollowsChain == part = "walk" => Walk!WalkBounded /\ Walk!WalkFollowsChain

\* The loops that run over what the guest wrote end: the walk of a cyclic chain, and
\* every read and write on lists with empty descriptors.
LoopsEnd == CallsReturn /\ (part = "walk" => <>done)
=============================================================================
