---------------------------- MODULE MCVirtioBlock ----------------------------
(***************************************************************************)
(* Sectors of two units, a header and a status of one.  In mode "fails"    *)
(* (the values of the .cfg) host I/O may fail and requests may go past the *)
(* end of the disk; in mode "serves" neither happens.                      *)
(***************************************************************************)
EXTENDS VirtioBlock

CONSTANTS a, b

TwoSectors == {[s \in {0, 1} |-> a]}
AllOpenTypes == {"ReadOnly", "ReadWrite", "MemoryOverlay"}
WritableTypes == {"ReadWrite", "MemoryOverlay"}

Request(type, s, rlens, wlens, data) ==
    [type |-> type, sector |-> s, rlens |-> rlens, wlens |-> wlens, data |-> data]

\* One sector, two in one descriptor, two in two descriptors, and a write with
\* the header and the data in one descriptor.
InAt(s) == {Request("IN", s, <<1>>, w, <<>>) : w \in {<<2, 1>>, <<4, 1>>, <<2, 2, 1>>}}
OutAt(s) ==
    UNION {{Request("OUT", s, <<1, 2>>, <<1>>, <<x>>), Request("OUT", s, <<3>>, <<1>>, <<x>>),
            Request("OUT", s, <<1, 2, 2>>, <<1>>, <<x, b>>)} : x \in {a, b}}

Others == {Request("FLUSH", 0, <<1>>, <<1>>, <<>>),
           Request("GET_ID", 0, <<1>>, <<2, 1>>, <<>>), Request("GET_ID", 0, <<1>>, <<1, 1>>, <<>>),
           Request("OTHER", 0, <<1>>, <<1>>, <<>>),
           Request("FLUSH", 0, <<>>, <<1>>, <<>>)}

Fits(r) == r.sector + (IF r.type = "OUT" THEN Len(r.data) ELSE SumLengths(r.wlens) \div 2) <= 2

InRange == Others \union {r \in InAt(0) \union InAt(1) \union OutAt(0) \union OutAt(1) : Fits(r)}
Anywhere == Others \union {Request("OUT", 0, <<1, 3>>, <<1>>, <<b>>)} \union InAt(0) \union InAt(1) \union InAt(2)
                   \union OutAt(0) \union OutAt(1) \union OutAt(2)

VARIABLE mode

Serves == INSTANCE VirtioBlock WITH HostFails <- FALSE, OpenTypes <- WritableTypes, Requests <- InRange

BlockInit == (mode = "fails" /\ Init) \/ (mode = "serves" /\ Serves!Init)
BlockNext ==
    \/ mode = "fails" /\ Next /\ UNCHANGED mode
    \/ mode = "serves" /\ Serves!Next /\ UNCHANGED mode
BlockSpec ==
    BlockInit /\ [][BlockNext]_<<vars, mode>> /\ WF_vars(mode = "serves" /\ Serves!Worker)

\* The status tells the truth and goes where it can be said to go: OK is written only
\* for what was done, whatever the host refuses; it goes to the status byte but for a
\* failed read and a short id, which leave the byte as the driver had it; and what the
\* disk can do succeeds and is counted in the length returned (VirtioBlock!OkMeansDone,
\* StatusPlaced, PossibleSucceeds).
StatusExact ==
    TypeOK /\ OkMeansDone /\ StatusPlaced /\ (mode = "serves" => Serves!PossibleSucceeds)

\* A worker that has taken a chain comes back for the next one, where no OUT request
\* fails (VirtioBlock!EveryChainFinished).
ChainsFinished == mode = "serves" => EveryChainFinished
=============================================================================
