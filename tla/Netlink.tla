------------------------------ MODULE Netlink ------------------------------
(***************************************************************************)
(* The netlink socket that configures network interfaces, on the host      *)
(* (src/system/netlink.rs) and, with the same code, in the guest           *)
(* (ph-init/src/netlink.rs): how a request is laid out, and the exchange   *)
(* of a sequence of requests with the kernel.  The host's sequence is that *)
(* of setup_tap, the guest's that of configure_network.                    *)
(*                                                                         *)
(* A buffer is its length, the attributes written to it, each with the     *)
(* offset, the length field and the type that its header has, and the      *)
(* fields of fixed headers, each with its offset and size.  The kernel     *)
(* carries out a request and queues its answer within sendto.              *)
(***************************************************************************)
EXTENDS Naturals, Sequences

CONSTANTS NameLens    \* lengths of interface names

ASSUME NameAssumption == NameLens \subseteq Nat

NL_HDRLEN == 16
ATTR_HDRLEN == 4
MESSAGE_ALIGN == 4

Aligned(n) == ((n + MESSAGE_ALIGN - 1) \div MESSAGE_ALIGN) * MESSAGE_ALIGN

-----------------------------------------------------------------------------
(* Buffer<Vec<u8>> and NetlinkMessage. *)
Buffer(len, attrs, fields) == [len |-> len, attrs |-> attrs, fields |-> fields]
new_empty == Buffer(0, {}, {})
next_bytes(b, size) == Buffer(b.len + size, b.attrs, b.fields)
align(b) == Buffer(Aligned(b.len), b.attrs, b.fields)

append_attr(b, type, n) ==
    align(Buffer(b.len + ATTR_HDRLEN + n,
                 b.attrs \cup {[off |-> b.len, len |-> ATTR_HDRLEN + n, type |-> type]}, b.fields))
attr_str(b, type, n) == append_attr(b, type, n)
attr_u32(b, type) == append_attr(b, type, 4)

\* The fields <<offset, size>> that are written to a header; next_bytes gives the header its
\* place at the end of the buffer.
NetlinkHeader == {<<0, 4>>, <<4, 2>>, <<6, 2>>, <<8, 4>>}
IfInfoMsgHdr == {<<0, 1>>, <<4, 4>>, <<8, 4>>, <<12, 4>>}
RtMsg == {<<0, 1>>, <<4, 1>>, <<5, 1>>, <<6, 1>>, <<7, 1>>}
IfAddrMsg == {<<0, 1>>, <<1, 1>>, <<3, 1>>, <<4, 4>>}
header(b, size, fs) ==
    Buffer(b.len + size, b.attrs, b.fields \cup {[off |-> b.len + f[1], len |-> f[2]] : f \in fs})

Message(type, seq, buf, size) == [type |-> type, seq |-> seq, buf |-> buf, size |-> size]
new(type, seq) == Message(type, seq, header(new_empty, NL_HDRLEN, NetlinkHeader), 0)
with_buf(m, b) == Message(m.type, m.seq, b, m.size)
with_ifinfomsg(m) == with_buf(m, header(m.buf, 16, IfInfoMsgHdr))
with_rtmsg(m) == with_buf(m, header(m.buf, 12, RtMsg))
with_ifaddrmsg(m) == with_buf(m, header(m.buf, 8, IfAddrMsg))

\* with_nested: inner has been built in a buffer of its own, after a header.
with_nested(m, type, inner) ==
    with_buf(m, align(Buffer(m.buf.len + align(inner).len,
        m.buf.attrs \cup {[off |-> m.buf.len, len |-> align(inner).len, type |-> type]}
                    \cup {[off |-> a.off + m.buf.len, len |-> a.len, type |-> a.type] : a \in inner.attrs},
        m.buf.fields)))
\* update_len: the length in the message header.
done(m) == Message(m.type, m.seq, align(m.buf), align(m.buf).len)

create_bridge_msg(seq, n) ==
    LET m == with_ifinfomsg(new("NEWLINK", seq))
        kind == append_attr(next_bytes(new_empty, ATTR_HDRLEN), "INFO_KIND", 6)
    IN  done(with_nested(with_buf(m, attr_str(m.buf, "IFNAME", n)), "LINKINFO", align(kind)))
set_interface_up_msg(seq, n) == done(with_ifinfomsg(new("NEWLINK", seq)))
add_interface_to_bridge_msg(seq, n) ==
    LET m == with_ifinfomsg(new("SETLINK", seq))
    IN  done(with_buf(m, attr_str(attr_u32(m.buf, "MASTER"), "IFNAME", n)))
add_ip_address_msg(seq, n) ==
    LET m == with_ifaddrmsg(new("NEWADDR", seq))
    IN  done(with_buf(m, append_attr(append_attr(m.buf, "ADDRESS", 4), "LOCAL", 4)))
add_default_route_msg(seq, n) ==
    LET m == with_rtmsg(new("NEWROUTE", seq))
    IN  done(with_buf(m, append_attr(m.buf, "GATEWAY", 4)))

Request(op, seq, n) ==
    CASE op = "create_bridge" -> create_bridge_msg(seq, n)
      [] op = "set_interface_up" -> set_interface_up_msg(seq, n)
      [] op = "add_interface_to_bridge" -> add_interface_to_bridge_msg(seq, n)
      [] op = "add_ip_address" -> add_ip_address_msg(seq, n)
      [] op = "add_default_route" -> add_default_route_msg(seq, n)

-----------------------------------------------------------------------------
(* The requests of setup_tap, by whether the bridge exists, and of
   configure_network. *)
setup_tap(exists) ==
    (IF exists THEN <<>> ELSE <<"create_bridge", "set_interface_up">>)
    \o <<"add_interface_to_bridge", "set_interface_up">>
configure_network == <<"add_ip_address", "set_interface_up", "add_default_route">>
Scripts == {setup_tap(TRUE), setup_tap(FALSE), configure_network}

VARIABLES
    script,   \* the requests this process makes
    linkPc,   \* position in script
    phase,    \* "send" | "recv" | "process"
    seq,      \* NetlinkSocket::seq
    inbox,    \* answers queued on the socket
    msg,      \* the message last sent
    resp,     \* the answer last received
    result,   \* "running" | "ok" | "err": what the caller is told
    applied   \* history: the requests the kernel carried out

linkVars == <<script, linkPc, phase, seq, inbox, msg, resp, result, applied>>

NoMsg == Message("none", 0, new_empty, 0)
NoResp == [seq |-> 0, kind |-> "none"]
Kinds == {"ack", "errno", "other"}    \* other: too short, or not NLMSG_ERROR

\* open_protocol.
LinkInit ==
    /\ script \in Scripts /\ linkPc = 1 /\ phase = "send" /\ seq = 1
    /\ inbox = <<>> /\ msg = NoMsg /\ resp = NoResp /\ result = "running" /\ applied = <<>>

\* The first error is returned by ?, and the socket is dropped.
Fails == result' = "err"

\* name_to_index: the interface is not there, and nothing is sent.
name_to_index ==
    /\ result = "running" /\ phase = "send" /\ script[linkPc] \notin {"create_bridge", "add_default_route"}
    /\ Fails /\ UNCHANGED <<script, linkPc, phase, seq, inbox, msg, resp, applied>>

\* What the kernel does with a message inside sendto: it acts on one that it can
\* parse, or it refuses; either way there is one answer.
Kernel(m, k) ==
    /\ inbox' = Append(inbox, [seq |-> m.seq, kind |-> k])
    /\ applied' = IF k = "ack" THEN Append(applied, linkPc) ELSE applied

send(n, k) ==
    /\ result = "running" /\ phase = "send"
    /\ msg' = Request(script[linkPc], seq, n) /\ seq' = seq + 1
    /\ Kernel(msg', k) /\ phase' = "recv"
    /\ UNCHANGED <<script, linkPc, resp, result>>
\* sys_sendto fails, or takes less than the message: the kernel has seen no request.
send_fails ==
    /\ result = "running" /\ phase = "send" /\ seq' = seq + 1 /\ Fails
    /\ UNCHANGED <<script, linkPc, phase, inbox, msg, resp, applied>>

sys_recv ==
    /\ result = "running" /\ phase = "recv" /\ inbox # <<>>
    /\ resp' = Head(inbox) /\ inbox' = Tail(inbox) /\ phase' = "process"
    /\ UNCHANGED <<script, linkPc, seq, msg, result, applied>>
\* sys_recv fails: the answer stays on the socket.
sys_recv_fails ==
    /\ result = "running" /\ phase = "recv" /\ Fails
    /\ UNCHANGED <<script, linkPc, phase, seq, inbox, msg, resp, applied>>

\* process_response: the sequence number of the answer is not looked at.
process_response ==
    /\ result = "running" /\ phase = "process"
    /\ IF resp.kind = "ack"
       THEN IF linkPc = Len(script) THEN result' = "ok" /\ UNCHANGED <<linkPc, phase>>
            ELSE linkPc' = linkPc + 1 /\ phase' = "send" /\ UNCHANGED result
       ELSE Fails /\ UNCHANGED <<linkPc, phase>>
    /\ UNCHANGED <<script, seq, inbox, msg, resp, applied>>

LinkNext ==
    \/ name_to_index \/ send_fails \/ sys_recv \/ sys_recv_fails \/ process_response
    \/ \E n \in NameLens, k \in Kinds : send(n, k)
LinkSpec == LinkInit /\ [][LinkNext]_linkVars

-----------------------------------------------------------------------------
\* Everything has its type.
LinkTypeOK ==
    /\ linkPc \in 1 .. Len(script) /\ phase \in {"send", "recv", "process"}
    /\ result \in {"running", "ok", "err"} /\ inbox \in Seq([seq : Nat, kind : Kinds])

\* The kernel reads a run of attributes from one offset to another: at each place a
\* header whose length is at least its own and within the rest, and then on to the
\* next aligned place.  It comes to every attribute that was written, and to its end,
\* when one is at the start of the run, each is followed by another or ends the run,
\* and no two are in the same place.
HeaderLen == [none |-> 0, NEWLINK |-> 32, SETLINK |-> 32, NEWADDR |-> 24, NEWROUTE |-> 28]
After(a) == a.off + Aligned(a.len)
Reads(attrs, from, end) ==
    /\ \A a \in attrs : a.len >= ATTR_HDRLEN /\ from <= a.off /\ After(a) <= end
    /\ \A a, b \in attrs : a = b \/ After(a) <= b.off \/ After(b) <= a.off
    /\ from = end \/ \E a \in attrs : a.off = from
    /\ \A a \in attrs : After(a) = end \/ \E b \in attrs : b.off = After(a)

\* For every request and every length of name, the kernel finds in the message the
\* attributes that were written, no more, and those of a container inside it; the
\* headers before them are whole, with no two fields in the same place.
Parses(m) ==
    LET inner == {a \in m.buf.attrs : a.type = "INFO_KIND"}
    IN  /\ m.size = m.buf.len /\ m.size % MESSAGE_ALIGN = 0
        /\ Reads(m.buf.attrs \ inner, HeaderLen[m.type], m.size)
        /\ \A f, g \in m.buf.fields : f = g \/ f.off + f.len <= g.off \/ g.off + g.len <= f.off
        /\ \A f \in m.buf.fields : f.off + f.len <= HeaderLen[m.type]
        /\ \A c \in {a \in m.buf.attrs : a.type = "LINKINFO"} : Reads(inner, c.off + ATTR_HDRLEN, c.off + c.len)
MessageParses == Parses(msg)

\* The answer that is taken for a request is the kernel's answer to that request,
\* although the code does not compare sequence numbers.
AnswerMatches == phase = "process" => resp.seq = msg.seq

\* What the kernel has done is an initial part of what was to be done, in order;
\* success is reported only when it is all of it.
PrefixApplied ==
    /\ applied = [i \in 1 .. Len(applied) |-> i]
    /\ result = "ok" => Len(applied) = Len(script)
    /\ Len(applied) \in {linkPc - 1, linkPc}

\* What a caller is told of its requests is what became of them (NetlinkSocket).
RequestsExact == LinkTypeOK /\ AnswerMatches /\ MessageParses /\ PrefixApplied
=============================================================================
