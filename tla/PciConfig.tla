----------------------------- MODULE PciConfig -----------------------------
(***************************************************************************)
(* The configuration space of a PCI device, src/io/pci/config.rs, behind   *)
(* the address and data ports of src/io/pci/bus.rs.  At setup the device   *)
(* stores its capabilities, a list linked through the space, and its BAR;  *)
(* then the guest writes bytes, words and doublewords.                     *)
(*                                                                         *)
(* A byte has two bits here, so a BAR of four bytes has eight.  The space  *)
(* is the BAR, at offsets 0 to 3, and the capabilities from                *)
(* PCI_CAP_BASE_OFFSET on, of which only the links are kept.               *)
(***************************************************************************)
EXTENDS Integers, Sequences, SequencesExt, FiniteSetsExt, Bitwise

CONSTANTS
    PCI_CAP_BASE_OFFSET, PCI_CONFIG_SPACE_SIZE, MAX_CAPABILITY_COUNT,
    CapLens,               \* lengths of capabilities
    Sizes                  \* sizes of the BAR, powers of two

VARIABLES
    caps,                  \* offset of each capability stored, in order
    head, next,            \* PCI_CAPABILITY_LIST, and the link of each capability
    next_capability_offset,
    bar, size,             \* the four bytes of the BAR, and its size
    address,               \* config_address: offset it selects, and whether it is enabled
    at                     \* "setup", "guest" or "panic"

vars == <<caps, head, next, next_capability_offset, bar, size, address, at>>

\* The bytes of v, low byte first, and the value of four bytes.
to_le_bytes(v) == [i \in 0..3 |-> (v \div 4^i) % 4]
Value(b) == b[0] + 4 * b[1] + 16 * b[2] + 64 * b[3]

\* set_mmio_bar; the base is a multiple of the size.
Init ==
    /\ caps = <<>> /\ head = 0 /\ next = <<>>
    /\ next_capability_offset = PCI_CAP_BASE_OFFSET
    /\ size \in Sizes
    /\ \E base \in {a \in 0..255 : a % size = 0 /\ a < 3 * size} : bar = to_le_bytes(base)
    /\ address = [offset |-> 0, enabled |-> FALSE] /\ at = "setup"

\* The offset after a capability of length len, aligned to four bytes.
update_next_capability_offset(len) == next_capability_offset + ((len + 3) \div 4) * 4

\* The capability whose link is still 0, looked for in MAX_CAPABILITY_COUNT steps.
LastLink(n) ==
    LET follow[k \in 0..n] == IF k = 0 THEN head
                              ELSE IF next[follow[k - 1]] = 0 THEN follow[k - 1] ELSE next[follow[k - 1]]
    IN  {follow[k] : k \in 0..n - 1} \cap {o \in DOMAIN next : next[o] = 0}

update_capability_chain(new) ==
    IF head = 0 THEN head' = new /\ next' = (new :> 0)
    ELSE /\ head' = head
         /\ next' = (new :> 0) @@ [o \in DOMAIN next |->
                                       IF o \in LastLink(MAX_CAPABILITY_COUNT) THEN new ELSE next[o]]

\* PciCapability::store.  The assertion on the space left is a panic.
store(len) ==
    /\ at = "setup"
    /\ next_capability_offset' = update_next_capability_offset(len)
    /\ IF next_capability_offset' < PCI_CONFIG_SPACE_SIZE
       THEN /\ update_capability_chain(next_capability_offset)
            /\ caps' = Append(caps, [offset |-> next_capability_offset, len |-> len])
            /\ at' = at
       ELSE at' = "panic" /\ UNCHANGED <<caps, head, next>>
    /\ UNCHANGED <<bar, size, address>>

start == at = "setup" /\ at' = "guest" /\ UNCHANGED <<caps, head, next, next_capability_offset, bar, size, address>>

\* A write to port 0xcf8 selects a doubleword: here the BAR or the one after it.
WriteAddress(offset, enabled) ==
    /\ at = "guest"
    /\ address' = [offset |-> offset, enabled |-> enabled]
    /\ UNCHANGED <<caps, head, next, next_capability_offset, bar, size, at>>

write_masked_byte(orig, mask, new) == (orig & (3 - mask)) + (new & mask)

is_valid_access(offset, n) ==
    n \in {1, 2, 4} /\ offset + n <= PCI_CONFIG_SPACE_SIZE /\ offset % n = 0

bar_mask == to_le_bytes(256 - size)

\* PciConfiguration::write_bar: byte by byte under the mask of the BAR.  The
\* assertion is that the access does not go beyond the BAR.
write_bar(offset, n, data) ==
    IF n + (offset % 4) <= 4
    THEN /\ bar' = [i \in 0..3 |-> IF i \in offset..offset + n - 1
                                    THEN write_masked_byte(bar[i], bar_mask[i], data[i - offset + 1]) ELSE bar[i]]
         /\ at' = at
    ELSE at' = "panic" /\ UNCHANGED bar

\* A write to the data ports 0xcfc to 0xcff.
WriteData(port, data) ==
    /\ at = "guest" /\ port + Len(data) <= 4
    /\ LET offset == address.offset + port IN
          /\ address.enabled /\ is_valid_access(offset, Len(data)) /\ offset < 4
          /\ write_bar(offset, Len(data), data)
    /\ UNCHANGED <<caps, head, next, next_capability_offset, size, address>>

Next ==
    \/ \E len \in CapLens : store(len)
    \/ start
    \/ \E o \in {0, 4}, e \in BOOLEAN : WriteAddress(o, e)
    \/ \E port \in 0..3, n \in {1, 2, 4} : \E data \in [1..n -> {0, 2, 3}] : WriteData(port, data)
Spec == Init /\ [][Next]_vars

-----------------------------------------------------------------------------
\* Bytes are bytes and capabilities are aligned.
TypeOK == bar \in [0..3 -> 0..3] /\ next_capability_offset % 4 = 0 /\ at \in {"setup", "guest", "panic"}

\* No write of the guest reaches the assertion in write_bar: only setup panics,
\* and only when the space is full.
PanicExplained == at = "panic" => next_capability_offset >= PCI_CONFIG_SPACE_SIZE

\* The capabilities do not overlap, and the guest, following the links from
\* PCI_CAPABILITY_LIST, finds all of them in the order in which they were stored, up
\* to the number that update_capability_chain follows.
CapsLinked ==
    LET n == Min({Len(caps), MAX_CAPABILITY_COUNT + 1}) IN
    /\ \A i \in 1..Len(caps) - 1 : caps[i].offset + caps[i].len <= caps[i + 1].offset
    /\ caps # <<>> => head = caps[1].offset
    /\ \A i \in 1..n - 1 : next[caps[i].offset] = caps[i + 1].offset
    /\ caps # <<>> => next[caps[n].offset] = 0

\* Whatever the guest writes, in whatever pieces, the BAR holds a multiple of its
\* size; and when it writes all ones it reads the size back.
BarAligned == Value(bar) % size = 0
BarSized == WriteData(0, <<3, 3, 3, 3>>) => Value(bar') = 256 - size
=============================================================================
