---------------------------- MODULE WlInputProofs ----------------------------
(***************************************************************************)
(* The tables of the Wayland device agree with what its driver knows, and  *)
(* its input stays in order, for any number of vfds, commands and chains.  *)
(* WlProofs has the invariant and the steps of the output side; here are   *)
(* those of the input side: what arrives from the compositor is queued,    *)
(* with its files as new vfds, and drained into the driver's chains.       *)
(***************************************************************************)
EXTENDS WlProofs

\* A message that goes to the end of the pending input takes the vfds of the job with it:
\* what is still to be announced stays the same.
LEMMA PendPushed ==
  ASSUME WlTypes, PendInv, NEW m \in MessageType, m.cur = 0, m.vfds = job.got, job'.got = <<>>,
         in_queue_pending' = Append(in_queue_pending, m), next_vfd_id' = next_vfd_id
  PROVE  in_queue_pending' \in Seq(MessageType) /\ PendInv' /\ Unannounced' = Unannounced /\ Given' = Given
<1> DEFINE n == Len(in_queue_pending)
<1>1. in_queue_pending \in Seq(MessageType) /\ job.got \in Seq(Nat) /\ m.vfds \in Seq(Nat)
  BY DEF WlTypes, JobType, MessageType
<1>2. /\ n \in Nat /\ DOMAIN in_queue_pending = 1 .. n /\ DOMAIN in_queue_pending' = 1 .. n + 1
      /\ in_queue_pending' \in Seq(MessageType) /\ in_queue_pending'[n + 1] = m
      /\ \A i \in 1 .. n : in_queue_pending'[i] = in_queue_pending[i]
  BY <1>1
<1> HIDE DEF n
<1>3. n + 1 \in 1 .. n + 1 /\ (\A i \in 1 .. n : i \in 1 .. n + 1) /\ (\A i \in 1 .. n + 1 : i \in 1 .. n \/ i = n + 1)
  BY <1>2
<1>4. Given' = Given
  BY DEF Given
<1>5. \A k \in DOMAIN job'.got : FALSE
  OBVIOUS
<1>6. ASSUME NEW i \in 1 .. n + 1
      PROVE  /\ in_queue_pending'[i].cur <= Len(in_queue_pending'[i].vfds)
             /\ in_queue_pending'[i].cur > 0 => i = 1
             /\ \A k \in DOMAIN in_queue_pending'[i].vfds : in_queue_pending'[i].vfds[k] \in Given
  <2>1. CASE i \in 1 .. n
    BY <1>2, <2>1, Zenon DEF PendInv
  <2>2. CASE i = n + 1
    <3>1. in_queue_pending'[i] = m
      BY <1>2, <2>2
    <3>2. 0 <= Len(m.vfds)
      BY <1>1
    <3>3. \A k \in DOMAIN m.vfds : m.vfds[k] \in Given
      BY DEF PendInv
    <3> QED BY <3>1, <3>2, <3>3
  <2> QED BY <1>3, <2>1, <2>2, Zenon
<1>7. ASSUME NEW i \in 1 .. n + 1, NEW k \in DOMAIN in_queue_pending'[i].vfds,
             NEW j \in 1 .. n + 1, NEW l \in DOMAIN in_queue_pending'[j].vfds,
             in_queue_pending'[i].vfds[k] = in_queue_pending'[j].vfds[l]
      PROVE  i = j /\ k = l
  <2>1. CASE i \in 1 .. n /\ j \in 1 .. n
    BY <1>2, <1>7, <2>1 DEF PendInv
  <2>2. CASE i \in 1 .. n /\ j = n + 1
    <3>1. in_queue_pending[i].vfds[k] = job.got[l] /\ l \in DOMAIN job.got /\ k \in DOMAIN in_queue_pending[i].vfds
      BY <1>2, <1>7, <2>2
    <3> QED BY <1>2, <2>2, <3>1 DEF PendInv
  <2>3. CASE j \in 1 .. n /\ i = n + 1
    <3>1. in_queue_pending[j].vfds[l] = job.got[k] /\ k \in DOMAIN job.got /\ l \in DOMAIN in_queue_pending[j].vfds
      BY <1>2, <1>7, <2>3
    <3> QED BY <1>2, <2>3, <3>1 DEF PendInv
  <2>4. CASE i = n + 1 /\ j = n + 1
    <3>1. job.got[k] = job.got[l] /\ k \in DOMAIN job.got /\ l \in DOMAIN job.got
      BY <1>2, <1>7, <2>4
    <3> QED BY <2>4, <3>1 DEF PendInv
  <2> QED BY <1>3, <2>1, <2>2, <2>3, <2>4
<1>8. PendInv'
  BY <1>2, <1>4, <1>5, <1>6, <1>7 DEF PendInv
<1>9. ASSUME NEW x
      PROVE  x \in Unannounced <=>
               \/ \E k \in DOMAIN job.got : job.got[k] = x
               \/ \E i \in 1 .. n : \E k \in DOMAIN in_queue_pending[i].vfds :
                    k > in_queue_pending[i].cur /\ in_queue_pending[i].vfds[k] = x
  BY <1>2 DEF Unannounced, Range
<1>10. ASSUME NEW x
       PROVE  x \in Unannounced' <=>
                \E i \in 1 .. n + 1 : \E k \in DOMAIN in_queue_pending'[i].vfds :
                    k > in_queue_pending'[i].cur /\ in_queue_pending'[i].vfds[k] = x
  BY <1>2, <1>5 DEF Unannounced, Range
<1>11. \A k \in DOMAIN m.vfds : k > 0
  BY <1>1
<1>12. ASSUME NEW x PROVE x \in Unannounced' <=> x \in Unannounced
  <2>1. ASSUME x \in Unannounced' PROVE x \in Unannounced
    <3>1. PICK i \in 1 .. n + 1 : \E k \in DOMAIN in_queue_pending'[i].vfds :
            k > in_queue_pending'[i].cur /\ in_queue_pending'[i].vfds[k] = x
      BY <1>10, <2>1, Zenon
    <3>2. CASE i \in 1 .. n
      BY <1>2, <1>9, <3>1, <3>2
    <3>3. CASE i = n + 1
      BY <1>2, <1>9, <3>1, <3>3
    <3> QED BY <1>3, <3>2, <3>3
  <2>2. ASSUME NEW k \in DOMAIN job.got, job.got[k] = x PROVE x \in Unannounced'
    BY <1>2, <1>3, <1>10, <1>11, <2>2
  <2>3. ASSUME NEW i \in 1 .. n, NEW k \in DOMAIN in_queue_pending[i].vfds,
               k > in_queue_pending[i].cur, in_queue_pending[i].vfds[k] = x
        PROVE  x \in Unannounced'
    BY <1>2, <1>3, <1>10, <2>3
  <2> QED BY <1>9, <2>1, <2>2, <2>3
<1> QED BY <1>2, <1>4, <1>8, <1>12, Zenon

\* A read of a polled vfd leaves the tables alone; what it queues is behind all the
\* vfd has said, and after a hangup the vfd is not polled again.
LEMMA RecvKeeps ==
  ASSUME WlInv, NEW id \in Ids, at = "vfds", vfd_map[id].open, vfd_map[id].polled,
         NEW v \in VfdType, vfd_map' = [vfd_map EXCEPT ![id] = v],
         v.kind = vfd_map[id].kind, v.slot = vfd_map[id].slot,
         \/ in_queue_pending' = in_queue_pending /\ job.got = <<>>
         \/ in_queue_pending' = Append(in_queue_pending, Recv(id, job.got))
         \/ in_queue_pending' = Append(in_queue_pending, Hup(id)) /\ job.got = <<>> /\ ~(v.open /\ v.polled),
         job' \in JobType, job'.got = <<>>, RoomInv', job' # NoJob => job'.id = id /\ v.open /\ v.polled,
         UNCHANGED <<next_vfd_id, at, outq, inq, inKick, known, orphans, skipped, stale, short, shmVars>>,
         batch' \subseteq Ids
  PROVE  WlInv'
<1> DEFINE n == Len(in_queue_pending)
<1>1. WlTypes /\ PendInv /\ vfd_map \in [Ids -> VfdType] /\ in_queue_pending \in Seq(MessageType) /\ DOMAIN vfd_map = Ids
  BY DEF WlInv, WlTypes
<1>2. /\ vfd_map' \in [Ids -> VfdType] /\ DOMAIN vfd_map' = Ids
      /\ vfd_map'[id] = v /\ \A i \in Ids : i # id => vfd_map'[i] = vfd_map[i]
  BY <1>1
<1>3. ShmInv' /\ mappings' = mappings
  BY ShmSame DEF WlInv
<1>4. job.got \in Seq(Nat)
  BY <1>1 DEF WlTypes, JobType
<1>5. /\ in_queue_pending' \in Seq(MessageType) /\ PendInv' /\ Unannounced' = Unannounced /\ Given' = Given
  <2>1. Recv(id, job.got) \in MessageType /\ Recv(id, job.got).cur = 0 /\ Recv(id, job.got).vfds = job.got
    BY <1>4 DEF Recv, MessageType
  <2>2. Hup(id) \in MessageType /\ Hup(id).cur = 0 /\ Hup(id).vfds = <<>>
    BY DEF Hup, MessageType
  <2>3. CASE in_queue_pending' = in_queue_pending /\ job.got = <<>>
    <3>1. Given' = Given
      BY DEF Given
    <3>2. Unannounced' = Unannounced
      BY <2>3 DEF Unannounced
    <3>3. PendInv'
      BY <1>1, <2>3, <3>1 DEF PendInv
    <3> QED BY <1>1, <2>3, <3>1, <3>2, <3>3
  <2>4. CASE in_queue_pending' = Append(in_queue_pending, Recv(id, job.got))
    BY <1>1, <2>1, <2>4, PendPushed
  <2>5. CASE in_queue_pending' = Append(in_queue_pending, Hup(id)) /\ job.got = <<>>
    BY <1>1, <2>2, <2>5, PendPushed
  <2> QED BY <2>3, <2>4, <2>5
<1>6. WlTypes'
  BY <1>2, <1>5 DEF WlInv, WlTypes
<1>7. OutInv'
  BY DEF WlInv, OutInv
<1>8. \A i \in Ids : vfd_map'[i].kind = vfd_map[i].kind /\ vfd_map'[i].slot = vfd_map[i].slot
  BY <1>2
<1>9. OwnInv'
  BY <1>1, <1>3, <1>8, OwnSame DEF WlInv
<1>10. TableInv'
  <2>1. Closing' = Closing /\ Lost' = Lost /\ known' = known /\ orphans' = orphans /\ skipped' = skipped
    BY Zenon DEF Closing, Lost
  <2>2. VfdsKnown'
    <3>1. (known \union Closing \union Unannounced \union orphans \union skipped)'
            = known \union Closing \union Unannounced \union orphans \union skipped
      BY <1>5, <2>1, Zenon
    <3>2. ASSUME NEW i \in Ids PROVE Present(i)' <=> Present(i)
      BY <1>8 DEF Present
    <3> QED BY <1>1, <1>2, <3>1, <3>2 DEF WlInv, TableInv, VfdsKnown
  <2> QED BY <1>5, <2>1, <2>2 DEF WlInv, TableInv
<1>11. HupInv'
  <2>1. ASSUME NEW i \in DOMAIN in_queue_pending PROVE in_queue_pending[i].id \in Ids
    BY <1>1, <2>1, MessageFields
  <2>2. ASSUME NEW i \in DOMAIN in_queue_pending, in_queue_pending[i].hup, in_queue_pending[i].id \notin stale
        PROVE  in_queue_pending[i].id # id
    BY <2>2 DEF WlInv, HupInv, HupLast
  <2>3. Present(id)
    BY DEF WlInv, HupInv
  <2>4. \A i \in Ids : vfd_map'[i].open => Present(i)'
    BY <1>2, <1>8, <2>3 DEF WlInv, HupInv, Present
  <2>5. job' # NoJob => at' = "vfds" /\ job'.id \in Ids /\ vfd_map'[job'.id].open /\ vfd_map'[job'.id].polled
    BY <1>2
  <2>6. CASE in_queue_pending' = in_queue_pending
    <3>1. HupLast'
      BY <1>2, <2>1, <2>2, <2>6 DEF WlInv, HupInv, HupLast
    <3>2. \A i \in DOMAIN in_queue_pending' : in_queue_pending'[i].id \in stale' \/ Present(in_queue_pending[i].id)'
      BY <1>8, <2>1, <2>6, ZenonT(30) DEF WlInv, HupInv, Present
    <3> QED BY <2>4, <2>5, <3>1, <3>2, Zenon DEF HupInv, Present
  <2>7. ASSUME NEW m \in MessageType, m.id = id, m.hup => ~(v.open /\ v.polled),
               in_queue_pending' = Append(in_queue_pending, m)
        PROVE  HupInv'
    <3>1. /\ n \in Nat /\ DOMAIN in_queue_pending = 1 .. n /\ DOMAIN in_queue_pending' = 1 .. n + 1
          /\ in_queue_pending'[n + 1] = m /\ \A i \in 1 .. n : in_queue_pending'[i] = in_queue_pending[i]
      BY <1>1, <2>7
    <3> HIDE DEF n
    <3>2. \A i \in 1 .. n + 1 : (i \in 1 .. n \/ i = n + 1) /\ i <= n + 1
      BY <3>1
    <3>3. ASSUME NEW i \in 1 .. n, in_queue_pending[i].hup, in_queue_pending[i].id \notin stale
          PROVE  /\ \A j \in 1 .. n : in_queue_pending[j].id = in_queue_pending[i].id => j <= i
                 /\ ~(vfd_map[in_queue_pending[i].id].open /\ vfd_map[in_queue_pending[i].id].polled)
      BY <3>1, <3>3, Zenon DEF WlInv, HupInv, HupLast
    <3>4. ASSUME NEW i \in 1 .. n + 1, in_queue_pending'[i].hup, in_queue_pending'[i].id \notin stale
          PROVE  /\ \A j \in 1 .. n + 1 : in_queue_pending'[j].id = in_queue_pending'[i].id => j <= i
                 /\ ~(vfd_map'[in_queue_pending'[i].id].open /\ vfd_map'[in_queue_pending'[i].id].polled)
      <4>1. CASE i = n + 1
        BY <1>2, <2>7, <3>1, <3>2, <3>4, <4>1, Zenon
      <4>2. CASE i \in 1 .. n
        <5>1. in_queue_pending'[i] = in_queue_pending[i] /\ in_queue_pending[i].id # id /\ in_queue_pending[i].id \in Ids
          BY <2>1, <2>2, <3>1, <3>4, <4>2, Zenon
        <5>2. ~(vfd_map'[in_queue_pending'[i].id].open /\ vfd_map'[in_queue_pending'[i].id].polled)
          BY <1>2, <3>3, <3>4, <4>2, <5>1
        <5>3. ASSUME NEW j \in 1 .. n + 1, in_queue_pending'[j].id = in_queue_pending'[i].id PROVE j <= i
          <6>1. j # n + 1
            BY <2>7, <3>1, <5>1, <5>3
          <6>2. j \in 1 .. n /\ in_queue_pending'[j] = in_queue_pending[j]
            BY <3>1, <3>2, <6>1, Zenon
          <6> QED BY <3>3, <3>4, <4>2, <5>1, <5>3, <6>2, Zenon
        <5> QED BY <5>2, <5>3
      <4> QED BY <3>2, <4>1, <4>2
    <3>5. HupLast'
      BY <3>1, <3>4 DEF HupLast
    <3>6. ASSUME NEW i \in 1 .. n + 1
          PROVE  in_queue_pending'[i].id \in stale \/ vfd_map'[in_queue_pending'[i].id].kind # "absent"
      <4>1. CASE i = n + 1
        BY <1>8, <2>3, <2>7, <3>1, <4>1 DEF Present
      <4>2. CASE i \in 1 .. n
        BY <1>8, <2>1, <3>1, <4>2, ZenonT(30) DEF WlInv, HupInv, Present
      <4> QED BY <3>2, <4>1, <4>2, Zenon
    <3> QED BY <2>4, <2>5, <3>1, <3>5, <3>6 DEF HupInv, Present
  <2>8. /\ Recv(id, job.got) \in MessageType /\ Recv(id, job.got).id = id /\ ~Recv(id, job.got).hup
        /\ Hup(id) \in MessageType /\ Hup(id).id = id
    BY <1>4 DEF Recv, Hup, MessageType
  <2> QED BY <2>6, <2>7, <2>8
<1>12. SleepInv'
  BY DEF SleepInv
<1> QED BY <1>3, <1>5, <1>6, <1>7, <1>9, <1>10, <1>11, <1>12 DEF WlInv

\* A vfd is its six fields.
LEMMA VfdShape ==
  ASSUME NEW v \in VfdType
  PROVE  v = [kind |-> v.kind, open |-> v.open, remote |-> v.remote, polled |-> v.polled,
              slot |-> v.slot, inbox |-> v.inbox]
BY DEF VfdType

\* A message carries files and pipes.
LEMMA FdsType == ASSUME NEW item PROVE Fds(item) \in Seq({"file", "pipe", "writer"})
<1>1. CASE item = "file"
  BY <1>1 DEF Fds
<1>2. CASE item = "two files"
  <2>1. Fds(item) = <<"file", "file">>
    BY <1>2, Zenon DEF Fds
  <2> QED BY <2>1
<1>3. CASE item \in {"pipe", "writer"}
  <2>1. Fds(item) = <<item>>
    BY <1>3 DEF Fds
  <2> QED BY <1>3, <2>1
<1>4. CASE item \notin {"file", "two files", "pipe", "writer"}
  <2>1. Fds(item) = <<>>
    BY <1>4, Zenon DEF Fds
  <2> QED BY <2>1
<1> QED BY <1>1, <1>2, <1>3, <1>4, Zenon

\* What is read of a vfd, and how it is left.
LEMMA TakeDrop ==
  ASSUME WlTypes, NEW id \in Ids, vfd_map[id].inbox # <<>>
  PROVE  /\ \E v \in VfdType : /\ Take(id) = [vfd_map EXCEPT ![id] = v] /\ v.inbox = Tail(vfd_map[id].inbox)
                               /\ v.kind = vfd_map[id].kind /\ v.slot = vfd_map[id].slot
                               /\ v.open = vfd_map[id].open /\ v.polled = vfd_map[id].polled
         /\ \E v \in VfdType : /\ Drop(id) = [vfd_map EXCEPT ![id] = v] /\ v.inbox = <<>>
                               /\ v.kind = vfd_map[id].kind /\ v.slot = vfd_map[id].slot /\ ~v.open
<1> DEFINE rest == Tail(vfd_map[id].inbox)
<1>1. /\ vfd_map \in [Ids -> VfdType] /\ vfd_map[id] \in VfdType /\ vfd_map[id].inbox \in Seq(Items)
      /\ rest \in Seq(Items)
  BY VfdFields DEF WlTypes
<1>2. Take(id) = [vfd_map EXCEPT ![id].inbox = rest]
  BY DEF Take
<1>3. rest = Tail(vfd_map[id].inbox)
  OBVIOUS
<1> HIDE DEF rest
<1> DEFINE w == [kind |-> vfd_map[id].kind, open |-> vfd_map[id].open, remote |-> vfd_map[id].remote,
                 polled |-> vfd_map[id].polled, slot |-> vfd_map[id].slot, inbox |-> rest]
           z == Vfd(vfd_map[id].kind, FALSE, vfd_map[id].remote, vfd_map[id].slot)
<1>4. w \in VfdType
  BY <1>1 DEF VfdType
<1>5. Take(id) = [vfd_map EXCEPT ![id] = w]
  <2>1. [vfd_map[id] EXCEPT !.inbox = rest] = w
    BY <1>1, VfdShape
  <2> QED BY <1>1, <1>2, <2>1, Zenon
<1>6. z \in VfdType /\ z.inbox = <<>> /\ z.kind = vfd_map[id].kind /\ z.slot = vfd_map[id].slot /\ ~z.open
  BY <1>1 DEF VfdType, Vfd
<1>7. Drop(id) = [vfd_map EXCEPT ![id] = z]
  BY DEF Drop
<1> HIDE DEF z
<1> QED BY <1>3, <1>4, <1>5, <1>6, <1>7, Zenon

\* Files that come off an inbox find ids, and no others are on their way.
LEMMA FilesTaken ==
  ASSUME WlInv, NEW id \in Ids, vfd_map[id].inbox # <<>>, Fds(Head(vfd_map[id].inbox)) # <<>>,
         vfd_map'[id].inbox = Tail(vfd_map[id].inbox), \A i \in Ids : i # id => vfd_map'[i] = vfd_map[i],
         job'.fds = Fds(Head(vfd_map[id].inbox)), UNCHANGED next_vfd_id
  PROVE  RoomInv'
<1> DEFINE s == vfd_map[id].inbox
<1>1. s \in Seq(Items) /\ s # <<>>
  BY VfdFields DEF WlInv
<1> HIDE DEF s
<1>2. 1 \in DOMAIN s /\ s[1] = Head(s) /\ \A k \in DOMAIN Tail(s) : k + 1 \in DOMAIN s /\ Tail(s)[k] = s[k + 1] /\ k + 1 # 1
  BY <1>1
<1>3. 1 \in DOMAIN vfd_map[id].inbox /\ Carries(vfd_map[id], 1) /\ vfd_map[id].inbox[1] = Head(vfd_map[id].inbox)
  BY <1>2 DEF s, Carries
<1>4. /\ next_vfd_id + Len(Fds(vfd_map[id].inbox[1])) <= GuestIds + HostIds + 1
      /\ \A j \in Ids : \A l \in DOMAIN vfd_map[j].inbox : Carries(vfd_map[j], l) => j = id /\ l = 1
  BY <1>3 DEF WlInv, RoomInv
<1>5. ASSUME NEW i \in Ids, NEW k \in DOMAIN vfd_map'[i].inbox, Fds(vfd_map'[i].inbox[k]) # <<>> PROVE FALSE
  <2>1. CASE i # id
    BY <1>4, <1>5, <2>1 DEF Carries
  <2>2. CASE i = id
    <3>1. k \in DOMAIN Tail(s) /\ vfd_map'[i].inbox[k] = Tail(s)[k]
      BY <1>5, <2>2, Zenon DEF s
    <3>2. k + 1 \in DOMAIN s /\ Fds(s[k + 1]) # <<>> /\ k + 1 # 1
      BY <1>2, <1>5, <3>1, Zenon
    <3> QED BY <1>4, <3>2 DEF Carries, s
  <2> QED BY <2>1, <2>2, Zenon
<1>6. next_vfd_id' + Len(job'.fds) <= GuestIds + HostIds + 1
  BY <1>3, <1>4
<1> QED BY <1>5, <1>6 DEF RoomInv, Carries

\* Every read of a vfd keeps the agreement.
LEMMA RecvFromKeeps == ASSUME WlInv, NEW id \in Ids, recv_from_vfd(id) PROVE WlInv'
<1> DEFINE item == Head(vfd_map[id].inbox)
<1>1. /\ at = "vfds" /\ job = NoJob /\ vfd_map[id].open /\ vfd_map[id].polled /\ vfd_map[id].inbox # <<>>
      /\ batch' = batch \ {id}
      /\ UNCHANGED <<next_vfd_id, at, outq, inq, inKick, known, orphans, skipped, stale, short, shmVars>>
      /\ recv_data(id, item) \/ recv_fds(id, item) \/ recv_eof(id, item) \/ recv_err(id, item)
  BY DEF recv_from_vfd, Readable, Has, queues
<1>2. WlTypes /\ RoomInv /\ batch' \subseteq Ids /\ vfd_map \in [Ids -> VfdType]
  BY <1>1, Zenon DEF WlInv, WlTypes
<1>3. PICK w \in VfdType : /\ Take(id) = [vfd_map EXCEPT ![id] = w] /\ w.inbox = Tail(vfd_map[id].inbox)
                           /\ w.kind = vfd_map[id].kind /\ w.slot = vfd_map[id].slot
                           /\ w.open = vfd_map[id].open /\ w.polled = vfd_map[id].polled
  BY <1>1, <1>2, TakeDrop, Zenon
<1>4. PICK z \in VfdType : /\ Drop(id) = [vfd_map EXCEPT ![id] = z] /\ z.inbox = <<>>
                           /\ z.kind = vfd_map[id].kind /\ z.slot = vfd_map[id].slot /\ ~z.open
  BY <1>1, <1>2, TakeDrop
<1>5. NoJob \in JobType /\ NoJob.got = <<>>
  BY DEF NoJob, JobType
<1> HIDE DEF item
<1>6. CASE recv_data(id, item)
  <2>1. /\ vfd_map' = [vfd_map EXCEPT ![id] = w] /\ job' = NoJob
        /\ in_queue_pending' = Append(in_queue_pending, Recv(id, <<>>))
    BY <1>1, <1>3, <1>6 DEF recv_data
  <2>2. vfd_map'[id] = w /\ \A i \in Ids : i # id => vfd_map'[i] = vfd_map[i]
    BY <1>2, <2>1, Zenon
  <2>3. RoomInv'
    <3>1. \A i \in Ids : \/ vfd_map'[i].inbox = vfd_map[i].inbox \/ vfd_map'[i].inbox = <<>>
                         \/ vfd_map[i].inbox # <<>> /\ vfd_map'[i].inbox = Tail(vfd_map[i].inbox)
      BY <1>1, <1>3, <2>2
    <3>2. UNCHANGED <<job, next_vfd_id>>
      BY <1>1, <2>1, Zenon
    <3> QED BY <1>2, <3>1, <3>2, RoomShrinks, Zenon
  <2> QED BY <1>1, <1>2, <1>3, <1>5, <2>1, <2>3, RecvKeeps, Zenon
<1>7. CASE recv_eof(id, item) \/ recv_err(id, item)
  <2>1. /\ vfd_map' = [vfd_map EXCEPT ![id] = z] /\ job' = NoJob
        /\ \/ in_queue_pending' = Append(in_queue_pending, Hup(id)) \/ in_queue_pending' = in_queue_pending
    BY <1>1, <1>4, <1>7, Zenon DEF recv_eof, recv_err
  <2>2. vfd_map'[id] = z /\ \A i \in Ids : i # id => vfd_map'[i] = vfd_map[i]
    BY <1>2, <2>1
  <2>3. RoomInv'
    <3>1. \A i \in Ids : \/ vfd_map'[i].inbox = vfd_map[i].inbox \/ vfd_map'[i].inbox = <<>>
      BY <1>4, <2>2
    <3>2. UNCHANGED <<job, next_vfd_id>>
      BY <1>1, <2>1, Zenon
    <3> QED BY <1>2, <3>1, <3>2, RoomShrinks
  <2> QED BY <1>1, <1>2, <1>4, <1>5, <2>1, <2>3, RecvKeeps, Zenon
<1>8. CASE recv_fds(id, item)
  <2>1. /\ vfd_map' = [vfd_map EXCEPT ![id] = w] /\ job' = [id |-> id, fds |-> Fds(item), got |-> <<>>]
        /\ in_queue_pending' = in_queue_pending /\ Fds(item) # <<>>
    BY <1>3, <1>8 DEF recv_fds
  <2>2. vfd_map'[id] = w /\ \A i \in Ids : i # id => vfd_map'[i] = vfd_map[i]
    <3>1. DOMAIN vfd_map = Ids /\ id \in Ids
      BY <1>2, Zenon
    <3> QED BY <2>1, <3>1
  <2>3. Fds(item) \in Seq({"file", "pipe", "writer"})
    BY FdsType, Zenon
  <2>4. job' \in JobType /\ job'.got = <<>> /\ job'.id = id /\ job'.fds = Fds(item)
    BY <2>1, <2>3 DEF JobType
  <2>5. RoomInv'
    BY <1>1, <1>3, <2>1, <2>2, <2>4, FilesTaken DEF item
  <2> QED BY <1>1, <1>2, <1>3, <1>5, <2>1, <2>4, <2>5, RecvKeeps, Zenon
<1> QED BY <1>1, <1>6, <1>7, <1>8, Zenon

\* A hangup takes the vfd out of the poll set and leaves its place in the table.
LEMMA HangupKeeps == ASSUME WlInv, NEW id \in Ids, process_hangup_event(id) PROVE WlInv'
<1>1. /\ at = "vfds" /\ job = NoJob /\ vfd_map[id].open /\ vfd_map[id].polled
      /\ batch' = batch \ {id} /\ job' = job
      /\ UNCHANGED <<next_vfd_id, at, outq, inq, inKick, known, orphans, skipped, stale, short, shmVars>>
      /\ vfd_map' = [vfd_map EXCEPT ![id].polled = FALSE]
      /\ in_queue_pending' = Append(in_queue_pending, Hup(id))
  BY DEF process_hangup_event, HungUp, Has, queues, ghosts
<1>2. WlTypes /\ RoomInv /\ batch' \subseteq Ids /\ vfd_map \in [Ids -> VfdType] /\ vfd_map[id] \in VfdType
  BY <1>1 DEF WlInv, WlTypes
<1> DEFINE v == [vfd_map[id] EXCEPT !.polled = FALSE]
<1>3. v \in VfdType /\ v.kind = vfd_map[id].kind /\ v.slot = vfd_map[id].slot /\ v.inbox = vfd_map[id].inbox /\ v.polled = FALSE
  BY <1>2, Zenon DEF VfdType
<1>4. vfd_map' = [vfd_map EXCEPT ![id] = v]
  BY <1>1, <1>2
<1> HIDE DEF v
<1>5. NoJob \in JobType /\ NoJob.got = <<>>
  BY DEF NoJob, JobType
<1>6. RoomInv'
  <2>1. \A i \in Ids : vfd_map'[i].inbox = vfd_map[i].inbox
    BY <1>2, <1>3, <1>4
  <2> QED BY <1>1, <1>2, <2>1, RoomShrinks
<1> QED BY <1>1, <1>2, <1>3, <1>4, <1>5, <1>6, RecvKeeps, Zenon

\* An event that is passed over leaves everything as it is.
LEMMA PassedOverKeeps == ASSUME WlInv, NEW id \in Ids, pass_over(id) PROVE WlInv'
<1>1. /\ UNCHANGED <<vfd_map, next_vfd_id, in_queue_pending, job, outq, known, orphans, skipped, stale, shmVars>>
      /\ UNCHANGED <<at, inq, inKick, short>> /\ batch' = batch \ {id}
  BY Zenon DEF pass_over, ghosts, queues
<1>2. /\ at' \in {"poll", "vfds", "drain_in", "drain_vfds", "ended"} /\ batch' \subseteq Ids /\ inq' \in Nat
      /\ inKick' \in BOOLEAN /\ short' \in BOOLEAN /\ SleepInv' /\ (job # NoJob => at' = "vfds")
  BY <1>1 DEF WlInv, WlTypes, SleepInv, HupInv
<1> QED BY <1>1, <1>2, LoopKeeps

\* While files are taken apart the next id is free, and no others are on their way.
LEMMA FreshId ==
  ASSUME WlInv, job.fds # <<>>
  PROVE  /\ next_vfd_id \in Ids /\ next_vfd_id \notin Guest \union Given /\ vfd_map[next_vfd_id].kind = "absent"
         /\ job # NoJob /\ at = "vfds" /\ job.id \in Ids /\ job.id # next_vfd_id
         /\ vfd_map[job.id].open /\ vfd_map[job.id].polled
         /\ \A id \in Ids : \A k \in DOMAIN vfd_map[id].inbox : Fds(vfd_map[id].inbox[k]) = <<>>
<1> USE WlAssumption
<1>1. next_vfd_id \in Nat /\ next_vfd_id > GuestIds /\ job.fds \in Seq({"file", "pipe", "writer"}) /\ DOMAIN vfd_map = Ids
  BY DEF WlInv, WlTypes, JobType
<1>2. next_vfd_id + Len(job.fds) <= GuestIds + HostIds + 1 /\ Len(job.fds) > 0
  BY <1>1 DEF WlInv, RoomInv
<1>3. next_vfd_id \in Ids /\ next_vfd_id \notin Guest /\ next_vfd_id \notin Given
  BY <1>1, <1>2 DEF Ids, Guest, Given
<1>4. ~Present(next_vfd_id)
  <2>1. next_vfd_id \notin known \union Closing \union Unannounced \union orphans \union skipped
    BY <1>3 DEF WlInv, TableInv, Lost
  <2> QED BY <1>1, <1>3, <2>1 DEF WlInv, TableInv, VfdsKnown
<1>5. job # NoJob
  BY DEF NoJob
<1>6. at = "vfds" /\ job.id \in Ids /\ vfd_map[job.id].open /\ vfd_map[job.id].polled
  BY <1>5 DEF WlInv, HupInv
<1>7. job.id # next_vfd_id
  BY <1>3, <1>4, <1>6, Zenon DEF WlInv, HupInv
<1>8. \A id \in Ids : \A k \in DOMAIN vfd_map[id].inbox : Fds(vfd_map[id].inbox[k]) = <<>>
  BY <1>5 DEF WlInv, RoomInv, Carries
<1> QED BY <1>3, <1>4, <1>5, <1>6, <1>7, <1>8 DEF Present

\* What is said of one message.
LEMMA PendFacts ==
  ASSUME PendInv, NEW i \in DOMAIN in_queue_pending
  PROVE  /\ in_queue_pending[i].cur <= Len(in_queue_pending[i].vfds)
         /\ in_queue_pending[i].cur > 0 => i = 1
         /\ \A k \in DOMAIN in_queue_pending[i].vfds :
              /\ in_queue_pending[i].vfds[k] \in Given
              /\ \A l \in DOMAIN job.got : in_queue_pending[i].vfds[k] # job.got[l]
              /\ \A j \in DOMAIN in_queue_pending : \A l \in DOMAIN in_queue_pending[j].vfds :
                   in_queue_pending[i].vfds[k] = in_queue_pending[j].vfds[l] => i = j /\ k = l
BY DEF PendInv

\* An id that is given out is one more to announce.
LEMMA PendAdded ==
  ASSUME WlTypes, PendInv, next_vfd_id \notin Given, next_vfd_id' = next_vfd_id + 1,
         job'.got = Append(job.got, next_vfd_id), UNCHANGED in_queue_pending
  PROVE  PendInv' /\ Unannounced' = Unannounced \union {next_vfd_id} /\ Given' = Given \union {next_vfd_id}
<1> DEFINE g == job.got
           n == Len(g)
           x0 == next_vfd_id
<1>1. g \in Seq(Nat) /\ x0 \in Nat /\ x0 > GuestIds
  BY DEF WlTypes, JobType
<1>2. Given' = Given \union {x0}
  BY <1>1, WlAssumption DEF Given
<1>3. job'.got = Append(g, x0) /\ x0 \notin Given
  OBVIOUS
<1> HIDE DEF g, x0
<1>4. /\ n \in Nat /\ DOMAIN g = 1 .. n /\ DOMAIN job'.got = 1 .. n + 1 /\ job'.got[n + 1] = x0
      /\ \A k \in 1 .. n : job'.got[k] = g[k]
  BY <1>1, <1>3
<1> HIDE DEF n
<1>5. n + 1 \in 1 .. n + 1 /\ (\A k \in 1 .. n : k \in 1 .. n + 1) /\ \A k \in 1 .. n + 1 : k \in 1 .. n \/ k = n + 1
  BY <1>4
<1>6. /\ \A k \in 1 .. n : g[k] \in Given
      /\ \A k, l \in 1 .. n : g[k] = g[l] => k = l
      /\ \A i \in DOMAIN in_queue_pending : \A k \in DOMAIN in_queue_pending[i].vfds :
           /\ in_queue_pending[i].vfds[k] \in Given
           /\ \A l \in 1 .. n : in_queue_pending[i].vfds[k] # g[l]
  <2>1. g = job.got /\ DOMAIN job.got = 1 .. n
    BY <1>4, Zenon DEF g
  <2>2. (\A k \in 1 .. n : g[k] \in Given) /\ \A k, l \in 1 .. n : g[k] = g[l] => k = l
    BY <2>1, Zenon DEF PendInv
  <2>3. ASSUME NEW i \in DOMAIN in_queue_pending, NEW k \in DOMAIN in_queue_pending[i].vfds
        PROVE  /\ in_queue_pending[i].vfds[k] \in Given
               /\ \A l \in 1 .. n : in_queue_pending[i].vfds[k] # g[l]
    BY <2>1, <2>3, PendFacts
  <2> QED BY <2>2, <2>3, Zenon
<1>7. \A k \in 1 .. n + 1 : job'.got[k] \in Given'
  BY <1>2, <1>4, <1>5, <1>6
<1>8. ASSUME NEW k \in 1 .. n + 1, NEW l \in 1 .. n + 1, job'.got[k] = job'.got[l] PROVE k = l
  <2>1. CASE k \in 1 .. n /\ l \in 1 .. n
    BY <1>4, <1>6, <1>8, <2>1
  <2>2. CASE k = n + 1 /\ l \in 1 .. n
    BY <1>3, <1>4, <1>6, <1>8, <2>2, Zenon
  <2>3. CASE k \in 1 .. n /\ l = n + 1
    BY <1>3, <1>4, <1>6, <1>8, <2>3
  <2> QED BY <1>5, <2>1, <2>2, <2>3, Zenon
<1>9. ASSUME NEW i \in DOMAIN in_queue_pending, NEW k \in DOMAIN in_queue_pending[i].vfds
      PROVE  in_queue_pending[i].vfds[k] \in Given' /\ \A l \in 1 .. n + 1 : in_queue_pending[i].vfds[k] # job'.got[l]
  BY <1>2, <1>3, <1>4, <1>5, <1>6, <1>9
<1>10. PendInv'
  BY <1>4, <1>7, <1>8, <1>9 DEF PendInv
<1>11. Range(job'.got) = Range(g) \union {x0}
  <2>1. ASSUME NEW x PROVE x \in Range(g) <=> \E k \in 1 .. n : g[k] = x
    BY <1>4, Zenon DEF Range
  <2>2. ASSUME NEW x PROVE x \in Range(job'.got) <=> \E k \in 1 .. n + 1 : job'.got[k] = x
    BY <1>4 DEF Range
  <2>3. ASSUME NEW x PROVE x \in Range(job'.got) <=> x \in Range(g) \/ x = x0
    BY <1>4, <1>5, <2>1, <2>2
  <2> QED BY <2>3
<1>12. Unannounced' = Unannounced \union {x0}
  <2> DEFINE rest == UNION {{in_queue_pending[i].vfds[k] :
                               k \in {m \in DOMAIN in_queue_pending[i].vfds : m > in_queue_pending[i].cur}}
                             : i \in DOMAIN in_queue_pending}
  <2>1. Unannounced = Range(g) \union rest
    BY DEF Unannounced, g
  <2>2. Unannounced' = Range(job'.got) \union rest
    BY DEF Unannounced
  <2> HIDE DEF rest
  <2> QED BY <1>11, <2>1, <2>2
<1> QED BY <1>2, <1>10, <1>12 DEF x0

\* A passed file becomes a vfd under a free id, to be announced.
LEMMA AddVfdKeeps ==
  ASSUME WlInv, job.fds # <<>>, NEW v \in VfdType, v.kind # "absent", v.inbox = <<>>, add_vfd_device(v),
         UNCHANGED <<in_queue_pending, at, batch, queues, known, skipped, stale, short>>, ShmInv', OwnInv'
  PROVE  WlInv'
<1> DEFINE x0 == next_vfd_id
           rest == Tail(job.fds)
           more == Append(job.got, next_vfd_id)
<1>1. /\ x0 \in Ids /\ x0 \notin Guest \union Given /\ vfd_map[x0].kind = "absent"
      /\ job # NoJob /\ at = "vfds" /\ job.id \in Ids /\ job.id # x0
      /\ vfd_map[job.id].open /\ vfd_map[job.id].polled
      /\ \A id \in Ids : \A k \in DOMAIN vfd_map[id].inbox : Fds(vfd_map[id].inbox[k]) = <<>>
  BY FreshId
<1>2. /\ vfd_map' = [vfd_map EXCEPT ![x0] = v] /\ next_vfd_id' = x0 + 1
      /\ job' = [job EXCEPT !.fds = rest, !.got = more] /\ orphans' = orphans
      /\ UNCHANGED <<in_queue_pending, at, batch, outq, inq, inKick, known, skipped, stale, short>>
  BY DEF add_vfd_device, queues
<1>3. WlTypes /\ PendInv /\ job \in JobType /\ vfd_map \in [Ids -> VfdType] /\ DOMAIN vfd_map = Ids /\ x0 \in Nat
  BY DEF WlInv, WlTypes
<1>4. job.fds \in Seq({"file", "pipe", "writer"}) /\ job.got \in Seq(Nat)
  BY <1>3 DEF JobType
<1>5. rest \in Seq({"file", "pipe", "writer"}) /\ more \in Seq(Nat) /\ Len(rest) = Len(job.fds) - 1 /\ Len(job.fds) \in Nat
  BY <1>3, <1>4
<1>6. more = Append(job.got, next_vfd_id)
  OBVIOUS
<1> HIDE DEF rest, more
<1>7. job' \in JobType /\ job'.fds = rest /\ job'.got = more /\ job'.id = job.id
  BY <1>2, <1>3, <1>5, Zenon DEF JobType
<1>8. /\ vfd_map' \in [Ids -> VfdType] /\ DOMAIN vfd_map' = Ids
      /\ vfd_map'[x0] = v /\ \A i \in Ids : i # x0 => vfd_map'[i] = vfd_map[i]
  BY <1>1, <1>2, <1>3
<1>9. WlTypes'
  <2>1. next_vfd_id' \in Nat /\ next_vfd_id' > GuestIds /\ next_vfd_id' <= GuestIds + HostIds + 1
    BY <1>1, <1>2, <1>3, WlAssumption DEF WlTypes, Ids
  <2> QED BY <1>2, <1>7, <1>8, <2>1, Zenon DEF WlInv, WlTypes
<1>10. RoomInv'
  <2>1. next_vfd_id' + Len(job'.fds) <= GuestIds + HostIds + 1
    BY <1>2, <1>3, <1>5, <1>7, WlAssumption DEF WlInv, RoomInv
  <2>2. \A i \in Ids : \A k \in DOMAIN vfd_map'[i].inbox : Fds(vfd_map'[i].inbox[k]) = <<>>
    BY <1>1, <1>8
  <2> QED BY <2>1, <2>2, Zenon DEF RoomInv, Carries
<1>11. PendInv' /\ Unannounced' = Unannounced \union {x0} /\ Given' = Given \union {x0}
  BY <1>1, <1>2, <1>3, <1>6, <1>7, PendAdded
<1>12. OutInv'
  BY <1>2, Zenon DEF WlInv, OutInv
<1>13. TableInv'
  <2>1. Lost' = Lost /\ known' = known /\ Closing' = Closing /\ orphans' = orphans /\ skipped' = skipped
    BY <1>2, Zenon DEF Lost, Closing
  <2>2. VfdsKnown'
    <3>1. (known \union Closing \union Unannounced \union orphans \union skipped)'
            = known \union Closing \union Unannounced \union orphans \union skipped \union {x0}
      BY <1>11, <2>1
    <3>2. ASSUME NEW i \in Ids PROVE Present(i)' <=> (Present(i) \/ i = x0)
      BY <1>8, Zenon DEF Present
    <3> HIDE DEF x0
    <3> QED BY <1>3, <1>8, <3>1, <3>2, Zenon DEF WlInv, TableInv, VfdsKnown
  <2> HIDE DEF x0
  <2> QED BY <1>1, <1>11, <2>1, <2>2, Zenon DEF WlInv, TableInv
<1>14. HupInv'
  <2>1. ASSUME NEW i \in DOMAIN in_queue_pending
        PROVE  in_queue_pending[i].id \in Ids /\ (in_queue_pending[i].id = x0 => x0 \in stale)
    BY <1>1, <1>3, <2>1, MessageFields DEF WlInv, HupInv, Present
  <2> HIDE DEF x0
  <2>2. HupLast'
    <3>1. HupLast /\ UNCHANGED <<in_queue_pending, stale>>
      BY <1>2, Zenon DEF WlInv, HupInv
    <3>2. ASSUME NEW i \in DOMAIN in_queue_pending, in_queue_pending[i].hup, in_queue_pending[i].id \notin stale
          PROVE  /\ \A j \in DOMAIN in_queue_pending : in_queue_pending[j].id = in_queue_pending[i].id => j <= i
                 /\ ~(vfd_map'[in_queue_pending[i].id].open /\ vfd_map'[in_queue_pending[i].id].polled)
      <4>1. vfd_map'[in_queue_pending[i].id] = vfd_map[in_queue_pending[i].id]
        BY <1>8, <2>1, <3>2, Zenon
      <4> QED BY <3>1, <3>2, <4>1, Zenon DEF HupLast
    <3> QED BY <3>1, <3>2 DEF HupLast
  <2>3. \A i \in DOMAIN in_queue_pending : in_queue_pending[i].id \in stale \/ vfd_map'[in_queue_pending[i].id].kind # "absent"
    BY <1>8, <2>1, Zenon DEF WlInv, HupInv, Present
  <2>4. \A i \in Ids : vfd_map'[i].open => vfd_map'[i].kind # "absent"
    BY <1>8 DEF WlInv, HupInv, Present
  <2>5. at' = "vfds" /\ job'.id \in Ids /\ vfd_map'[job'.id].open /\ vfd_map'[job'.id].polled
    BY <1>1, <1>2, <1>7, <1>8
  <2> QED BY <1>2, <2>2, <2>3, <2>4, <2>5, ZenonT(30) DEF HupInv, Present
<1>15. SleepInv'
  BY <1>1, <1>2, Zenon DEF SleepInv
<1> QED BY <1>9, <1>10, <1>11, <1>12, <1>13, <1>14, <1>15, Zenon DEF WlInv

\* A buffer that cannot be registered ends the message: its vfds stay, never announced.
LEMMA MessageLost ==
  ASSUME WlInv, job.fds # <<>>, job' = NoJob, orphans' = orphans \union Range(job.got),
         UNCHANGED <<vfd_map, next_vfd_id, in_queue_pending, at, batch, queues, known, skipped, stale, short, shmVars>>
  PROVE  WlInv'
<1>1. UNCHANGED <<outq, inq, inKick>>
  BY DEF queues
<1>2. /\ at = "vfds"
      /\ \A id \in Ids : \A k \in DOMAIN vfd_map[id].inbox : Fds(vfd_map[id].inbox[k]) = <<>>
  BY FreshId, Zenon
<1>3. NoJob \in JobType /\ NoJob.fds = <<>> /\ NoJob.got = <<>>
  BY DEF NoJob, JobType
<1>4. ShmInv' /\ mappings' = mappings
  BY ShmSame, Zenon DEF WlInv
<1>5. WlTypes'
  BY <1>1, <1>3, Zenon DEF WlInv, WlTypes
<1>6. RoomInv'
  BY <1>2, <1>3, Zenon DEF RoomInv, Carries
<1>7. Given' = Given
  BY Zenon DEF Given
<1>8. PendInv'
  <2>1. PendInv /\ in_queue_pending' = in_queue_pending /\ job'.got = <<>>
    BY <1>3, Zenon DEF WlInv
  <2>2. \A k \in DOMAIN job'.got : FALSE
    BY <2>1
  <2>3. ASSUME NEW i \in DOMAIN in_queue_pending
        PROVE  /\ in_queue_pending[i].cur <= Len(in_queue_pending[i].vfds)
               /\ in_queue_pending[i].cur > 0 => i = 1
               /\ \A k \in DOMAIN in_queue_pending[i].vfds :
                    /\ in_queue_pending[i].vfds[k] \in Given
                    /\ \A j \in DOMAIN in_queue_pending : \A l \in DOMAIN in_queue_pending[j].vfds :
                         in_queue_pending[i].vfds[k] = in_queue_pending[j].vfds[l] => i = j /\ k = l
    BY <2>1, <2>3, PendFacts, Zenon
  <2> QED BY <1>7, <2>1, <2>2, <2>3 DEF PendInv
<1>9. OutInv' /\ OwnInv'
  BY <1>1, <1>4 DEF WlInv, OutInv, OwnInv
<1>10. TableInv'
  <2> DEFINE rest == UNION {{in_queue_pending[i].vfds[k] :
                               k \in {m \in DOMAIN in_queue_pending[i].vfds : m > in_queue_pending[i].cur}}
                             : i \in DOMAIN in_queue_pending}
             gone == Range(job.got)
  <2>1. Unannounced = gone \union rest
    BY Zenon DEF Unannounced
  <2>2. Unannounced' = rest
    BY <1>3 DEF Unannounced, Range
  <2>3. gone \intersect rest = {}
    <3>1. ASSUME NEW x \in gone PROVE \E l \in DOMAIN job.got : x = job.got[l]
      BY <3>1 DEF Range
    <3>2. ASSUME NEW x \in rest
          PROVE  \E i \in DOMAIN in_queue_pending : \E k \in DOMAIN in_queue_pending[i].vfds : x = in_queue_pending[i].vfds[k]
      BY <3>2, Zenon
    <3> HIDE DEF gone, rest
    <3> QED BY <3>1, <3>2 DEF WlInv, PendInv
  <2>4. orphans' = orphans \union gone /\ skipped' = skipped /\ known' = known /\ Closing' = Closing /\ Lost' = Lost \union gone
    BY <1>1, Zenon DEF Closing, Lost
  <2> HIDE DEF gone, rest
  <2>5. VfdsKnown'
    <3>1. (known \union Closing \union Unannounced \union orphans \union skipped)'
            = known \union Closing \union Unannounced \union orphans \union skipped
      BY <2>1, <2>2, <2>4
    <3>2. vfd_map' = vfd_map /\ \A i \in DOMAIN vfd_map : Present(i)' <=> Present(i)
      BY Zenon DEF Present
    <3> QED BY <3>1, <3>2, Zenon DEF WlInv, TableInv, VfdsKnown
  <2> QED BY <1>7, <2>1, <2>2, <2>3, <2>4, <2>5, Zenon DEF WlInv, TableInv
<1>11. HupInv'
  BY Zenon DEF WlInv, HupInv, HupLast, Present
<1>12. SleepInv'
  BY <1>2 DEF SleepInv
<1> QED BY <1>4, <1>5, <1>6, <1>8, <1>9, <1>10, <1>11, <1>12, Zenon DEF WlInv

\* Every file of a message keeps the agreement.
LEMMA FromFileKeeps == ASSUME WlInv, vfd_from_file PROVE WlInv'
<1>1. job.fds # <<>> /\ UNCHANGED <<in_queue_pending, at, batch, queues, known, skipped, stale, short>>
  BY Zenon DEF vfd_from_file
<1>2. next_vfd_id \in Ids /\ vfd_map[next_vfd_id].kind = "absent"
  BY <1>1, FreshId
<1>3. ASSUME NEW n \in Sizes, NEW s \in Slots, NEW r \in Ranges, register(n, s, r), add_vfd_device(Shm(s))
      PROVE  WlInv'
  <2>1. vfd_map' = [vfd_map EXCEPT ![next_vfd_id] = Shm(s)]
    BY <1>3 DEF add_vfd_device
  <2>2. ShmInv' /\ OwnInv' /\ Shm(s) \in VfdType
    BY <1>2, <1>3, <2>1, OwnAdded, Zenon
  <2>3. Shm(s).kind # "absent" /\ Shm(s).inbox = <<>>
    BY NewVfds
  <2> QED BY <1>1, <1>3, <2>2, <2>3, AddVfdKeeps
<1>4. ASSUME NEW k \in {"pipe", "writer"}, add_vfd_device(Pipe(k, FALSE)), UNCHANGED shmVars PROVE WlInv'
  <2> DEFINE v == Pipe(k, FALSE)
  <2>1. v \in VfdType /\ v.kind = k /\ v.inbox = <<>>
    BY NewVfds, Zenon
  <2> HIDE DEF v
  <2>2. add_vfd_device(v)
    BY <1>4, Zenon DEF v
  <2>3. vfd_map' = [vfd_map EXCEPT ![next_vfd_id] = v]
    BY <2>2 DEF add_vfd_device
  <2>4. vfd_map[next_vfd_id].kind # "shm" /\ v.kind # "shm" /\ v.kind # "absent"
    BY <1>2, <2>1, Zenon
  <2>5. ShmInv' /\ OwnInv'
    BY <1>2, <1>4, <2>3, <2>4, OwnOther, Zenon
  <2> QED BY <1>1, <2>1, <2>2, <2>4, <2>5, AddVfdKeeps
<1>5. ASSUME NEW n \in Sizes, register_fails(n), orphans' = orphans \union Range(job.got), job' = NoJob,
             UNCHANGED <<vfd_map, next_vfd_id>>
      PROVE  WlInv'
  BY <1>1, <1>5, MessageLost DEF register_fails
<1> QED BY <1>3, <1>4, <1>5, Zenon DEF vfd_from_file

\* A message whose files are all vfds is queued behind what its socket has said.
LEMMA PushedKeeps == ASSUME WlInv, recv_pushed PROVE WlInv'
<1> DEFINE id == job.id
           v == vfd_map[id]
<1>1. /\ job # NoJob /\ job' = NoJob /\ in_queue_pending' = Append(in_queue_pending, Recv(id, job.got))
      /\ UNCHANGED <<vfd_map, next_vfd_id, at, batch, outq, inq, inKick, known, orphans, skipped, stale, short, shmVars>>
  BY Zenon DEF recv_pushed, queues, ghosts
<1>2. at = "vfds" /\ id \in Ids /\ vfd_map[id].open /\ vfd_map[id].polled
  BY <1>1 DEF WlInv, HupInv
<1>3. vfd_map \in [Ids -> VfdType] /\ batch' \subseteq Ids
  BY <1>1, Zenon DEF WlInv, WlTypes
<1>4. v \in VfdType /\ vfd_map' = [vfd_map EXCEPT ![id] = v]
  BY <1>1, <1>2, <1>3
<1>5. NoJob \in JobType /\ NoJob.got = <<>> /\ NoJob.fds = <<>>
  BY DEF NoJob, JobType
<1>6. RoomInv'
  <2>1. \A i \in Ids : \A k \in DOMAIN vfd_map[i].inbox : ~Carries(vfd_map[i], k)
    BY <1>1, Zenon DEF WlInv, RoomInv
  <2> QED BY <1>1, <1>5, <2>1, Zenon DEF RoomInv, Carries
<1>7. v.kind = vfd_map[id].kind /\ v.slot = vfd_map[id].slot
  OBVIOUS
<1> HIDE DEF v, id
<1> QED BY <1>1, <1>2, <1>3, <1>4, <1>5, <1>6, <1>7, RecvKeeps, Zenon

\* A chain taken for input leaves the vfds and the buffers alone.
LEMMA DrainKeeps ==
  ASSUME WlInv, NextChain, in_queue_pending' \in Seq(MessageType), PendInv', TableInv', OutInv', HupLast',
         \A i \in DOMAIN in_queue_pending' :
            in_queue_pending'[i].id \in stale' \/ vfd_map[in_queue_pending'[i].id].kind # "absent",
         known' \subseteq Ids, at' \in {"poll", "drain_in", "drain_vfds", "ended"}, short' \in BOOLEAN,
         at' = "poll" => short'
  PROVE  WlInv'
<1>1. /\ UNCHANGED <<vfd_map, next_vfd_id, batch, job, outq, inKick, orphans, shmVars>>
      /\ at \in {"drain_in", "drain_vfds"} /\ inq > 0 /\ inq' = inq - 1
  BY DEF NextChain
<1>2. ShmInv' /\ mappings' = mappings
  BY <1>1, ShmSame, Zenon DEF WlInv
<1>3. WlTypes'
  <2>1. inq' \in Nat
    BY <1>1 DEF WlInv, WlTypes
  <2> QED BY <1>1, <2>1 DEF WlInv, WlTypes
<1>4. RoomInv'
  <2>1. \A id \in Ids : vfd_map'[id].inbox = vfd_map[id].inbox
    BY <1>1, Zenon
  <2> QED BY <1>1, <2>1, RoomShrinks DEF WlInv
<1>5. OwnInv'
  BY <1>1, <1>2, Zenon DEF WlInv, OwnInv
<1>6. HupInv'
  <2>1. job' = NoJob
    BY <1>1, Zenon DEF WlInv, HupInv
  <2> QED BY <1>1, <2>1, Zenon DEF WlInv, HupInv, Present
<1>7. SleepInv'
  BY DEF SleepInv
<1> QED BY <1>2, <1>3, <1>4, <1>5, <1>6, <1>7, Zenon DEF WlInv

\* The next vfd of the oldest message is announced: it is one less to announce.
LEMMA PendAdvanced ==
  ASSUME WlTypes, PendInv, in_queue_pending # <<>>, MoreVfds(Head(in_queue_pending)),
         in_queue_pending' = Advance, UNCHANGED <<job, next_vfd_id>>, NEW x0, x0 = NextVfd(Head(in_queue_pending))
  PROVE  /\ in_queue_pending' \in Seq(MessageType) /\ PendInv' /\ Given' = Given
         /\ x0 \in Unannounced /\ Unannounced' = Unannounced \ {x0}
         /\ DOMAIN in_queue_pending' = DOMAIN in_queue_pending
         /\ \A i \in DOMAIN in_queue_pending :
              in_queue_pending'[i].id = in_queue_pending[i].id /\ in_queue_pending'[i].hup = in_queue_pending[i].hup
<1> DEFINE D == DOMAIN in_queue_pending
           c == in_queue_pending[1].cur
<1>1. in_queue_pending \in Seq(MessageType)
  BY DEF WlTypes
<1>2. 1 \in D /\ Head(in_queue_pending) = in_queue_pending[1]
  BY <1>1
<1>3. /\ in_queue_pending[1] \in MessageType /\ c \in Nat
      /\ in_queue_pending[1].vfds \in Seq(Nat) /\ Len(in_queue_pending[1].vfds) \in Nat
  BY <1>2, MessageFields
<1>4. c < Len(in_queue_pending[1].vfds) /\ x0 = in_queue_pending[1].vfds[c + 1]
  BY <1>2, Zenon DEF MoreVfds, NextVfd
<1>5. c + 1 \in DOMAIN in_queue_pending[1].vfds /\ c + 1 <= Len(in_queue_pending[1].vfds) /\ c + 1 \in Nat
  <2> DEFINE f == in_queue_pending[1].vfds
  <2> HIDE DEF f, c
  <2>1. f \in Seq(Nat) /\ c \in Nat /\ c < Len(f)
    BY <1>3, <1>4 DEF f
  <2>2. c + 1 \in DOMAIN f /\ c + 1 <= Len(f) /\ c + 1 \in Nat
    BY <2>1
  <2> QED BY <2>2 DEF f
<1>6. in_queue_pending' = [in_queue_pending EXCEPT ![1].cur = c + 1]
  BY DEF Advance
<1>7. c = in_queue_pending[1].cur
  OBVIOUS
<1> HIDE DEF c
<1>8. [in_queue_pending[1] EXCEPT !.cur = c + 1] \in MessageType
  BY <1>3, <1>5, Zenon DEF MessageType
<1>9. in_queue_pending' \in Seq(MessageType) /\ DOMAIN in_queue_pending' = D
  BY <1>1, <1>2, <1>6, <1>8
<1>10. /\ in_queue_pending'[1].cur = c + 1 /\ \A i \in D : i # 1 => in_queue_pending'[i] = in_queue_pending[i]
       /\ in_queue_pending'[1].id = in_queue_pending[1].id /\ in_queue_pending'[1].hup = in_queue_pending[1].hup
       /\ in_queue_pending'[1].vfds = in_queue_pending[1].vfds
  <2>1. in_queue_pending'[1] = [in_queue_pending[1] EXCEPT !.cur = c + 1]
    BY <1>1, <1>2, <1>6
  <2>2. \A i \in D : i # 1 => in_queue_pending'[i] = in_queue_pending[i]
    BY <1>1, <1>6
  <2> QED BY <1>3, <2>1, <2>2 DEF MessageType
<1>11. \A i \in D : /\ in_queue_pending'[i].id = in_queue_pending[i].id
                    /\ in_queue_pending'[i].hup = in_queue_pending[i].hup
                    /\ in_queue_pending'[i].vfds = in_queue_pending[i].vfds
                    /\ i # 1 => in_queue_pending'[i].cur = in_queue_pending[i].cur
  BY <1>10, Zenon
<1> HIDE DEF D
<1>12. Given' = Given
  BY Zenon DEF Given
<1>13. PendInv'
  <2>1. \A i \in D : in_queue_pending'[i].cur <= Len(in_queue_pending'[i].vfds) /\ (in_queue_pending'[i].cur > 0 => i = 1)
    BY <1>5, <1>10, <1>11 DEF PendInv, D
  <2>2. job' = job /\ DOMAIN in_queue_pending = D
    BY DEF D
  <2>3. /\ \A k \in DOMAIN job.got : job.got[k] \in Given
        /\ \A k, l \in DOMAIN job.got : job.got[k] = job.got[l] => k = l
    BY Zenon DEF PendInv
  <2>4. ASSUME NEW i \in D
        PROVE  \A k \in DOMAIN in_queue_pending'[i].vfds :
                 /\ in_queue_pending'[i].vfds[k] \in Given
                 /\ \A l \in DOMAIN job.got : in_queue_pending'[i].vfds[k] # job.got[l]
                 /\ \A j \in D : \A l \in DOMAIN in_queue_pending'[j].vfds :
                      in_queue_pending'[i].vfds[k] = in_queue_pending'[j].vfds[l] => i = j /\ k = l
    <3>1. i \in DOMAIN in_queue_pending
      BY <2>2, <2>4, Zenon
    <3>2. \A k \in DOMAIN in_queue_pending[i].vfds :
            /\ in_queue_pending[i].vfds[k] \in Given
            /\ \A l \in DOMAIN job.got : in_queue_pending[i].vfds[k] # job.got[l]
            /\ \A j \in D : \A l \in DOMAIN in_queue_pending[j].vfds :
                 in_queue_pending[i].vfds[k] = in_queue_pending[j].vfds[l] => i = j /\ k = l
      BY <2>2, <3>1, PendFacts
    <3>3. \A j \in D : in_queue_pending'[j].vfds = in_queue_pending[j].vfds
      BY <1>11, Zenon
    <3>4. ASSUME NEW k \in DOMAIN in_queue_pending'[i].vfds
          PROVE  /\ in_queue_pending'[i].vfds[k] \in Given
                 /\ \A l \in DOMAIN job.got : in_queue_pending'[i].vfds[k] # job.got[l]
      BY <2>4, <3>2, <3>3, <3>4, Zenon
    <3>5. ASSUME NEW k \in DOMAIN in_queue_pending'[i].vfds, NEW j \in D,
                 NEW l \in DOMAIN in_queue_pending'[j].vfds, in_queue_pending'[i].vfds[k] = in_queue_pending'[j].vfds[l]
          PROVE  i = j /\ k = l
      <4>1. in_queue_pending'[i].vfds = in_queue_pending[i].vfds /\ in_queue_pending'[j].vfds = in_queue_pending[j].vfds
        BY <2>4, <3>3, <3>5, Zenon
      <4>2. /\ k \in DOMAIN in_queue_pending[i].vfds /\ l \in DOMAIN in_queue_pending[j].vfds
            /\ in_queue_pending[i].vfds[k] = in_queue_pending[j].vfds[l]
        BY <3>5, <4>1, Zenon
      <4> QED BY <3>2, <3>5, <4>2, Zenon
    <3> QED BY <3>4, <3>5, Zenon
  <2>5. DOMAIN in_queue_pending' = D
    BY <1>9, Zenon
  <2> QED BY <1>12, <2>1, <2>2, <2>3, <2>4, <2>5 DEF PendInv
<1>14. ASSUME NEW x
       PROVE  x \in Unannounced <=>
                \/ x \in Range(job.got)
                \/ \E i \in D : \E k \in DOMAIN in_queue_pending[i].vfds :
                     k > in_queue_pending[i].cur /\ in_queue_pending[i].vfds[k] = x
  BY DEF Unannounced, D
<1>15. ASSUME NEW x
       PROVE  x \in Unannounced' <=>
                \/ x \in Range(job.got)
                \/ \E i \in D : \E k \in DOMAIN in_queue_pending'[i].vfds :
                     k > in_queue_pending'[i].cur /\ in_queue_pending'[i].vfds[k] = x
  BY <1>9 DEF Unannounced
<1>16. x0 \in Unannounced
  <2>1. c + 1 > c
    BY <1>3
  <2>2. 1 \in D
    BY <1>2, Zenon
  <2> QED BY <1>4, <1>5, <1>7, <1>14, <2>1, <2>2
<1>17. x0 \notin Unannounced'
  <2>1. x0 \notin Range(job.got)
    BY <1>2, <1>4, <1>5 DEF PendInv, Range, D
  <2>2. ASSUME NEW i \in D, NEW k \in DOMAIN in_queue_pending'[i].vfds,
               k > in_queue_pending'[i].cur, in_queue_pending'[i].vfds[k] = x0
        PROVE  FALSE
    <3>1. k \in DOMAIN in_queue_pending[i].vfds /\ in_queue_pending[i].vfds[k] = in_queue_pending[1].vfds[c + 1]
      BY <1>4, <1>11, <2>2, Zenon
    <3>2. i = 1 /\ k = c + 1
      BY <1>2, <1>5, <2>2, <3>1, PendFacts DEF D
    <3> QED BY <1>5, <1>10, <2>2, <3>2
  <2> QED BY <1>15, <2>1, <2>2, Zenon
<1>18. ASSUME NEW x, x # x0 PROVE x \in Unannounced' <=> x \in Unannounced
  <2>1. ASSUME NEW i \in D, NEW k \in DOMAIN in_queue_pending[i].vfds, in_queue_pending[i].vfds[k] = x
        PROVE  k > in_queue_pending'[i].cur <=> k > in_queue_pending[i].cur
    <3>1. CASE i # 1
      BY <1>11, <3>1, Zenon
    <3>2. CASE i = 1
      <4>1. k # c + 1
        BY <1>4, <1>18, <2>1, <3>2
      <4>2. k \in Nat
        BY <1>3, <2>1, <3>2
      <4> QED BY <1>3, <1>7, <1>10, <3>2, <4>1, <4>2
    <3> QED BY <3>1, <3>2
  <2> QED BY <1>11, <1>14, <1>15, <2>1
<1> QED BY <1>9, <1>11, <1>12, <1>13, <1>16, <1>17, <1>18, Zenon DEF D

\* Without a first message that has nothing left to announce, the rest is in order.
LEMMA PendRest ==
  ASSUME PendInv, UNCHANGED <<job, next_vfd_id>>, NEW n \in Nat, n >= 1,
         DOMAIN in_queue_pending = 1 .. n, DOMAIN in_queue_pending' = 1 .. n - 1,
         \A i \in 1 .. n - 1 : in_queue_pending'[i] = in_queue_pending[i + 1],
         \A k \in DOMAIN in_queue_pending[1].vfds : ~(k > in_queue_pending[1].cur)
  PROVE  PendInv' /\ Given' = Given /\ Unannounced' = Unannounced
<1>1. job' = job
  OBVIOUS
<1>3. /\ 1 \in 1 .. n /\ \A i \in 1 .. n - 1 : i + 1 \in 1 .. n /\ i + 1 # 1
      /\ \A i \in 1 .. n : i = 1 \/ (i - 1 \in 1 .. n - 1 /\ (i - 1) + 1 = i)
  BY <1>1
<1>4. Given' = Given
  BY Zenon DEF Given
<1>5. ASSUME NEW i \in 1 .. n
      PROVE  /\ in_queue_pending[i].cur <= Len(in_queue_pending[i].vfds)
             /\ in_queue_pending[i].cur > 0 => i = 1
             /\ \A k \in DOMAIN in_queue_pending[i].vfds :
                  /\ in_queue_pending[i].vfds[k] \in Given
                  /\ \A l \in DOMAIN job.got : in_queue_pending[i].vfds[k] # job.got[l]
                  /\ \A j \in 1 .. n : \A l \in DOMAIN in_queue_pending[j].vfds :
                       in_queue_pending[i].vfds[k] = in_queue_pending[j].vfds[l] => i = j /\ k = l
  <2>1. i \in DOMAIN in_queue_pending /\ \A j \in 1 .. n : j \in DOMAIN in_queue_pending
    BY Zenon
  <2>2. /\ in_queue_pending[i].cur <= Len(in_queue_pending[i].vfds)
        /\ in_queue_pending[i].cur > 0 => i = 1
    BY <2>1, PendFacts
  <2>3. \A k \in DOMAIN in_queue_pending[i].vfds :
          /\ in_queue_pending[i].vfds[k] \in Given
          /\ \A l \in DOMAIN job.got : in_queue_pending[i].vfds[k] # job.got[l]
    BY <2>1, PendFacts
  <2>4. ASSUME NEW k \in DOMAIN in_queue_pending[i].vfds, NEW j \in 1 .. n, NEW l \in DOMAIN in_queue_pending[j].vfds,
               in_queue_pending[i].vfds[k] = in_queue_pending[j].vfds[l]
        PROVE  i = j /\ k = l
    BY <2>1, <2>4, PendFacts
  <2> QED BY <2>2, <2>3, <2>4
<1>6. ASSUME NEW i \in 1 .. n - 1
      PROVE  /\ in_queue_pending'[i].cur <= Len(in_queue_pending'[i].vfds)
             /\ in_queue_pending'[i].cur > 0 => i = 1
             /\ \A k \in DOMAIN in_queue_pending'[i].vfds :
                  /\ in_queue_pending'[i].vfds[k] \in Given
                  /\ \A l \in DOMAIN job.got : in_queue_pending'[i].vfds[k] # job.got[l]
  <2>1. in_queue_pending'[i] = in_queue_pending[i + 1] /\ i + 1 \in 1 .. n /\ i + 1 # 1
    BY <1>1, <1>3, Zenon
  <2> QED BY <1>5, <2>1
<1>7. ASSUME NEW i \in 1 .. n - 1, NEW j \in 1 .. n - 1, NEW k \in DOMAIN in_queue_pending'[i].vfds,
             NEW l \in DOMAIN in_queue_pending'[j].vfds, in_queue_pending'[i].vfds[k] = in_queue_pending'[j].vfds[l]
      PROVE  i = j /\ k = l
  <2>1. /\ in_queue_pending'[i] = in_queue_pending[i + 1] /\ i + 1 \in 1 .. n
        /\ in_queue_pending'[j] = in_queue_pending[j + 1] /\ j + 1 \in 1 .. n
    BY <1>1, <1>3
  <2>2. i + 1 = j + 1 /\ k = l
    <3>1. /\ k \in DOMAIN in_queue_pending[i + 1].vfds /\ l \in DOMAIN in_queue_pending[j + 1].vfds
          /\ in_queue_pending[i + 1].vfds[k] = in_queue_pending[j + 1].vfds[l]
      BY <1>7, <2>1, Zenon
    <3> QED BY <1>5, <2>1, <3>1, ZenonT(30)
  <2> QED BY <2>2
<1>8. PendInv'
  <2>1. /\ \A k \in DOMAIN job.got : job.got[k] \in Given
        /\ \A k, l \in DOMAIN job.got : job.got[k] = job.got[l] => k = l
    BY DEF PendInv
  <2>2. ASSUME NEW i \in DOMAIN in_queue_pending'
        PROVE  /\ in_queue_pending'[i].cur <= Len(in_queue_pending'[i].vfds)
               /\ in_queue_pending'[i].cur > 0 => i = 1
               /\ \A k \in DOMAIN in_queue_pending'[i].vfds :
                    /\ in_queue_pending'[i].vfds[k] \in Given'
                    /\ \A l \in DOMAIN job'.got : in_queue_pending'[i].vfds[k] # job'.got[l]
                    /\ \A j \in DOMAIN in_queue_pending' : \A l \in DOMAIN in_queue_pending'[j].vfds :
                         in_queue_pending'[i].vfds[k] = in_queue_pending'[j].vfds[l] => i = j /\ k = l
    <3>1. i \in 1 .. n - 1 /\ \A j \in DOMAIN in_queue_pending' : j \in 1 .. n - 1
      BY <2>2, Zenon
    <3>2. /\ in_queue_pending'[i].cur <= Len(in_queue_pending'[i].vfds)
          /\ in_queue_pending'[i].cur > 0 => i = 1
      BY <1>6, <3>1, Zenon
    <3>3. ASSUME NEW k \in DOMAIN in_queue_pending'[i].vfds
          PROVE  /\ in_queue_pending'[i].vfds[k] \in Given'
                 /\ \A l \in DOMAIN job'.got : in_queue_pending'[i].vfds[k] # job'.got[l]
      BY <1>1, <1>4, <1>6, <3>1, <3>3
    <3>4. ASSUME NEW k \in DOMAIN in_queue_pending'[i].vfds, NEW j \in DOMAIN in_queue_pending',
                 NEW l \in DOMAIN in_queue_pending'[j].vfds, in_queue_pending'[i].vfds[k] = in_queue_pending'[j].vfds[l]
          PROVE  i = j /\ k = l
      BY <1>7, <3>1, <3>4
    <3> QED BY <3>2, <3>3, <3>4, Zenon
  <2> QED BY <1>1, <1>4, <2>1, <2>2, Zenon DEF PendInv
<1>9. ASSUME NEW k \in DOMAIN in_queue_pending[1].vfds PROVE ~(k > in_queue_pending[1].cur)
  BY <1>9, Zenon
<1>10. ASSUME NEW x
       PROVE  x \in Unannounced <=>
                \/ x \in Range(job.got)
                \/ \E i \in 1 .. n : \E k \in DOMAIN in_queue_pending[i].vfds :
                     k > in_queue_pending[i].cur /\ in_queue_pending[i].vfds[k] = x
  BY <1>1 DEF Unannounced
<1>11. ASSUME NEW x
       PROVE  x \in Unannounced' <=>
                \/ x \in Range(job.got)
                \/ \E i \in 1 .. n - 1 : \E k \in DOMAIN in_queue_pending'[i].vfds :
                     k > in_queue_pending'[i].cur /\ in_queue_pending'[i].vfds[k] = x
  BY <1>1 DEF Unannounced
<1>12. ASSUME NEW x PROVE x \in Unannounced' <=> x \in Unannounced
  <2>1. ASSUME NEW i \in 1 .. n, NEW k \in DOMAIN in_queue_pending[i].vfds,
               k > in_queue_pending[i].cur, in_queue_pending[i].vfds[k] = x
        PROVE  x \in Unannounced'
    <3>1. i # 1
      BY <1>9, <2>1, Zenon
    <3>2. i - 1 \in 1 .. n - 1 /\ in_queue_pending'[i - 1] = in_queue_pending[i]
      BY <1>1, <1>3, <3>1
    <3> QED BY <1>11, <2>1, <3>2
  <2>2. ASSUME NEW i \in 1 .. n - 1, NEW k \in DOMAIN in_queue_pending'[i].vfds,
               k > in_queue_pending'[i].cur, in_queue_pending'[i].vfds[k] = x
        PROVE  x \in Unannounced
    <3>1. i + 1 \in 1 .. n /\ in_queue_pending'[i] = in_queue_pending[i + 1]
      BY <1>1, <1>3
    <3> QED BY <1>10, <2>2, <3>1, Zenon
  <2> QED BY <1>10, <1>11, <2>1, <2>2, Zenon
<1> QED BY <1>4, <1>8, <1>12, Zenon

\* The oldest message, announced whole, goes: what is to be announced stays the same.
LEMMA PendShifted ==
  ASSUME WlTypes, PendInv, in_queue_pending # <<>>, ~MoreVfds(Head(in_queue_pending)),
         in_queue_pending' = Tail(in_queue_pending), UNCHANGED <<job, next_vfd_id>>
  PROVE  in_queue_pending' \in Seq(MessageType) /\ PendInv' /\ Given' = Given /\ Unannounced' = Unannounced
<1> DEFINE n == Len(in_queue_pending)
<1>1. in_queue_pending \in Seq(MessageType)
  BY DEF WlTypes
<1>2. /\ n \in Nat /\ n >= 1 /\ DOMAIN in_queue_pending = 1 .. n /\ DOMAIN in_queue_pending' = 1 .. n - 1
      /\ \A i \in 1 .. n - 1 : in_queue_pending'[i] = in_queue_pending[i + 1]
      /\ Head(in_queue_pending) = in_queue_pending[1] /\ in_queue_pending' \in Seq(MessageType)
  BY <1>1
<1> HIDE DEF n
<1>3. ASSUME NEW k \in DOMAIN in_queue_pending[1].vfds PROVE ~(k > in_queue_pending[1].cur)
  <2>1. 1 \in DOMAIN in_queue_pending
    BY <1>2
  <2>2. /\ in_queue_pending[1].cur \in Nat /\ in_queue_pending[1].vfds \in Seq(Nat)
        /\ Len(in_queue_pending[1].vfds) \in Nat
    BY <2>1, MessageFields
  <2>3. ~(in_queue_pending[1].cur < Len(in_queue_pending[1].vfds))
    BY <1>2, Zenon DEF MoreVfds
  <2> QED BY <1>3, <2>2, <2>3
<1>4. PendInv' /\ Given' = Given /\ Unannounced' = Unannounced
  BY <1>2, <1>3, PendRest, Zenon
<1> QED BY <1>2, <1>4

\* A vfd announced, or lost to a short chain, moves from the vfds still to be announced
\* to those the driver knows, or to those it will never hear of.
LEMMA AdvanceKeeps ==
  ASSUME WlInv, NextChain, MoreVfds(Head(in_queue_pending)), in_queue_pending' = Advance, UNCHANGED stale,
         NEW x0, x0 = NextVfd(Head(in_queue_pending)),
         \/ known' = (IF Present(x0) THEN known \union {x0} ELSE known) /\ skipped' = skipped
         \/ known' = known /\ skipped' = skipped \union {x0},
         at' \in {"poll", "drain_in", "drain_vfds", "ended"}, short' \in BOOLEAN, at' = "poll" => short'
  PROVE  WlInv'
<1>1. /\ UNCHANGED <<vfd_map, next_vfd_id, job, outq, orphans>> /\ in_queue_pending # <<>>
  BY DEF NextChain
<1>2. WlTypes /\ PendInv /\ DOMAIN vfd_map = Ids
  BY Zenon DEF WlInv, WlTypes
<1>3. /\ in_queue_pending' \in Seq(MessageType) /\ PendInv' /\ Given' = Given
      /\ x0 \in Unannounced /\ Unannounced' = Unannounced \ {x0}
      /\ DOMAIN in_queue_pending' = DOMAIN in_queue_pending
      /\ \A i \in DOMAIN in_queue_pending :
           in_queue_pending'[i].id = in_queue_pending[i].id /\ in_queue_pending'[i].hup = in_queue_pending[i].hup
  BY <1>1, <1>2, PendAdvanced
<1>4. x0 \in Given /\ x0 \in Ids /\ x0 \notin Guest
  <2>1. x0 \in Given
    BY <1>3, Zenon DEF WlInv, TableInv
  <2>2. /\ GuestIds \in Nat /\ HostIds \in Nat /\ next_vfd_id \in Nat
        /\ GuestIds < next_vfd_id /\ next_vfd_id <= GuestIds + HostIds + 1
    BY <1>2, WlAssumption, Zenon DEF WlTypes
  <2> QED BY <2>1, <2>2 DEF Given, Ids, Guest
<1>5. Present(x0)
  BY <1>2, <1>3, <1>4 DEF WlInv, TableInv, VfdsKnown
<1>6. \/ known' = known \union {x0} /\ skipped' = skipped
      \/ known' = known /\ skipped' = skipped \union {x0}
  BY <1>5
<1>7. known' \subseteq Ids
  BY <1>2, <1>4, <1>6, Zenon DEF WlTypes
<1>8. OutInv'
  <2>1. OutInv /\ outq' = outq
    BY <1>1, Zenon DEF WlInv
  <2>2. Guest \ known \subseteq Guest \ known'
    BY <1>4, <1>6, Zenon
  <2> QED BY <2>1, <2>2, Zenon DEF OutInv
<1>9. TableInv'
  <2>1. Closing' = Closing /\ orphans' = orphans
    BY <1>1, Zenon DEF Closing
  <2>2. Lost = orphans \union skipped /\ Lost' = orphans \union skipped'
    BY <1>1 DEF Lost
  <2>3. /\ known \intersect Closing = {} /\ (known \union Closing) \intersect (Unannounced \union Lost) = {}
        /\ Unannounced \intersect Lost = {} /\ Lost \subseteq Given /\ Unannounced \subseteq Given
        /\ known \union Closing \subseteq Guest \union Given
    BY DEF WlInv, TableInv
  <2>4. VfdsKnown'
    <3>1. (known \union Closing \union Unannounced \union orphans \union skipped)'
            = known \union Closing \union Unannounced \union orphans \union skipped
      BY <1>3, <1>6, <2>1, Zenon
    <3>2. vfd_map' = vfd_map /\ \A i \in DOMAIN vfd_map : Present(i)' <=> Present(i)
      BY <1>1, Zenon DEF Present
    <3> QED BY <3>1, <3>2, Zenon DEF WlInv, TableInv, VfdsKnown
  <2>5. /\ x0 \in Unannounced /\ Unannounced' = Unannounced \ {x0} /\ Unannounced' \subseteq Given
        /\ Unannounced' \intersect Lost = {}
    BY <1>3, <2>3, Zenon
  <2>6. CASE known' = known \union {x0} /\ skipped' = skipped
    <3>1. Lost' = Lost
      BY <2>2, <2>6, Zenon
    <3>2. known' \intersect Closing = {} /\ known' \union Closing \subseteq Guest \union Given
      BY <1>4, <2>3, <2>5, <2>6, Zenon
    <3>3. (known' \union Closing) \intersect (Unannounced' \union Lost) = {}
      BY <2>3, <2>5, <2>6, ZenonT(30)
    <3> QED BY <1>3, <2>1, <2>3, <2>4, <2>5, <3>1, <3>2, <3>3, Zenon DEF TableInv
  <2>7. CASE known' = known /\ skipped' = skipped \union {x0}
    <3>1. Lost' = Lost \union {x0}
      BY <2>2, <2>7, Zenon
    <3>2. Unannounced' \intersect Lost' = {} /\ Lost' \subseteq Given
      BY <1>4, <2>3, <2>5, <3>1, Zenon
    <3>3. (known \union Closing) \intersect (Unannounced' \union Lost') = {}
      BY <2>3, <2>5, <3>1, Zenon
    <3> QED BY <1>3, <2>1, <2>3, <2>4, <2>5, <2>7, <3>2, <3>3, Zenon DEF TableInv
  <2> QED BY <1>6, <2>6, <2>7, Zenon
<1>10. HupLast'
  <2>1. HupLast /\ vfd_map' = vfd_map /\ stale' = stale
    BY <1>1, Zenon DEF WlInv, HupInv
  <2>2. ASSUME NEW i \in DOMAIN in_queue_pending, in_queue_pending[i].hup, in_queue_pending[i].id \notin stale
        PROVE  /\ \A j \in DOMAIN in_queue_pending : in_queue_pending[j].id = in_queue_pending[i].id => j <= i
               /\ ~(vfd_map[in_queue_pending[i].id].open /\ vfd_map[in_queue_pending[i].id].polled)
    BY <2>1, <2>2, Zenon DEF HupLast
  <2>3. \A j \in DOMAIN in_queue_pending : in_queue_pending'[j].id = in_queue_pending[j].id
    BY <1>3, Zenon
  <2>4. ASSUME NEW i \in DOMAIN in_queue_pending, in_queue_pending'[i].hup, in_queue_pending'[i].id \notin stale
        PROVE  /\ \A j \in DOMAIN in_queue_pending : in_queue_pending'[j].id = in_queue_pending'[i].id => j <= i
               /\ ~(vfd_map[in_queue_pending'[i].id].open /\ vfd_map[in_queue_pending'[i].id].polled)
    <3>1. in_queue_pending[i].hup /\ in_queue_pending'[i].id = in_queue_pending[i].id
      BY <1>3, <2>4, Zenon
    <3> QED BY <2>2, <2>3, <2>4, <3>1, Zenon
  <2>5. DOMAIN in_queue_pending' = DOMAIN in_queue_pending
    BY <1>3, Zenon
  <2> QED BY <2>1, <2>4, <2>5, Zenon DEF HupLast
<1>11. \A i \in DOMAIN in_queue_pending' :
          in_queue_pending'[i].id \in stale' \/ vfd_map[in_queue_pending'[i].id].kind # "absent"
  BY <1>3 DEF WlInv, HupInv, Present
<1> QED BY <1>3, <1>7, <1>8, <1>9, <1>10, <1>11, DrainKeeps, Zenon

\* A message that is sent whole leaves the rest in order.
LEMMA ShiftKeeps ==
  ASSUME WlInv, NextChain, ~MoreVfds(Head(in_queue_pending)), in_queue_pending' = Tail(in_queue_pending),
         stale' = {id \in stale : \E i \in DOMAIN in_queue_pending : i > 1 /\ in_queue_pending[i].id = id},
         UNCHANGED <<known, skipped, at, short>>
  PROVE  WlInv'
<1> DEFINE n == Len(in_queue_pending)
<1>1. /\ UNCHANGED <<vfd_map, next_vfd_id, job, outq, orphans>> /\ in_queue_pending # <<>>
      /\ at \in {"drain_in", "drain_vfds"}
  BY DEF NextChain
<1>2. WlTypes /\ PendInv /\ in_queue_pending \in Seq(MessageType)
  BY Zenon DEF WlInv, WlTypes
<1>3. in_queue_pending' \in Seq(MessageType) /\ PendInv' /\ Given' = Given /\ Unannounced' = Unannounced
  BY <1>1, <1>2, PendShifted
<1>4. /\ n \in Nat /\ n >= 1 /\ DOMAIN in_queue_pending = 1 .. n /\ DOMAIN in_queue_pending' = 1 .. n - 1
      /\ \A i \in 1 .. n - 1 : in_queue_pending'[i] = in_queue_pending[i + 1]
  BY <1>1, <1>2
<1> HIDE DEF n
<1>5. \A i \in 1 .. n - 1 : i + 1 \in 1 .. n /\ i + 1 > 1
  BY <1>4
<1>6. ASSUME NEW i \in 1 .. n - 1, in_queue_pending'[i].id \notin stale' PROVE in_queue_pending[i + 1].id \notin stale
  BY <1>4, <1>5, <1>6, Zenon
<1>7. OutInv' /\ known' \subseteq Ids /\ short' \in BOOLEAN /\ at' \in {"drain_in", "drain_vfds"}
  BY <1>1, Zenon DEF WlInv, OutInv, WlTypes
<1>8. TableInv'
  <2>1. Lost' = Lost /\ known' = known /\ Closing' = Closing /\ orphans' = orphans /\ skipped' = skipped
    BY <1>1, Zenon DEF Lost, Closing
  <2>2. VfdsKnown'
    <3>1. (known \union Closing \union Unannounced \union orphans \union skipped)'
            = known \union Closing \union Unannounced \union orphans \union skipped
      BY <1>3, <2>1
    <3>2. vfd_map' = vfd_map /\ \A i \in DOMAIN vfd_map : Present(i)' <=> Present(i)
      BY <1>1, Zenon DEF Present
    <3> QED BY <3>1, <3>2 DEF WlInv, TableInv, VfdsKnown
  <2> QED BY <1>3, <2>1, <2>2, Zenon DEF WlInv, TableInv
<1>9. ASSUME NEW i \in 1 .. n, in_queue_pending[i].hup, in_queue_pending[i].id \notin stale
      PROVE  /\ \A j \in 1 .. n : in_queue_pending[j].id = in_queue_pending[i].id => j <= i
             /\ ~(vfd_map[in_queue_pending[i].id].open /\ vfd_map[in_queue_pending[i].id].polled)
  BY <1>4, <1>9, Zenon DEF WlInv, HupInv, HupLast
<1>10. ASSUME NEW i \in 1 .. n - 1, in_queue_pending'[i].hup, in_queue_pending'[i].id \notin stale'
       PROVE  /\ \A j \in 1 .. n - 1 : in_queue_pending'[j].id = in_queue_pending'[i].id => j <= i
              /\ ~(vfd_map[in_queue_pending'[i].id].open /\ vfd_map[in_queue_pending'[i].id].polled)
  <2>1. i + 1 \in 1 .. n /\ in_queue_pending'[i] = in_queue_pending[i + 1] /\ in_queue_pending[i + 1].id \notin stale
    BY <1>4, <1>5, <1>6, <1>10, Zenon
  <2>2. ASSUME NEW j \in 1 .. n - 1, in_queue_pending'[j].id = in_queue_pending'[i].id PROVE j <= i
    <3>1. j + 1 \in 1 .. n /\ in_queue_pending'[j] = in_queue_pending[j + 1]
      BY <1>4, <1>5
    <3>2. j + 1 <= i + 1
      BY <1>9, <1>10, <2>1, <2>2, <3>1, Zenon
    <3> QED BY <3>2
  <2> QED BY <1>9, <1>10, <2>1, <2>2, Zenon
<1>11. HupLast'
  BY <1>1, <1>4, <1>10, Zenon DEF HupLast
<1>12. ASSUME NEW i \in 1 .. n - 1
       PROVE  in_queue_pending'[i].id \in stale' \/ vfd_map[in_queue_pending'[i].id].kind # "absent"
  <2>1. i + 1 \in DOMAIN in_queue_pending /\ in_queue_pending'[i] = in_queue_pending[i + 1]
    BY <1>4, <1>5, Zenon
  <2>2. in_queue_pending[i + 1].id \in stale \/ vfd_map[in_queue_pending[i + 1].id].kind # "absent"
    BY <2>1 DEF WlInv, HupInv, Present
  <2> QED BY <1>6, <2>1, <2>2, Zenon
<1>13. \A i \in DOMAIN in_queue_pending' :
          in_queue_pending'[i].id \in stale' \/ vfd_map[in_queue_pending'[i].id].kind # "absent"
  BY <1>4, <1>12
<1>14. at' \in {"poll", "drain_in", "drain_vfds", "ended"} /\ at' # "poll"
  BY <1>7
<1> QED BY <1>3, <1>7, <1>8, <1>11, <1>13, <1>14, DrainKeeps, Zenon

\* What is sent, and what a chain is too short for, keeps the agreement.
LEMMA SendKeeps == ASSUME WlInv, send_next_input_message \/ send_fails PROVE WlInv'
<1> DEFINE msg == Head(in_queue_pending)
<1>1. at \in {"drain_in", "drain_vfds"} /\ NextChain /\ short \in BOOLEAN /\ job = NoJob /\ inq \in Nat /\ inq > 0
  BY DEF send_next_input_message, send_fails, NextChain, WlInv, WlTypes, HupInv
<1>2. CASE send_next_input_message
  <2>1. send_message(msg) /\ UNCHANGED <<at, skipped, short>>
    BY <1>2, Zenon DEF send_next_input_message
  <2>2. CASE MoreVfds(msg)
    <3>1. /\ in_queue_pending' = Advance /\ stale' = stale
          /\ known' = IF Present(NextVfd(msg)) THEN known \union {NextVfd(msg)} ELSE known
      BY <2>1, <2>2, Zenon DEF send_message
    <3>2. at' \in {"poll", "drain_in", "drain_vfds", "ended"} /\ at' # "poll" /\ short' \in BOOLEAN /\ skipped' = skipped
      BY <1>1, <2>1
    <3> QED BY <1>1, <2>2, <3>1, <3>2, AdvanceKeeps
  <2>3. CASE ~MoreVfds(msg)
    <3>1. /\ in_queue_pending' = Tail(in_queue_pending) /\ known' = known
          /\ stale' = {id \in stale : \E i \in DOMAIN in_queue_pending : i > 1 /\ in_queue_pending[i].id = id}
      BY <2>1, <2>3 DEF send_message
    <3> QED BY <1>1, <2>1, <2>3, <3>1, ShiftKeeps, Zenon
  <2> QED BY <2>2, <2>3
<1>3. CASE send_fails
  <2>1. short' = TRUE /\ at' \in {"poll", "ended"} /\ UNCHANGED <<known, stale>>
    BY <1>3, Zenon DEF send_fails
  <2>2. CASE MoreVfds(msg)
    <3>1. in_queue_pending' = Advance /\ skipped' = skipped \union {NextVfd(msg)}
      BY <1>3, <2>2, Zenon DEF send_fails
    <3> QED BY <1>1, <2>1, <2>2, <3>1, AdvanceKeeps
  <2>3. CASE ~MoreVfds(msg)
    <3>1. in_queue_pending' = in_queue_pending /\ skipped' = skipped
      BY <1>3, <2>3, Zenon DEF send_fails
    <3>2. /\ UNCHANGED <<vfd_map, next_vfd_id, batch, job, outq, inKick, orphans, shmVars>> /\ inq' = inq - 1
      BY <1>1 DEF NextChain
    <3>3. SleepInv' /\ inq' \in Nat /\ batch' \subseteq Ids /\ inKick' \in BOOLEAN
      BY <1>1, <2>1, <3>2 DEF SleepInv, WlInv, WlTypes
    <3> QED BY <1>1, <2>1, <3>1, <3>2, <3>3, LoopKeeps
  <2> QED BY <2>2, <2>3
<1> QED BY <1>2, <1>3, Zenon

\* The inductive invariant is kept by every step of the driver, the compositor and the device.
LEMMA WlKept == WlInv /\ [WlNext]_wlVars => WlInv'
<1> SUFFICES ASSUME WlInv, [WlNext]_wlVars PROVE WlInv'
  OBVIOUS
<1>1. ASSUME NEW op \in Ops, NEW id \in Ids, Submit(op, id) PROVE WlInv'
  BY <1>1, SubmitKeeps
<1>2. ASSUME NEW id \in Ids, NEW item \in Items, PeerSend(id, item) PROVE WlInv'
  BY <1>2, PeerSendKeeps
<1>3. CASE PostIn \/ process_poll_events \/ vfds_done \/ in_vq_ready \/ drained
  BY <1>3, QuietKeeps
<1>4. CASE OutVq
  BY <1>4, OutVqKeeps
<1>5. ASSUME NEW id \in Ids, recv_from_vfd(id) \/ process_hangup_event(id) \/ pass_over(id) PROVE WlInv'
  BY <1>5, RecvFromKeeps, HangupKeeps, PassedOverKeeps
<1>6. CASE vfd_from_file \/ recv_pushed
  BY <1>6, FromFileKeeps, PushedKeeps, Zenon
<1>7. CASE send_next_input_message \/ send_fails
  BY <1>7, SendKeeps
<1>8. CASE UNCHANGED wlVars
  <2>1. /\ UNCHANGED <<vfd_map, next_vfd_id, in_queue_pending, job, outq, known, orphans, skipped, stale, shmVars>>
        /\ UNCHANGED <<at, batch, inq, inKick, short>>
    BY <1>8, Zenon DEF wlVars, ghosts, queues
  <2>2. /\ at' \in {"poll", "vfds", "drain_in", "drain_vfds", "ended"} /\ batch' \subseteq Ids /\ inq' \in Nat
        /\ inKick' \in BOOLEAN /\ short' \in BOOLEAN /\ SleepInv' /\ (job # NoJob => at' = "vfds")
    BY <2>1 DEF WlInv, WlTypes, SleepInv, HupInv
  <2> QED BY <2>1, <2>2, LoopKeeps, Zenon
<1> QED BY <1>1, <1>2, <1>3, <1>4, <1>5, <1>6, <1>7, <1>8 DEF WlNext, Device, Vfds, Drain

\* What the invariant says of the tables.
LEMMA WlAgrees == WlInv => TablesAgree
<1> SUFFICES ASSUME WlInv PROVE TablesAgree
  OBVIOUS
<1>1. DOMAIN vfd_map = Ids /\ DOMAIN mappings = Slots
  BY DEF WlInv, WlTypes, ShmInv, ShmTypeOK
<1>2. VfdsKnown
  BY Zenon DEF WlInv, TableInv
<1>3. WlTypeOK
  <2>1. ASSUME NEW id \in Ids, id >= next_vfd_id PROVE ~Present(id)
    <3>1. id \notin Guest \union Given
      BY <2>1, WlAssumption DEF WlInv, WlTypes, Guest, Given, Ids
    <3>2. id \notin known \union Closing \union Unannounced \union orphans \union skipped
      BY <3>1 DEF WlInv, TableInv, Lost
    <3> QED BY <1>1, <1>2, <3>2 DEF VfdsKnown
  <2>2. ASSUME NEW i \in DOMAIN in_queue_pending
        PROVE  /\ in_queue_pending[i].cur \in 0 .. Len(in_queue_pending[i].vfds)
               /\ in_queue_pending[i].cur > 0 => i = 1
    <3>1. in_queue_pending[i].cur \in Nat /\ Len(in_queue_pending[i].vfds) \in Nat
      BY <2>2, MessageFields DEF WlInv
    <3> QED BY <2>2, <3>1, PendFacts DEF WlInv
  <2>3. known \subseteq Ids /\ batch \subseteq Ids /\ at \in {"poll", "vfds", "drain_in", "drain_vfds", "ended"}
    BY Zenon DEF WlInv, WlTypes
  <2> QED BY <1>1, <2>1, <2>2, <2>3 DEF WlTypeOK
<1>4. BuffersOwned
  <2> DEFINE owners == {id \in DOMAIN vfd_map : vfd_map[id].kind = "shm"}
  <2>1. {s \in DOMAIN mappings : mappings[s] # None} = {vfd_map[id].slot : id \in owners}
    BY <1>1 DEF WlInv, OwnInv
  <2>2. \A i, j \in owners : vfd_map[i].slot = vfd_map[j].slot => i = j
    BY <1>1 DEF WlInv, OwnInv
  <2> QED BY <2>1, <2>2, Zenon DEF BuffersOwned
<1> QED BY <1>2, <1>3, <1>4 DEF TablesAgree

\* The table of vfds, the driver's and the shared memory mapper's agree in every state,
\* for any number of ids, commands, chains and messages, with files and short chains,
\* whatever KVM refuses (the commands, recv_from_vfd, send_message, close_vfd).
THEOREM TablesStayAgreed == WlSpec => []TablesAgree
BY WlBegins, WlKept, WlAgrees, PTL DEF WlSpec

\* A hangup is the last thing the guest hears of a vfd, and pending input with a chain to
\* go into has a kick to come, however the handlers follow each other (recv_from_vfd,
\* process_hangup_event, drain_pending).
THEOREM InputStaysInOrder == WlSpec => []InputInOrder
<1>1. WlInv => InputInOrder
  <2> SUFFICES ASSUME WlInv PROVE InputInOrder
    OBVIOUS
  <2>1. HupLast /\ inq \in Nat
    BY DEF WlInv, HupInv, WlTypes
  <2>2. InputMoves
    BY <2>1 DEF WlInv, SleepInv, InputMoves
  <2> QED BY <2>1, <2>2, Zenon DEF InputInOrder
<1> QED BY <1>1, WlBegins, WlKept, PTL DEF WlSpec

\* Device memory stays whole under every use the Wayland device makes of the shared
\* memory mapper: its handlers call register and unregister as the mapper asks.
THEOREM DeviceMemoryIntact == WlSpec => []MemoryIntact
<1>1. WlInv => MemoryIntact
  BY DEF WlInv, ShmInv, MemoryIntact
<1> QED BY <1>1, WlBegins, WlKept, PTL DEF WlSpec
=============================================================================
