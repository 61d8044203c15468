------------------------------- MODULE Virtio -------------------------------
(***************************************************************************)
(* The disk driver of virtio_disk.c and the virtio device it talks to.     *)
(* Processes put chains of three descriptors on the avail ring; the device *)
(* works on them in any order and reports each on the used ring; the       *)
(* interrupt handler wakes the processes up.                               *)
(*                                                                         *)
(* What a process does under vdisk_lock is one step.  The handler takes    *)
(* several, because the device runs while the handler has the lock.        *)
(***************************************************************************)
EXTENDS Naturals, FiniteSets, Sequences

CONSTANTS
  NUM,       \* descriptors
  UINT16,    \* the number of values of a ring index
  DiskProcs, \* the processes that use the disk; each has one buffer
  Blocks,    \* the blocks of the disk
  Media      \* what they hold at first

ASSUME RingAssumption == NUM >= 3 /\ UINT16 % NUM = 0

VARIABLES
  free,      \* disk.free: the free descriptors
  desc,      \* disk.desc, with the request header (disk.ops) in the first of a chain
  info,      \* disk.info
  avail,     \* disk.avail
  used,      \* disk.used
  used_idx,  \* disk.used_idx
  buf,       \* the buffers, one for each process
  rw,        \* the processes: where they are and the requests still to make
  dev,       \* the device: requests it works on, its place in avail, interrupt status, media
  intr       \* where virtio_disk_intr() is

dvars == <<free, desc, info, avail, used, used_idx, buf, rw, dev, intr>>

Descs == 0 .. NUM - 1
Zeroed == [to |-> "none", next |-> 0, flags |-> {}]

\* The memory and the free list that virtio_disk_init() sets up, and the requests
\* that the processes are going to make.
DiskInit(jobs) ==
  /\ free = Descs
  /\ desc = [i \in Descs |-> Zeroed]
  /\ info = [i \in Descs |-> [b |-> 0, status |-> 0]]
  /\ avail = [ring |-> [i \in Descs |-> 0], idx |-> 0]
  /\ used = [ring |-> [i \in Descs |-> 0], idx |-> 0]
  /\ used_idx = 0
  /\ buf = [p \in DiskProcs |-> [disk |-> FALSE, data |-> 0]]
  /\ rw = [p \in DiskProcs |-> [pc |-> "start", jobs |-> jobs[p], head |-> 0]]
  /\ dev = [busy |-> {}, seen |-> 0, isr |-> FALSE, media |-> Media]
  /\ intr = "off"

Locked == intr = "used"

Lowest(S) == CHOOSE i \in S : \A j \in S : i <= j

\* wakeup(&disk.free[0])
WakeFree(r) == [p \in DiskProcs |-> IF r[p].pc = "nodesc" THEN [r[p] EXCEPT !.pc = "start"] ELSE r[p]]

Inc(i) == (i + 1) % UINT16

-----------------------------------------------------------------------------
(* virtio_disk_rw()                                                        *)

\* The three descriptors alloc3_desc() finds, lowest first.
Three(f) ==
  LET a == Lowest(f)
      b == Lowest(f \ {a})
  IN  <<a, b, Lowest(f \ {a, b})>>

\* alloc3_desc() fails: what it has taken it gives back, and free_desc() wakes
\* the others that wait for descriptors.
NoDesc(p) ==
  /\ rw[p].pc = "start"
  /\ rw[p].jobs # <<>>
  /\ ~Locked
  /\ Cardinality(free) < 3
  /\ rw' = [(IF free = {} THEN rw ELSE WakeFree(rw)) EXCEPT ![p].pc = "nodesc"]
  /\ UNCHANGED <<free, desc, info, avail, used, used_idx, buf, dev, intr>>

\* Mutant: reads and writes are mixed up.
DirectionSwapped(job) == ~job.write

\* Is the request for the device to read the buffer (and write the disk)?
Direction(job) == job.write

\* A request is put on the ring; the process sleeps on its buffer.
Submit(p) ==
  LET job == Head(rw[p].jobs)
      idx == Three(free)
  IN  /\ rw[p].pc = "start"
      /\ rw[p].jobs # <<>>
      /\ ~Locked
      /\ Cardinality(free) >= 3
      /\ free' = free \ {idx[1], idx[2], idx[3]}
      /\ desc' = [desc EXCEPT
           ![idx[1]] = [to |-> <<Direction(job), job.block>>, next |-> idx[2], flags |-> {"next"}],
           ![idx[2]] = [to |-> p, next |-> idx[3],
                        flags |-> IF Direction(job) THEN {"next"} ELSE {"next", "write"}],
           ![idx[3]] = [to |-> idx[1], next |-> 0, flags |-> {"write"}]]
      /\ info' = [info EXCEPT ![idx[1]] = [b |-> p, status |-> 255]]
      /\ buf' = [buf EXCEPT ![p].disk = TRUE, ![p].data = IF job.write THEN job.data ELSE @]
      /\ avail' = [avail EXCEPT !.ring[avail.idx % NUM] = idx[1], !.idx = Inc(@)]
      /\ rw' = [rw EXCEPT ![p].pc = "wait", ![p].head = idx[1]]
      /\ UNCHANGED <<used, used_idx, dev, intr>>

\* The descriptors of the chain that starts at i.
ChainOf(i) ==
  {i} \cup (IF "next" \in desc[i].flags
            THEN {desc[i].next} \cup (IF "next" \in desc[desc[i].next].flags
                                      THEN {desc[desc[i].next].next} ELSE {})
            ELSE {})

\* What free_chain(i) frees.
Freed(i) == ChainOf(i)

\* Mutant: free_desc() wakes nobody.
WakeNone(r) == r

\* free_desc() wakes the processes without descriptors.
Woken(r) == WakeFree(r)

\* Woken up with its request done, a process frees the chain and returns.
Finish(p) ==
  LET head == rw[p].head
  IN  /\ rw[p].pc = "woken"
      /\ ~Locked
      /\ IF buf[p].disk
         THEN rw' = [rw EXCEPT ![p].pc = "wait"] /\ UNCHANGED <<info, desc, free>>
         ELSE /\ info' = [info EXCEPT ![head].b = 0]
              /\ desc' = [i \in Descs |-> IF i \in Freed(head) THEN Zeroed ELSE desc[i]]
              /\ free' = free \cup Freed(head)
              /\ rw' = [Woken(rw) EXCEPT ![p] = [pc |-> "start", jobs |-> Tail(@.jobs), head |-> 0]]
      /\ UNCHANGED <<avail, used, used_idx, buf, dev, intr>>

-----------------------------------------------------------------------------
(* The device.                                                             *)

Fetch ==
  /\ dev.seen # avail.idx
  /\ dev' = [dev EXCEPT !.busy = @ \cup {avail.ring[dev.seen % NUM]}, !.seen = Inc(@)]
  /\ UNCHANGED <<free, desc, info, avail, used, used_idx, buf, rw, intr>>

\* The transfer of the request whose chain starts at head, and its report.  It
\* fails when the flags of the data do not allow it.
Complete(head) ==
  LET write == desc[head].to[1]
      block == desc[head].to[2]
      data == desc[desc[head].next]
      b == data.to
      ok == write # ("write" \in data.flags)
  IN  /\ head \in dev.busy
      /\ dev' = [dev EXCEPT !.busy = @ \ {head}, !.isr = TRUE,
                   !.media[block] = IF ok /\ write THEN buf[b].data ELSE @]
      /\ buf' = [buf EXCEPT ![b].data = IF ok /\ ~write THEN dev.media[block] ELSE @]
      /\ info' = [info EXCEPT ![desc[data.next].to].status = IF ok THEN 0 ELSE 1]
      /\ used' = [used EXCEPT !.ring[used.idx % NUM] = head, !.idx = Inc(@)]
      /\ UNCHANGED <<free, desc, avail, used_idx, rw, intr>>

-----------------------------------------------------------------------------
(* virtio_disk_intr()                                                      *)

IntrEnter ==
  /\ intr = "off"
  /\ intr' = "ack"
  /\ UNCHANGED <<free, desc, info, avail, used, used_idx, buf, rw, dev>>

\* The lock is taken and the interrupt acknowledged before the ring is read.
IntrAck ==
  /\ intr = "ack"
  /\ intr' = "used"
  /\ dev' = [dev EXCEPT !.isr = FALSE]
  /\ UNCHANGED <<free, desc, info, avail, used, used_idx, buf, rw>>

\* Mutant: the interrupt handler skips to the newest completion.
NextUsedSkips == used.idx

\* disk.used_idx after a completion.
NextUsed == Inc(used_idx)

IntrUsed ==
  LET id == used.ring[used_idx % NUM]
      b == info[id].b
  IN  /\ intr = "used"
      /\ used_idx # used.idx
      /\ buf' = [buf EXCEPT ![b].disk = FALSE]
      /\ rw' = [rw EXCEPT ![b].pc = IF @ = "wait" THEN "woken" ELSE @]
      /\ used_idx' = NextUsed
      /\ UNCHANGED <<free, desc, info, avail, used, dev, intr>>

IntrLeave ==
  /\ intr = "used"
  /\ used_idx = used.idx
  /\ intr' = "off"
  /\ UNCHANGED <<free, desc, info, avail, used, used_idx, buf, rw, dev>>

DiskProc(p) == NoDesc(p) \/ Submit(p) \/ Finish(p)

Device == Fetch \/ (\E head \in dev.busy : Complete(head))

-----------------------------------------------------------------------------
(* Properties.                                                             *)

\* The indices of the rings stay 16-bit numbers, descriptors on the free list
\* exist.
DiskTypeOK ==
  /\ free \subseteq Descs
  /\ {avail.idx, used.idx, used_idx, dev.seen} \subseteq 0 .. UINT16 - 1
  /\ dev.busy \subseteq Descs
  /\ \A p \in DiskProcs : rw[p].pc \in {"start", "nodesc", "wait", "woken"}
  /\ intr \in {"off", "ack", "used"}

\* The entries of a ring from index i up to index j.
Between(ring, i, j) == {ring[(i + n) % NUM] : n \in 0 .. ((j + UINT16 - i) % UINT16) - 1}

\* The device reads and writes only memory of processes that wait for it: a
\* request it works on, or has not seen yet, or has reported and the handler has
\* not seen yet, belongs to a process asleep on its buffer.  The rings do not
\* overflow when their indices wrap around, and neither virtio_disk_intr() nor
\* free_desc() panics: what is reported has succeeded, and the chain that a process
\* is going to free has not been freed.
DeviceOwnsItsRequests ==
  LET todo == Between(avail.ring, dev.seen, avail.idx)
      reported == Between(used.ring, used_idx, used.idx)
      waiting == {rw[p].head : p \in {q \in DiskProcs : rw[q].pc = "wait" /\ buf[q].disk}}
  IN  /\ DiskTypeOK
      /\ todo \cup dev.busy \cup reported = waiting
      /\ todo \cap dev.busy = {} /\ todo \cap reported = {} /\ dev.busy \cap reported = {}
      /\ \A h \in reported : info[h].status = 0 /\ info[h].b # 0
      /\ \A p \in DiskProcs :
           rw[p].pc = "woken" /\ ~buf[p].disk =>
             Freed(rw[p].head) \subseteq Descs \ free /\ Cardinality(Freed(rw[p].head)) = 3

\* When virtio_disk_rw() returns, the transfer has been made: the buffer and the
\* block on the disk have the same contents.
TransferDone ==
  [][\A p \in DiskProcs :
       rw'[p].jobs # rw[p].jobs =>
         LET job == Head(rw[p].jobs)
         IN  /\ buf[p].data = dev.media[job.block]
             /\ job.write => buf[p].data = job.data]_dvars
=============================================================================
