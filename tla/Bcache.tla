------------------------------- MODULE Bcache -------------------------------
(***************************************************************************)
(* The buffer cache (kernel/bio.c) with the sleep-locks of its buffers     *)
(* (kernel/sleeplock.c).  A section under bcache.lock or under the spin-   *)
(* lock of a sleep-lock is one step; between bget()'s choice of a buffer   *)
(* and its acquiresleep(), and between releasesleep() and the rest of      *)
(* brelse(), other processes run.                                          *)
(*                                                                         *)
(* The callers are the log and the file system: whoever changes a buffer   *)
(* either pins it (log_write()) or writes it to the disk at once           *)
(* (install_trans()) before releasing it, and a process that already has   *)
(* a buffer asks only for blocks that come later in one order.             *)
(***************************************************************************)
EXTENDS Naturals, FiniteSets

CONSTANTS
  Procs, Nobody,
  NBLOCK,      \* blocks of the disk, numbered from 1
  Vals,
  NBUF,
  MaxHeld,     \* buffers a process may have at a time
  MaxPinned    \* blocks the log may have pinned at a time

ASSUME BcacheAssumption ==
  /\ NBLOCK \in Nat /\ NBUF \in Nat \ {0} /\ MaxHeld \in Nat /\ MaxPinned \in Nat
  /\ IsFiniteSet(Procs) /\ Nobody \notin Procs

VARIABLES
  blockno, valid, refcnt, data, locked,  \* struct buf; locked: who has its sleep-lock
  lru,                                   \* the list from bcache.head.next to .prev
  disk,
  pinned,                                \* the blocks that are bpin()ned
  pc, want, cur, hold,                   \* a process: place, block asked for, its buffer, buffers it has
  panic

bufs == <<blockno, valid, data>>
vars == <<blockno, valid, refcnt, data, locked, lru, disk, pinned, pc, want, cur, hold, panic>>

Blocks == 1 .. NBLOCK
Bufs == 1 .. NBUF

\* binit(): no buffer has a block, and each new one is put at the head.
Init ==
  /\ disk \in [Blocks -> Vals]
  /\ blockno = [k \in Bufs |-> 0] /\ valid = [k \in Bufs |-> FALSE]
  /\ refcnt = [k \in Bufs |-> 0]
  /\ \E v \in Vals : data = [k \in Bufs |-> v]
  /\ locked = [k \in Bufs |-> Nobody]
  /\ lru = [k \in Bufs |-> NBUF + 1 - k]
  /\ pinned = {}
  /\ pc = [p \in Procs |-> "run"] /\ want = [p \in Procs |-> 0]
  /\ cur = [p \in Procs |-> 0] /\ hold = [p \in Procs |-> {}]
  /\ panic = "none"

-----------------------------------------------------------------------------
(* bread().                                                                *)

Cached(b) == {k \in Bufs : blockno[k] = b}

Unused == {i \in Bufs : refcnt[lru[i]] = 0}

\* The least recently used buffer nobody refers to.
Victim(k) == \E i \in Unused : lru[i] = k /\ \A j \in Unused : j <= i

\* Mutant: the count is not raised until the lock is held.
BgetCachedNoRef(p, b) ==
  /\ \E k \in Cached(b) : cur' = [cur EXCEPT ![p] = k]
  /\ pc' = [pc EXCEPT ![p] = "lock"]
  /\ UNCHANGED <<bufs, refcnt, panic>>

BgetCached(p, b) ==
  /\ \E k \in Cached(b) : /\ refcnt' = [refcnt EXCEPT ![k] = @ + 1]
                          /\ cur' = [cur EXCEPT ![p] = k]
  /\ pc' = [pc EXCEPT ![p] = "lock"]
  /\ UNCHANGED <<bufs, panic>>

\* Mutant: the recycled buffer still counts as valid.
BgetRecycleValid(p, b) ==
  /\ Cached(b) = {}
  /\ \E k \in Bufs : /\ Victim(k)
                     /\ blockno' = [blockno EXCEPT ![k] = b]
                     /\ refcnt' = [refcnt EXCEPT ![k] = 1]
                     /\ cur' = [cur EXCEPT ![p] = k]
  /\ pc' = [pc EXCEPT ![p] = "lock"]
  /\ UNCHANGED <<valid, data, panic>>

BgetRecycle(p, b) ==
  /\ Cached(b) = {}
  /\ \E k \in Bufs : /\ Victim(k)
                     /\ blockno' = [blockno EXCEPT ![k] = b]
                     /\ valid' = [valid EXCEPT ![k] = FALSE]
                     /\ refcnt' = [refcnt EXCEPT ![k] = 1]
                     /\ cur' = [cur EXCEPT ![p] = k]
  /\ pc' = [pc EXCEPT ![p] = "lock"]
  /\ UNCHANGED <<data, panic>>

BgetPanic(b) ==
  /\ Cached(b) = {} /\ Unused = {}
  /\ panic' = "bget_no_buffers"
  /\ UNCHANGED <<bufs, refcnt, cur, pc>>

\* The section of bget() under bcache.lock.
bget(p, b) ==
  /\ pc[p] = "run" /\ Cardinality(hold[p]) < MaxHeld
  /\ \A k \in hold[p] : blockno[k] < b
  /\ BgetCached(p, b) \/ BgetRecycle(p, b) \/ BgetPanic(b)
  /\ want' = [want EXCEPT ![p] = b]
  /\ UNCHANGED <<locked, lru, disk, pinned, hold>>

acquiresleep(p) ==
  /\ pc[p] = "lock"
  /\ IF locked[cur[p]] # Nobody
       THEN pc' = [pc EXCEPT ![p] = "asleep"] /\ UNCHANGED locked
       ELSE /\ locked' = [locked EXCEPT ![cur[p]] = p]
            /\ pc' = [pc EXCEPT ![p] = IF valid[cur[p]] THEN "have" ELSE "read"]
  /\ UNCHANGED <<bufs, refcnt, lru, disk, pinned, want, cur, hold, panic>>

\* virtio_disk_rw(b, 0) in bread().
ReadDisk(p) ==
  /\ pc[p] = "read"
  /\ data' = [data EXCEPT ![cur[p]] = disk[blockno[cur[p]]]]
  /\ pc' = [pc EXCEPT ![p] = "have"]
  /\ UNCHANGED <<blockno, valid, refcnt, locked, lru, disk, pinned, want, cur, hold, panic>>

\* bread() returns.
bread(p) ==
  /\ pc[p] = "have"
  /\ valid' = [valid EXCEPT ![cur[p]] = TRUE]
  /\ hold' = [hold EXCEPT ![p] = @ \cup {cur[p]}]
  /\ cur' = [cur EXCEPT ![p] = 0] /\ want' = [want EXCEPT ![p] = 0]
  /\ pc' = [pc EXCEPT ![p] = "run"]
  /\ UNCHANGED <<blockno, refcnt, data, locked, lru, disk, pinned, panic>>

-----------------------------------------------------------------------------
(* What a process does with a buffer it has.                               *)

Has(p, k) == pc[p] = "run" /\ k \in hold[p]

\* A change of b->data and log_write(b), whose bpin() is made once per block.
LogWrite(p, k, v) ==
  /\ Has(p, k)
  /\ blockno[k] \in pinned \/ Cardinality(pinned) < MaxPinned
  /\ data' = [data EXCEPT ![k] = v]
  /\ refcnt' = IF blockno[k] \in pinned THEN refcnt ELSE [refcnt EXCEPT ![k] = @ + 1]
  /\ pinned' = pinned \cup {blockno[k]}
  /\ UNCHANGED <<blockno, valid, locked, lru, disk, pc, want, cur, hold, panic>>

bwrite(p, k) ==
  /\ Has(p, k)
  /\ disk' = [disk EXCEPT ![blockno[k]] = data[k]]
  /\ UNCHANGED <<bufs, refcnt, locked, lru, pinned, pc, want, cur, hold, panic>>

\* install_trans() unpins a block it has just written.
bunpin(p, k) ==
  /\ Has(p, k) /\ blockno[k] \in pinned /\ disk[blockno[k]] = data[k]
  /\ refcnt' = [refcnt EXCEPT ![k] = @ - 1]
  /\ pinned' = pinned \ {blockno[k]}
  /\ UNCHANGED <<bufs, locked, lru, disk, pc, want, cur, hold, panic>>

\* Mutant: wakeup() is forgotten.
BrelseSilently(p, k) ==
  /\ Has(p, k)
  /\ locked' = [locked EXCEPT ![k] = Nobody]
  /\ pc' = [pc EXCEPT ![p] = "put"]
  /\ cur' = [cur EXCEPT ![p] = k] /\ hold' = [hold EXCEPT ![p] = @ \ {k}]
  /\ UNCHANGED <<bufs, refcnt, lru, disk, pinned, want, panic>>

\* brelse(), first half: releasesleep(), which wakes everyone who waits for k.
brelse(p, k) ==
  /\ Has(p, k)
  /\ locked' = [locked EXCEPT ![k] = Nobody]
  /\ pc' = [q \in Procs |-> IF q = p THEN "put"
                            ELSE IF pc[q] = "asleep" /\ cur[q] = k THEN "lock" ELSE pc[q]]
  /\ cur' = [cur EXCEPT ![p] = k] /\ hold' = [hold EXCEPT ![p] = @ \ {k}]
  /\ UNCHANGED <<bufs, refcnt, lru, disk, pinned, want, panic>>

\* Buffer k is taken out of the list and put in again at its head.
ToHead(list, k) ==
  LET was == CHOOSE i \in DOMAIN list : list[i] = k
  IN  [i \in DOMAIN list |-> IF i = 1 THEN k ELSE IF i <= was THEN list[i - 1] ELSE list[i]]

\* brelse(), second half: a buffer nobody refers to becomes the most recent.
BrelsePut(p) ==
  /\ pc[p] = "put"
  /\ refcnt' = [refcnt EXCEPT ![cur[p]] = @ - 1]
  /\ lru' = IF refcnt'[cur[p]] = 0 THEN ToHead(lru, cur[p]) ELSE lru
  /\ pc' = [pc EXCEPT ![p] = "run"] /\ cur' = [cur EXCEPT ![p] = 0]
  /\ UNCHANGED <<bufs, locked, disk, pinned, want, hold, panic>>

-----------------------------------------------------------------------------
\* The steps of bread() and brelse() that follow their start.
Continue(p) == acquiresleep(p) \/ ReadDisk(p) \/ bread(p) \/ BrelsePut(p)

Use(p) ==
  \/ \E b \in Blocks : bget(p, b)
  \/ \E k \in Bufs : bwrite(p, k) \/ bunpin(p, k) \/ brelse(p, k) \/ \E v \in Vals : LogWrite(p, k, v)

\* A panic() never returns.
Halted == panic # "none" /\ UNCHANGED vars

Next == (panic = "none" /\ \E p \in Procs : Continue(p) \/ Use(p)) \/ Halted

Spec == Init /\ [][Next]_vars

-----------------------------------------------------------------------------
(* Properties.                                                             *)

\* The list loses no buffer.
HasEveryBuf(list) == list \in [Bufs -> Bufs] /\ \A k \in Bufs : \E i \in Bufs : list[i] = k

\* The type of the state; the list always has every buffer once.
TypeOK ==
  /\ blockno \in [Bufs -> Blocks \cup {0}] /\ valid \in [Bufs -> BOOLEAN]
  /\ refcnt \in [Bufs -> Nat] /\ data \in [Bufs -> Vals]
  /\ locked \in [Bufs -> Procs \cup {Nobody}]
  /\ HasEveryBuf(lru)
  /\ disk \in [Blocks -> Vals] /\ pinned \subseteq Blocks
  /\ pc \in [Procs -> {"run", "lock", "asleep", "read", "have", "put"}]
  /\ want \in [Procs -> Blocks \cup {0}] /\ cur \in [Procs -> Bufs \cup {0}]
  /\ hold \in [Procs -> SUBSET Bufs]
  /\ panic \in {"none", "bget_no_buffers"}

\* refcnt counts exactly the processes that have the buffer, wait for it or
\* are releasing it, and the pin of the log: so bget() recycles a buffer
\* when, and only when, nobody has a use for it.
RefcntExact ==
  /\ TypeOK
  /\ \A k \in Bufs :
       refcnt[k] = Cardinality({p \in Procs : cur[p] = k \/ k \in hold[p]})
                     + (IF blockno[k] \in pinned THEN 1 ELSE 0)

\* The current contents of a block, and the process that has it.
Contents ==
  [b \in Blocks |-> IF \E k \in Cached(b) : valid[k]
                      THEN data[CHOOSE k \in Cached(b) : valid[k]] ELSE disk[b]]
Holder ==
  [b \in Blocks |-> IF Cached(b) = {} THEN Nobody ELSE locked[CHOOSE k \in Cached(b) : TRUE]]

\* The buffer cache implements a plain store of blocks: recycling buffers is
\* never seen, no change is lost, and a block has one holder at a time.
Store == INSTANCE BlockStore WITH contents <- Contents, home <- disk, holder <- Holder
CacheIsStore == Store!Spec

\* Whoever sleeps in acquiresleep() waits for a buffer that somebody has:
\* the wake-up of releasesleep() is never lost.
SleepersHaveHolder == \A p \in Procs : pc[p] = "asleep" => locked[cur[p]] # Nobody
=============================================================================
