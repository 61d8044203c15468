---------------------------- MODULE BcacheProof -----------------------------
(***************************************************************************)
(* Proofs about the buffer cache, for any number of processes, blocks and  *)
(* buffers: reference counts are exact, nobody sleeps for a buffer that is *)
(* free, and the cache implements a plain store of blocks (BlockStore).    *)
(***************************************************************************)
EXTENDS Bcache, FiniteSetTheorems, TLAPS

-----------------------------------------------------------------------------
(* The inductive invariant.                                                *)

\* The processes that refcnt[k] has to count.
Users(k) == {p \in Procs : cur[p] = k \/ k \in hold[p]}

\* A process between bread() and brelse() has a buffer, with a block in it,
\* that is none of those it holds.
CurInv ==
  \A p \in Procs :
    /\ pc[p] = "run" <=> cur[p] = 0
    /\ cur[p] \notin hold[p]
    /\ cur[p] # 0 => blockno[cur[p]] # 0

\* At most one buffer per block: bget() scans the whole list first.
UniqueInv == \A j, k \in Bufs : blockno[j] = blockno[k] /\ blockno[k] # 0 => j = k

\* Exactly the owner of a buffer's sleep-lock is between acquiresleep() and
\* releasesleep().
LockInv ==
  \A k \in Bufs, p \in Procs :
    locked[k] = p <=> k \in hold[p] \/ (cur[p] = k /\ pc[p] \in {"read", "have"})

\* A buffer that a process has is valid; one it is about to read is not, and
\* none is without a block.
ValidInv ==
  /\ \A p \in Procs : \A k \in hold[p] : valid[k]
  /\ \A p \in Procs : pc[p] = "read" => ~valid[cur[p]]
  /\ \A k \in Bufs : valid[k] => blockno[k] # 0

\* A pinned block stays in the cache.
PinInv == \A b \in pinned : \E k \in Bufs : blockno[k] = b /\ valid[k]

\* What is not pinned is on the disk, and so is what has just been read.
DataInv ==
  /\ \A k \in Bufs : valid[k] /\ blockno[k] \notin pinned => data[k] = disk[blockno[k]]
  /\ \A p \in Procs : pc[p] = "have" /\ ~valid[cur[p]] => data[cur[p]] = disk[blockno[cur[p]]]

\* A buffer's count is that of its users, and one for a pin.
CountInv ==
  \A k \in Bufs :
    refcnt[k] = Cardinality(Users(k)) + (IF blockno[k] \in pinned THEN 1 ELSE 0)

\* The inductive invariant.
BcacheInv ==
  /\ TypeOK /\ CountInv /\ SleepersHaveHolder
  /\ CurInv /\ UniqueInv /\ LockInv /\ ValidInv /\ PinInv /\ DataInv

-----------------------------------------------------------------------------
(* The list of buffers.                                                    *)

\* brelse() moves a buffer to the head and loses none.
LEMMA ToHeadKeeps ==
  ASSUME NEW s, HasEveryBuf(s), NEW k \in Bufs
  PROVE  HasEveryBuf(ToHead(s, k))
<1> DEFINE was == CHOOSE i \in DOMAIN s : s[i] = k
           t == ToHead(s, k)
<1>1. s \in [Bufs -> Bufs] /\ DOMAIN s = Bufs /\ \A j \in Bufs : \E i \in Bufs : s[i] = j
  BY ZenonT(30) DEF HasEveryBuf
<1>2. was \in Bufs /\ s[was] = k
  BY ZenonT(30), <1>1
<1>3. t = [i \in DOMAIN s |-> IF i = 1 THEN k ELSE IF i <= was THEN s[i - 1] ELSE s[i]]
  BY ZenonT(30) DEF ToHead
<1> HIDE DEF was, t
<1>4. /\ t \in [Bufs -> Bufs]
      /\ t[1] = k /\ 1 \in Bufs
      /\ \A i \in Bufs : i # 1 /\ i <= was => t[i] = s[i - 1]
      /\ \A i \in Bufs : i # 1 /\ i > was => t[i] = s[i]
  <2>1. \A i \in Bufs : i # 1 => i - 1 \in Bufs
    BY BcacheAssumption DEF Bufs
  <2>2. 1 \in Bufs /\ \A i \in Bufs : i > was <=> ~(i <= was)
    BY <1>2, BcacheAssumption DEF Bufs
  <2> QED BY ZenonT(30), <1>1, <1>3, <2>1, <2>2
<1>5. ASSUME NEW j \in Bufs PROVE \E i \in Bufs : t[i] = j
  <2>1. PICK n \in Bufs : s[n] = j
    BY ZenonT(30), <1>1
  <2>2. CASE n < was
    <3>1. n + 1 \in Bufs /\ n + 1 # 1 /\ n + 1 <= was /\ (n + 1) - 1 = n
      BY <1>2, <2>2, BcacheAssumption DEF Bufs
    <3> QED BY ZenonT(30), <1>4, <2>1, <3>1
  <2>3. CASE n = was
    BY ZenonT(30), <1>2, <1>4, <2>1, <2>3
  <2>4. CASE n > was
    <3>1. n # 1
      BY <1>2, <2>4, BcacheAssumption DEF Bufs
    <3> QED BY ZenonT(30), <1>4, <2>1, <2>4, <3>1
  <2> QED BY <1>2, <2>2, <2>3, <2>4, BcacheAssumption DEF Bufs
<1> QED BY ZenonT(30), <1>4, <1>5 DEF t, HasEveryBuf

-----------------------------------------------------------------------------
(* Counting.                                                               *)

\* The users of a buffer can be counted.
LEMMA UsersFinite == ASSUME NEW k PROVE IsFiniteSet(Users(k)) /\ Cardinality(Users(k)) \in Nat
BY ZenonT(30), BcacheAssumption, FS_Subset, FS_CardinalityType DEF Users

\* A buffer whose count is 0 has no user, no pin and no owner.
LEMMA Unreferenced ==
  ASSUME BcacheInv, NEW k \in Bufs, refcnt[k] = 0
  PROVE  Users(k) = {} /\ blockno[k] \notin pinned /\ locked[k] = Nobody
<1>1. Cardinality(Users(k)) = 0 /\ blockno[k] \notin pinned
  BY UsersFinite DEF BcacheInv, CountInv
<1>2. Users(k) = {}
  BY ZenonT(30), <1>1, UsersFinite, FS_EmptySet
<1>3. ASSUME NEW p \in Procs PROVE locked[k] # p
  <2>1. cur[p] # k /\ k \notin hold[p]
    BY ZenonT(30), <1>2 DEF Users
  <2> QED BY ZenonT(30), <2>1 DEF BcacheInv, LockInv
<1> QED BY ZenonT(30), <1>1, <1>2, <1>3 DEF BcacheInv, TypeOK

\* A process in bread() or brelse() has a buffer with a block; from the moment
\* it has the lock it is the owner.
LEMMA InUse ==
  ASSUME BcacheInv
  PROVE  /\ 0 \notin Bufs
         /\ \A p \in Procs : hold[p] \subseteq Bufs /\ \A k \in hold[p] : locked[k] = p
         /\ \A p \in Procs : pc[p] # "run" => cur[p] \in Bufs /\ blockno[cur[p]] \in Blocks
         /\ \A p \in Procs : pc[p] \in {"read", "have"} => locked[cur[p]] = p
<1>1. \A p \in Procs : pc[p] # "run" => cur[p] \in Bufs /\ blockno[cur[p]] \in Blocks
  BY ZenonT(30) DEF BcacheInv, TypeOK, CurInv
<1>2. \A p \in Procs : pc[p] \in {"read", "have"} => locked[cur[p]] = p
  BY ZenonT(30), <1>1 DEF BcacheInv, LockInv
<1>3. \A p \in Procs : hold[p] \subseteq Bufs
  BY ZenonT(30) DEF BcacheInv, TypeOK
<1>4. \A p \in Procs : \A k \in hold[p] : locked[k] = p
  BY ZenonT(30), <1>3 DEF BcacheInv, LockInv
<1>5. 0 \notin Bufs
  BY BcacheAssumption DEF Bufs
<1> QED BY ZenonT(30), <1>1, <1>2, <1>3, <1>4, <1>5

-----------------------------------------------------------------------------
(* Every action keeps the invariant.                                       *)

\* The initial states satisfy the invariant.
LEMMA InitBcacheInv == Init => BcacheInv
<1> SUFFICES ASSUME Init PROVE BcacheInv
  BY ZenonT(30)
<1> USE DEF Init
<1>1. HasEveryBuf(lru)
  <2>1. \A k \in Bufs : NBUF + 1 - k \in Bufs /\ NBUF + 1 - (NBUF + 1 - k) = k
    BY BcacheAssumption DEF Bufs
  <2> QED BY ZenonT(30), <2>1 DEF HasEveryBuf
<1>2. TypeOK
  BY ZenonT(30), <1>1 DEF TypeOK
<1>3. CountInv
  <2>1. \A k \in Bufs : Users(k) = {}
    BY BcacheAssumption DEF Users, Bufs
  <2>2. Cardinality({}) = 0
    BY FS_EmptySet
  <2>3. \A k \in Bufs : Cardinality(Users(k)) = 0
    BY ZenonT(30), <2>1, <2>2
  <2>4. \A k \in Bufs : refcnt[k] = 0 /\ blockno[k] \notin pinned
    OBVIOUS
  <2> HIDE DEF Init
  <2> QED BY <2>3, <2>4 DEF CountInv
<1>4. SleepersHaveHolder /\ CurInv /\ UniqueInv /\ ValidInv /\ PinInv /\ DataInv
  BY ZenonT(30) DEF SleepersHaveHolder, CurInv, UniqueInv, ValidInv, PinInv, DataInv
<1>5. LockInv
  BY ZenonT(30), BcacheAssumption DEF LockInv
<1> QED BY ZenonT(30), <1>1, <1>2, <1>3, <1>4, <1>5 DEF BcacheInv

\* acquiresleep() keeps the invariant: it takes a lock that is free, or sleeps
\* on one that is not.
LEMMA AcquireKeeps == ASSUME BcacheInv, NEW p \in Procs, acquiresleep(p) PROVE BcacheInv'
<1> USE DEF BcacheInv
<1>1. cur[p] \in Bufs /\ pc[p] = "lock" /\ \A q \in Procs : pc[q] # "run" => cur[q] \in Bufs
  BY ZenonT(30) DEF TypeOK, CurInv, acquiresleep
<1>2. UNCHANGED <<blockno, valid, data, refcnt, lru, disk, pinned, want, cur, hold, panic>>
  BY ZenonT(30) DEF acquiresleep, bufs
<1>3. TypeOK'
  BY ZenonT(30), <1>1, <1>2 DEF TypeOK, acquiresleep
<1>4. /\ pc'[p] \in {"asleep", "read", "have"}
      /\ \A q \in Procs \ {p} : pc'[q] = pc[q]
      /\ \A k \in Bufs \ {cur[p]} : locked'[k] = locked[k]
      /\ pc'[p] = "asleep" => locked' = locked /\ locked[cur[p]] # Nobody
      /\ pc'[p] = "read" => ~valid[cur[p]]
      /\ pc'[p] = "have" => valid[cur[p]]
      /\ pc'[p] \in {"read", "have"} => locked[cur[p]] = Nobody /\ locked'[cur[p]] = p
  BY ZenonT(30), <1>1 DEF TypeOK, acquiresleep
<1>5. CountInv'
  BY ZenonT(30), <1>2 DEF CountInv, Users
<1>6. CurInv'
  BY ZenonT(30), <1>1, <1>2, <1>4 DEF CurInv
<1>7. LockInv'
  <2> SUFFICES ASSUME NEW k \in Bufs, NEW q \in Procs
               PROVE  locked'[k] = q <=> k \in hold[q] \/ (cur[q] = k /\ pc'[q] \in {"read", "have"})
    BY ZenonT(30), <1>2 DEF LockInv
  <2>1. locked[k] = q <=> k \in hold[q] \/ (cur[q] = k /\ pc[q] \in {"read", "have"})
    BY ZenonT(30) DEF LockInv
  <2> QED BY <1>1, <1>4, <2>1, BcacheAssumption
<1>8. SleepersHaveHolder'
  BY <1>1, <1>2, <1>4, BcacheAssumption DEF SleepersHaveHolder
<1>9. ValidInv'
  BY ZenonT(30), <1>1, <1>2, <1>4 DEF ValidInv
<1>10. DataInv'
  BY <1>1, <1>2, <1>4 DEF DataInv
<1>11. UniqueInv' /\ PinInv'
  BY ZenonT(30), <1>2 DEF UniqueInv, PinInv
<1> QED BY ZenonT(30), <1>3, <1>5, <1>6, <1>7, <1>8, <1>9, <1>10, <1>11

\* Reading the block from the disk keeps the invariant: the buffer is not valid
\* yet, so nobody else has seen it.
LEMMA ReadDiskKeeps == ASSUME BcacheInv, NEW p \in Procs, ReadDisk(p) PROVE BcacheInv'
<1> USE DEF BcacheInv
<1>1. cur[p] \in Bufs /\ pc[p] = "read" /\ ~valid[cur[p]] /\ blockno[cur[p]] \in Blocks
  BY ZenonT(30) DEF TypeOK, CurInv, ReadDisk, ValidInv
<1>2. UNCHANGED <<blockno, valid, refcnt, locked, lru, disk, pinned, want, cur, hold, panic>>
  BY ZenonT(30) DEF ReadDisk
<1>3. TypeOK'
  BY ZenonT(30), <1>1, <1>2 DEF TypeOK, ReadDisk
<1>4. /\ pc'[p] = "have" /\ \A q \in Procs \ {p} : pc'[q] = pc[q]
      /\ data'[cur[p]] = disk[blockno[cur[p]]] /\ \A k \in Bufs \ {cur[p]} : data'[k] = data[k]
  BY ZenonT(30), <1>1 DEF TypeOK, ReadDisk
<1>5. CountInv' /\ UniqueInv' /\ PinInv'
  BY <1>2 DEF CountInv, Users, UniqueInv, PinInv
<1>6. CurInv'
  BY ZenonT(30), <1>1, <1>2, <1>4 DEF CurInv
<1>7. LockInv'
  BY <1>1, <1>2, <1>4 DEF LockInv
<1>8. SleepersHaveHolder'
  BY ZenonT(30), <1>1, <1>2, <1>4 DEF SleepersHaveHolder
<1>9. ValidInv'
  BY ZenonT(30), <1>1, <1>2, <1>4 DEF ValidInv
<1>10. DataInv'
  <2>1. \A q \in Procs \ {p} : pc[q] = "have" => cur[q] \in Bufs \ {cur[p]}
    BY ZenonT(30), <1>1, InUse
  <2> QED BY ZenonT(30), <1>1, <1>2, <1>4, <2>1 DEF DataInv
<1> QED BY ZenonT(30), <1>3, <1>5, <1>6, <1>7, <1>8, <1>9, <1>10

\* The return of bread() keeps the invariant: the process has the buffer now, and
\* what it has is what the disk, or a holder before it, made of the block.
LEMMA BreadKeeps == ASSUME BcacheInv, NEW p \in Procs, bread(p) PROVE BcacheInv'
<1> USE DEF BcacheInv
<1> DEFINE k == cur[p]
<1>1. k \in Bufs /\ pc[p] = "have" /\ k \notin hold[p] /\ blockno[k] # 0 /\ locked[k] = p
  BY ZenonT(30), InUse DEF CurInv, bread
<1>2. UNCHANGED <<blockno, refcnt, data, locked, lru, disk, pinned, panic>>
  BY ZenonT(30) DEF bread
<1>3. TypeOK'
  BY ZenonT(30), <1>1, <1>2 DEF TypeOK, bread
<1>4. /\ pc'[p] = "run" /\ \A q \in Procs \ {p} : pc'[q] = pc[q]
      /\ cur'[p] = 0 /\ \A q \in Procs \ {p} : cur'[q] = cur[q]
      /\ hold'[p] = hold[p] \cup {k} /\ \A q \in Procs \ {p} : hold'[q] = hold[q]
      /\ valid'[k] = TRUE /\ \A j \in Bufs \ {k} : valid'[j] = valid[j]
  BY ZenonT(30), <1>1 DEF TypeOK, bread
<1> HIDE DEF k
<1>5. 0 \notin Bufs /\ \A q \in Procs : hold[q] \subseteq Bufs
  BY ZenonT(30), InUse
<1>6. CountInv'
  <2>1. ASSUME NEW j \in Bufs PROVE Users(j)' = Users(j)
    BY <1>1, <1>4, <1>5 DEF Users, k
  <2> QED BY ZenonT(30), <1>2, <2>1 DEF CountInv
<1>7. UniqueInv' /\ PinInv'
  BY <1>1, <1>2, <1>4 DEF UniqueInv, PinInv
<1>8. CurInv'
  BY <1>1, <1>2, <1>4, <1>5 DEF CurInv
<1>9. LockInv'
  <2> SUFFICES ASSUME NEW j \in Bufs, NEW q \in Procs
               PROVE  locked[j] = q <=> j \in hold'[q] \/ (cur'[q] = j /\ pc'[q] \in {"read", "have"})
    BY ZenonT(30), <1>2 DEF LockInv
  <2>1. locked[j] = q <=> j \in hold[q] \/ (cur[q] = j /\ pc[q] \in {"read", "have"})
    BY ZenonT(30) DEF LockInv
  <2> QED BY <1>1, <1>4, <2>1 DEF k
<1>10. SleepersHaveHolder'
  BY <1>2, <1>4 DEF SleepersHaveHolder
<1>11. ValidInv'
  <2>1. \A q \in Procs : pc[q] = "read" => q = p \/ cur[q] \in Bufs \ {k}
    BY ZenonT(30), <1>1, InUse
  <2> QED BY <1>1, <1>2, <1>4, <1>5, <2>1 DEF ValidInv
<1>12. DataInv'
  <2>1. \A q \in Procs \ {p} : pc[q] = "have" => cur[q] \in Bufs \ {k}
    BY ZenonT(30), <1>1, InUse
  <2>2. valid[k] \/ data[k] = disk[blockno[k]]
    BY ZenonT(30), <1>1 DEF DataInv, k
  <2> QED BY <1>1, <1>2, <1>4, <2>1, <2>2 DEF DataInv
<1> QED BY ZenonT(30), <1>3, <1>6, <1>7, <1>8, <1>9, <1>10, <1>11, <1>12

\* The first half of brelse() keeps the invariant: releasesleep() makes everyone
\* who sleeps for the buffer try again.
LEMMA BrelseKeeps == ASSUME BcacheInv, NEW p \in Procs, NEW k \in Bufs, brelse(p, k) PROVE BcacheInv'
<1> USE DEF BcacheInv
<1>1. pc[p] = "run" /\ k \in hold[p] /\ cur[p] = 0 /\ locked[k] = p /\ blockno[k] # 0
  BY ZenonT(30), InUse DEF brelse, Has, CurInv, ValidInv
<1>2. UNCHANGED <<blockno, valid, data, refcnt, lru, disk, pinned, want, panic>>
  BY ZenonT(30) DEF brelse, bufs
<1>3. TypeOK'
  BY ZenonT(30), <1>1, <1>2 DEF TypeOK, brelse
<1>4. /\ pc'[p] = "put" /\ cur'[p] = k /\ hold'[p] = hold[p] \ {k}
      /\ \A q \in Procs \ {p} : cur'[q] = cur[q] /\ hold'[q] = hold[q]
      /\ \A q \in Procs \ {p} : pc'[q] = IF pc[q] = "asleep" /\ cur[q] = k THEN "lock" ELSE pc[q]
      /\ locked'[k] = Nobody /\ \A j \in Bufs \ {k} : locked'[j] = locked[j]
  BY ZenonT(30), <1>1 DEF TypeOK, brelse
<1>5. 0 \notin Bufs
  BY ZenonT(30), InUse
<1>6. CountInv'
  <2>1. ASSUME NEW j \in Bufs PROVE Users(j)' = Users(j)
    BY <1>1, <1>4, <1>5 DEF Users
  <2> QED BY ZenonT(30), <1>2, <2>1 DEF CountInv
<1>7. UniqueInv' /\ PinInv'
  BY ZenonT(30), <1>2 DEF UniqueInv, PinInv
<1>8. CurInv'
  <2>1. \A q \in Procs \ {p} : pc'[q] = "run" <=> pc[q] = "run"
    BY ZenonT(30), <1>4
  <2> QED BY <1>1, <1>2, <1>4, <1>5, <2>1 DEF CurInv
<1>9. LockInv'
  <2> SUFFICES ASSUME NEW j \in Bufs, NEW q \in Procs
               PROVE  locked'[j] = q <=> j \in hold'[q] \/ (cur'[q] = j /\ pc'[q] \in {"read", "have"})
    BY ZenonT(30) DEF LockInv
  <2>1. locked[j] = q <=> j \in hold[q] \/ (cur[q] = j /\ pc[q] \in {"read", "have"})
    BY ZenonT(30) DEF LockInv
  <2>2. CASE j = k
    BY ZenonT(30), <1>1, <1>4, <2>1, <2>2, BcacheAssumption
  <2>3. CASE j # k
    BY ZenonT(30), <1>1, <1>4, <1>5, <2>1, <2>3
  <2> QED BY ZenonT(30), <2>2, <2>3
<1>10. SleepersHaveHolder'
  <2> SUFFICES ASSUME NEW q \in Procs, pc'[q] = "asleep" PROVE locked'[cur'[q]] # Nobody
    BY ZenonT(30) DEF SleepersHaveHolder
  <2>1. q # p /\ pc[q] = "asleep" /\ cur'[q] = cur[q] /\ cur[q] # k
    BY ZenonT(30), <1>4
  <2>2. cur[q] \in Bufs
    BY ZenonT(30), <2>1, InUse
  <2> QED BY <1>4, <2>1, <2>2 DEF SleepersHaveHolder
<1>11. ValidInv' /\ DataInv'
  <2>1. \A q \in Procs : pc'[q] \in {"read", "have"} => q # p /\ pc[q] = pc'[q] /\ cur'[q] = cur[q]
    BY ZenonT(30), <1>4
  <2>2. \A q \in Procs : hold'[q] \subseteq hold[q]
    BY ZenonT(30), <1>4
  <2>3. ValidInv'
    BY ZenonT(30), <1>2, <2>1, <2>2 DEF ValidInv
  <2>4. DataInv'
    BY ZenonT(30), <1>2, <2>1 DEF DataInv
  <2> QED BY ZenonT(30), <2>3, <2>4
<1> QED BY ZenonT(30), <1>3, <1>6, <1>7, <1>8, <1>9, <1>10, <1>11

\* The second half of brelse() keeps the invariant: the count goes down by the
\* one user that has gone, and the list still has every buffer.
LEMMA BrelsePutKeeps == ASSUME BcacheInv, NEW p \in Procs, BrelsePut(p) PROVE BcacheInv'
<1> USE DEF BcacheInv
<1>1. PICK k \in Bufs : k = cur[p] /\ pc[p] = "put" /\ k \notin hold[p]
  BY ZenonT(30), InUse DEF BrelsePut, CurInv
<1>2. UNCHANGED <<blockno, valid, data, locked, disk, pinned, want, hold, panic>>
  BY ZenonT(30) DEF BrelsePut, bufs
<1>3. /\ Users(k)' = Users(k) \ {p} /\ p \in Users(k)
      /\ \A j \in Bufs \ {k} : Users(j)' = Users(j)
  <2>1. /\ cur'[p] = 0 /\ k \notin hold'[p] /\ 0 \notin Bufs
        /\ \A q \in Procs \ {p} : cur'[q] = cur[q]
    BY ZenonT(30), <1>1, <1>2, InUse DEF BrelsePut, TypeOK
  <2> QED BY ZenonT(30), <1>1, <1>2, <2>1 DEF Users
<1>4. /\ refcnt'[k] = refcnt[k] - 1 /\ refcnt[k] > 0
      /\ Cardinality(Users(k)') = Cardinality(Users(k)) - 1
      /\ \A j \in Bufs \ {k} : refcnt'[j] = refcnt[j]
  <2>1. Cardinality(Users(k)') = Cardinality(Users(k)) - 1
    BY ZenonT(30), <1>3, UsersFinite, FS_RemoveElement
  <2>2. Cardinality(Users(k)) # 0
    BY ZenonT(30), <1>3, UsersFinite, FS_EmptySet
  <2>3. refcnt[k] > 0
    BY <1>1, <2>2, UsersFinite DEF CountInv
  <2> QED BY ZenonT(30), <1>1, <2>1, <2>3 DEF BrelsePut, TypeOK
<1>5. /\ pc' \in [Procs -> {"run", "lock", "asleep", "read", "have", "put"}]
      /\ pc'[p] = "run" /\ \A q \in Procs \ {p} : pc'[q] = pc[q]
      /\ cur' \in [Procs -> Bufs \cup {0}]
      /\ cur'[p] = 0 /\ \A q \in Procs \ {p} : cur'[q] = cur[q]
  BY ZenonT(30) DEF BrelsePut, TypeOK
<1>6. TypeOK'
  <2>1. lru' = ToHead(lru, k) \/ lru' = lru
    BY ZenonT(30), <1>1 DEF BrelsePut
  <2>2. HasEveryBuf(lru')
    <3>1. HasEveryBuf(lru)
      BY ZenonT(30) DEF TypeOK
    <3>2. HasEveryBuf(ToHead(lru, k))
      BY ZenonT(30), <3>1, ToHeadKeeps
    <3> QED BY ZenonT(30), <2>1, <3>1, <3>2
  <2>3. refcnt' \in [Bufs -> Nat]
    <3>1. refcnt \in [Bufs -> Nat] /\ refcnt[k] - 1 \in Nat
      <4>1. refcnt \in [Bufs -> Nat]
        BY ZenonT(30) DEF TypeOK
      <4> HIDE DEF BcacheInv
      <4> QED BY <1>4, <4>1
    <3>2. refcnt' = [refcnt EXCEPT ![k] = refcnt[k] - 1]
      BY ZenonT(30), <1>1 DEF BrelsePut
    <3> QED BY ZenonT(30), <3>1, <3>2
  <2> QED BY ZenonT(30), <1>2, <1>5, <2>2, <2>3 DEF TypeOK
<1>7. CountInv'
  <2> SUFFICES ASSUME NEW j \in Bufs
               PROVE  refcnt'[j] = Cardinality(Users(j)') + (IF blockno[j] \in pinned THEN 1 ELSE 0)
    BY ZenonT(30), <1>2 DEF CountInv
  <2>1. refcnt[j] = Cardinality(Users(j)) + (IF blockno[j] \in pinned THEN 1 ELSE 0)
    BY ZenonT(30) DEF CountInv
  <2>2. CASE j = k
    BY <1>4, <2>1, <2>2, UsersFinite
  <2>3. CASE j # k
    BY ZenonT(30), <1>3, <1>4, <2>1, <2>3
  <2> QED BY ZenonT(30), <2>2, <2>3
<1>8. CurInv'
  BY <1>2, <1>5, InUse DEF CurInv
<1>9. LockInv'
  BY <1>1, <1>2, <1>5, InUse DEF LockInv
<1>10. SleepersHaveHolder' /\ ValidInv'
  BY ZenonT(30), <1>2, <1>5 DEF SleepersHaveHolder, ValidInv
<1>11. UniqueInv' /\ PinInv' /\ DataInv'
  BY <1>2, <1>5 DEF UniqueInv, PinInv, DataInv
<1> QED BY ZenonT(30), <1>6, <1>7, <1>8, <1>9, <1>10, <1>11

\* A buffer that a process has: it is valid, is the only one of its block, and
\* nobody else reads into it.
LEMMA HasFacts ==
  ASSUME BcacheInv, NEW p \in Procs, NEW k \in Bufs, Has(p, k)
  PROVE  /\ pc[p] = "run" /\ k \in hold[p] /\ locked[k] = p
         /\ valid[k] /\ blockno[k] \in Blocks
         /\ \A j \in Bufs \ {k} : blockno[j] # blockno[k]
         /\ \A q \in Procs : pc[q] \in {"read", "have"} => cur[q] # k
<1>1. pc[p] = "run" /\ k \in hold[p] /\ locked[k] = p
  BY ZenonT(30), InUse DEF Has
<1>2. valid[k] /\ blockno[k] \in Blocks /\ blockno[k] # 0
  BY ZenonT(30), <1>1 DEF BcacheInv, ValidInv, TypeOK
<1>3. \A j \in Bufs \ {k} : blockno[j] # blockno[k]
  BY ZenonT(30), <1>2 DEF BcacheInv, UniqueInv
<1>4. \A q \in Procs : pc[q] \in {"read", "have"} => cur[q] # k
  BY ZenonT(30), <1>1, InUse
<1> QED BY ZenonT(30), <1>1, <1>2, <1>3, <1>4

\* log_write() keeps the invariant: the pin is counted once.
LEMMA LogWriteKeeps ==
  ASSUME BcacheInv, NEW p \in Procs, NEW k \in Bufs, NEW v \in Vals, LogWrite(p, k, v)
  PROVE  BcacheInv'
<1> USE DEF BcacheInv
<1>1. /\ Has(p, k) /\ valid[k] /\ blockno[k] \in Blocks
      /\ \A j \in Bufs \ {k} : blockno[j] # blockno[k]
      /\ \A q \in Procs : pc[q] \in {"read", "have"} => cur[q] # k
  BY ZenonT(30), HasFacts DEF LogWrite
<1>2. UNCHANGED <<blockno, valid, locked, lru, disk, pc, want, cur, hold, panic>>
  BY ZenonT(30) DEF LogWrite
<1>3. /\ data' \in [Bufs -> Vals] /\ data'[k] = v /\ \A j \in Bufs \ {k} : data'[j] = data[j]
      /\ refcnt' \in [Bufs -> Nat]
      /\ refcnt'[k] = refcnt[k] + (IF blockno[k] \in pinned THEN 0 ELSE 1)
      /\ \A j \in Bufs \ {k} : refcnt'[j] = refcnt[j]
      /\ pinned' = pinned \cup {blockno[k]}
  <2>1. data \in [Bufs -> Vals] /\ refcnt \in [Bufs -> Nat]
    BY ZenonT(30) DEF TypeOK
  <2>2. /\ data' = [data EXCEPT ![k] = v]
        /\ refcnt' = IF blockno[k] \in pinned THEN refcnt ELSE [refcnt EXCEPT ![k] = @ + 1]
        /\ pinned' = pinned \cup {blockno[k]}
    BY ZenonT(30) DEF LogWrite
  <2> HIDE DEF BcacheInv
  <2> QED BY <2>1, <2>2
<1>4. TypeOK'
  BY ZenonT(30), <1>1, <1>2, <1>3 DEF TypeOK
<1>5. CountInv'
  <2> SUFFICES ASSUME NEW j \in Bufs
               PROVE  refcnt'[j] = Cardinality(Users(j)) + (IF blockno[j] \in pinned' THEN 1 ELSE 0)
    BY ZenonT(30), <1>2 DEF CountInv, Users
  <2>1. refcnt[j] = Cardinality(Users(j)) + (IF blockno[j] \in pinned THEN 1 ELSE 0)
    BY ZenonT(30) DEF CountInv
  <2>2. CASE j = k
    BY <1>3, <2>1, <2>2, UsersFinite
  <2>3. CASE j # k
    BY ZenonT(30), <1>1, <1>3, <2>1, <2>3
  <2> QED BY ZenonT(30), <2>2, <2>3
<1>6. SleepersHaveHolder' /\ CurInv' /\ UniqueInv' /\ LockInv' /\ ValidInv'
  BY ZenonT(30), <1>2 DEF SleepersHaveHolder, CurInv, UniqueInv, LockInv, ValidInv
<1>7. PinInv'
  BY ZenonT(30), <1>1, <1>2, <1>3 DEF PinInv
<1>8. DataInv'
  <2>1. \A q \in Procs : pc[q] = "have" => cur[q] \in Bufs \ {k}
    BY ZenonT(30), <1>1, InUse
  <2> QED BY ZenonT(30), <1>2, <1>3, <2>1 DEF DataInv
<1> QED BY ZenonT(30), <1>4, <1>5, <1>6, <1>7, <1>8

\* bwrite() keeps the invariant: only the buffer of that block is compared with it.
LEMMA BwriteKeeps == ASSUME BcacheInv, NEW p \in Procs, NEW k \in Bufs, bwrite(p, k) PROVE BcacheInv'
<1> USE DEF BcacheInv
<1>1. /\ valid[k] /\ blockno[k] \in Blocks
      /\ \A j \in Bufs \ {k} : blockno[j] # blockno[k]
      /\ \A q \in Procs : pc[q] \in {"read", "have"} => cur[q] # k
  BY ZenonT(30), HasFacts DEF bwrite
<1>2. UNCHANGED <<blockno, valid, data, refcnt, locked, lru, pinned, pc, want, cur, hold, panic>>
  BY ZenonT(30) DEF bwrite, bufs
<1>3. /\ disk' \in [Blocks -> Vals] /\ disk'[blockno[k]] = data[k]
      /\ \A b \in Blocks \ {blockno[k]} : disk'[b] = disk[b]
  BY ZenonT(30), <1>1 DEF bwrite, TypeOK
<1>4. TypeOK'
  BY ZenonT(30), <1>2, <1>3 DEF TypeOK
<1>5. SleepersHaveHolder' /\ CountInv' /\ CurInv' /\ UniqueInv' /\ LockInv' /\ ValidInv' /\ PinInv'
  BY <1>2 DEF SleepersHaveHolder, CountInv, Users, CurInv, UniqueInv, LockInv, ValidInv, PinInv
<1>6. DataInv'
  <2>1. \A q \in Procs : pc[q] = "have" => cur[q] \in Bufs \ {k} /\ blockno[cur[q]] \in Blocks
    BY ZenonT(30), <1>1, InUse
  <2>2. \A j \in Bufs : valid[j] => blockno[j] \in Blocks
    BY ZenonT(30) DEF ValidInv, TypeOK
  <2> QED BY <1>1, <1>2, <1>3, <2>1, <2>2 DEF DataInv
<1> QED BY ZenonT(30), <1>4, <1>5, <1>6

\* bunpin() keeps the invariant: the block is on the disk by then.
LEMMA BunpinKeeps == ASSUME BcacheInv, NEW p \in Procs, NEW k \in Bufs, bunpin(p, k) PROVE BcacheInv'
<1> USE DEF BcacheInv
<1>1. /\ Has(p, k) /\ valid[k] /\ blockno[k] \in pinned /\ disk[blockno[k]] = data[k]
      /\ \A j \in Bufs \ {k} : blockno[j] # blockno[k]
  BY ZenonT(30), HasFacts DEF bunpin
<1>2. UNCHANGED <<blockno, valid, data, locked, lru, disk, pc, want, cur, hold, panic>>
  BY ZenonT(30) DEF bunpin, bufs
<1>3. refcnt[k] = Cardinality(Users(k)) + 1
  BY ZenonT(30), <1>1 DEF CountInv
<1>4. /\ refcnt' \in [Bufs -> Nat] /\ refcnt'[k] = Cardinality(Users(k))
      /\ \A j \in Bufs \ {k} : refcnt'[j] = refcnt[j]
      /\ pinned' = pinned \ {blockno[k]}
  <2>1. refcnt \in [Bufs -> Nat] /\ refcnt' = [refcnt EXCEPT ![k] = refcnt[k] - 1]
    BY ZenonT(30) DEF TypeOK, bunpin
  <2>2. pinned' = pinned \ {blockno[k]}
    BY ZenonT(30) DEF bunpin
  <2>3. refcnt[k] - 1 = Cardinality(Users(k)) /\ Cardinality(Users(k)) \in Nat
    BY <1>3, UsersFinite
  <2> HIDE DEF BcacheInv
  <2> QED BY ZenonT(30), <2>1, <2>2, <2>3
<1>5. TypeOK'
  BY ZenonT(30), <1>2, <1>4 DEF TypeOK
<1>6. CountInv'
  <2> SUFFICES ASSUME NEW j \in Bufs
               PROVE  refcnt'[j] = Cardinality(Users(j)) + (IF blockno[j] \in pinned' THEN 1 ELSE 0)
    BY ZenonT(30), <1>2 DEF CountInv, Users
  <2>1. refcnt[j] = Cardinality(Users(j)) + (IF blockno[j] \in pinned THEN 1 ELSE 0)
    BY ZenonT(30) DEF CountInv
  <2>2. CASE j = k
    BY <1>4, <2>2, UsersFinite
  <2>3. CASE j # k
    BY ZenonT(30), <1>1, <1>4, <2>1, <2>3
  <2> QED BY ZenonT(30), <2>2, <2>3
<1>7. SleepersHaveHolder' /\ CurInv' /\ UniqueInv' /\ LockInv' /\ ValidInv'
  BY ZenonT(30), <1>2 DEF SleepersHaveHolder, CurInv, UniqueInv, LockInv, ValidInv
<1>8. PinInv'
  BY ZenonT(30), <1>2, <1>4 DEF PinInv
<1>9. DataInv'
  BY ZenonT(30), <1>1, <1>2, <1>4 DEF DataInv
<1> QED BY ZenonT(30), <1>5, <1>6, <1>7, <1>8, <1>9

-----------------------------------------------------------------------------
(* bget() keeps the invariant.                                             *)

\* bget() finds the block in the cache: the count is raised before the lock of
\* the cache is given up, so the buffer stays where it is.
LEMMA BgetCachedKeeps ==
  ASSUME BcacheInv, NEW p \in Procs, NEW b \in Blocks, bget(p, b), BgetCached(p, b)
  PROVE  BcacheInv'
<1> USE DEF BcacheInv
<1>2. PICK k \in Bufs : /\ blockno[k] = b
                       /\ refcnt' = [refcnt EXCEPT ![k] = @ + 1] /\ cur' = [cur EXCEPT ![p] = k]
  BY ZenonT(30) DEF BgetCached, Cached
<1>3. /\ UNCHANGED <<blockno, valid, data, panic, locked, lru, disk, pinned, hold>>
      /\ refcnt' = [refcnt EXCEPT ![k] = @ + 1] /\ cur' = [cur EXCEPT ![p] = k]
      /\ pc' = [pc EXCEPT ![p] = "lock"] /\ want' = [want EXCEPT ![p] = b]
  BY ZenonT(30), <1>2 DEF BgetCached, bget, bufs
<1>4. pc[p] = "run" /\ (\A j \in hold[p] : blockno[j] < b) /\ b \in Nat /\ b # 0
  BY BcacheAssumption DEF bget, Blocks
<1>5. k \notin hold[p] /\ cur[p] = 0 /\ k # 0
  BY <1>2, <1>4, InUse DEF CurInv
<1>6. TypeOK'
  <2>1. refcnt \in [Bufs -> Nat] /\ pc \in [Procs -> {"run", "lock", "asleep", "read", "have", "put"}]
    BY ZenonT(30) DEF TypeOK
  <2>2. refcnt' \in [Bufs -> Nat] /\ pc' \in [Procs -> {"run", "lock", "asleep", "read", "have", "put"}]
    BY <1>3, <2>1
  <2> QED BY ZenonT(30), <1>3, <2>2 DEF TypeOK
<1>7. /\ refcnt'[k] = refcnt[k] + 1 /\ \A j \in Bufs \ {k} : refcnt'[j] = refcnt[j]
      /\ cur'[p] = k /\ pc'[p] = "lock"
      /\ \A q \in Procs \ {p} : cur'[q] = cur[q] /\ pc'[q] = pc[q]
  BY ZenonT(30), <1>3 DEF TypeOK
<1>8. CountInv'
  <2> SUFFICES ASSUME NEW j \in Bufs
               PROVE  refcnt'[j] = Cardinality(Users(j)') + (IF blockno[j] \in pinned THEN 1 ELSE 0)
    BY ZenonT(30), <1>3 DEF CountInv
  <2>1. /\ refcnt[j] = Cardinality(Users(j)) + (IF blockno[j] \in pinned THEN 1 ELSE 0)
        /\ IsFiniteSet(Users(j)) /\ Cardinality(Users(j)) \in Nat
    BY ZenonT(30), UsersFinite DEF CountInv
  <2>2. CASE j = k
    <3>1. Users(j)' = Users(j) \cup {p} /\ p \notin Users(j)
      BY ZenonT(30), <1>3, <1>5, <1>7, <2>2 DEF Users
    <3>2. Cardinality(Users(j)') = Cardinality(Users(j)) + 1
      BY ZenonT(30), <2>1, <3>1, FS_AddElement
    <3> QED BY <1>7, <2>1, <2>2, <3>2
  <2>3. CASE j # k
    <3>1. Users(j)' = Users(j)
      BY ZenonT(30), <1>3, <1>5, <1>7, <2>3, InUse DEF Users
    <3> QED BY ZenonT(30), <1>7, <2>1, <2>3, <3>1
  <2> QED BY ZenonT(30), <2>2, <2>3
<1>9. SleepersHaveHolder'
  BY ZenonT(30), <1>3, <1>7 DEF SleepersHaveHolder
<1>10. CurInv'
  BY <1>2, <1>3, <1>4, <1>5, <1>7 DEF CurInv
<1>11. LockInv'
  BY <1>3, <1>4, <1>5, <1>7, InUse DEF LockInv
<1>12. UniqueInv' /\ PinInv'
  BY ZenonT(30), <1>3 DEF UniqueInv, PinInv
<1>13. ValidInv' /\ DataInv'
  BY <1>3, <1>7 DEF ValidInv, DataInv
<1> QED BY ZenonT(30), <1>6, <1>8, <1>9, <1>10, <1>11, <1>12, <1>13

\* bget() recycles a buffer: nobody uses it, and its block is not pinned.
LEMMA BgetRecycleKeeps ==
  ASSUME BcacheInv, NEW p \in Procs, NEW b \in Blocks, bget(p, b), BgetRecycle(p, b)
  PROVE  BcacheInv'
<1> USE DEF BcacheInv
<1>1. \A j \in Bufs : blockno[j] # b
  BY ZenonT(30) DEF BgetRecycle, Cached
<1>2. PICK k \in Bufs :
        /\ refcnt[k] = 0
        /\ blockno' = [blockno EXCEPT ![k] = b] /\ valid' = [valid EXCEPT ![k] = FALSE]
        /\ refcnt' = [refcnt EXCEPT ![k] = 1] /\ cur' = [cur EXCEPT ![p] = k]
  <2> HIDE DEF BcacheInv
  <2> QED BY ZenonT(30) DEF BgetRecycle, Victim, Unused
<1>3. /\ UNCHANGED <<data, panic, locked, lru, disk, pinned, hold>>
      /\ blockno' = [blockno EXCEPT ![k] = b] /\ valid' = [valid EXCEPT ![k] = FALSE]
      /\ refcnt' = [refcnt EXCEPT ![k] = 1] /\ cur' = [cur EXCEPT ![p] = k]
      /\ pc' = [pc EXCEPT ![p] = "lock"] /\ want' = [want EXCEPT ![p] = b]
  BY ZenonT(30), <1>2 DEF BgetRecycle, bget
<1>4. Users(k) = {} /\ blockno[k] \notin pinned /\ locked[k] = Nobody
  BY ZenonT(30), <1>2, Unreferenced
<1>5. /\ pc[p] = "run" /\ cur[p] = 0 /\ k # 0 /\ b # 0 /\ b \notin pinned
      /\ \A q \in Procs : cur[q] # k /\ k \notin hold[q]
  <2>1. b # 0
    BY BcacheAssumption DEF Blocks
  <2> QED BY ZenonT(30), <1>1, <1>4, <2>1, InUse DEF bget, CurInv, PinInv, Users
<1>6. TypeOK'
  BY ZenonT(30), <1>3 DEF TypeOK
<1>7. /\ refcnt'[k] = 1 /\ blockno'[k] = b /\ ~valid'[k]
      /\ \A j \in Bufs \ {k} : refcnt'[j] = refcnt[j] /\ blockno'[j] = blockno[j] /\ valid'[j] = valid[j]
      /\ cur'[p] = k /\ pc'[p] = "lock"
      /\ \A q \in Procs \ {p} : cur'[q] = cur[q] /\ pc'[q] = pc[q]
  BY ZenonT(30), <1>3 DEF TypeOK
<1>8. CountInv'
  <2> SUFFICES ASSUME NEW j \in Bufs
               PROVE  refcnt'[j] = Cardinality(Users(j)') + (IF blockno'[j] \in pinned THEN 1 ELSE 0)
    BY ZenonT(30), <1>3 DEF CountInv
  <2>1. refcnt[j] = Cardinality(Users(j)) + (IF blockno[j] \in pinned THEN 1 ELSE 0)
    BY ZenonT(30) DEF CountInv
  <2>2. CASE j = k
    <3>1. Users(j)' = {p}
      BY <1>3, <1>5, <1>7, <2>2 DEF Users
    <3>2. Cardinality(Users(j)') = 1
      BY ZenonT(30), <3>1, FS_Singleton
    <3> QED BY <1>5, <1>7, <2>2, <3>2
  <2>3. CASE j # k
    <3>1. Users(j)' = Users(j)
      BY <1>3, <1>5, <1>7, <2>3, InUse DEF Users
    <3> QED BY ZenonT(30), <1>7, <2>1, <2>3, <3>1
  <2> QED BY ZenonT(30), <2>2, <2>3
<1>9. \A q \in Procs \ {p} : pc[q] # "run" => cur[q] \in Bufs \ {k}
  BY ZenonT(30), <1>5, InUse
<1>10. \A q \in Procs : hold[q] \subseteq Bufs \ {k}
  BY ZenonT(30), <1>5, InUse
<1>11. SleepersHaveHolder'
  BY ZenonT(30), <1>3, <1>7 DEF SleepersHaveHolder
<1>12. CurInv'
  BY <1>3, <1>5, <1>7, <1>9, <1>10 DEF CurInv
<1>13. LockInv'
  BY <1>3, <1>5, <1>7, InUse DEF LockInv
<1>14. UniqueInv'
  BY <1>1, <1>7 DEF UniqueInv
<1>15. PinInv'
  BY <1>3, <1>4, <1>7 DEF PinInv
<1>16. ValidInv'
  BY <1>3, <1>7, <1>9, <1>10 DEF ValidInv
<1>17. DataInv'
  BY <1>3, <1>7, <1>9 DEF DataInv
<1> QED BY ZenonT(30), <1>6, <1>8, <1>11, <1>12, <1>13, <1>14, <1>15, <1>16, <1>17

\* The invariant says nothing of panic, and of want only its type.
LEMMA OthersKeep ==
  ASSUME BcacheInv, want' \in [Procs -> Blocks \cup {0}], panic' \in {"none", "bget_no_buffers"},
         UNCHANGED <<blockno, valid, data, refcnt, cur, pc, locked, lru, disk, pinned, hold>>
  PROVE  BcacheInv'
<1> USE DEF BcacheInv
<1>1. TypeOK'
  BY ZenonT(30) DEF TypeOK
<1>2. CountInv'
  BY ZenonT(30) DEF CountInv, Users
<1>3. SleepersHaveHolder' /\ CurInv' /\ UniqueInv'
  BY ZenonT(30) DEF SleepersHaveHolder, CurInv, UniqueInv
<1>4. LockInv'
  BY ZenonT(30) DEF LockInv
<1>5. ValidInv'
  BY ZenonT(30) DEF ValidInv
<1>6. PinInv'
  BY ZenonT(30) DEF PinInv
<1>7. DataInv'
  BY ZenonT(30) DEF DataInv
<1> QED BY ZenonT(30), <1>1, <1>2, <1>3, <1>4, <1>5, <1>6, <1>7

\* bget() keeps the invariant, its panic() included.
LEMMA BgetKeeps == ASSUME BcacheInv, NEW p \in Procs, NEW b \in Blocks, bget(p, b) PROVE BcacheInv'
<1>1. CASE BgetPanic(b)
  <2>1. UNCHANGED <<blockno, valid, data, refcnt, cur, pc, locked, lru, disk, pinned, hold>>
    BY ZenonT(30), <1>1 DEF BgetPanic, bget, bufs
  <2>2. want' \in [Procs -> Blocks \cup {0}] /\ panic' \in {"none", "bget_no_buffers"}
    BY ZenonT(30), <1>1 DEF BgetPanic, bget, BcacheInv, TypeOK
  <2> QED BY ZenonT(30), <2>1, <2>2, OthersKeep
<1> QED BY ZenonT(30), <1>1, BgetCachedKeeps, BgetRecycleKeeps DEF bget

\* Every step of the cache keeps the invariant.
LEMMA NextKeeps == ASSUME BcacheInv, [Next]_vars PROVE BcacheInv'
<1>1. CASE UNCHANGED vars
  <2>1. want' \in [Procs -> Blocks \cup {0}] /\ panic' \in {"none", "bget_no_buffers"}
    BY ZenonT(30), <1>1 DEF vars, BcacheInv, TypeOK
  <2> QED BY ZenonT(30), <1>1, <2>1, OthersKeep DEF vars
<1>2. ASSUME NEW p \in Procs, Continue(p) PROVE BcacheInv'
  BY ZenonT(30), <1>2, AcquireKeeps, ReadDiskKeeps, BreadKeeps, BrelsePutKeeps DEF Continue
<1>3. ASSUME NEW p \in Procs, Use(p) PROVE BcacheInv'
  BY ZenonT(30), <1>3, BgetKeeps, BwriteKeeps, BunpinKeeps, BrelseKeeps, LogWriteKeeps DEF Use
<1> QED BY ZenonT(30), <1>1, <1>2, <1>3 DEF Next, Halted

\* The invariant holds of every state of the cache.
THEOREM CacheInvariant == Spec => []BcacheInv
<1>1. BcacheInv /\ [Next]_vars => BcacheInv'
  BY NextKeeps
<1> QED BY InitBcacheInv, <1>1, PTL DEF Spec

\* A buffer's refcnt is exactly the number of its users and pins, whatever the
\* number of buffers, blocks and processes: bget() recycles only buffers that
\* nobody has a use for.
THEOREM CountsAreExact == Spec => []RefcntExact
<1>1. BcacheInv => RefcntExact
  BY DEF BcacheInv, RefcntExact, CountInv, Users
<1> QED BY <1>1, CacheInvariant, PTL

\* No wake-up of releasesleep() is lost: a sleeper's buffer has a holder.
THEOREM NoSleeperForgotten == Spec => []SleepersHaveHolder
<1>1. BcacheInv => SleepersHaveHolder
  BY DEF BcacheInv
<1> QED BY <1>1, CacheInvariant, PTL

-----------------------------------------------------------------------------
(* The buffer cache implements a plain store of blocks.                    *)

\* What Contents and Holder say of a block with a buffer, and of one without.
Seen ==
  /\ Contents \in [Blocks -> Vals] /\ Holder \in [Blocks -> Procs \cup {Nobody}]
  /\ \A k \in Bufs : blockno[k] \in Blocks =>
       /\ Contents[blockno[k]] = IF valid[k] THEN data[k] ELSE disk[blockno[k]]
       /\ Holder[blockno[k]] = locked[k]
  /\ \A b \in Blocks : (\A k \in Bufs : blockno[k] # b) => Contents[b] = disk[b] /\ Holder[b] = Nobody

\* One buffer at most has a given block, so no CHOOSE is left to chance.
LEMMA SeenHolds == BcacheInv => Seen
<1> SUFFICES ASSUME BcacheInv PROVE Seen
  BY ZenonT(30)
<1>1. ASSUME NEW k \in Bufs, blockno[k] \in Blocks PROVE Cached(blockno[k]) = {k}
  <2>1. blockno[k] # 0
    BY <1>1, BcacheAssumption DEF Blocks
  <2> QED BY ZenonT(30), <2>1 DEF Cached, BcacheInv, UniqueInv
<1>2. ASSUME NEW b \in Blocks, \A k \in Bufs : blockno[k] # b PROVE Cached(b) = {}
  BY ZenonT(30), <1>2 DEF Cached
<1>3. ASSUME NEW k \in Bufs, blockno[k] \in Blocks
      PROVE  /\ Contents[blockno[k]] = IF valid[k] THEN data[k] ELSE disk[blockno[k]]
             /\ Holder[blockno[k]] = locked[k]
  <2>1. Cached(blockno[k]) = {k}
    BY ZenonT(30), <1>1, <1>3
  <2>2. Holder[blockno[k]] = locked[k]
    BY ZenonT(30), <1>3, <2>1 DEF Holder
  <2>3. CASE valid[k]
    <3>1. (CHOOSE j \in Cached(blockno[k]) : valid[j]) = k
      BY ZenonT(30), <2>1, <2>3
    <3> QED BY ZenonT(30), <1>3, <2>1, <2>2, <2>3, <3>1 DEF Contents
  <2>4. CASE ~valid[k]
    BY ZenonT(30), <1>3, <2>1, <2>2, <2>4 DEF Contents
  <2> QED BY ZenonT(30), <2>3, <2>4
<1>4. ASSUME NEW b \in Blocks, \A k \in Bufs : blockno[k] # b
      PROVE  Contents[b] = disk[b] /\ Holder[b] = Nobody
  BY ZenonT(30), <1>2, <1>4 DEF Contents, Holder
<1>5. ASSUME NEW b \in Blocks PROVE Contents[b] \in Vals /\ Holder[b] \in Procs \cup {Nobody}
  <2>0. data \in [Bufs -> Vals] /\ disk \in [Blocks -> Vals] /\ locked \in [Bufs -> Procs \cup {Nobody}]
    BY ZenonT(30) DEF BcacheInv, TypeOK
  <2>1. CASE \E k \in Bufs : blockno[k] = b
    <3>1. PICK k \in Bufs : blockno[k] = b
      BY ZenonT(30), <2>1
    <3>2. Contents[b] = (IF valid[k] THEN data[k] ELSE disk[b]) /\ Holder[b] = locked[k]
      BY ZenonT(30), <1>3, <3>1
    <3> QED BY ZenonT(30), <2>0, <3>2
  <2>2. CASE \A k \in Bufs : blockno[k] # b
    BY ZenonT(30), <1>4, <2>2 DEF BcacheInv, TypeOK
  <2> QED BY ZenonT(30), <2>1, <2>2
<1>6. Contents \in [Blocks -> Vals] /\ Holder \in [Blocks -> Procs \cup {Nobody}]
  <2>1. DOMAIN Contents = Blocks /\ Contents = [b \in Blocks |-> Contents[b]]
    BY ZenonT(30) DEF Contents
  <2>2. DOMAIN Holder = Blocks /\ Holder = [b \in Blocks |-> Holder[b]]
    BY DEF Holder
  <2> QED BY ZenonT(30), <1>5, <2>1, <2>2
<1> QED BY ZenonT(30), <1>3, <1>4, <1>6 DEF Seen

\* Initially nothing is cached.
LEMMA StoreInit == Init => Store!Init
<1> SUFFICES ASSUME Init PROVE Store!Init
  BY ZenonT(30)
<1>1. Seen
  BY ZenonT(30), InitBcacheInv, SeenHolds
<1>2. \A b \in Blocks : b # 0
  BY BcacheAssumption DEF Blocks
<1>3. \A b \in Blocks : Contents[b] = disk[b] /\ Holder[b] = Nobody
  BY ZenonT(30), <1>1, <1>2 DEF Init, Seen
<1>4. disk \in [Blocks -> Vals] /\ pinned = {}
  BY ZenonT(30) DEF Init
<1>5. Contents = disk /\ Holder = [b \in Blocks |-> Nobody]
  BY <1>1, <1>3, <1>4 DEF Seen
<1> QED BY ZenonT(30), <1>4, <1>5 DEF Store!Init

\* What no caller can see: a buffer is chosen, filled from the disk or put.
LEMMA HiddenSteps ==
  ASSUME Seen, Seen', UNCHANGED <<blockno, disk, locked, pinned>>,
         \A k \in Bufs : blockno[k] \in Blocks =>
           (IF valid'[k] THEN data'[k] ELSE disk[blockno[k]])
             = (IF valid[k] THEN data[k] ELSE disk[blockno[k]])
  PROVE  UNCHANGED <<Contents, disk, Holder, pinned>>
<1>1. ASSUME NEW b \in Blocks PROVE Contents'[b] = Contents[b] /\ Holder'[b] = Holder[b]
  <2>1. CASE \E k \in Bufs : blockno[k] = b
    <3>1. PICK k \in Bufs : blockno[k] = b
      BY ZenonT(30), <2>1
    <3> QED BY <3>1 DEF Seen
  <2>2. CASE \A k \in Bufs : blockno[k] # b
    BY ZenonT(30), <2>2 DEF Seen
  <2> QED BY ZenonT(30), <2>1, <2>2
<1>2. Contents' = Contents /\ Holder' = Holder
  BY <1>1 DEF Seen
<1> QED BY ZenonT(30), <1>2

\* A buffer is recycled unseen: what it had is on the disk, and nobody has it.
LEMMA RecycleIsHidden ==
  ASSUME BcacheInv, Seen, Seen', NEW p \in Procs, NEW b \in Blocks, bget(p, b), BgetRecycle(p, b)
  PROVE  UNCHANGED <<Contents, disk, Holder, pinned>>
<1>1. \A j \in Bufs : blockno[j] # b
  BY ZenonT(30) DEF BgetRecycle, Cached
<1>2. PICK k \in Bufs :
        /\ refcnt[k] = 0
        /\ blockno' = [blockno EXCEPT ![k] = b] /\ valid' = [valid EXCEPT ![k] = FALSE]
  BY ZenonT(30) DEF BgetRecycle, Victim, Unused
<1>3. blockno[k] \notin pinned /\ locked[k] = Nobody
  BY ZenonT(30), <1>2, Unreferenced
<1>4. /\ UNCHANGED <<data, locked, disk, pinned>>
      /\ blockno'[k] = b /\ ~valid'[k]
      /\ \A j \in Bufs \ {k} : blockno'[j] = blockno[j] /\ valid'[j] = valid[j]
  BY ZenonT(30), <1>2 DEF BgetRecycle, bget, BcacheInv, TypeOK
<1>5. ASSUME NEW c \in Blocks PROVE Contents'[c] = Contents[c] /\ Holder'[c] = Holder[c]
  <2>1. CASE c = b
    BY ZenonT(30), <1>1, <1>3, <1>4, <2>1 DEF Seen
  <2>2. CASE c # b /\ c = blockno[k]
    <3>1. \A j \in Bufs : blockno'[j] # c
      <4>1. c # 0
        BY BcacheAssumption DEF Blocks
      <4> QED BY ZenonT(30), <1>4, <2>2, <4>1 DEF BcacheInv, UniqueInv
    <3>2. Contents[c] = disk[c]
      BY ZenonT(30), <1>3, <2>2 DEF Seen, BcacheInv, DataInv
    <3> QED BY ZenonT(30), <1>3, <1>4, <2>2, <3>1, <3>2 DEF Seen
  <2>3. CASE c # b /\ c # blockno[k] /\ \E j \in Bufs : blockno[j] = c
    <3>1. PICK j \in Bufs \ {k} : blockno[j] = c
      BY ZenonT(30), <2>3
    <3> QED BY <1>4, <3>1 DEF Seen
  <2>4. CASE c # b /\ \A j \in Bufs : blockno[j] # c
    BY <1>4, <2>4 DEF Seen
  <2> QED BY ZenonT(30), <2>1, <2>2, <2>3, <2>4
<1>6. Contents' = Contents /\ Holder' = Holder
  BY <1>5 DEF Seen
<1> QED BY ZenonT(30), <1>4, <1>6

\* A function that changed at one point.
LEMMA OnePoint ==
  ASSUME NEW S, NEW T, NEW f \in [S -> T], NEW g \in [S -> T], NEW x \in S,
         \A y \in S \ {x} : g[y] = f[y]
  PROVE  g = [f EXCEPT ![x] = g[x]] /\ (g[x] = f[x] => g = f)
OBVIOUS

\* acquiresleep() takes the block for its caller, or nothing happens.
LEMMA AcquireIsGet ==
  ASSUME BcacheInv, Seen, Seen', NEW p \in Procs, acquiresleep(p)
  PROVE  [Store!Next]_<<Contents, disk, Holder, pinned>>
<1>1. UNCHANGED <<blockno, valid, data, disk, pinned>>
  BY ZenonT(30) DEF acquiresleep, bufs
<1>2. PICK k \in Bufs : k = cur[p] /\ blockno[k] \in Blocks
  BY ZenonT(30), InUse DEF acquiresleep
<1>3. CASE locked[k] # Nobody
  <2>1. locked' = locked
    BY ZenonT(30), <1>2, <1>3 DEF acquiresleep
  <2>2. UNCHANGED <<Contents, disk, Holder, pinned>>
    BY ZenonT(30), <1>1, <2>1, HiddenSteps
  <2> QED BY ZenonT(30), <2>2
<1>4. CASE locked[k] = Nobody
  <2>1. locked'[k] = p /\ \A j \in Bufs \ {k} : locked'[j] = locked[j]
    BY ZenonT(30), <1>2, <1>4 DEF acquiresleep, BcacheInv, TypeOK
  <2>2. ASSUME NEW b \in Blocks
        PROVE  Contents'[b] = Contents[b] /\ Holder'[b] = IF b = blockno[k] THEN p ELSE Holder[b]
    <3>1. CASE b = blockno[k]
      BY <1>1, <1>2, <2>1, <3>1 DEF Seen
    <3>2. CASE b # blockno[k] /\ \E j \in Bufs : blockno[j] = b
      <4>1. PICK j \in Bufs \ {k} : blockno[j] = b
        BY ZenonT(30), <3>2
      <4> QED BY <1>1, <2>1, <3>2, <4>1 DEF Seen
    <3>3. CASE \A j \in Bufs : blockno[j] # b
      BY <1>1, <1>2, <3>3 DEF Seen
    <3> QED BY ZenonT(30), <3>1, <3>2, <3>3
  <2>3. Contents' = Contents /\ Holder' = [Holder EXCEPT ![blockno[k]] = p]
    <3>1. /\ Contents \in [Blocks -> Vals] /\ Contents' \in [Blocks -> Vals]
          /\ Holder \in [Blocks -> Procs \cup {Nobody}] /\ Holder' \in [Blocks -> Procs \cup {Nobody}]
      BY ZenonT(30) DEF Seen
    <3>2. Contents' = Contents
      <4>1. \A b \in Blocks : Contents'[b] = Contents[b]
        BY ZenonT(30), <2>2
      <4>2. blockno[k] \in Blocks /\ \A b \in Blocks \ {blockno[k]} : Contents'[b] = Contents[b]
        BY ZenonT(30), <1>2, <4>1
      <4> QED BY <3>1, <4>1, <4>2, OnePoint
    <3>3. Holder'[blockno[k]] = p /\ \A b \in Blocks \ {blockno[k]} : Holder'[b] = Holder[b]
      BY ZenonT(30), <1>2, <2>2
    <3>4. Holder' = [Holder EXCEPT ![blockno[k]] = Holder'[blockno[k]]]
      BY ZenonT(30), <1>2, <3>1, <3>3, OnePoint
    <3> QED BY ZenonT(30), <3>2, <3>3, <3>4
  <2>4. Holder[blockno[k]] = Nobody
    BY ZenonT(30), <1>2, <1>4 DEF Seen
  <2>5. Store!Get(p, blockno[k])
    BY ZenonT(30), <1>1, <2>3, <2>4 DEF Store!Get
  <2> QED BY ZenonT(30), <1>2, <2>5 DEF Store!Next
<1> QED BY ZenonT(30), <1>3, <1>4

\* A step that changes one buffer, and the disk only at its block, changes
\* nothing of the other blocks.
LEMMA OneBlock ==
  ASSUME Seen, Seen', NEW k \in Bufs, UNCHANGED blockno,
         \A j \in Bufs \ {k} : valid'[j] = valid[j] /\ data'[j] = data[j] /\ locked'[j] = locked[j],
         \A b \in Blocks \ {blockno[k]} : disk'[b] = disk[b]
  PROVE  \A b \in Blocks \ {blockno[k]} : Contents'[b] = Contents[b] /\ Holder'[b] = Holder[b]
<1> SUFFICES ASSUME NEW b \in Blocks \ {blockno[k]}
             PROVE  Contents'[b] = Contents[b] /\ Holder'[b] = Holder[b]
  BY ZenonT(30)
<1>1. CASE \E j \in Bufs : blockno[j] = b
  <2>1. PICK j \in Bufs \ {k} : blockno[j] = b
    BY ZenonT(30), <1>1
  <2>2. /\ Contents[b] = IF valid[j] THEN data[j] ELSE disk[b]
        /\ Holder[b] = locked[j]
    BY ZenonT(30), <2>1 DEF Seen
  <2>3. /\ Contents'[b] = IF valid'[j] THEN data'[j] ELSE disk'[b]
        /\ Holder'[b] = locked'[j]
    BY ZenonT(30), <2>1 DEF Seen
  <2>4. valid'[j] = valid[j] /\ data'[j] = data[j] /\ locked'[j] = locked[j] /\ disk'[b] = disk[b]
    BY ZenonT(30)
  <2> QED BY ONLY <2>2, <2>3, <2>4, ZenonT(30)
<1>2. CASE \A j \in Bufs : blockno[j] # b
  BY ZenonT(30), <1>2 DEF Seen
<1> QED BY ZenonT(30), <1>1, <1>2

\* What the holder of a buffer does, its callers see done to the block:
\* log_write() writes it, bwrite() flushes it, bunpin() unpins it and
\* brelse() gives it back.
LEMMA HolderSteps ==
  ASSUME BcacheInv, Seen, Seen', NEW p \in Procs, NEW k \in Bufs,
         \/ bwrite(p, k) \/ bunpin(p, k) \/ brelse(p, k)
         \/ \E v \in Vals : LogWrite(p, k, v)
  PROVE  Store!Next
<1>1. Has(p, k)
  BY ZenonT(30) DEF bwrite, bunpin, brelse, LogWrite
<1>2. PICK b \in Blocks : b = blockno[k]
  BY ZenonT(30), <1>1, HasFacts
<1>3. valid[k] /\ Holder[b] = p /\ Contents[b] = data[k]
  <2>1. valid[k] /\ locked[k] = p
    BY ZenonT(30), <1>1, HasFacts
  <2>2. Contents[b] = (IF valid[k] THEN data[k] ELSE disk[b]) /\ Holder[b] = locked[k]
    BY ZenonT(30), <1>2 DEF Seen
  <2> QED BY ONLY <2>1, <2>2, ZenonT(30)
<1>4. /\ data \in [Bufs -> Vals] /\ disk \in [Blocks -> Vals]
      /\ locked \in [Bufs -> Procs \cup {Nobody}]
  BY ZenonT(30) DEF BcacheInv, TypeOK
<1>0. ASSUME \A c \in Blocks \ {b} : Contents'[c] = Contents[c] /\ Holder'[c] = Holder[c]
      PROVE  /\ Contents' = [Contents EXCEPT ![b] = Contents'[b]]
             /\ Contents'[b] = Contents[b] => Contents' = Contents
             /\ Holder' = [Holder EXCEPT ![b] = Holder'[b]]
             /\ Holder'[b] = Holder[b] => Holder' = Holder
  <2>1. /\ Contents \in [Blocks -> Vals] /\ Contents' \in [Blocks -> Vals]
        /\ Holder \in [Blocks -> Procs \cup {Nobody}] /\ Holder' \in [Blocks -> Procs \cup {Nobody}]
    BY ZenonT(30) DEF Seen
  <2>4. /\ \A c \in Blocks \ {b} : Contents'[c] = Contents[c]
        /\ \A c \in Blocks \ {b} : Holder'[c] = Holder[c]
    BY ZenonT(30), <1>0
  <2>2. /\ Contents' = [Contents EXCEPT ![b] = Contents'[b]]
        /\ Contents'[b] = Contents[b] => Contents' = Contents
    BY <2>1, <2>4, OnePoint
  <2>3. /\ Holder' = [Holder EXCEPT ![b] = Holder'[b]]
        /\ Holder'[b] = Holder[b] => Holder' = Holder
    BY <2>1, <2>4, OnePoint
  <2> QED BY ZenonT(30), <2>2, <2>3
<1>5. ASSUME NEW v \in Vals, LogWrite(p, k, v) PROVE Store!Write(p, b, v)
  <2>1. /\ UNCHANGED <<blockno, valid, locked, disk>> /\ data' = [data EXCEPT ![k] = v]
        /\ pinned' = pinned \cup {b}
    BY ZenonT(30), <1>2, <1>5 DEF LogWrite
  <2>2. \A c \in Blocks \ {b} : Contents'[c] = Contents[c] /\ Holder'[c] = Holder[c]
    BY ZenonT(30), <1>2, <1>4, <2>1, OneBlock
  <2>3. Contents'[b] = v /\ Holder'[b] = Holder[b]
    BY ZenonT(30), <1>2, <1>3, <1>4, <2>1 DEF Seen
  <2>4. Contents' = [Contents EXCEPT ![b] = v] /\ Holder' = Holder
    BY ZenonT(30), <1>0, <2>2, <2>3
  <2> QED BY ZenonT(30), <1>3, <2>1, <2>4 DEF Store!Write
<1>6. ASSUME bwrite(p, k) PROVE Store!Flush(p, b)
  <2>1. /\ UNCHANGED <<blockno, valid, data, locked, pinned>>
        /\ disk' = [disk EXCEPT ![b] = Contents[b]]
    BY ZenonT(30), <1>2, <1>3, <1>6 DEF bwrite, bufs
  <2>2. \A c \in Blocks \ {b} : Contents'[c] = Contents[c] /\ Holder'[c] = Holder[c]
    BY ZenonT(30), <1>2, <1>4, <2>1, OneBlock
  <2>3. Contents'[b] = Contents[b] /\ Holder'[b] = Holder[b]
    BY ZenonT(30), <1>2, <1>3, <2>1 DEF Seen
  <2>4. Contents' = Contents /\ Holder' = Holder
    BY ZenonT(30), <1>0, <2>2, <2>3
  <2> QED BY ZenonT(30), <1>3, <2>1, <2>4 DEF Store!Flush
<1>7. ASSUME bunpin(p, k) PROVE Store!Unpin(p, b)
  <2>1. /\ UNCHANGED <<blockno, valid, data, locked, disk>>
        /\ pinned' = pinned \ {b} /\ disk[b] = Contents[b]
    BY ZenonT(30), <1>2, <1>3, <1>7 DEF bunpin, bufs
  <2>2. \A c \in Blocks \ {b} : Contents'[c] = Contents[c] /\ Holder'[c] = Holder[c]
    BY ZenonT(30), <1>2, <2>1, OneBlock
  <2>3. Contents'[b] = Contents[b] /\ Holder'[b] = Holder[b]
    BY ZenonT(30), <1>2, <1>3, <2>1 DEF Seen
  <2>4. Contents' = Contents /\ Holder' = Holder
    BY ZenonT(30), <1>0, <2>2, <2>3
  <2> QED BY ZenonT(30), <1>3, <2>1, <2>4 DEF Store!Unpin
<1>8. ASSUME brelse(p, k) PROVE Store!Put(p, b)
  <2>1. /\ UNCHANGED <<blockno, valid, data, disk, pinned>>
        /\ locked' = [locked EXCEPT ![k] = Nobody]
    BY ZenonT(30), <1>8 DEF brelse, bufs
  <2>2. \A c \in Blocks \ {b} : Contents'[c] = Contents[c] /\ Holder'[c] = Holder[c]
    BY ZenonT(30), <1>2, <1>4, <2>1, OneBlock
  <2>3. Contents'[b] = Contents[b] /\ Holder'[b] = Nobody
    BY ZenonT(30), <1>2, <1>3, <1>4, <2>1 DEF Seen
  <2>4. Contents' = Contents /\ Holder' = [Holder EXCEPT ![b] = Nobody]
    BY ZenonT(30), <1>0, <2>2, <2>3
  <2> QED BY ZenonT(30), <1>3, <2>1, <2>4 DEF Store!Put
<1> QED BY ZenonT(30), <1>5, <1>6, <1>7, <1>8 DEF Store!Next

\* Every step of the cache is a step of the store, or hidden.
LEMMA StoreStep ==
  ASSUME BcacheInv, BcacheInv', [Next]_vars
  PROVE  [Store!Next]_<<Contents, disk, Holder, pinned>>
<1>1. Seen /\ Seen'
  BY SeenHolds, PTL
<1>2. CASE UNCHANGED vars
  <2>1. UNCHANGED <<Contents, disk, Holder, pinned>>
    BY ZenonT(30), <1>1, <1>2, HiddenSteps DEF vars
  <2> QED BY ZenonT(30), <2>1
<1>3. ASSUME NEW p \in Procs, Continue(p) PROVE [Store!Next]_<<Contents, disk, Holder, pinned>>
  <2>1. CASE acquiresleep(p)
    BY ZenonT(30), <1>1, <2>1, AcquireIsGet
  <2>2. CASE ReadDisk(p)
    <3>1. PICK k \in Bufs : k = cur[p] /\ ~valid[k]
      BY ZenonT(30), <2>2, InUse DEF ReadDisk, BcacheInv, ValidInv
    <3>2. UNCHANGED <<blockno, valid, disk, locked, pinned>> /\ \A j \in Bufs \ {k} : data'[j] = data[j]
      BY ZenonT(30), <2>2, <3>1 DEF ReadDisk, BcacheInv, TypeOK
    <3>3. UNCHANGED <<Contents, disk, Holder, pinned>>
      BY ZenonT(30), <1>1, <3>1, <3>2, HiddenSteps
    <3> QED BY ZenonT(30), <3>3
  <2>3. CASE bread(p)
    <3>0. pc[p] = "have"
      BY ZenonT(30), <2>3 DEF bread
    <3>1. PICK k \in Bufs : k = cur[p]
      BY ZenonT(30), <3>0, InUse
    <3>4. ~valid[k] => data[k] = disk[blockno[k]]
      BY ZenonT(30), <3>0, <3>1 DEF BcacheInv, DataInv
    <3>2. /\ UNCHANGED <<blockno, data, disk, locked, pinned>>
          /\ valid'[k] /\ \A j \in Bufs \ {k} : valid'[j] = valid[j]
      BY ZenonT(30), <2>3, <3>1 DEF bread, BcacheInv, TypeOK
    <3>3. UNCHANGED <<Contents, disk, Holder, pinned>>
      BY ZenonT(30), <1>1, <3>4, <3>2, HiddenSteps
    <3> QED BY ZenonT(30), <3>3
  <2>4. CASE BrelsePut(p)
    <3>1. UNCHANGED <<Contents, disk, Holder, pinned>>
      BY ZenonT(30), <1>1, <2>4, HiddenSteps DEF BrelsePut, bufs
    <3> QED BY ZenonT(30), <3>1
  <2> QED BY ZenonT(30), <1>3, <2>1, <2>2, <2>3, <2>4 DEF Continue
<1>4. ASSUME NEW p \in Procs, NEW b \in Blocks, bget(p, b)
      PROVE  UNCHANGED <<Contents, disk, Holder, pinned>>
  <2>1. CASE BgetRecycle(p, b)
    BY ZenonT(30), <1>1, <1>4, <2>1, RecycleIsHidden
  <2>2. CASE BgetCached(p, b) \/ BgetPanic(b)
    BY ZenonT(30), <1>1, <1>4, <2>2, HiddenSteps DEF BgetCached, BgetPanic, bget, bufs
  <2> QED BY ZenonT(30), <1>4, <2>1, <2>2 DEF bget
<1>5. ASSUME NEW p \in Procs, Use(p) PROVE [Store!Next]_<<Contents, disk, Holder, pinned>>
  BY ZenonT(30), <1>1, <1>4, <1>5, HolderSteps DEF Use
<1> QED BY ZenonT(30), <1>2, <1>3, <1>5 DEF Next, Halted

\* The buffer cache implements the store of BlockStore, whatever the number
\* of buffers: recycling is never seen, no change is lost, and a block has
\* one holder at a time.
THEOREM CacheImplementsStore == Spec => CacheIsStore
<1>1. BcacheInv /\ BcacheInv' /\ [Next]_vars => [Store!Next]_<<Contents, disk, Holder, pinned>>
  BY StoreStep
<1> QED BY StoreInit, <1>1, CacheInvariant, PTL DEF Spec, CacheIsStore, Store!Spec
=============================================================================
