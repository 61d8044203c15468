----------------------------- MODULE PipeProof ------------------------------
(***************************************************************************)
(* Proofs about the pipe, for any set of processes, any capacity, and any  *)
(* width of the counters: no lost wake-up of a writer, no reader asleep    *)
(* after the last writer has gone, no use of the pipe after it is freed,   *)
(* and what is read is what was written, in order (module ByteQueue).      *)
(***************************************************************************)
EXTENDS Pipe, RingTheorems, TLAPS

\* Where a process holds pi->lock, and where it is inside a read or a write.
Inside == {"read_test", "read_sleep", "read_loop", "write_loop", "write_sleep"}
Reading == {"read_lock", "read_test", "read_sleep", "read_asleep", "read_loop"}
Writing == {"write_lock", "write_loop", "write_sleep", "write_asleep"}

\* Exactly the holder of the lock is inside.
LockInv == \A p \in Procs : pc[p] \in Inside <=> lock = p

\* An end counts as open while a process has it, and whoever uses an end has it.
EndsInv ==
  /\ readopen <=> \E p \in Procs : "read" \in fds[p]
  /\ writeopen <=> \E p \in Procs : "write" \in fds[p]
  /\ \A p \in Procs : pc[p] \in Reading => "read" \in fds[p]
  /\ \A p \in Procs : pc[p] \in Writing => "write" \in fds[p]

\* One process frees the pipe, once, after both ends are closed.
FreeInv ==
  /\ (freed \/ \E p \in Procs : pc[p] = "free") <=> ~readopen /\ ~writeopen
  /\ freed => \A p \in Procs : pc[p] # "free"
  /\ \A p, q \in Procs : pc[p] = "free" /\ pc[q] = "free" => p = q

\* A writer goes to sleep, and sleeps, on a full pipe; only while a reader is at
\* work, who will wake it, may there be room.
WriterInv ==
  \A q \in Procs :
    /\ pc[q] = "write_sleep" => Full /\ readopen
    /\ pc[q] = "write_asleep" => readopen /\ (Full \/ \E p \in Procs : pc[p] = "read_loop")

\* A reader goes to sleep, and sleeps, on an empty pipe that has writers; only
\* while a writer that has written some is at work, or after such a writer has
\* returned -1, may there be bytes.
ReaderInv ==
  \A q \in Procs :
    /\ pc[q] = "read_sleep" => Empty /\ writeopen
    /\ pc[q] = "read_asleep" =>
         writeopen /\ (Empty \/ cut \/ \E p \in Procs : pc[p] = "write_loop" /\ i[p] > 0)

\* A call starts from nothing read or written.
CountInv == \A p \in Procs : pc[p] \in {"user", "free"} => i[p] = 0

\* The inductive invariant.
PipeInv == TypeOK /\ LockInv /\ EndsInv /\ FreeInv /\ WriterInv /\ ReaderInv /\ CountInv

-----------------------------------------------------------------------------
\* A counter that is one more stays a counter.
LEMMA NextCount == ASSUME NEW x \in 0 .. UINT - 1 PROVE (x + 1) % UINT \in 0 .. UINT - 1
BY PipeAssumption

\* The initial states satisfy the invariant.
LEMMA InitPipeInv == Init => PipeInv
<1> SUFFICES ASSUME Init PROVE PipeInv
  BY ZenonT(30)
<1> USE DEF Init
<1>1. TypeOK
  <2>1. data \in [0 .. PIPESIZE - 1 -> Bytes]
    BY ZenonT(30)
  <2>2. 0 \in 0 .. UINT - 1
    BY PipeAssumption
  <2>3. /\ lock \in Procs \cup {Nobody} /\ pc \in [Procs -> Places]
        /\ n \in [Procs -> Counts \cup {0}] /\ i \in [Procs -> Nat] /\ \A p \in Procs : i[p] <= n[p]
        /\ killed \in [Procs -> BOOLEAN]
    BY DEF Places
  <2>4. cut \in BOOLEAN
    BY ZenonT(30)
  <2> QED BY ZenonT(30), <2>1, <2>2, <2>3, <2>4 DEF TypeOK
<1>2. LockInv
  BY ZenonT(30), PipeAssumption DEF LockInv, Inside
<1>3. EndsInv
  BY ZenonT(30) DEF EndsInv, Ends, Reading, Writing
<1>4. FreeInv /\ WriterInv /\ ReaderInv /\ CountInv
  BY ZenonT(30) DEF FreeInv, WriterInv, ReaderInv, CountInv
<1> QED BY ZenonT(30), <1>1, <1>2, <1>3, <1>4 DEF PipeInv

\* A step that changes the program counter of p only.
LEMMA MovedTo ==
  ASSUME TypeOK, NEW p \in Procs, NEW l \in Places, Goto(p, l)
  PROVE  /\ pc' \in [Procs -> Places] /\ pc'[p] = l
         /\ \A q \in Procs \ {p} : pc'[q] = pc[q]
BY ZenonT(30) DEF TypeOK, Goto

\* A step of p that wakes the processes that are at "asleep".
LEMMA WokenTo ==
  ASSUME TypeOK, NEW p \in Procs, NEW l \in Places, NEW asleep \in Places, NEW awake \in Places,
         Wake(asleep, awake, p, l)
  PROVE  /\ pc' \in [Procs -> Places] /\ pc'[p] = l
         /\ \A q \in Procs \ {p} : pc'[q] = IF pc[q] = asleep THEN awake ELSE pc[q]
BY ZenonT(30) DEF TypeOK, Wake

\* Done() keeps the counts in their range.
LEMMA DoneCounts ==
  ASSUME TypeOK, NEW p \in Procs, Done(p)
  PROVE  /\ n' \in [Procs -> Counts \cup {0}]
         /\ i' \in [Procs -> Nat] /\ \A q \in Procs : i'[q] <= n'[q]
BY DEF TypeOK, Done

-----------------------------------------------------------------------------
(* Every action keeps the invariant.                                       *)

\* A call of read() or write() keeps the invariant: its counts start from 0.
LEMMA CallKeeps == ASSUME PipeInv, NEW p \in Procs, NEW e \in Ends, Call(p, e) PROVE PipeInv'
<1> USE DEF PipeInv
<1> DEFINE l == IF e = "read" THEN "read_lock" ELSE "write_lock"
<1>1. /\ pc' \in [Procs -> Places] /\ pc'[p] = l /\ pc[p] = "user"
      /\ \A q \in Procs \ {p} : pc'[q] = pc[q]
  BY ZenonT(30), MovedTo DEF Call, Places
<1>2. TypeOK'
  <2>1. /\ n' \in [Procs -> Counts \cup {0}]
        /\ i' \in [Procs -> Nat] /\ \A q \in Procs : i'[q] <= n'[q]
    BY <1>1, PipeAssumption DEF Call, TypeOK, CountInv
  <2> QED BY ZenonT(30), <1>1, <2>1 DEF Call, TypeOK, pipe
<1>3. LockInv'
  BY ZenonT(30), <1>1 DEF Call, LockInv, Inside, pipe
<1>4. EndsInv'
  BY ZenonT(30), <1>1 DEF Call, EndsInv, Reading, Writing, Ends, pipe
<1>5. FreeInv'
  BY ZenonT(30), <1>1 DEF Call, FreeInv, pipe
<1>6. WriterInv'
  BY ZenonT(30), <1>1 DEF Call, WriterInv, Full, pipe
<1>7. ReaderInv'
  BY ZenonT(30), <1>1 DEF Call, ReaderInv, Empty, pipe
<1>8. CountInv'
  BY ZenonT(30), <1>1 DEF Call, CountInv, counts, TypeOK
<1> QED BY ZenonT(30), <1>2, <1>3, <1>4, <1>5, <1>6, <1>7, <1>8

\* acquire(&pi->lock) keeps the invariant.
LEMMA AcquireKeeps == ASSUME PipeInv, NEW p \in Procs, Acquire(p) PROVE PipeInv'
<1> USE DEF PipeInv
<1> DEFINE l == IF pc[p] = "read_lock" THEN "read_test" ELSE "write_loop"
<1>1. /\ pc' \in [Procs -> Places] /\ pc'[p] = l /\ pc[p] \in {"read_lock", "write_lock"}
      /\ \A q \in Procs \ {p} : pc'[q] = pc[q]
  BY ZenonT(30), MovedTo DEF Acquire, Places
<1>2. TypeOK'
  BY ZenonT(30), <1>1 DEF Acquire, TypeOK, pipe, counts
<1>3. LockInv'
  BY ZenonT(30), <1>1, PipeAssumption DEF Acquire, LockInv, Inside
<1>4. EndsInv'
  BY ZenonT(30), <1>1 DEF Acquire, EndsInv, Reading, Writing, pipe
<1>5. FreeInv'
  BY ZenonT(30), <1>1 DEF Acquire, FreeInv, pipe
<1>6. WriterInv'
  BY ZenonT(30), <1>1 DEF Acquire, WriterInv, Full, pipe
<1>7. ReaderInv'
  BY ZenonT(30), <1>1 DEF Acquire, ReaderInv, Empty, pipe, counts
<1>8. CountInv'
  BY ZenonT(30), <1>1 DEF Acquire, CountInv, counts, TypeOK
<1> QED BY ZenonT(30), <1>2, <1>3, <1>4, <1>5, <1>6, <1>7, <1>8

\* sleep() keeps the invariant: the condition it was entered on still holds.
LEMMA SleepKeeps == ASSUME PipeInv, NEW p \in Procs, Sleep(p) PROVE PipeInv'
<1> USE DEF PipeInv
<1> DEFINE l == IF pc[p] = "read_sleep" THEN "read_asleep" ELSE "write_asleep"
<1>1. /\ pc' \in [Procs -> Places] /\ pc'[p] = l /\ pc[p] \in {"read_sleep", "write_sleep"}
      /\ \A q \in Procs \ {p} : pc'[q] = pc[q]
  BY ZenonT(30), MovedTo DEF Sleep, Places
<1>2. TypeOK'
  BY ZenonT(30), <1>1 DEF Sleep, TypeOK, pipe, counts
<1>3. LockInv'
  BY ZenonT(30), <1>1, PipeAssumption DEF Sleep, LockInv, Inside
<1>4. EndsInv'
  BY ZenonT(30), <1>1 DEF Sleep, EndsInv, Reading, Writing, pipe
<1>5. FreeInv'
  BY ZenonT(30), <1>1 DEF Sleep, FreeInv, pipe
<1>6. WriterInv'
  BY ZenonT(30), <1>1 DEF Sleep, WriterInv, Full, pipe
<1>7. ReaderInv'
  BY ZenonT(30), <1>1 DEF Sleep, ReaderInv, Empty, pipe, counts
<1>8. CountInv'
  BY ZenonT(30), <1>1 DEF Sleep, CountInv, counts, TypeOK
<1> QED BY ZenonT(30), <1>2, <1>3, <1>4, <1>5, <1>6, <1>7, <1>8

\* kill() keeps the invariant: it only wakes.
LEMMA KillKeeps == ASSUME PipeInv, NEW p \in Procs, Kill(p) PROVE PipeInv'
<1> USE DEF PipeInv
<1> DEFINE l == IF pc[p] = "read_asleep" THEN "read_lock"
                ELSE IF pc[p] = "write_asleep" THEN "write_lock" ELSE pc[p]
<1>0. l \in Places
  BY ZenonT(30) DEF TypeOK, Places
<1>1. /\ pc' \in [Procs -> Places] /\ pc'[p] = l
      /\ \A q \in Procs \ {p} : pc'[q] = pc[q]
  BY ZenonT(30), <1>0, MovedTo DEF Kill
<1>2. TypeOK'
  BY ZenonT(30), <1>1 DEF Kill, TypeOK, pipe, counts
<1>3. LockInv'
  BY ZenonT(30), <1>1 DEF Kill, LockInv, Inside
<1>4. EndsInv'
  BY ZenonT(30), <1>1 DEF Kill, EndsInv, Reading, Writing, pipe
<1>5. FreeInv'
  BY ZenonT(30), <1>1 DEF Kill, FreeInv, pipe
<1>6. WriterInv'
  BY ZenonT(30), <1>1 DEF Kill, WriterInv, Full, pipe
<1>7. ReaderInv'
  BY ZenonT(30), <1>1 DEF Kill, ReaderInv, Empty, pipe, counts, TypeOK
<1>8. CountInv'
  BY ZenonT(30), <1>1 DEF Kill, CountInv, counts, TypeOK
<1> QED BY ZenonT(30), <1>2, <1>3, <1>4, <1>5, <1>6, <1>7, <1>8

\* The process that holds the lock.
LEMMA OnlyHolder ==
  ASSUME LockInv, NEW p \in Procs, pc[p] \in Inside
  PROVE  lock = p /\ \A q \in Procs \ {p} : pc[q] \notin Inside
BY ZenonT(30) DEF LockInv

\* A write that returns -1 keeps the invariant, though it wakes nobody.
LEMMA WriteFailsKeeps == ASSUME PipeInv, NEW p \in Procs, WriteFails(p) PROVE PipeInv'
<1> USE DEF PipeInv
<1>1. /\ pc' \in [Procs -> Places] /\ pc'[p] = "user" /\ pc[p] = "write_loop"
      /\ \A q \in Procs \ {p} : pc'[q] = pc[q] /\ pc[q] \notin Inside
  BY ZenonT(30), MovedTo, OnlyHolder DEF WriteFails, WriteLoop, Places, Inside
<1>2. TypeOK'
  BY ZenonT(30), <1>1, DoneCounts DEF WriteFails, Done, TypeOK, pipe
<1>3. LockInv'
  BY ZenonT(30), <1>1, PipeAssumption DEF WriteFails, Done, LockInv, Inside
<1>4. EndsInv'
  BY ZenonT(30), <1>1 DEF WriteFails, EndsInv, Reading, Writing, pipe
<1>5. FreeInv'
  BY ZenonT(30), <1>1 DEF WriteFails, FreeInv, pipe
<1>6. WriterInv'
  BY ZenonT(30), <1>1 DEF WriteFails, WriterInv, Full, pipe, Inside
<1>7. ReaderInv'
  BY ZenonT(30), <1>1 DEF WriteFails, ReaderInv, Empty, pipe, Inside, EndsInv, Reading, WriteLoop
<1>8. CountInv'
  BY ZenonT(30), <1>1 DEF WriteFails, CountInv, Done, TypeOK
<1> QED BY ZenonT(30), <1>2, <1>3, <1>4, <1>5, <1>6, <1>7, <1>8

\* A writer that finds the pipe full keeps the invariant.
LEMMA WriteFullKeeps == ASSUME PipeInv, NEW p \in Procs, WriteFull(p) PROVE PipeInv'
<1> USE DEF PipeInv
<1>1. /\ pc' \in [Procs -> Places] /\ pc'[p] = "write_sleep" /\ pc[p] = "write_loop"
      /\ \A q \in Procs \ {p} : /\ pc'[q] = IF pc[q] = "read_asleep" THEN "read_lock" ELSE pc[q]
                                /\ pc[q] \notin Inside
  <2>1. Wake("read_asleep", "read_lock", p, "write_sleep") /\ pc[p] = "write_loop"
    BY ZenonT(30) DEF WriteFull, WakeReaders, WriteLoop
  <2>2. \A q \in Procs \ {p} : pc[q] \notin Inside
    BY ZenonT(30), <2>1, OnlyHolder DEF Inside
  <2>3. {"read_asleep", "read_lock", "write_sleep", "user"} \subseteq Places
    BY ZenonT(30) DEF Places
  <2> HIDE DEF PipeInv
  <2> QED BY <2>1, <2>2, <2>3, WokenTo DEF PipeInv
<1>2. TypeOK'
  BY ZenonT(30), <1>1 DEF WriteFull, WakeReaders, TypeOK, pipe, counts
<1>3. LockInv'
  BY ZenonT(30), <1>1, OnlyHolder DEF WriteFull, LockInv, Inside
<1>4. EndsInv'
  BY ZenonT(30), <1>1 DEF WriteFull, EndsInv, Reading, Writing, pipe
<1>5. FreeInv'
  BY ZenonT(30), <1>1 DEF WriteFull, FreeInv, pipe
<1>6. WriterInv'
  BY ZenonT(30), <1>1 DEF WriteFull, WriterInv, Full, pipe, Inside
<1>7. ReaderInv'
  BY ZenonT(30), <1>1 DEF WriteFull, ReaderInv, Empty, pipe, Inside
<1>8. CountInv'
  BY ZenonT(30), <1>1 DEF WriteFull, CountInv, counts, TypeOK
<1> QED BY ZenonT(30), <1>2, <1>3, <1>4, <1>5, <1>6, <1>7, <1>8

\* Nobody sleeps on a full pipe when there is room for a byte.
LEMMA WriteByteKeeps == ASSUME PipeInv, NEW p \in Procs, WriteByte(p) PROVE PipeInv'
<1> USE DEF PipeInv
<1>1. pc[p] = "write_loop" /\ \A q \in Procs \ {p} : pc[q] \notin Inside
  BY ZenonT(30), OnlyHolder DEF WriteByte, WriteLoop, Inside
<1>2. TypeOK'
  <2>1. nwrite' \in 0 .. UINT - 1
    BY ZenonT(30), NextCount DEF WriteByte, TypeOK
  <2>2. data' \in [0 .. PIPESIZE - 1 -> Bytes]
    BY ZenonT(30) DEF WriteByte, TypeOK
  <2>3. i' \in [Procs -> Nat] /\ \A q \in Procs : i'[q] <= n'[q]
    <3>0. Counts \cup {0} \subseteq Nat
      BY PipeAssumption
    <3>1. n \in [Procs -> Nat] /\ n' = n
      BY ZenonT(30), <3>0 DEF WriteByte, TypeOK
    <3>2. i \in [Procs -> Nat] /\ i' = [i EXCEPT ![p] = @ + 1] /\ i[p] < n[p]
      BY ZenonT(30) DEF WriteByte, WriteLoop, TypeOK
    <3> QED BY <3>1, <3>2 DEF TypeOK
  <2> QED BY ZenonT(30), <2>1, <2>2, <2>3 DEF WriteByte, TypeOK
<1>3. LockInv'
  BY ZenonT(30) DEF WriteByte, LockInv
<1>4. EndsInv'
  BY ZenonT(30) DEF WriteByte, EndsInv
<1>5. FreeInv'
  BY ZenonT(30) DEF WriteByte, FreeInv
<1>6. WriterInv'
  BY ZenonT(30), <1>1 DEF WriteByte, WriterInv, Inside
<1>7. ReaderInv'
  <2>1. i'[p] > 0
    <3>1. i[p] \in Nat /\ i'[p] = i[p] + 1
      BY ZenonT(30) DEF WriteByte, TypeOK
    <3> QED BY ONLY <3>1, SMTT(30)
  <2> QED BY ZenonT(30), <1>1, <2>1 DEF WriteByte, ReaderInv, Inside
<1>8. CountInv'
  BY ZenonT(30), <1>1 DEF WriteByte, CountInv, TypeOK
<1> QED BY ZenonT(30), <1>2, <1>3, <1>4, <1>5, <1>6, <1>7, <1>8

\* A write that is done keeps the invariant: it wakes the readers.
LEMMA WriteDoneKeeps == ASSUME PipeInv, NEW p \in Procs, WriteDone(p) PROVE PipeInv'
<1> USE DEF PipeInv
<1>1. /\ pc' \in [Procs -> Places] /\ pc'[p] = "user" /\ pc[p] = "write_loop"
      /\ \A q \in Procs \ {p} : /\ pc'[q] = IF pc[q] = "read_asleep" THEN "read_lock" ELSE pc[q]
                                /\ pc[q] \notin Inside
  <2>1. Wake("read_asleep", "read_lock", p, "user") /\ pc[p] = "write_loop"
    BY ZenonT(30) DEF WriteDone, WakeReaders
  <2>2. \A q \in Procs \ {p} : pc[q] \notin Inside
    BY ZenonT(30), <2>1, OnlyHolder DEF Inside
  <2>3. {"read_asleep", "read_lock", "write_sleep", "user"} \subseteq Places
    BY ZenonT(30) DEF Places
  <2> HIDE DEF PipeInv
  <2> QED BY <2>1, <2>2, <2>3, WokenTo DEF PipeInv
<1>2. TypeOK'
  BY ZenonT(30), <1>1, DoneCounts DEF WriteDone, WakeReaders, Done, TypeOK, pipe
<1>3. LockInv'
  BY ZenonT(30), <1>1, PipeAssumption DEF WriteDone, Done, LockInv, Inside
<1>4. EndsInv'
  BY ZenonT(30), <1>1 DEF WriteDone, EndsInv, Reading, Writing, pipe
<1>5. FreeInv'
  BY ZenonT(30), <1>1 DEF WriteDone, FreeInv, pipe
<1>6. WriterInv'
  BY ZenonT(30), <1>1 DEF WriteDone, WriterInv, Full, pipe, Inside
<1>7. ReaderInv'
  BY ZenonT(30), <1>1 DEF WriteDone, ReaderInv, Empty, pipe, Inside
<1>8. CountInv'
  BY ZenonT(30), <1>1 DEF WriteDone, CountInv, Done, TypeOK
<1> QED BY ZenonT(30), <1>2, <1>3, <1>4, <1>5, <1>6, <1>7, <1>8

\* piperead()'s loop over an empty pipe keeps the invariant.
LEMMA ReadTestKeeps == ASSUME PipeInv, NEW p \in Procs, ReadTest(p) PROVE PipeInv'
<1> USE DEF PipeInv
<1>0. pc[p] = "read_test" /\ lock = p /\ \A q \in Procs \ {p} : pc[q] \notin Inside
  BY ZenonT(30), OnlyHolder DEF ReadTest, Inside
<1>1. CASE Empty /\ writeopen /\ killed[p]
  <2>1. /\ pc' \in [Procs -> Places] /\ pc'[p] = "user"
        /\ \A q \in Procs \ {p} : pc'[q] = pc[q]
    BY ZenonT(30), <1>1, MovedTo DEF ReadTest, Places
  <2>2. TypeOK'
    BY ZenonT(30), <1>1, <2>1, DoneCounts DEF ReadTest, Done, TypeOK, pipe
  <2>3. LockInv' /\ CountInv'
    <3>1. Done(p)
      BY ZenonT(30), <1>1 DEF ReadTest
    <3>2. LockInv'
      BY ZenonT(30), <1>0, <2>1, <3>1, PipeAssumption DEF Done, LockInv, Inside
    <3>3. CountInv'
      BY ZenonT(30), <2>1, <3>1 DEF Done, CountInv, TypeOK
    <3> QED BY ZenonT(30), <3>2, <3>3
  <2>4. EndsInv' /\ FreeInv'
    BY ZenonT(30), <1>0, <2>1 DEF ReadTest, EndsInv, FreeInv, Reading, Writing, pipe
  <2>5. WriterInv'
    BY ZenonT(30), <1>0, <2>1 DEF ReadTest, WriterInv, Full, pipe
  <2>6. ReaderInv'
    <3>1. \A q \in Procs \ {p} : pc[q] # "write_loop"
      BY ZenonT(30), <1>0 DEF Inside
    <3> QED BY ZenonT(30), <1>0, <2>1, <3>1 DEF ReadTest, ReaderInv, Empty, pipe
  <2> QED BY ZenonT(30), <2>2, <2>3, <2>4, <2>5, <2>6
<1>2. CASE ~(Empty /\ writeopen /\ killed[p])
  <2> DEFINE l == IF Empty /\ writeopen THEN "read_sleep" ELSE "read_loop"
  <2>1. /\ pc' \in [Procs -> Places] /\ pc'[p] = l /\ UNCHANGED <<lock, counts>>
        /\ \A q \in Procs \ {p} : pc'[q] = pc[q]
    BY ZenonT(30), <1>2, MovedTo DEF ReadTest, Places
  <2>2. TypeOK'
    BY ZenonT(30), <2>1 DEF ReadTest, TypeOK, pipe, counts
  <2>3. LockInv' /\ CountInv'
    BY SMTT(30), <1>0, <2>1 DEF LockInv, CountInv, Inside, counts
  <2>4. EndsInv' /\ FreeInv'
    BY SMTT(30), <1>0, <2>1 DEF ReadTest, EndsInv, FreeInv, Reading, Writing, pipe
  <2>5. WriterInv' /\ ReaderInv'
    BY ZenonT(30), <1>0, <2>1 DEF ReadTest, WriterInv, ReaderInv, Full, Empty, pipe, counts
  <2> QED BY ZenonT(30), <2>2, <2>3, <2>4, <2>5
<1> QED BY ZenonT(30), <1>1, <1>2

\* A read that ends, and the writers that it wakes.
LEMMA ReaderLeaves ==
  ASSUME PipeInv, NEW p \in Procs, pc[p] = "read_loop", WakeWriters(p, "user"), Done(p),
         nread' \in 0 .. UINT - 1, UNCHANGED <<data, nwrite, readopen, writeopen, freed, fds, killed, cut>>,
         Empty => nread' = nread
  PROVE  PipeInv'
<1> USE DEF PipeInv
<1>1. /\ pc' \in [Procs -> Places] /\ pc'[p] = "user"
      /\ \A q \in Procs \ {p} : /\ pc'[q] = IF pc[q] = "write_asleep" THEN "write_lock" ELSE pc[q]
                                /\ pc[q] \notin Inside
  <2>1. Wake("write_asleep", "write_lock", p, "user")
    BY ZenonT(30) DEF WakeWriters
  <2>2. \A q \in Procs \ {p} : pc[q] \notin Inside
    BY ZenonT(30), OnlyHolder DEF Inside
  <2>3. {"write_asleep", "write_lock", "user"} \subseteq Places
    BY SMTT(30) DEF Places
  <2> HIDE DEF PipeInv
  <2> QED BY <2>1, <2>2, <2>3, WokenTo DEF PipeInv
<1>2. TypeOK'
  BY ZenonT(30), <1>1, DoneCounts DEF Done, TypeOK
<1>3. LockInv' /\ CountInv'
  BY ZenonT(30), <1>1, PipeAssumption DEF Done, LockInv, CountInv, Inside, TypeOK
<1>4. EndsInv' /\ FreeInv'
  BY ZenonT(30), <1>1 DEF EndsInv, FreeInv, Reading, Writing
<1>5. WriterInv'
  BY ZenonT(30), <1>1 DEF WriterInv, Inside
<1>6. ReaderInv'
  BY ZenonT(30), <1>1 DEF ReaderInv, Empty, Inside
<1> QED BY ZenonT(30), <1>2, <1>3, <1>4, <1>5, <1>6

\* A byte read keeps the invariant: the reader is there to wake the writers.
LEMMA ReadByteKeeps == ASSUME PipeInv, NEW p \in Procs, ReadByte(p) PROVE PipeInv'
<1> USE DEF PipeInv
<1>1. nread' \in 0 .. UINT - 1
  BY ZenonT(30), NextCount DEF ReadByte, TypeOK
<1>2. CASE WakeWriters(p, "user") /\ Done(p)
  BY ZenonT(30), <1>1, <1>2, ReaderLeaves DEF ReadByte
<1>3. CASE i' = [i EXCEPT ![p] = @ + 1] /\ UNCHANGED <<pc, lock, n>>
  <2>1. pc[p] = "read_loop" /\ \A q \in Procs \ {p} : pc[q] \notin Inside
    BY ZenonT(30), OnlyHolder DEF ReadByte, Inside
  <2>2. i' \in [Procs -> Nat] /\ \A q \in Procs : i'[q] <= n'[q]
    <3>1. Counts \cup {0} \subseteq Nat
      BY PipeAssumption
    <3>2. n \in [Procs -> Nat] /\ n' = n
      BY ZenonT(30), <1>3, <3>1 DEF TypeOK
    <3>3. i \in [Procs -> Nat] /\ i[p] < n[p]
      BY ZenonT(30) DEF ReadByte, TypeOK
    <3> QED BY <1>3, <3>2, <3>3 DEF TypeOK
  <2>3. TypeOK'
    BY SMTT(30), <1>1, <1>3, <2>2 DEF ReadByte, TypeOK
  <2>4. LockInv' /\ EndsInv' /\ FreeInv'
    BY SMTT(30), <1>3 DEF ReadByte, LockInv, EndsInv, FreeInv
  <2>5. WriterInv'
    BY SMTT(30), <1>3, <2>1 DEF ReadByte, WriterInv, Inside
  <2>6. ReaderInv'
    BY ZenonT(30), <1>3, <2>1 DEF ReadByte, ReaderInv, Inside
  <2>7. CountInv'
    BY SMTT(30), <1>3, <2>1 DEF CountInv, TypeOK
  <2> QED BY ZenonT(30), <2>3, <2>4, <2>5, <2>6, <2>7
<1> QED BY ZenonT(30), <1>2, <1>3 DEF ReadByte

\* A read that is done keeps the invariant: it wakes the writers.
LEMMA ReadDoneKeeps == ASSUME PipeInv, NEW p \in Procs, ReadDone(p) PROVE PipeInv'
BY SMTT(30), ReaderLeaves DEF ReadDone, PipeInv, TypeOK, pipe

\* An end that another process still has stays open.
LEMMA CloseSharedKeeps ==
  ASSUME PipeInv, NEW p \in Procs, NEW e \in Ends, Close(p, e), ~LastEnd(p, e) PROVE PipeInv'
<1> USE DEF PipeInv
<1>1. UNCHANGED <<data, nread, nwrite, readopen, writeopen, pc, lock, freed, n, i, killed, cut>>
  BY ZenonT(30) DEF Close, counts
<1>2. /\ pc[p] = "user" /\ fds' = [fds EXCEPT ![p] = @ \ {e}] /\ fds' \in [Procs -> SUBSET Ends]
      /\ \E q \in Procs \ {p} : e \in fds[q]
  BY SMTT(30) DEF Close, LastEnd, TypeOK
<1>3. TypeOK' /\ LockInv' /\ FreeInv' /\ WriterInv' /\ ReaderInv' /\ CountInv'
  BY SMTT(30), <1>1, <1>2 DEF TypeOK, LockInv, FreeInv, WriterInv, ReaderInv, CountInv, Full, Empty
<1>4. EndsInv'
  BY SMTT(30), <1>1, <1>2 DEF EndsInv, TypeOK, Reading, Writing, Ends
<1> QED BY ZenonT(30), <1>3, <1>4

\* The last process to have an end closes it and wakes whoever waits for the other.
LEMMA CloseLastKeeps ==
  ASSUME PipeInv, NEW p \in Procs, NEW e \in Ends, Close(p, e), LastEnd(p, e) PROVE PipeInv'
<1> USE DEF PipeInv
<1> DEFINE l == IF readopen' \/ writeopen' THEN "user" ELSE "free"
           asleep == IF e = "write" THEN "read_asleep" ELSE "write_asleep"
           awake == IF e = "write" THEN "read_lock" ELSE "write_lock"
<1>1. /\ pc[p] = "user" /\ e \in fds[p] /\ fds' = [fds EXCEPT ![p] = @ \ {e}]
      /\ fds' \in [Procs -> SUBSET Ends] /\ \A q \in Procs \ {p} : e \notin fds[q]
      /\ UNCHANGED <<data, nread, nwrite, lock, freed, n, i, killed>>
      /\ readopen' = (readopen /\ e # "read") /\ writeopen' = (writeopen /\ e # "write")
  BY ZenonT(30) DEF Close, pipeclose, LastEnd, TypeOK, counts
<1>2. /\ pc' \in [Procs -> Places] /\ pc'[p] = l
      /\ \A q \in Procs \ {p} : pc'[q] = IF pc[q] = asleep THEN awake ELSE pc[q]
  <2>1. Wake(asleep, awake, p, l)
    BY ZenonT(30) DEF Close, pipeclose, WakeReaders, WakeWriters
  <2>2. asleep \in Places /\ awake \in Places /\ l \in Places
    BY ZenonT(30) DEF Places
  <2> HIDE DEF PipeInv, l, asleep, awake
  <2> QED BY SMTT(30), <2>1, <2>2, WokenTo DEF PipeInv
<1>3. \A q \in Procs : pc[q] \notin Inside
  BY ZenonT(30), PipeAssumption DEF Close, pipeclose, LockInv
<1>4. ~freed /\ (\A q \in Procs : pc[q] # "free") /\ (e = "read" => readopen) /\ (e = "write" => writeopen)
  BY SMTT(30), <1>1 DEF FreeInv, EndsInv, Ends
<1>5. TypeOK'
  <2>1. cut' \in BOOLEAN
    BY ZenonT(30) DEF Close, pipeclose, WakeReaders, TypeOK
  <2> QED BY ZenonT(30), <1>1, <1>2, <2>1 DEF TypeOK
<1>6. LockInv' /\ CountInv'
  <2>1. "user" \notin Inside /\ "free" \notin Inside /\ "read_lock" \notin Inside /\ "write_lock" \notin Inside
    BY ZenonT(30) DEF Inside
  <2>2. \A q \in Procs : pc'[q] \notin Inside
    <3>1. l \notin Inside /\ awake \notin Inside
      BY ONLY <2>1, ZenonT(30)
    <3> HIDE DEF l, asleep, awake
    <3>2. pc'[p] \notin Inside
      BY ONLY <1>2, <3>1, ZenonT(30)
    <3>3. ASSUME NEW q \in Procs \ {p} PROVE pc'[q] \notin Inside
      <4>1. pc'[q] = awake \/ pc'[q] = pc[q]
        BY ONLY <1>2, q \in Procs \ {p}, ZenonT(30)
      <4>2. pc[q] \notin Inside
        BY ONLY <1>3, q \in Procs \ {p}, ZenonT(30)
      <4> QED BY ONLY <3>1, <4>1, <4>2, ZenonT(30)
    <3> QED BY ONLY <3>2, <3>3, ZenonT(30)
  <2>3. LockInv'
    BY ZenonT(30), <1>1, <1>3, <2>2 DEF LockInv
  <2>4. CountInv'
    BY ZenonT(30), <1>1, <1>2 DEF CountInv
  <2> QED BY ZenonT(30), <2>3, <2>4
<1>7. EndsInv'
  <2>1. \A q \in Procs \ {p} : fds'[q] = fds[q]
    BY ZenonT(30), <1>1 DEF TypeOK
  <2>2. fds'[p] = fds[p] \ {e}
    BY ZenonT(30), <1>1 DEF TypeOK
  <2>3. CASE e = "read"
    <3>1. ~readopen' /\ \A q \in Procs : "read" \notin fds'[q]
      BY ZenonT(30), <1>1, <2>1, <2>2, <2>3
    <3>2. writeopen' = writeopen
      BY ZenonT(30), <1>1, <2>3 DEF TypeOK
    <3>3. \A q \in Procs : "write" \in fds'[q] <=> "write" \in fds[q]
      BY ZenonT(30), <2>1, <2>2, <2>3
    <3>4. \A q \in Procs : pc'[q] \notin Reading /\ (pc'[q] \in Writing => pc[q] \in Writing)
      BY ZenonT(30), <1>1, <1>2, <2>3 DEF EndsInv, Reading, Writing
    <3> QED BY ZenonT(30), <3>1, <3>2, <3>3, <3>4 DEF EndsInv
  <2>4. CASE e = "write"
    <3>1. ~writeopen' /\ \A q \in Procs : "write" \notin fds'[q]
      BY ZenonT(30), <1>1, <2>1, <2>2, <2>4
    <3>2. readopen' = readopen
      BY ZenonT(30), <1>1, <2>4 DEF TypeOK
    <3>3. \A q \in Procs : "read" \in fds'[q] <=> "read" \in fds[q]
      BY ZenonT(30), <2>1, <2>2, <2>4
    <3>4. \A q \in Procs : pc'[q] \notin Writing /\ (pc'[q] \in Reading => pc[q] \in Reading)
      BY ZenonT(30), <1>1, <1>2, <2>4 DEF EndsInv, Reading, Writing
    <3> QED BY ZenonT(30), <3>1, <3>2, <3>3, <3>4 DEF EndsInv
  <2> QED BY ZenonT(30), <2>3, <2>4 DEF Ends
<1>8. FreeInv'
  BY <1>1, <1>2, <1>4 DEF FreeInv
<1>9. WriterInv'
  <2>1. \A q \in Procs : pc'[q] = "write_asleep" => e = "write" /\ pc[q] = "write_asleep"
    BY <1>1, <1>2 DEF Ends
  <2>2. \A q \in Procs : pc'[q] # "write_sleep"
    BY ZenonT(30), <1>2, <1>3 DEF Inside
  <2>3. \A q \in Procs : pc[q] = "write_asleep" => Full /\ readopen
    BY ZenonT(30), <1>3 DEF WriterInv, Inside
  <2>4. Full' = Full /\ (e = "write" => readopen' = readopen)
    BY SMTT(30), <1>1 DEF Full, TypeOK
  <2> QED BY <2>1, <2>2, <2>3, <2>4 DEF WriterInv
<1>10. ReaderInv'
  <2>1. e = "read" => \A q \in Procs : pc[q] # "read_asleep"
    BY ZenonT(30), <1>1 DEF EndsInv, Reading
  <2>2. \A q \in Procs : pc'[q] = "read_asleep" => e = "read" /\ pc[q] = "read_asleep"
    BY <1>1, <1>2 DEF Ends
  <2>3. \A q \in Procs : pc'[q] # "read_sleep"
    BY ZenonT(30), <1>2, <1>3 DEF Inside
  <2> QED BY ZenonT(30), <2>1, <2>2, <2>3 DEF ReaderInv
<1> QED BY ZenonT(30), <1>5, <1>6, <1>7, <1>8, <1>9, <1>10

\* kfree(pi) keeps the invariant.
LEMMA FreeKeeps == ASSUME PipeInv, NEW p \in Procs, Free(p) PROVE PipeInv'
<1> USE DEF PipeInv
<1>1. /\ pc' \in [Procs -> Places] /\ pc'[p] = "user" /\ pc[p] = "free"
      /\ \A q \in Procs \ {p} : pc'[q] = pc[q]
  BY ZenonT(30), MovedTo DEF Free, Places
<1>2. TypeOK'
  BY ZenonT(30), <1>1 DEF Free, TypeOK, pipe, counts
<1>3. LockInv' /\ CountInv'
  BY SMTT(30), <1>1 DEF Free, LockInv, CountInv, Inside, counts
<1>4. EndsInv'
  BY ZenonT(30), <1>1 DEF Free, EndsInv, Reading, Writing, pipe
<1>5. FreeInv'
  BY SMTT(30), <1>1 DEF Free, FreeInv, pipe
<1>6. WriterInv' /\ ReaderInv'
  BY ZenonT(30), <1>1 DEF Free, WriterInv, ReaderInv, Full, Empty, pipe, counts
<1> QED BY ZenonT(30), <1>2, <1>3, <1>4, <1>5, <1>6

-----------------------------------------------------------------------------
(* Theorems.                                                               *)

\* Every reachable state of a pipe satisfies the inductive invariant.
THEOREM PipeInvariant == Spec => []PipeInv
<1>1. PipeInv /\ [Next]_vars => PipeInv'
  <2> SUFFICES ASSUME PipeInv, [Next]_vars PROVE PipeInv'
    BY SMTT(30)
  <2>1. CASE UNCHANGED vars
    BY ZenonT(30), <2>1 DEF vars, PipeInv, TypeOK, LockInv, EndsInv, FreeInv, WriterInv, ReaderInv, CountInv,
                Full, Empty
  <2>2. ASSUME NEW p \in Procs, Kernel(p) PROVE PipeInv'
    BY ZenonT(30), <2>2, AcquireKeeps, SleepKeeps, FreeKeeps, WriteFailsKeeps, WriteFullKeeps, WriteByteKeeps,
       WriteDoneKeeps, ReadTestKeeps, ReadByteKeeps, ReadDoneKeeps DEF Kernel
  <2>3. ASSUME NEW p \in Procs, NEW e \in Ends, Call(p, e) \/ Close(p, e) PROVE PipeInv'
    BY ZenonT(30), <2>3, CallKeeps, CloseSharedKeeps, CloseLastKeeps
  <2> QED BY <2>1, <2>2, <2>3, KillKeeps DEF Next
<1> QED BY <1>1, InitPipeInv, PTL DEF Spec

\* The state keeps its type: pipewrite() and piperead() never count past n.
THEOREM PipeTypeOK == Spec => []TypeOK
<1>1. PipeInv => TypeOK
  BY DEF PipeInv
<1> QED BY <1>1, PipeInvariant, PTL

\* piperead() and pipeclose() lose no wake-up of a writer, whoever is killed.
THEOREM NoWriterLost == Spec => []WritersSleepOnFull
<1>1. PipeInv => WritersSleepOnFull
  BY PipeAssumption DEF PipeInv, WriterInv, LockInv, Inside, WritersSleepOnFull
<1> QED BY <1>1, PipeInvariant, PTL

\* pipewrite() and pipeclose() lose no wake-up of a reader, whoever is killed or
\* closes an end, but for one: a pipewrite() that returns -1 with bytes written.
THEOREM NoReaderLost == Spec => []ReadersSleepOnEmptyUnlessCut
<1>1. PipeInv => ReadersSleepOnEmptyUnlessCut
  BY ZenonT(30), PipeAssumption DEF PipeInv, ReaderInv, LockInv, Inside, ReadersSleepOnEmptyUnlessCut
<1> QED BY <1>1, PipeInvariant, PTL

\* After the last close of the write end no reader of piperead() stays asleep.
THEOREM EveryReaderSeesEnd == Spec => []ReadersSeeEnd
<1>1. PipeInv => ReadersSeeEnd
  BY DEF PipeInv, ReaderInv, ReadersSeeEnd
<1> QED BY <1>1, PipeInvariant, PTL

\* pipeclose() frees the pipe once both ends are closed, and nobody is in it then.
THEOREM FreedOnceUnused == Spec => []NoUseAfterFree
<1>1. PipeInv => NoUseAfterFree
  <2> SUFFICES ASSUME PipeInv PROVE NoUseAfterFree
    BY ZenonT(30)
  <2>1. ASSUME freed PROVE \A p \in Procs : pc[p] = "user"
    <3>1. \A p \in Procs : pc[p] \notin Reading \cup Writing /\ pc[p] # "free"
      BY ZenonT(30), <2>1 DEF PipeInv, EndsInv, FreeInv
    <3>2. pc \in [Procs -> Places]
      BY ZenonT(30) DEF PipeInv, TypeOK
    <3>3. Places = Reading \cup Writing \cup {"user", "free"}
      BY ZenonT(30) DEF Places, Reading, Writing
    <3> QED BY ONLY <3>1, <3>2, <3>3, ZenonT(30)
  <2>2. ASSUME freed PROVE lock = Nobody
    BY ZenonT(30), <2>1, <2>2 DEF PipeInv, TypeOK, LockInv, Inside
  <2> QED BY <2>1, <2>2 DEF NoUseAfterFree, PipeInv, FreeInv
<1> QED BY <1>1, PipeInvariant, PTL

-----------------------------------------------------------------------------
(* The pipe is a queue: its counters point into the circular buffer.       *)

\* What is held, as a number, and how pipewrite() and piperead() test for it.
LEMMA HeldIs ==
  ASSUME TypeOK
  PROVE  /\ Held = IF nread <= nwrite THEN nwrite - nread ELSE nwrite + UINT - nread
         /\ Empty <=> Held = 0
         /\ Full <=> Held = PIPESIZE
<1>0. /\ UINT \in Nat \ {0} /\ PIPESIZE \in Nat /\ PIPESIZE < UINT
      /\ nread \in 0 .. UINT - 1 /\ nwrite \in 0 .. UINT - 1
  BY PipeAssumption DEF TypeOK
<1>1. Held = IF nread <= nwrite THEN nwrite - nread ELSE nwrite + UINT - nread
  BY ONLY <1>0, CounterDistance, ZenonT(30) DEF Held
<1>2. PICK x \in 0 .. UINT + UINT - 1 : x = nread + PIPESIZE
  BY ONLY <1>0
<1>3. (x < UINT => x % UINT = x) /\ (~ (x < UINT) => x % UINT = x - UINT)
  BY ONLY <1>0, x \in 0 .. UINT + UINT - 1, ModOnce, ZenonT(30)
<1>4. Empty <=> Held = 0
  BY ONLY <1>0, <1>1 DEF Empty
<1>5. Full <=> Held = PIPESIZE
  BY ONLY <1>0, <1>1, <1>2, <1>3 DEF Full
<1> QED BY <1>1, <1>4, <1>5, ZenonT(30)

\* pipewrite() adds one, piperead() takes one.
LEMMA HeldNext ==
  ASSUME TypeOK, TypeOK', Held <= PIPESIZE
  PROVE  /\ ~Full /\ nwrite' = (nwrite + 1) % UINT /\ nread' = nread => Held < PIPESIZE /\ Held' = Held + 1
         /\ ~Empty /\ nread' = (nread + 1) % UINT /\ nwrite' = nwrite => Held > 0 /\ Held' = Held - 1
<1>0. /\ UINT \in Nat \ {0} /\ PIPESIZE \in Nat /\ PIPESIZE < UINT
      /\ nread \in 0 .. UINT - 1 /\ nwrite \in 0 .. UINT - 1
  BY PipeAssumption DEF TypeOK
<1>1. /\ Held = IF nread <= nwrite THEN nwrite - nread ELSE nwrite + UINT - nread
      /\ (Empty <=> Held = 0) /\ (Full <=> Held = PIPESIZE)
  BY ZenonT(30), HeldIs
<1>2. Held' = IF nread' <= nwrite' THEN nwrite' - nread' ELSE nwrite' + UINT - nread'
  <2>1. nread' \in 0 .. UINT - 1 /\ nwrite' \in 0 .. UINT - 1
    BY ZenonT(30) DEF TypeOK
  <2> QED BY ONLY <1>0, <2>1, CounterDistance, ZenonT(30) DEF Held
<1>3. /\ (nwrite + 1) % UINT = IF nwrite = UINT - 1 THEN 0 ELSE nwrite + 1
      /\ (nread + 1) % UINT = IF nread = UINT - 1 THEN 0 ELSE nread + 1
  BY ONLY <1>0, CounterNext, ZenonT(30)
<1> HIDE DEF Held
<1> QED BY ONLY <1>0, <1>1, <1>2, <1>3, Held <= PIPESIZE

\* The bytes held are a sequence.
QueueOK ==
  /\ Held \in Nat /\ Queue \in Seq(Bytes) /\ Len(Queue) = Held
  /\ \A k \in 1 .. Held : Queue[k] = data[(nread + k - 1) % PIPESIZE]

\* The circular buffer holds such a sequence.
LEMMA QueueIs == TypeOK => QueueOK
<1> SUFFICES ASSUME TypeOK PROVE QueueOK
  BY ZenonT(30)
<1>0. /\ UINT \in Nat \ {0} /\ PIPESIZE \in Nat \ {0}
      /\ nread \in 0 .. UINT - 1 /\ nwrite \in 0 .. UINT - 1 /\ data \in [0 .. PIPESIZE - 1 -> Bytes]
  BY PipeAssumption DEF TypeOK
<1>1. Held \in Nat
  <2>1. Held = IF nread <= nwrite THEN nwrite - nread ELSE nwrite + UINT - nread
    BY ZenonT(30), HeldIs
  <2> QED BY ONLY <1>0, <2>1
<1>2. \A k \in 1 .. Held : (nread + k - 1) % PIPESIZE \in 0 .. PIPESIZE - 1
  <2> SUFFICES ASSUME NEW k \in 1 .. Held PROVE (nread + k - 1) % PIPESIZE \in 0 .. PIPESIZE - 1
    BY ZenonT(30)
  <2>1. nread + k - 1 \in Nat
    BY ONLY <1>0, <1>1, k \in 1 .. Held
  <2> QED BY ONLY <1>0, <2>1, DivMod, ZenonT(30)
<1>3. Queue \in [1 .. Held -> Bytes] /\ \A k \in 1 .. Held : Queue[k] = data[(nread + k - 1) % PIPESIZE]
  BY ONLY <1>0, <1>2, ZenonT(30) DEF Queue
<1> HIDE DEF Queue, Held
<1> QED BY <1>1, <1>3, FunctionSeq, ZenonT(30) DEF QueueOK

\* pipewrite() puts a byte at the end of the queue: where nwrite points to there
\* is none of the bytes held.
LEMMA WriteIsPut ==
  ASSUME PipeInv, PipeInv', Held <= PIPESIZE, NEW p \in Procs, WriteByte(p)
  PROVE  Held' <= PIPESIZE /\ \E b \in Bytes : Fifo!Put(b)
<1>0. TypeOK /\ TypeOK'
  BY ZenonT(30) DEF PipeInv
<1>1. PICK b \in Bytes : data' = [data EXCEPT ![nwrite % PIPESIZE] = b]
  BY ZenonT(30) DEF WriteByte
<1>2. ~Full /\ nwrite' = (nwrite + 1) % UINT /\ nread' = nread /\ readopen
      /\ readopen' = readopen /\ writeopen' = writeopen
  BY ZenonT(30) DEF WriteByte
<1>3. Held < PIPESIZE /\ Held' = Held + 1
  BY ONLY <1>0, <1>2, Held <= PIPESIZE, HeldNext, ZenonT(30)
<1>4. QueueOK /\ QueueOK'
  BY ONLY <1>0, QueueIs, PTL
<1>5. (nread + Held) % PIPESIZE = nwrite % PIPESIZE
  <2>1. /\ UINT \in Nat \ {0} /\ PIPESIZE \in Nat \ {0} /\ UINT % PIPESIZE = 0
        /\ nread \in 0 .. UINT - 1 /\ nwrite \in 0 .. UINT - 1
    BY <1>0, PipeAssumption DEF TypeOK
  <2>2. Held = IF nread <= nwrite THEN nwrite - nread ELSE nwrite + UINT - nread
    BY ONLY <1>0, HeldIs, ZenonT(30)
  <2> HIDE DEF Held
  <2>3. (nread + Held = nwrite \/ nread + Held = nwrite + UINT) /\ nwrite \in Nat /\ UINT \in Nat
    BY ONLY <2>1, <2>2
  <2>4. (nwrite + UINT) % PIPESIZE = nwrite % PIPESIZE
    BY ONLY <2>1, <2>3, ModTimes, ZenonT(30)
  <2> QED BY ONLY <2>3, <2>4, ZenonT(30)
<1>6. ASSUME NEW k \in 1 .. Held PROVE (nread + k - 1) % PIPESIZE # nwrite % PIPESIZE
  <2>1. /\ PIPESIZE \in Nat \ {0} /\ nread \in Nat /\ Held \in Nat
    BY <1>0, <1>4, PipeAssumption DEF TypeOK, QueueOK
  <2>2. /\ k - 1 \in Nat /\ k - 1 < Held /\ Held < (k - 1) + PIPESIZE
        /\ nread + (k - 1) = nread + k - 1
    BY ONLY <1>3, <2>1, k \in 1 .. Held
  <2>3. (nread + (k - 1)) % PIPESIZE # (nread + Held) % PIPESIZE
    BY ONLY <2>1, <2>2, RingApart, ZenonT(30)
  <2> QED BY ONLY <1>5, <2>2, <2>3, ZenonT(30)
<1>7. Queue' = Append(Queue, b)
  <2>1. /\ Append(Queue, b) \in Seq(Bytes) /\ Len(Append(Queue, b)) = Held + 1
        /\ \A k \in 1 .. Held : Append(Queue, b)[k] = Queue[k]
        /\ Append(Queue, b)[Held + 1] = b
    <3>1. Queue \in Seq(Bytes) /\ Len(Queue) = Held
      BY <1>4, ZenonT(30) DEF QueueOK
    <3> QED BY ONLY <3>1, b \in Bytes, AppendIs
  <2>2. /\ Held \in Nat /\ Queue' \in Seq(Bytes) /\ Len(Queue') = Held + 1 /\ Held + 1 \in Nat
        /\ \A k \in 1 .. Held + 1 : Queue'[k] = data'[(nread + k - 1) % PIPESIZE]
    BY <1>2, <1>3, <1>4 DEF QueueOK
  <2>3. data \in [0 .. PIPESIZE - 1 -> Bytes] /\ nwrite % PIPESIZE \in 0 .. PIPESIZE - 1
    BY <1>0, PipeAssumption DEF TypeOK
  <2>4. \A k \in 1 .. Held : Queue'[k] = Queue[k]
    <3> SUFFICES ASSUME NEW k \in 1 .. Held PROVE Queue'[k] = Queue[k]
      BY ZenonT(30)
    <3>1. k \in 1 .. Held + 1
      BY ONLY <2>2, k \in 1 .. Held
    <3>2. Queue[k] = data[(nread + k - 1) % PIPESIZE]
      BY <1>4, ZenonT(30) DEF QueueOK
    <3>3. data'[(nread + k - 1) % PIPESIZE] = data[(nread + k - 1) % PIPESIZE]
      <4>1. (nread + k - 1) % PIPESIZE # nwrite % PIPESIZE
        BY <1>6, ZenonT(30)
      <4>2. (nread + k - 1) % PIPESIZE \in 0 .. PIPESIZE - 1
        BY ONLY <1>0, <2>2, k \in 1 .. Held, PipeAssumption DEF TypeOK
      <4> QED BY ONLY <1>1, <2>3, <4>1, <4>2, ZenonT(30)
    <3> QED BY ONLY <2>2, <3>1, <3>2, <3>3, ZenonT(30)
  <2>5. Queue'[Held + 1] = b
    <3>1. Held + 1 \in 1 .. Held + 1 /\ nread + (Held + 1) - 1 = nread + Held
      BY ONLY <2>2, <1>0 DEF TypeOK
    <3>2. data'[nwrite % PIPESIZE] = b
      BY ONLY <1>1, <2>3, ZenonT(30)
    <3>3. Queue'[Held + 1] = data'[(nread + (Held + 1) - 1) % PIPESIZE]
      BY ONLY <2>2, <3>1, ZenonT(30)
    <3> QED BY ONLY <1>5, <3>1, <3>2, <3>3, ZenonT(30)
  <2>6. \A k \in 1 .. Held + 1 : Queue'[k] = Append(Queue, b)[k]
    <3> SUFFICES ASSUME NEW k \in 1 .. Held + 1 PROVE Queue'[k] = Append(Queue, b)[k]
      BY ZenonT(30)
    <3>1. k \in 1 .. Held \/ k = Held + 1
      BY ONLY <2>2, k \in 1 .. Held + 1
    <3> QED BY ONLY <2>1, <2>4, <2>5, <3>1, ZenonT(30)
  <2> QED BY ONLY <2>1, <2>2, <2>6, SameSeq, ZenonT(30)
<1>8. Held' <= PIPESIZE
  BY <1>3, <1>4, PipeAssumption DEF QueueOK
<1> QED BY <1>2, <1>3, <1>4, <1>7, <1>8, ZenonT(30) DEF Fifo!Put, QueueOK

\* piperead() takes the byte at the front of the queue.
LEMMA ReadIsGet ==
  ASSUME PipeInv, PipeInv', Held <= PIPESIZE, NEW p \in Procs, ReadByte(p)
  PROVE  Held' <= PIPESIZE /\ Fifo!Get
<1>0. TypeOK /\ TypeOK'
  BY ZenonT(30) DEF PipeInv
<1>1. ~Empty /\ nread' = (nread + 1) % UINT /\ nwrite' = nwrite /\ data' = data
      /\ readopen' = readopen /\ writeopen' = writeopen
  BY ZenonT(30) DEF ReadByte
<1>2. Held > 0 /\ Held' = Held - 1
  BY ONLY <1>0, <1>1, Held <= PIPESIZE, HeldNext, ZenonT(30)
<1>3. QueueOK /\ QueueOK'
  BY ONLY <1>0, QueueIs, PTL
<1>4. Queue # <<>> /\ Queue' = Tail(Queue)
  <2>1. Held \in Nat /\ Queue \in Seq(Bytes) /\ Len(Queue) = Held
    BY <1>3, ZenonT(30) DEF QueueOK
  <2>2. /\ Tail(Queue) \in Seq(Bytes) /\ Len(Tail(Queue)) = Held - 1 /\ Queue # <<>>
        /\ \A k \in 1 .. Held - 1 : Tail(Queue)[k] = Queue[k + 1]
    BY ONLY <1>2, <2>1, TailIs
  <2>3. /\ Queue' \in Seq(Bytes) /\ Len(Queue') = Held - 1 /\ Held - 1 \in Nat
        /\ \A k \in 1 .. Held - 1 : Queue'[k] = data[(nread' + k - 1) % PIPESIZE]
    BY <1>1, <1>2, <1>3, ZenonT(30) DEF QueueOK
  <2>4. \A k \in 1 .. Held - 1 : Queue'[k] = Tail(Queue)[k]
    <3> SUFFICES ASSUME NEW k \in 1 .. Held - 1 PROVE Queue'[k] = Tail(Queue)[k]
      BY ZenonT(30)
    <3>1. k + 1 \in 1 .. Held
      BY ONLY <2>1, k \in 1 .. Held - 1
    <3>2. Queue[k + 1] = data[(nread + (k + 1) - 1) % PIPESIZE]
      BY <1>3, <3>1, ZenonT(30) DEF QueueOK
    <3>3. (nread + (k + 1) - 1) % PIPESIZE = (nread' + k - 1) % PIPESIZE
      <4>1. /\ UINT \in Nat \ {0} /\ PIPESIZE \in Nat \ {0} /\ UINT % PIPESIZE = 0
            /\ nread \in 0 .. UINT - 1
        BY <1>0, PipeAssumption DEF TypeOK
      <4>2. nread' = IF nread = UINT - 1 THEN 0 ELSE nread + 1
        BY ONLY <1>1, <4>1, CounterNext, ZenonT(30)
      <4>3. PICK x \in Nat : x = nread' + k - 1
        BY ONLY <2>1, <4>1, <4>2, k \in 1 .. Held - 1
      <4>4. nread + (k + 1) - 1 = x \/ nread + (k + 1) - 1 = x + UINT
        BY ONLY <2>1, <4>1, <4>2, <4>3, k \in 1 .. Held - 1
      <4>5. (x + UINT) % PIPESIZE = x % PIPESIZE
        BY ONLY <4>1, x \in Nat, ModTimes
      <4> QED BY ONLY <4>3, <4>4, <4>5, ZenonT(30)
    <3> QED BY ONLY <1>1, <2>2, <2>3, <3>1, <3>2, <3>3, k \in 1 .. Held - 1, ZenonT(30)
  <2> QED BY ONLY <2>2, <2>3, <2>4, SameSeq, ZenonT(30)
<1>5. Held' <= PIPESIZE
  BY <1>2, <1>3, PipeAssumption DEF QueueOK
<1> QED BY <1>1, <1>4, <1>5, ZenonT(30) DEF Fifo!Get

\* pipeclose() closes an end that was open; fileclose() of an end that others
\* have open closes nothing.
LEMMA CloseIsClose ==
  ASSUME PipeInv, NEW p \in Procs, NEW e \in Ends, Close(p, e)
  PROVE  /\ UNCHANGED <<data, nread, nwrite>>
         /\ \/ UNCHANGED <<readopen, writeopen>>
            \/ readopen /\ readopen' = FALSE /\ writeopen' = writeopen
            \/ writeopen /\ writeopen' = FALSE /\ readopen' = readopen
<1>1. UNCHANGED <<data, nread, nwrite>>
  BY ZenonT(30) DEF Close
<1>2. CASE ~LastEnd(p, e)
  BY <1>1, <1>2, ZenonT(30) DEF Close
<1>3. CASE LastEnd(p, e)
  <2>1. readopen' = (readopen /\ e # "read") /\ writeopen' = (writeopen /\ e # "write")
    BY <1>3, ZenonT(30) DEF Close, pipeclose
  <2>2. (e = "read" => readopen) /\ (e = "write" => writeopen)
    BY ZenonT(30) DEF PipeInv, EndsInv, Close
  <2>3. readopen \in BOOLEAN /\ writeopen \in BOOLEAN
    BY ZenonT(30) DEF PipeInv, TypeOK
  <2> QED BY ONLY <1>1, <2>1, <2>2, <2>3, e \in Ends, ZenonT(30) DEF Ends
<1> QED BY <1>2, <1>3, ZenonT(30)

\* The steps that leave the queue and its ends alone.
LEMMA OthersLeaveQueue ==
  ASSUME NEW p \in Procs,
         \/ Kill(p) \/ \E e \in Ends : Call(p, e)
         \/ Acquire(p) \/ Sleep(p) \/ Free(p) \/ WriteFails(p) \/ WriteFull(p) \/ WriteDone(p)
         \/ ReadTest(p) \/ ReadDone(p)
  PROVE  UNCHANGED <<data, nread, nwrite, readopen, writeopen>>
BY ZenonT(30) DEF Kill, Call, Acquire, Sleep, Free, WriteFails, WriteFull, WriteDone, ReadTest, ReadDone, pipe

\* A step of the pipe is a step of the queue or leaves it alone.
LEMMA PipeStep ==
  ASSUME PipeInv, PipeInv', Held <= PIPESIZE, [Next]_vars
  PROVE  Held' <= PIPESIZE /\ [Fifo!Next]_<<Queue, readopen, writeopen>>
<1>1. ASSUME UNCHANGED <<data, nread, nwrite>> PROVE Held' = Held /\ Queue' = Queue
  BY <1>1, ZenonT(30) DEF Held, Queue
<1>2. ASSUME UNCHANGED <<data, nread, nwrite, readopen, writeopen>>
      PROVE  Held' <= PIPESIZE /\ [Fifo!Next]_<<Queue, readopen, writeopen>>
  BY <1>1, <1>2, ZenonT(30)
<1>3. ASSUME NEW p \in Procs, WriteByte(p)
      PROVE  Held' <= PIPESIZE /\ [Fifo!Next]_<<Queue, readopen, writeopen>>
  BY <1>3, WriteIsPut, ZenonT(30) DEF Fifo!Next
<1>4. ASSUME NEW p \in Procs, ReadByte(p)
      PROVE  Held' <= PIPESIZE /\ [Fifo!Next]_<<Queue, readopen, writeopen>>
  BY <1>4, ReadIsGet, ZenonT(30) DEF Fifo!Next
<1>5. ASSUME NEW p \in Procs, NEW e \in Ends, Close(p, e)
      PROVE  Held' <= PIPESIZE /\ [Fifo!Next]_<<Queue, readopen, writeopen>>
  BY <1>1, <1>5, CloseIsClose, ZenonT(30) DEF Fifo!Next, Fifo!CloseRead, Fifo!CloseWrite
<1>6. CASE UNCHANGED vars
  BY <1>2, <1>6, ZenonT(30) DEF vars
<1>7. CASE Next
  <2>1. PICK p \in Procs : Kernel(p) \/ Kill(p) \/ \E e \in Ends : Call(p, e) \/ Close(p, e)
    BY <1>7, ZenonT(30) DEF Next
  <2> QED BY <1>2, <1>3, <1>4, <1>5, <2>1, OthersLeaveQueue, ZenonT(30) DEF Kernel
<1> QED BY <1>6, <1>7, ZenonT(30)

\* The circular buffer of pipe.c with its wrapping counters is a bounded FIFO
\* queue of bytes.
THEOREM PipeImplementsQueue == Spec => PipeIsFifo
<1> DEFINE Fits == Held <= PIPESIZE
<1>1. Init => Fits /\ Fifo!Init
  <2> SUFFICES ASSUME Init PROVE Fits /\ Fifo!Init
    BY ZenonT(30)
  <2>1. TypeOK /\ nread = 0 /\ nwrite = 0 /\ readopen = TRUE /\ writeopen = TRUE
    BY InitPipeInv, ZenonT(30) DEF Init, PipeInv
  <2>2. Held = 0
    BY ONLY <2>1, HeldIs, ZenonT(30) DEF Empty
  <2>3. Queue = <<>>
    <3>1. QueueOK
      BY <2>1, QueueIs, ZenonT(30)
    <3> QED BY ONLY <2>2, <3>1 DEF QueueOK
  <2> QED BY <2>1, <2>2, <2>3, PipeAssumption DEF Fifo!Init
<1>2. PipeInv /\ PipeInv' /\ Fits /\ [Next]_vars => Fits' /\ [Fifo!Next]_<<Queue, readopen, writeopen>>
  BY PipeStep, ZenonT(30)
<1> HIDE DEF Fits
<1> QED BY <1>1, <1>2, PipeInvariant, PTL DEF Spec, PipeIsFifo, Fifo!Spec
=============================================================================
