-------------------------------- MODULE Pipe --------------------------------
(***************************************************************************)
(* A pipe (kernel/pipe.c), used by processes that may each hold its read   *)
(* end, its write end, or both.  pi->lock is held over several steps; a    *)
(* kill() on another CPU can come between any two of them.                 *)
(*                                                                         *)
(* The counters nread and nwrite are unsigned integers that wrap around    *)
(* at UINT, a multiple of PIPESIZE.                                        *)
(***************************************************************************)
EXTENDS Naturals, Sequences, FiniteSets

CONSTANTS
  Procs, Nobody,
  Bytes,
  PIPESIZE,
  UINT,       \* 2^32
  Counts,     \* the counts given to read() and write()
  Kills       \* whether processes get killed

ASSUME PipeAssumption ==
  /\ PIPESIZE \in Nat \ {0} /\ UINT \in Nat /\ Counts \subseteq Nat \ {0} /\ Kills \in BOOLEAN
  /\ UINT > PIPESIZE /\ UINT % PIPESIZE = 0
  /\ Nobody \notin Procs

VARIABLES
  data, nread, nwrite, readopen, writeopen, lock, freed,  \* struct pipe, and kfree(pi)
  fds,                                                    \* the ends each process has open
  pc, n, i,                                               \* piperead() and pipewrite()
  killed,
  cut                                                     \* see WriteFails

counts == <<n, i>>
pipe == <<data, nread, nwrite, readopen, writeopen>>
vars == <<data, nread, nwrite, readopen, writeopen, lock, freed, fds, pc, n, i, killed, cut>>

Ends == {"read", "write"}

\* pipealloc(), and the forks that shared the two files.  kalloc() fills the
\* page with one value.
Init ==
  /\ \E b \in Bytes : data = [k \in 0 .. PIPESIZE - 1 |-> b]
  /\ nread = 0 /\ nwrite = 0
  /\ readopen = TRUE /\ writeopen = TRUE
  /\ lock = Nobody /\ freed = FALSE
  /\ fds \in [Procs -> SUBSET Ends]
  /\ \A e \in Ends : \E p \in Procs : e \in fds[p]
  /\ pc = [p \in Procs |-> "user"]
  /\ n = [p \in Procs |-> 0] /\ i = [p \in Procs |-> 0]
  /\ killed = [p \in Procs |-> FALSE]
  /\ cut = FALSE

Empty == nread = nwrite
Full == nwrite = (nread + PIPESIZE) % UINT

Goto(p, l) == pc' = [pc EXCEPT ![p] = l]

\* wakeup(&pi->nread) and wakeup(&pi->nwrite), and p going on at l.
Wake(asleep, awake, p, l) ==
  pc' = [q \in Procs |-> IF q = p THEN l ELSE IF pc[q] = asleep THEN awake ELSE pc[q]]
WakeReaders(p, l) == Wake("read_asleep", "read_lock", p, l) /\ cut' = FALSE
WakeWriters(p, l) == Wake("write_asleep", "write_lock", p, l)

\* The call returns: pi->lock is released.
Done(p) ==
  /\ lock' = Nobody
  /\ n' = [n EXCEPT ![p] = 0] /\ i' = [i EXCEPT ![p] = 0]

-----------------------------------------------------------------------------
(* Calls, and the lock.                                                    *)

Call(p, e) ==
  /\ pc[p] = "user" /\ ~killed[p] /\ e \in fds[p]
  /\ \E k \in Counts : n' = [n EXCEPT ![p] = k]
  /\ Goto(p, IF e = "read" THEN "read_lock" ELSE "write_lock")
  /\ UNCHANGED <<pipe, lock, freed, fds, i, killed, cut>>

Acquire(p) ==
  /\ pc[p] \in {"read_lock", "write_lock"} /\ lock = Nobody
  /\ lock' = p
  /\ Goto(p, IF pc[p] = "read_lock" THEN "read_test" ELSE "write_loop")
  /\ UNCHANGED <<pipe, freed, fds, counts, killed, cut>>

\* sleep(): the lock is released as the process goes to sleep.
Sleep(p) ==
  /\ pc[p] \in {"read_sleep", "write_sleep"}
  /\ lock' = Nobody
  /\ Goto(p, IF pc[p] = "read_sleep" THEN "read_asleep" ELSE "write_asleep")
  /\ UNCHANGED <<pipe, freed, fds, counts, killed, cut>>

Kill(p) ==
  /\ Kills /\ ~killed[p]
  /\ killed' = [killed EXCEPT ![p] = TRUE]
  /\ Goto(p, IF pc[p] = "read_asleep" THEN "read_lock"
             ELSE IF pc[p] = "write_asleep" THEN "write_lock" ELSE pc[p])
  /\ UNCHANGED <<pipe, lock, freed, fds, counts, cut>>

-----------------------------------------------------------------------------
(* pipewrite().                                                            *)

WriteLoop(p) == pc[p] = "write_loop" /\ i[p] < n[p]

\* Nobody can read any more, or the writer has been killed.  No code looks at
\* "cut": since readers were last woken, a write has returned -1 with bytes
\* written.
WriteFails(p) ==
  /\ WriteLoop(p) /\ (~readopen \/ killed[p])
  /\ cut' = (cut \/ i[p] > 0)
  /\ Goto(p, "user") /\ Done(p)
  /\ UNCHANGED <<pipe, freed, fds, killed>>

\* Mutant: the writer sleeps without waking the readers.
WriteFullSilently(p) ==
  /\ WriteLoop(p) /\ readopen /\ ~killed[p] /\ Full
  /\ Goto(p, "write_sleep")
  /\ UNCHANGED <<pipe, lock, freed, fds, counts, killed, cut>>

WriteFull(p) ==
  /\ WriteLoop(p) /\ readopen /\ ~killed[p] /\ Full
  /\ WakeReaders(p, "write_sleep")
  /\ UNCHANGED <<pipe, lock, freed, fds, counts, killed>>

\* Mutant: the pipe is not seen to be full.
WriteByteOverrun(p) ==
  /\ WriteLoop(p) /\ readopen /\ ~killed[p]
  /\ \E b \in Bytes : data' = [data EXCEPT ![nwrite % PIPESIZE] = b]
  /\ nwrite' = (nwrite + 1) % UINT
  /\ i' = [i EXCEPT ![p] = @ + 1]
  /\ UNCHANGED <<nread, readopen, writeopen, lock, freed, fds, pc, n, killed, cut>>

WriteByte(p) ==
  /\ WriteLoop(p) /\ readopen /\ ~killed[p] /\ ~Full
  /\ \E b \in Bytes : data' = [data EXCEPT ![nwrite % PIPESIZE] = b]
  /\ nwrite' = (nwrite + 1) % UINT
  /\ i' = [i EXCEPT ![p] = @ + 1]
  /\ UNCHANGED <<nread, readopen, writeopen, lock, freed, fds, pc, n, killed, cut>>

\* All is written, or copyin() fails.
WriteDone(p) ==
  /\ pc[p] = "write_loop"
  /\ i[p] = n[p] \/ (readopen /\ ~killed[p] /\ ~Full)
  /\ WakeReaders(p, "user") /\ Done(p)
  /\ UNCHANGED <<pipe, freed, fds, killed>>

-----------------------------------------------------------------------------
(* piperead().                                                             *)

ReadTest(p) ==
  /\ pc[p] = "read_test"
  /\ IF Empty /\ writeopen
       THEN IF killed[p] THEN Goto(p, "user") /\ Done(p)
            ELSE Goto(p, "read_sleep") /\ UNCHANGED <<lock, counts>>
       ELSE Goto(p, "read_loop") /\ UNCHANGED <<lock, counts>>
  /\ UNCHANGED <<pipe, freed, fds, killed, cut>>

\* A byte leaves the pipe; copyout() succeeds, or it fails and the byte is lost.
ReadByte(p) ==
  /\ pc[p] = "read_loop" /\ i[p] < n[p] /\ ~Empty
  /\ nread' = (nread + 1) % UINT
  /\ \/ i' = [i EXCEPT ![p] = @ + 1] /\ UNCHANGED <<pc, lock, n>>
     \/ WakeWriters(p, "user") /\ Done(p)
  /\ UNCHANGED <<data, nwrite, readopen, writeopen, freed, fds, killed, cut>>

\* Mutant: a reader that is done does not wake the writers.
ReadDoneSilently(p) ==
  /\ pc[p] = "read_loop" /\ (i[p] = n[p] \/ Empty)
  /\ Goto(p, "user") /\ Done(p)
  /\ UNCHANGED <<pipe, freed, fds, killed, cut>>

ReadDone(p) ==
  /\ pc[p] = "read_loop" /\ (i[p] = n[p] \/ Empty)
  /\ WakeWriters(p, "user") /\ Done(p)
  /\ UNCHANGED <<pipe, freed, fds, killed, cut>>

-----------------------------------------------------------------------------
(* fileclose() and pipeclose().                                            *)

LastEnd(p, e) == \A q \in Procs \ {p} : e \notin fds[q]

pipeclose(p, e) ==
  /\ lock = Nobody
  /\ readopen' = (readopen /\ e # "read") /\ writeopen' = (writeopen /\ e # "write")
  /\ LET l == IF readopen' \/ writeopen' THEN "user" ELSE "free" IN
       IF e = "write" THEN WakeReaders(p, l) ELSE WakeWriters(p, l) /\ UNCHANGED cut

\* close(), and exit(), which closes everything.
Close(p, e) ==
  /\ pc[p] = "user" /\ e \in fds[p]
  /\ fds' = [fds EXCEPT ![p] = @ \ {e}]
  /\ IF LastEnd(p, e) THEN pipeclose(p, e) ELSE UNCHANGED <<readopen, writeopen, pc, cut>>
  /\ UNCHANGED <<data, nread, nwrite, lock, freed, counts, killed>>

\* Mutant: the pipe is freed with its first end.
FreeEarly(p) ==
  /\ pc[p] = "free" \/ (pc[p] = "user" /\ ~writeopen)
  /\ freed' = TRUE
  /\ Goto(p, "user")
  /\ UNCHANGED <<pipe, lock, fds, counts, killed, cut>>

\* kfree(pi), after the lock is released.
Free(p) ==
  /\ pc[p] = "free"
  /\ freed' = TRUE
  /\ Goto(p, "user")
  /\ UNCHANGED <<pipe, lock, fds, counts, killed, cut>>

-----------------------------------------------------------------------------
\* The steps a process takes by itself.
Kernel(p) ==
  \/ Acquire(p) \/ Sleep(p) \/ Free(p)
  \/ WriteFails(p) \/ WriteFull(p) \/ WriteByte(p) \/ WriteDone(p)
  \/ ReadTest(p) \/ ReadByte(p) \/ ReadDone(p)

Next ==
  \E p \in Procs :
    \/ Kernel(p) \/ Kill(p)
    \/ \E e \in Ends : Call(p, e) \/ Close(p, e)

Spec == Init /\ [][Next]_vars

-----------------------------------------------------------------------------
(* Properties.                                                             *)

Places == {"user", "free", "read_lock", "read_test", "read_sleep", "read_asleep", "read_loop",
           "write_lock", "write_loop", "write_sleep", "write_asleep"}

\* The type of the state.
TypeOK ==
  /\ data \in [0 .. PIPESIZE - 1 -> Bytes]
  /\ nread \in 0 .. UINT - 1 /\ nwrite \in 0 .. UINT - 1
  /\ readopen \in BOOLEAN /\ writeopen \in BOOLEAN /\ freed \in BOOLEAN
  /\ lock \in Procs \cup {Nobody}
  /\ fds \in [Procs -> SUBSET Ends]
  /\ pc \in [Procs -> Places]
  /\ n \in [Procs -> Counts \cup {0}]
  /\ i \in [Procs -> Nat] /\ \A p \in Procs : i[p] <= n[p]
  /\ killed \in [Procs -> BOOLEAN] /\ cut \in BOOLEAN

\* The bytes in the pipe, oldest first.
Held == (nwrite + UINT - nread) % UINT
Queue == [k \in 1 .. Held |-> data[(nread + k - 1) % PIPESIZE]]

\* The pipe is a bounded FIFO queue of bytes, across the wrap-around of
\* nread and nwrite: nothing is overwritten, repeated or reordered.
Fifo == INSTANCE ByteQueue WITH Capacity <- PIPESIZE, queue <- Queue,
                                readers <- readopen, writers <- writeopen
PipeIsFifo == Fifo!Spec

\* A reader is asleep only if the pipe is empty and could still be written:
\* no wake-up from pipewrite() or pipeclose() is lost.
ReadersSleepOnEmpty ==
  lock = Nobody => \A p \in Procs : pc[p] = "read_asleep" => Empty /\ writeopen

\* The one exception to that: since readers were last woken, a pipewrite() has
\* returned -1 after it had written bytes.  Whoever else is killed, closes an
\* end or exits, no wake-up is lost, and the end of the file is always noticed.
ReadersSleepOnEmptyUnlessCut ==
  lock = Nobody => \A p \in Procs : pc[p] = "read_asleep" => (Empty \/ cut) /\ writeopen

\* A writer is asleep only if the pipe is full and could still be read, also
\* when processes are killed: piperead() and pipeclose() lose no wake-up.
WritersSleepOnFull ==
  lock = Nobody => \A p \in Procs : pc[p] = "write_asleep" => Full /\ readopen

\* Nobody is inside pipe.c with a pipe that has been freed, and a pipe both
\* of whose ends are closed is about to be freed or has been.
NoUseAfterFree ==
  /\ freed => lock = Nobody /\ \A p \in Procs : pc[p] = "user"
  /\ freed \/ (\E p \in Procs : pc[p] = "free") <=> ~readopen /\ ~writeopen

\* Once the write end is closed no reader is asleep any more, however the
\* writers came to their end: every reader gets to the end of the file.
ReadersSeeEnd == lock = Nobody /\ ~writeopen => \A p \in Procs : pc[p] # "read_asleep"
=============================================================================
