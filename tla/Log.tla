-------------------------------- MODULE Log ---------------------------------
(***************************************************************************)
(* The write-ahead log of the file system (kernel/log.c) over the buffer   *)
(* cache and the disk.                                                     *)
(*                                                                         *)
(* The disk is home (the blocks of the file system), logblk (the data      *)
(* blocks of the log) and hdr (the log's header block: its n and           *)
(* block[0..n-1] as a sequence).  The rest is memory and is lost in a      *)
(* crash.  A block write is not atomic against a crash, except for the     *)
(* header, whose bytes lie in one disk sector.                             *)
(*                                                                         *)
(* A process is in one system call at a time.  It calls bread(), modifies  *)
(* the buffer and calls log_write(), and brelse(), any number of times and *)
(* in any order its caller could; the sections under log.lock are single   *)
(* steps.  commit() and recover_from_log() are run one disk block at a     *)
(* time.                                                                   *)
(***************************************************************************)
EXTENDS Naturals, Sequences, FiniteSets

CONSTANTS
  Procs,        \* processes that make file-system calls
  Readers,      \* those that also read blocks outside a transaction (fileread, filestat)
  Blocks,       \* block numbers outside the log area
  Vals,         \* contents of a block
  Zero,         \* the contents mkfs gives the log blocks
  Absent,       \* "not in the buffer cache"
  NoProc,       \* "nobody holds the buffer's sleep-lock"
  MAXOPBLOCKS,  \* param.h: max # of blocks any FS op writes
  LOGSIZE,      \* param.h: bound begin_op() reserves against
  SIZE,         \* log.size: blocks of the on-disk log, its header included
  OpWrites      \* how many distinct blocks one system call really writes

ASSUME ProcsAssumption == IsFiniteSet(Procs) /\ NoProc \notin Procs /\ Readers \subseteq Procs
ASSUME ValsAssumption == Zero \in Vals /\ Absent \notin Vals
ASSUME SizeAssumption ==
  /\ MAXOPBLOCKS \in Nat \ {0} /\ LOGSIZE \in Nat /\ SIZE \in Nat \ {0} /\ OpWrites \in Nat
  /\ MAXOPBLOCKS <= LOGSIZE /\ OpWrites <= MAXOPBLOCKS

VARIABLES
  home, logblk, hdr,                \* disk
  lh, outstanding, committing,      \* struct log
  cache, pin, holder,               \* buffer cache: contents, bpin() count, lock
  pc, written,                      \* system calls: where they are, what they have logged
  stage, tail,                      \* commit() or recover_from_log(): step and loop index
  panic                             \* the message of the panic() that stopped the kernel

disk == <<home, logblk, hdr>>
bufs == <<cache, pin, holder>>
vars == <<home, logblk, hdr, lh, outstanding, committing, cache, pin, holder,
          pc, written, stage, tail, panic>>

LogSlots == 1 .. SIZE - 1

Booted == stage \notin {"read_head", "recover"}

Held(p) == {b \in Blocks : holder[b] = p}

Logged == {lh[i] : i \in DOMAIN lh}

\* What bread(b) returns: the cached contents, or the block on disk.
Contents(b) == IF cache[b] # Absent THEN cache[b] ELSE home[b]

Awake == [q \in Procs |-> IF pc[q] = "asleep" THEN "begin" ELSE pc[q]]

Init ==
  /\ home \in [Blocks -> Vals]
  /\ logblk = [i \in LogSlots |-> Zero]
  /\ hdr = <<>> /\ lh = <<>>
  /\ outstanding = 0 /\ committing = FALSE
  /\ cache = [b \in Blocks |-> Absent]
  /\ pin = [b \in Blocks |-> 0]
  /\ holder = [b \in Blocks |-> NoProc]
  /\ pc = [p \in Procs |-> "idle"]
  /\ written = [p \in Procs |-> {}]
  /\ stage = "read_head" /\ tail = 0
  /\ panic = "none"

-----------------------------------------------------------------------------
(* Calls of the file system into the log and the buffer cache.             *)

\* Mutant: begin_op() reserves nothing.
MustWaitNoReserve == committing

MustWait == committing \/ Len(lh) + (outstanding + 1) * MAXOPBLOCKS > LOGSIZE

BeginOp(p) ==
  /\ Booted /\ pc[p] \in {"idle", "begin"} /\ Held(p) = {}
  /\ IF MustWait
       THEN /\ pc' = [pc EXCEPT ![p] = "asleep"]
            /\ UNCHANGED <<outstanding, written>>
       ELSE /\ pc' = [pc EXCEPT ![p] = "op"]
            /\ outstanding' = outstanding + 1
            /\ written' = [written EXCEPT ![p] = {}]
  /\ UNCHANGED <<disk, lh, committing, bufs, stage, tail, panic>>

Bread(p, b) ==
  /\ Booted /\ (pc[p] = "op" \/ (pc[p] = "idle" /\ p \in Readers))
  /\ holder[b] = NoProc
  /\ holder' = [holder EXCEPT ![b] = p]
  /\ cache' = [cache EXCEPT ![b] = Contents(b)]
  /\ UNCHANGED <<disk, lh, outstanding, committing, pin, pc, written, stage, tail, panic>>

Brelse(p, b) ==
  /\ holder[b] = p
  /\ holder' = [holder EXCEPT ![b] = NoProc]
  /\ UNCHANGED <<disk, lh, outstanding, committing, cache, pin, pc, written, stage, tail, panic>>

TooBig == Len(lh) >= LOGSIZE \/ Len(lh) >= SIZE - 1

\* The caller's change of b->data, then log_write(b), absorption included.
LogWrite(p, b, v) ==
  /\ pc[p] = "op" /\ holder[b] = p
  /\ b \in written[p] \/ Cardinality(written[p]) < OpWrites
  /\ cache' = [cache EXCEPT ![b] = v]
  /\ panic' = IF TooBig THEN "too big a transaction"
              ELSE IF outstanding < 1 THEN "log_write outside of trans" ELSE panic
  /\ written' = [written EXCEPT ![p] = @ \cup {b}]
  /\ IF panic' = panic /\ b \notin Logged
       THEN lh' = Append(lh, b) /\ pin' = [pin EXCEPT ![b] = @ + 1]
       ELSE UNCHANGED <<lh, pin>>
  /\ UNCHANGED <<disk, outstanding, committing, holder, pc, stage, tail>>

\* Mutant: an end_op() that does not commit wakes nobody.
LeavesSilently(p) == [pc EXCEPT ![p] = "idle"]

\* end_op() of a call that others outlive: wakeup(&log) lets begin_op() look
\* again at the space that is reserved.
Leaves(p) == [Awake EXCEPT ![p] = "idle"]

EndOp(p) ==
  /\ pc[p] = "op" /\ Held(p) = {}
  /\ outstanding' = outstanding - 1
  /\ IF committing
       THEN panic' = "log.committing" /\ UNCHANGED <<committing, pc, stage, tail>>
       ELSE /\ IF outstanding' = 0
                 THEN /\ committing' = TRUE
                      /\ pc' = [pc EXCEPT ![p] = "commit"]
                      /\ stage' = IF Len(lh) > 0 THEN "write_log" ELSE "finish"
                      /\ tail' = 0
                 ELSE /\ pc' = Leaves(p)
                      /\ UNCHANGED <<committing, stage, tail>>
            /\ UNCHANGED panic
  /\ UNCHANGED <<disk, lh, bufs, written>>

\* bget() takes a buffer that nobody references for some other block.
Evict(b) ==
  /\ cache[b] # Absent /\ holder[b] = NoProc /\ pin[b] = 0
  /\ cache' = [cache EXCEPT ![b] = Absent]
  /\ UNCHANGED <<disk, lh, outstanding, committing, pin, holder, pc, written, stage, tail, panic>>

-----------------------------------------------------------------------------
(* commit(), by the process whose end_op() was the last.                   *)

WriteLog ==
  /\ stage = "write_log" /\ tail < Len(lh)
  /\ LET b == lh[tail + 1] IN
       /\ holder[b] = NoProc
       /\ logblk' = [logblk EXCEPT ![tail + 1] = Contents(b)]
       /\ cache' = [cache EXCEPT ![b] = Contents(b)]
  /\ tail' = tail + 1
  /\ UNCHANGED <<home, hdr, lh, outstanding, committing, pin, holder, pc, written, stage, panic>>

\* Mutant: the header is written before the log blocks are complete.
WriteHeadEarly ==
  /\ stage = "write_log"
  /\ hdr' = lh
  /\ stage' = "install" /\ tail' = 0
  /\ UNCHANGED <<home, logblk, lh, outstanding, committing, bufs, pc, written, panic>>

WriteHead ==
  /\ stage = "write_log" /\ tail = Len(lh)
  /\ hdr' = lh
  /\ stage' = "install" /\ tail' = 0
  /\ UNCHANGED <<home, logblk, lh, outstanding, committing, bufs, pc, written, panic>>

\* Mutant: the loop does not advance.
InstallTransStuck(recovering) ==
  /\ tail < Len(lh)
  /\ home' = [home EXCEPT ![lh[tail + 1]] = logblk[tail + 1]]
  /\ cache' = [cache EXCEPT ![lh[tail + 1]] = logblk[tail + 1]]
  /\ UNCHANGED <<logblk, hdr, lh, outstanding, committing, pin, holder, pc, written, stage, tail, panic>>

\* One round of install_trans(recovering).
InstallTrans(recovering) ==
  /\ tail < Len(lh)
  /\ LET b == lh[tail + 1] IN
       /\ holder[b] = NoProc
       /\ home' = [home EXCEPT ![b] = logblk[tail + 1]]
       /\ cache' = [cache EXCEPT ![b] = logblk[tail + 1]]
       /\ pin' = IF recovering THEN pin ELSE [pin EXCEPT ![b] = @ - 1]
  /\ tail' = tail + 1
  /\ UNCHANGED <<logblk, hdr, lh, outstanding, committing, holder, pc, written, stage, panic>>

\* lh.n = 0 and the second write_head() once install_trans() is done.
ClearHead(next) ==
  /\ tail = Len(lh)
  /\ lh' = <<>> /\ hdr' = <<>>
  /\ stage' = next /\ tail' = 0
  /\ UNCHANGED <<home, logblk, outstanding, committing, bufs, pc, written, panic>>

Install == stage = "install" /\ InstallTrans(FALSE)
EraseHead == stage = "install" /\ ClearHead("finish")

\* The end of end_op(): committing = 0, and everyone in begin_op() is woken.
FinishCommit ==
  /\ stage = "finish"
  /\ committing' = FALSE
  /\ pc' = [p \in Procs |-> IF pc[p] = "commit" THEN "idle" ELSE Awake[p]]
  /\ stage' = "up" /\ tail' = 0
  /\ UNCHANGED <<disk, lh, outstanding, bufs, written, panic>>

-----------------------------------------------------------------------------
(* Crashes, and initlog() -> recover_from_log() at the next boot.          *)

\* The block being written when the power fails may be left with anything.
TornWrite ==
  \/ UNCHANGED disk
  \/ /\ stage = "write_log" /\ tail < Len(lh)
     /\ \E v \in Vals : logblk' = [logblk EXCEPT ![tail + 1] = v]
     /\ UNCHANGED <<home, hdr>>
  \/ /\ stage \in {"install", "recover"} /\ tail < Len(lh)
     /\ \E v \in Vals : home' = [home EXCEPT ![lh[tail + 1]] = v]
     /\ UNCHANGED <<logblk, hdr>>

Crash ==
  /\ TornWrite
  /\ lh' = <<>> /\ outstanding' = 0 /\ committing' = FALSE
  /\ cache' = [b \in Blocks |-> Absent]
  /\ pin' = [b \in Blocks |-> 0]
  /\ holder' = [b \in Blocks |-> NoProc]
  /\ pc' = [p \in Procs |-> "idle"]
  /\ written' = [p \in Procs |-> {}]
  /\ stage' = "read_head" /\ tail' = 0
  /\ panic' = "none"

ReadHead ==
  /\ stage = "read_head"
  /\ lh' = hdr
  /\ stage' = "recover" /\ tail' = 0
  /\ UNCHANGED <<disk, outstanding, committing, bufs, pc, written, panic>>

Recover == stage = "recover" /\ InstallTrans(TRUE)
RecoverDone == stage = "recover" /\ ClearHead("up")

-----------------------------------------------------------------------------
Caller(p) ==
  \/ BeginOp(p)
  \/ EndOp(p)
  \/ \E b \in Blocks : Bread(p, b) \/ Brelse(p, b)
  \/ \E b \in Blocks, v \in Vals : LogWrite(p, b, v)

Committer == WriteLog \/ WriteHead \/ Install \/ EraseHead \/ FinishCommit

Boot == ReadHead \/ Recover \/ RecoverDone

\* A panic stops every CPU; only a reboot follows it.
Next ==
  \/ panic = "none" /\ \E p \in Procs : Caller(p)
  \/ panic = "none" /\ \E b \in Blocks : Evict(b)
  \/ panic = "none" /\ Committer
  \/ panic = "none" /\ Boot
  \/ Crash

Spec == Init /\ [][Next]_vars

(* Fairness: the scheduler runs every runnable process, so a process that  *)
(* was woken, that holds a buffer, or that runs commit() or the recovery   *)
(* goes on.  Crashes, new calls and evictions need never happen.           *)
Fairness ==
  /\ \A p \in Procs : /\ WF_vars(panic = "none" /\ pc[p] = "begin" /\ BeginOp(p))
                      /\ \A b \in Blocks : WF_vars(panic = "none" /\ Brelse(p, b))
  /\ WF_vars(panic = "none" /\ Committer)
  /\ WF_vars(panic = "none" /\ Boot)

FairSpec == Spec /\ Fairness

-----------------------------------------------------------------------------
(* Properties.                                                             *)

Places == {"idle", "begin", "asleep", "op", "commit"}
Stages == {"read_head", "recover", "up", "write_log", "install", "finish"}
Panics == {"none", "too big a transaction", "log_write outside of trans", "log.committing"}

\* The type of the state: the log never outgrows the blocks mkfs gave it.
TypeOK ==
  /\ home \in [Blocks -> Vals] /\ logblk \in [LogSlots -> Vals]
  /\ hdr \in Seq(Blocks) /\ Len(hdr) <= SIZE - 1
  /\ lh \in Seq(Blocks) /\ Len(lh) <= SIZE - 1
  /\ outstanding \in Nat /\ committing \in BOOLEAN
  /\ cache \in [Blocks -> Vals \cup {Absent}]
  /\ pin \in [Blocks -> Nat]
  /\ holder \in [Blocks -> Procs \cup {NoProc}]
  /\ pc \in [Procs -> Places]
  /\ written \in [Procs -> SUBSET Blocks]
  /\ stage \in Stages /\ tail \in Nat /\ tail <= Len(lh)
  /\ panic \in Panics

Active == {p \in Procs : pc[p] = "op"}

\* The log blocks that admitted system calls may still need, one pair each.
Reserved ==
  {r \in Active \X (1 .. MAXOPBLOCKS) : r[2] > Cardinality(written[r[1]])}

\* begin_op() keeps room in the log for all that the admitted calls may
\* still write, whatever they have logged and absorbed so far.
Reservation == Len(lh) + Cardinality(Reserved) <= LOGSIZE

\* Room to spare in the numbers of param.h and mkfs.c: log_write() checks for
\* a full log before it looks for a block to absorb, and against the blocks
\* the disk really has, while begin_op() reserves against LOGSIZE.
Headroom == OpWrites < MAXOPBLOCKS /\ LOGSIZE + OpWrites + 1 < SIZE + MAXOPBLOCKS

\* None of the panics of log.c is reached: not "too big a transaction", not
\* "log_write outside of trans", not "log.committing".
NoPanic == panic = "none"

\* The logged blocks whose home block is still to be written.
Uninstalled ==
  IF stage \in {"up", "write_log"} THEN Logged
  ELSE IF stage = "install" THEN {lh[i] : i \in tail + 1 .. Len(lh)} ELSE {}

\* Exactly the logged blocks that are not yet installed are pinned, once
\* each, and so stay in the cache: bpin() in log_write() and bunpin() in
\* install_trans() balance, also after a crash in between.
PinsMatchLog ==
  \A b \in Blocks :
    /\ pin[b] = IF b \in Uninstalled THEN 1 ELSE 0
    /\ b \in Uninstalled => cache[b] # Absent

\* What a recovery that starts now would leave in block b.
LogView ==
  [b \in Blocks |->
     IF \E i \in DOMAIN hdr : hdr[i] = b
       THEN logblk[CHOOSE i \in DOMAIN hdr : hdr[i] = b /\ \A j \in DOMAIN hdr : hdr[j] = b => j <= i]
       ELSE home[b]]

\* What the file system reads; before recovery is done nobody reads.
MemView == IF Booted THEN [b \in Blocks |-> Contents(b)] ELSE LogView

\* When no system call is active and no commit is running, everything that
\* was ever written is in its home block and the log is empty.
QuiescentDurable ==
  stage = "up" /\ outstanding = 0 =>
    /\ lh = <<>> /\ hdr = <<>>
    /\ \A b \in Blocks : home[b] = Contents(b)

\* A process asleep in begin_op() has someone who will wake it: a commit
\* that is running, or a system call whose end_op() is still to come.
SleepersHaveWaker ==
  (\E p \in Procs : pc[p] = "asleep") => committing \/ Active # {}

\* The log implements atomic durability of groups of system calls: the
\* commit is the header write, and a crash at any point, during recovery
\* too, loses a group altogether or not at all.
Atomic == INSTANCE AtomicDisk WITH stable <- LogView, mem <- MemView, active <- Active
AtomicCommit == Atomic!Spec

\* Readers outside a transaction leave the buffers alone in the end: a sleep-
\* lock is not fair, and they could keep commit() from a buffer for ever.
ReadersStop == <>[](\A p \in Procs : pc[p] # "op" => Held(p) = {})

\* No wake-up is lost: if every system call comes to its end_op(), whoever
\* sleeps in begin_op() is woken.
SleepersWoken ==
  ReadersStop /\ (\A q \in Procs : []<>(pc[q] # "op")) =>
    \A p \in Procs : pc[p] = "asleep" ~> pc[p] # "asleep"

\* If crashes stop, recovery comes to an end, and so does every commit.
ComesUp == ReadersStop /\ <>[](stage # "read_head") => []<>(stage = "up")
=============================================================================
