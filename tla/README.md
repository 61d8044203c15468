# A TLA+ model of the csklub teaching kernel

The repository holds the notes and practicals of a systems course. Its program
is the xv6 kernel for RISC-V under `src/operating_system_engineering/labs/`
(kernel, file-system builder, user programs), with small C practicals under
`src/hardware_software_interface/Practicals/` and
`src/operating_system_engineering/Introduction/Files/`. This directory models
the kernel, the user programs that depend on it most and one practical, where
correctness depends on interleavings, crashes, partial failures and bounded
resources. Paths below are relative to `labs/` unless they say
otherwise.

## 1. Inventory

| Part | Source | State | Operations | What is hard |
|---|---|---|---|---|
| Log | `kernel/log.c` | `struct log`, header and log blocks on disk | `begin_op`, `log_write`, `end_op`, `commit`, `recover_from_log` | crash at any write, also in recovery; concurrent calls share one commit; space reservation; sleepers |
| Buffer cache | `kernel/bio.c`, `sleeplock.c` | 30 buffers, LRU list, reference counts, sleep-locks | `bread`, `bwrite`, `brelse`, `bpin`, `bunpin` | the gap between choosing and locking a buffer; recycling; no buffers |
| Processes | `kernel/proc.c`, `trap.c`, `sysproc.c`, `swtch.S` | `proc[]`, `cpus[]`, `p->lock`, `wait_lock`, `ticks` | `scheduler`, `sched`, `yield`, `sleep`, `wakeup`, `fork`, `exit`, `wait`, `kill`, timer and traps | lost wake-ups, two CPUs on one stack, orphans and zombies, locks carried over `swtch` |
| Pipes | `kernel/pipe.c` | ring of bytes, two free-running counters, two open flags | `pipewrite`, `piperead`, `pipeclose` | wrap-around, lost wake-ups with several readers and writers, kill, use after free |
| Spin-locks | `kernel/spinlock.c` | `locked`, `noff`, `intena` | `acquire`, `release`, `push_off`, `pop_off` | interrupts and nesting |
| Open files | `kernel/file.c` | `ftable`, `ref`, `off` | `filealloc`, `filedup`, `fileclose`, `fileread`, `filewrite` | reference counts, splitting of large writes |
| Inodes | `kernel/fs.c`, `mkfs/mkfs.c` | `itable`, on-disk inodes, bitmap | `ialloc`, `iget`, `ilock`, `iput`, `itrunc`, `bmap`, `balloc`, `bfree` | last reference to an unlinked inode; crash with an unlinked open file |
| Names | `kernel/fs.c`, `sysfile.c` | directories | `dirlookup`, `dirlink`, `namex`, `link`, `unlink`, `create`, `open` | lock order, unlink against create, link counts |
| Disk driver | `kernel/virtio_disk.c` | descriptors, rings, `used_idx` | `virtio_disk_rw`, `virtio_disk_intr` | completion out of order, descriptor exhaustion, 16-bit index |
| Console, UART | `kernel/console.c`, `uart.c`, `printf.c` | input ring (r, w, e), output ring | `consoleread`, `consolewrite`, `consoleintr`, `uartputc`, `uartputc_sync`, `uartstart`, `uartintr`, `printf` | ring indices, interrupt against process, output under three different locks |
| Memory | `kernel/kalloc.c`, `vm.c`, `exec.c` | free list, page tables | `kalloc`, `kfree`, `uvmalloc`, `uvmcopy`, `exec` | undoing a partial failure |
| User allocator | `user/umalloc.c` | circular free list | `malloc`, `free`, `morecore` | coalescing; a search that extends the list it searches |
| Shell | `user/sh.c`, `init.c`, `echo.c`, `cat.c` | processes, descriptors, pipes | `parsecmd`, `runcmd`, `main` | unused pipe ends left open; running out of processes in a pipeline |
| File system tests | `user/usertests.c` | | 29 programs | state what the calls must return |
| Collector | `Practicals/memory_allocation/c/mark_sweep.c` | object list, marks, roots | `allocate_object`, `add_reference`, `collect` | cycles, marks of an earlier collection |

How they interact: system calls of `sysfile.c` run inside a transaction of the
log (`begin_op` ... `end_op`) and change blocks in the buffer cache;
`log_write` pins them there; the commit copies them to the disk through the
driver. Every wait in the kernel is `sleep`/`wakeup` of `proc.c` under the
spin-lock of the waited-for condition. Pipes and the console are files. The disk
and the UART report through the PLIC, whose interrupts any CPU may take.

## 2. Modules

| Module | What it is | Models |
|---|---|---|
| `AtomicDisk` | abstract: groups of calls become durable together or not at all | promise of `log.c` |
| `Log` | the log, buffers as the log sees them, crashes, recovery | `log.c`, `bio.c` |
| `LogProof` | theorems about `Log` | |
| `BlockStore` | abstract: one contents and one holder for each block | promise of `bio.c` |
| `Bcache` | buffers, LRU list, references, sleep-locks | `bio.c`, `sleeplock.c` |
| `BcacheProof` | theorems about `Bcache` | |
| `Proc` | process table, CPUs, stacks, locks, clock | `proc.c`, `trap.c`, `sysproc.c` |
| `ProcSwitchProof`, `ProcFamilyProof`, `ProcSleepProof` | theorems about `Proc`, each on top of the one before | |
| `ByteQueue` | abstract: a bounded FIFO queue with two ends | promise of `pipe.c` |
| `Pipe` | the ring, its counters, readers, writers and closers | `pipe.c` |
| `PipeProof` | theorems about `Pipe` | |
| `RingTheorems` | lemmas on circular buffers with counters that wrap around | |
| `Inode` | operators on a disk image: bitmap, inodes, file contents, directories, the image that `mkfs` makes | `fs.c`, `mkfs.c` |
| `Fs` | processes that run file system calls concurrently; inode and file tables, transactions, crash | `fs.c`, `file.c`, `sysfile.c`, the file part of `proc.c` |
| `UserTests` | programs for `Fs` with the results they expect | `user/usertests.c` |
| `Virtio` | descriptors, rings, the device | `virtio_disk.c` |
| `LineInput` | abstract: a line being edited and a queue of finished input | promise of `console.c` |
| `Console` | input ring, output ring, kernel messages, the UART | `console.c`, `uart.c`, `printf.c` |
| `Devices` | composes `Virtio` and `Console` with the interrupts of several CPUs | `plic.c`, `trap.c` |
| `DevicesProof` | theorems about the console part of `Devices` | |
| `Vm` | operators on physical memory and page tables, `exec` | `kalloc.c`, `vm.c`, `exec.c`, parts of `proc.c` |
| `Memory` | processes and a pipe that use the memory of `Vm` | `proc.c`, `sysproc.c`, `exec.c` |
| `ShellSyntax` | the parser | `sh.c` |
| `Sh` | init, the shell, its children, `echo` and `cat` | `sh.c`, `init.c`, `echo.c`, `cat.c` |
| `Umalloc` | the heap of one program | `umalloc.c` |
| `MarkSweep` | the heap of the collector | `mark_sweep.c` |
| `MCLog`, `MCBcache`, `MCProc`, `MCPipe`, `MCFs`, `MCDevices`, `MCUser` | instances for TLC | |

Definitions keep the names of the C functions, or those of the step of the
function they stand for (`ExitWake`, `ExitZombie`). In `Inode`, `Vm` and
`ShellSyntax` a C function with several calls that may fail is a chain of
operators, each of which takes the outcome of the call before it (`execmem`,
`ExecTable`, `ExecLoaded`, `ExecStack`, `ExecArgs`). Operators whose comment
starts with *Mutant* are changed forms of the definition that follows them;
no specification uses them. They show that each property notices a plausible
bug: with the mutant in place of the definition TLC finds the property
violated.

### Log

Disk: `home`, `logblk`, `hdr`. Memory: `lh`, `outstanding`, `committing`
(`struct log`) and the cache. `BeginOp`, `LogWrite` and `EndOp` are the sections
under `log.lock`; `Bread` and `Brelse` are the buffer cache as the log sees it,
and `Evict` its recycling of unpinned buffers. `commit()` and
`recover_from_log()` run one disk block per step. `Crash` may come between any
two steps; the block being written then may hold anything (`TornWrite`), but the
header is atomic since its 124 bytes lie in one sector. The file system above
the log is arbitrary: in a transaction it reads, changes, logs and releases
blocks in any order, at most `OpWrites` different ones. Some processes also read
outside a transaction, as `fileread` does. The panics of `log.c` are states.

### Bcache

One step per section under `bcache.lock` or a sleep-lock's spin-lock. Between
`bget`'s choice and `acquiresleep`, and between `releasesleep` and the rest of
`brelse`, others run. `LogWrite` stands for a change of the buffer followed by
`log_write`, `bunpin` for the unpinning in `install_trans` after the write. A
process takes buffers in increasing block order, an assumption on the callers.

### Proc

A CPU is on the stack of a process (`on`) or its scheduler's. A step runs from
one `acquire` to the next; the locks held across steps are variables with the
CPU that holds them. `swtch` is the change of `on`, with `p->lock` held over it.
`Pick` and `Back` are the two halves of the scheduler's loop body, `Yielded`,
`Slept` and `forkret` where a process continues. The rounds of a `wakeup` are one
step: the caller holds the lock that goes with the channel, so nobody starts to
sleep on it between two rounds, and a slot with another channel is left alone.
Interrupts
come only where no lock is held; that `sched` finds them off (`proc.c:502`) then follows
from its holding `p->lock` and is not a check of its own. The time a `sys_sleep` still has to wait is
counted instead of `ticks`. `exit` leaves out the closing of files, `fork` the
copying. Slot 0 runs `user/init.c` (`InitCalls`); other programs make any call.
A slot stands for its process: pids are not reused.

### Pipe

`pi->lock` is held over several steps and a `kill` may come between any two. The
counters wrap at `UINT` (2^32 in the code), a multiple of `PIPESIZE`. `Init` is
what `pipealloc` and any forks leave: every process has some of the two ends.
`copyin` and `copyout` may fail at any byte.

### Inode and Fs

`Inode` has no state: its operators take a disk image and, where the code holds a
locked `struct inode`, that copy, and return both with the function's result. A
block is `BSIZE` units; a unit is a byte, a block number or a directory entry, so
an entry fills one unit where the code needs 16 bytes. The cache and the log
below it are those of `Bcache` and `Log`: in `Fs` the disk is what the cache shows
(`disk`) and what recovery would produce (`stable`). `begin_op` waits for commits
but never for space, and the last `end_op` makes `stable` equal to `disk`; this is
the abstract specification `AtomicDisk` that `Log` is proved to implement.

A step of `Fs` runs from one point where another process can get in the way to
the next: a sleep-lock that may be held, a section under `itable.lock` or
`ftable.lock`, `begin_op`, `end_op`. A call that only uses the inode it has locked
is therefore one step. The record of a process holds the C variables (`ip`, `dp`,
`old`), where it is (`pc`) and what follows (`k`), because `namex`, `create` and
`iput` are called from many places. `Iput`, `IputFree`, `IputDrop` are the three
critical sections of `iput`. When `iget` finds the table full its process stays in the
panic with `itable.lock` held: whoever needs that lock waits for ever, the others go on
(`TableUnlocked`). `SysPipe` takes its two files first; when something else is missing,
`PipeUndo` gives them back one after the other, and meanwhile others may find the
file table full. Two fields of the image are history that no action reads: `lost`
counts links that went with a removed directory, `reused` the inodes allocated in
the middle of the `iput` that freed them.

Process 1 runs one of `Programs`, chosen in `Init`. `UserTests` translates 29
tests of `usertests.c`: the calls of a test in their order, its forks and the
results it accepts; loop counts and sizes are scaled to the instance. A read may have
to return given data, a number of bytes of each value (`sharedfd`) or a number of
entries of each name (the directory listing of `concreate`).

### Virtio, Console, Devices

What a process does under `vdisk_lock` is one step; the interrupt handler takes a
step for each ring entry, since the device goes on meanwhile. The device is
external: it takes requests from the avail ring, finishes them in any order and
raises its interrupt. A request whose descriptors do not let it write where it has to
ends with an error status; it reports no other errors. Sections under `cons.lock` and
`uart_tx_lock` are single steps except where the UART is polled: between the look
at its status and the store another CPU may store a byte. `Claim` and
`EndOfInterrupt` are `plic_claim` and `plic_complete`; the controller holds back a
second interrupt of a device until the first is completed. `consoleread`'s loop is
one step that takes as many characters as come before the first index at which
the loop leaves or sleeps (`Stops`), since it keeps `cons.lock`. `Letters` are the
characters that `consoleintr` gives no meaning of their own.

Three pieces of code write to the UART after polling it, each under a lock of its own:
the echo (`cons.lock`), `uartstart` (`uart_tx_lock`) and `printf` (`pr.lock`). `printf` is called
by processes in the kernel (`Printers`) and, for ^P, by `consoleintr` through `procdump`,
which prints before the echo goes on; its text is a sequence of characters.

### Vm and Memory

`Vm` works on a record of all memory: the free pages, the page-table pages and the
contents of user pages. `kalloc` takes some free page, or fails when there is
none. A page table has `RADIX` entries per page. Each call of `Memory` is one
step, since calls of different processes share only the free pages; how many of
these there are is chosen in `Init`, so that memory runs out at each allocation
of each call. `kfree` of a free page, which the code would not notice, counts as a
panic.

### ShellSyntax, Sh

A line is a sequence of tokens. `ShellSyntax` is the recursive-descent parser.
`Sh` runs the processes that `runcmd` makes, one system call per step, over
the part of the kernel that they use; its `Meaning` says, without processes,
what a command writes and leaves in files. There is one directory, so `cd` has no
effect.

### Umalloc, MarkSweep

Units of `sizeof(Header)` are numbered; a program allocates, frees, and calls `sbrk`
itself. `MarkSweep` explores every heap that its operations can build.

## 3. What is checked

| Run | Instance | Shows |
|---|---|---|
| `log` | MAXOPBLOCKS 3, LOGSIZE 6, log of 7 blocks, 2 writes per call; 3 processes with 2 blocks each, or 2 processes, one of them a reader, 2 blocks and 2 values with crashes | `NoPanic`; `AtomicCommit` (refinement of `AtomicDisk`); `SleepersWoken`, `ComesUp` |
| `bcache` | 3 processes, 3 blocks, 2 buffers, 2 buffers held at a time, 1 pin | `RefcntExact`, `SleepersHaveHolder`; `CacheIsStore` (refinement of `BlockStore`) |
| `proc` | 3 slots, 2 CPUs, all calls, sleeps of 0 or 1 tick; `kill` of any process but init | `OneStack`, `NoOrphans`, `NoWakeupLost`, `KilledOnPurpose` |
| `proc_live` | 3 slots, 1 CPU, no `kill` | `RunnableRuns`, `ZombiesReaped`, `SleepReturns` |
| `proc_kill_zero` | 3 slots, 1 CPU; a program calls `kill(0)` | **violated** `KilledOnPurpose` |
| `pipe` | 3 processes, pipe of 2 bytes, counters modulo 4, counts 1 and 3, kills | `ReadersSleepOnEmptyUnlessCut`, `WritersSleepOnFull`, `NoUseAfterFree`; `PipeIsFifo` (refinement of `ByteQueue`) |
| `pipe_killed_writer` | 3 processes, pipe of 2 bytes, counts 1 and 2, kills | **violated** `ReadersSleepOnEmpty` |
| `fs` | 3 processes; 6 inodes, 10 data blocks of 4 units, 1 direct address, table of 5 inodes, 3 open files; MAXOPBLOCKS 6; 29 tests, 66 pairs of rival calls, 4 descriptor programs, one that fills the inode table; a crash at any step | `DiskConsistent` (bitmap, names and, but for links lost with a removed directory, link counts of the recovered disk), `RefsExact`, `UnlinkedAreOpenOrReused`, `NoPanic`, `NoDeadlock`, `TestsPass` |
| `fs_iput_race` | the test `createdelete` | **violated** `UnlinkedAreOpen` |
| `fs_removed_dir` | a file is created in a removed directory | **violated** `NlinkIsLinks` |
| `devices` | 8 descriptors, ring indices modulo 16, 4 disk processes; input and output rings of 2, indices modulo 4, UART of 3 bytes, 2 readers, 2 writers, 1 process that prints; 2 CPUs | `DeviceOwnsItsRequests`, `ReadersAwake`, `OutputInOrder`, `NoOverrun`; `TransferDone`, `EofOnce`, `RefinesLineInput` (refinement of `LineInput`); `AllServed` |
| `user` | memory: 22 pages of 2 bytes, tables of 4 entries, 2 processes, 4 calls; shell: 8 processes, pipes of 1 word; heap of 13 units; 3 objects with 2 references | `MemoryExact`, `ImagesSeparate`, `AllOrNothing`; `OutputAsMeant`, `ShellAllRun`; `HeapExact`, `FailsOnlyWhenFull`; `CollectsExactly` |

Several properties are conjunctions of statements that make up one idea and are
defined one by one: `DiskConsistent`, `MemoryExact`, `AllOrNothing`, `HeapExact`,
`NoWakeupLost`. The mutant of such a property breaks one of its conjuncts. The
type invariants are checked as the first conjunct of `RefcntExact`, `RefsExact`,
`OneStack`, `DeviceOwnsItsRequests`, `ReadersAwake`, `MemoryExact` and
`OutputAsMeant`. The type invariants of `Log` and `Pipe`, and `Reservation`,
`PinsMatchLog`, `QuiescentDurable`, `SleepersHaveWaker` and `ReadersSeeEnd`, are
proved for every size and are in no run.

Why the bounds are enough for the interesting cases:

- *log*: a log of 6 data blocks has room for two calls of 3. The three processes of the
  wide instance together write 6 blocks, so without `begin_op`'s reservation they
  reach `log_write`'s panic, and the third waits until an `end_op` that does not commit,
  or a commit, makes room. In the other instance calls write the same 2 blocks, so
  absorption within and between calls happens, and a crash can come in any round of
  each loop. `MCNext` restricts what the callers ask for, and in the wide instance
  crashes and evictions; never the log. The theorems cover every other size.
- *bcache*: more blocks than buffers, so recycling, waiting for a lock and the
  panic all happen; three processes give two waiters for one buffer.
- *proc*: three slots allow init, a child and a grandchild, hence
  reparenting; two CPUs allow every race between two pieces of kernel code.
  Killing init, too, multiplies the states and adds only runs that end in its
  `panic("init exiting")`, which init's own `exit` reaches in any case.
- *pipe*: the counters wrap every second filling of the pipe; a write of 3
  bytes does not fit; three processes give two readers and a writer or the
  reverse. The theorems cover every other size.
- *fs*: with one direct address files use the indirect block at once; the tests
  fill the disk, the inodes, the file table and the largest file, `TableFull` the table
  of inodes, which has fewer entries than there are inodes (as NINODE is less than
  NFILE), and
  MAXOPBLOCKS 6 makes a write of more than a block go in pieces. `Races` runs every
  pair of eleven short programs that create, remove, link and go through the same
  two directories. No program goes up from a directory after the one
  above it was removed: the code does not exclude that `..` then names a freed
  inode, on which `ilock` panics (see section 5).
- *devices*: 8 descriptors serve two requests, so two of four processes wait; 18
  requests, writes and reads in turn, bring the 16 values of an index round; blocks
  have different contents from the start and buffers are used again, so a read that
  transfers nothing is seen; the UART is filled to its 3 bytes; all sequences of three keys
  before a newline overfill the input ring and edit it; the output ring is
  smaller than a write.
- *user*: the four parts share nothing and a behaviour runs one of them. The free
  pages left range from almost none to enough for all; the command lines
  cover pipelines of four, lists, redirections and background commands, and
  process slots and pipes run out in the middle of a pipeline; requests to
  `malloc` are below, at and above the least amount asked from `sbrk`.

Deadlock is checked in the runs of the log, the cache and the processes. In the
others the workload ends: everyone closes the pipe, the programs exit, nothing is
left to type. There `NoDeadlock`, `AllServed` and `ShellAllRun` say what must not
be left waiting. A `panic` is a state in which nothing happens any more, in
`Fs` a place that its process never leaves.

Fairness. `Log`: the scheduler runs every runnable process, so a woken process,
the holder of a buffer, the committer and the booting CPU go on; system calls,
crashes and evictions need not happen. Sleep-locks are not fair, so the liveness
of the log is stated for executions in which readers outside transactions stop
keeping the committer from a buffer (`ReadersStop`). `Proc`: a CPU in the middle
of a switch goes on; the schedulers scan the whole table, so a process that is
runnable again and again is chosen; a process in the kernel gets a spin-lock
that comes free again and again; timer interrupts keep coming; init calls
`wait` again and again. Spinning in `acquire` cannot be interrupted in the code
while a waiting process in the model can, so liveness is checked on one CPU,
where nothing spins. `ZombiesReaped` assumes that forks stop: `wait` scans from
slot 0 and can find a zombie in a lower slot every time. `Devices`: raised
interrupts are taken and handlers return, the disk and the UART finish what they
have, processes that can go on do; nobody has to type. `MCUser`: some process of
the shell's runs as long as one can, no more.

Violations found:

1. `proc_kill_zero`. `kill` does not look at `p->state`, and free slots have pid
   0; `kill(0)` marks a free slot and the next process forked into it dies.
2. `pipe_killed_writer`. A writer killed in the middle of a write returns
   without `wakeup(&pi->nread)`: readers may sleep on a pipe with bytes in it.
3. `fs_iput_race`. `iput` frees an unlinked inode on disk, unlocks, and drops its
   reference only afterwards (`fs.c:352-360`). Another process that allocates the
   number in between shares the table entry; if it then unlinks the new file, its
   own `iput` sees two references and leaves the freeing to the first `iput`, which
   is past it. The inode stays allocated without links. All other properties hold
   with these inodes excepted (`UnlinkedAreOpenOrReused`).
4. `fs_removed_dir`. `create` and `sys_link` do not look at the link count of the directory
   they have locked. In a directory that was removed, but is still in use as a current
   directory or on a path being followed, they make a name; `iput` then frees the
   directory with the name in it, and the inode keeps a count of 1 without a link,
   against `fs.h:36`. Apart from links lost in this way, which `lost` counts one by one,
   every count is right (`NlinkIsLinksOrLost`, a part of `DiskConsistent`).

Limits that the code does not enforce:

- *The log.* `param.h:13-14` and `begin_op` allow each call MAXOPBLOCKS blocks and the log
  LOGSIZE data blocks; `mkfs.c:25` makes the log LOGSIZE blocks with its header, and
  `log_write` tests for a full log before it looks for a block to absorb. Calls that
  used their whole allowance could panic (in `Log` with `OpWrites` = MAXOPBLOCKS). The
  calls in the tree use less, which is the assumption `Headroom` of the proof.
- *The inode table.* `iget` panics when NINODE (50) inodes are in use, and NFILE (100) files
  may be open. The model reaches this panic (`TableFull`); `NoPanic` speaks of the others.
  `RefsExact` shows that entries are not used up in any other way.

Met on the way, without a statement in the repository to hold against them: a write of
several pieces is not atomic; a failed `sbrk` keeps the page-table pages it made
until the process exits; `>>` writes from offset 0 and the first of several
redirections of one descriptor wins; when `copyout` fails, the byte taken from
a pipe or from the console is lost; if init's `fork` fails, init exits and the
kernel panics.

## 4. What is proved

`LogProof`, for any number of processes, blocks, values and any sizes that
satisfy the assumptions of `Log` (MAXOPBLOCKS at most LOGSIZE, calls write at
most MAXOPBLOCKS different blocks):

- `InvCorrect`: the inductive invariant `IInv`. None of the properties is
  inductive alone. `IInv` joins `TypeOK`; `ControlInv` (where the committer, the
  counters and the stage agree); `WrittenInv` (what admitted calls logged is in
  the log); `HeaderInv` (the header on disk is empty, or equal to `lh`, according
  to the stage, and has no duplicates); `PinsMatchLog`; `ContentsInv` (what the
  log blocks, the home blocks and the cache hold in each stage); `Reservation`.
- `TypeCorrect`, `ReservationCorrect`, `PinsCorrect`, `WakerCorrect`,
  `DurableCorrect` follow from it.
- `NeverPanics`: under `Headroom`, which the numbers of `param.h` and `mkfs.c`
  satisfy for the calls in the tree, no `panic` of `log.c` is reached.
- `LogIsAtomic`: `Log` implements `AtomicDisk`. The mapping takes the stable
  contents to be what a recovery starting now would produce (`LogView`) and the
  memory to be what `bread` returns (`MemView`). The header write is the
  abstract commit; all other disk writes are stutters.

The argument for `Reservation`: a call that logs a new block gives up one
reserved block for one log entry; absorption only lowers the sum; `begin_op`
admits a call only if the sum with MAXOPBLOCKS more is within LOGSIZE, where
`outstanding * MAXOPBLOCKS` bounds what is reserved.

`PipeProof`, for any processes, bytes and pipe size, with counters that wrap at any
multiple of it (`PipeAssumption`):

- `PipeInvariant`: the inductive invariant `PipeInv`. It joins `TypeOK`; `LockInv`
  (who is in a critical section holds `pi->lock`); `EndsInv` (an end is open while a
  process has it); `FreeInv` (one process frees the page, after both ends are
  closed); `WriterInv` and `ReaderInv` (a sleeper's condition still holds, or somebody
  who will wake it is in a critical section); `CountInv`.
- `PipeTypeOK`, `NoWriterLost`, `NoReaderLost`, `EveryReaderSeesEnd`, `FreedOnceUnused`
  follow from it.
- `PipeImplementsQueue`: `Pipe` implements `ByteQueue`. The abstract queue is the
  bytes between the two counters. `QueueIs` shows that these are a sequence of
  `(nwrite - nread) % UINT` bytes, also when one counter has wrapped and the other has
  not; a byte written is appended to it, a byte read is its head.

The properties about sleepers are stated for a free lock and are not inductive:
in the middle of `piperead` the pipe has room while writers sleep. `WriterInv` and
`ReaderInv` say who is responsible for the wake-up in that case. A writer that
is killed after it has stored bytes leaves `pipewrite` without one; the history variable
`cut` records just these returns and is the exception in `ReaderInv`.

`BcacheProof`, for any finite set of processes and any numbers of blocks and buffers
(`BcacheAssumption`):

- `CacheInvariant`: the inductive invariant `BcacheInv`. An exact count does not
  preserve itself: that `bget` recycles only unused buffers also needs one
  buffer per block (`UniqueInv`), a list that has every buffer (in `TypeOK`), pins only
  on blocks that have a buffer (`PinInv`), and that a process between `bread` and
  `brelse` counts once (`CurInv`). `LockInv` ties the sleep-lock to the place of its
  owner; `ValidInv` and `DataInv` say when a buffer holds the block's contents.
- `CountsAreExact` and `NoSleeperForgotten` follow from it.
- `CacheImplementsStore`: `Bcache` implements `BlockStore`. A block's contents are those
  of its valid buffer, or of the disk if it has none. `Seen` states this for one
  buffer, which is where one buffer per block is needed.

`ProcSwitchProof`, `ProcFamilyProof`, `ProcSleepProof`, for any numbers of slots and CPUs,
any set of system calls and of victims:

- `FamilyInvariant`: the inductive invariant `FamilyInv`. `SwitchInv` relates, for each
  CPU and each slot, the stack it runs on, `c->proc`, the state, the saved context and
  every lock (`CpuInv`, `StackInv`, `ContextInv`, `HeldInv`), and says that no assertion
  of `sched` fails. `ForkInv` describes the slot that a `fork` has taken, `KidsInv` the
  parents. The two are proved together because the parent of a process changes
  under `wait_lock`, and who holds that is part of `SwitchInv`.
- `OneCpuPerStack` and `ParentsOutlive` follow from it.
- `SleepInvariant`: `SleepInv` adds what `wait` has seen of the table up to its loop
  index and that `sys_sleep` sleeps with ticks left. `NoWakeupLost` by itself says
  nothing about a process in the middle of its scan, which is where a wake-up
  would be lost. `WakeupsArrive` follows.
- `OnlyVictimsKilled` holds under the assumption that no program calls `kill(0)`; the
  run `proc_kill_zero` shows that it does not hold without.

`RingTheorems` has the arithmetic that `PipeProof` and `DevicesProof` share: the
entries between two counters that wrap at a multiple of the size of the array, and
what a store, a removal at either end and a split do to them.

`DevicesProof`, for any sizes, any number of readers and writers and whatever is typed
and asked for (`ConsoleAssumption`, `WorkloadAssumption`), in the composed system
`Devices`; the disk and the controller only let the console take its steps
(`ConsoleSteps`):

- `NobodySleepsOnInput`, from the inductive invariant `ConsoleInv`: the three indices
  delimit a line and finished input that fit in the buffer (`Fits`), the line holds
  no end of line (`LineOpen`), nobody is between its test and its sleep while the
  handler echoes under `cons.lock` (`LockHeld`), who sleeps or is about to has nothing
  to read (`NothingReady`), and a reader was given what could be copied (`Copied`).
  `ReadersAwake` speaks of sleepers only; the invariant also covers the reader
  between its test and its sleep.
- `ConsoleImplementsLineInput`: the console implements `LineInput`. `LineOpen` is what
  makes the loop of ^U, which stops at an end of line, erase the whole line.
- `EofIsGivenOnce`: a read that asks for something, into memory that is there, returns
  nothing exactly when it takes an end-of-file.
- `UartNotOverrun`, from `FifoInv`: what the UART holds and what the echo, `uartstart` and `printf`,
  having seen it idle, are about to give it, are at most three bytes. That the UART
  takes three is an assumption (`uartinit` turns its FIFO on). Output after a panic,
  when `printf` no longer takes its lock, is left out.

Most leaves are proved by Zenon, which the proofs name with its time limit; those
with arithmetic by the SMT solver, from the few facts they name.

Only model-checked:

- liveness (`SleepersWoken`, `ComesUp`, `RunnableRuns`, `ZombiesReaped`, `SleepReturns`,
  `AllServed`), which needs fairness and ENABLED;
- `OutputInOrder`, a statement about a filtered sequence (`SelectSeq`), hence an
  induction over data;
- `DeviceOwnsItsRequests` and `TransferDone`: the chains of descriptors and the two rings
  need an invariant of their own, and `TransferDone` also that different processes
  do not use one block at a time, which `Bcache` guarantees and `Virtio` does not know;
- everything about `Fs`, `Memory`, `Sh`, `Umalloc` and `MarkSweep`. The parser and the
  functions on lists, trees and page tables are recursive operators, and what
  they compute for every input needs an induction that is out of the prover's reach.

## 5. Not modelled

Within the modelled parts:

- *Names and arguments*: names are values, so their truncation to 14 characters
  (`fourteen` in `usertests.c`) and the fetching of arguments from user memory are
  left out. A write from memory that is not there is modelled, a read into such
  memory for pipes and the console only.
- *Dispatch by type*: `fileread` and `filewrite` of pipes and devices are in `Pipe` and
  `Console`, not in `Fs`; nor is the check of device numbers.
- *A directory that is removed while it is a process's current directory*: its `..`
  can name a freed inode (`fs.c:314`). The hazard is listed; `NoPanic` is
  checked on programs without this sequence.
- *A write whose memory ends within a block*: `writei` then leaves the part that was
  copied in the cached buffer without `log_write` (`fs.c:522`); in `Inode` nothing of
  the block changes. The programs of `Fs` have all or nothing of a block in memory.
- *Orders of locks between layers*: `Bcache` assumes that callers take buffers in
  block order. The processes that wait in `Fs` are those for inode locks.
- *Page tables*: the kernel's, which is built once, and `copyinstr`.
- *exec*: that its file is read under an inode lock; the results of reading are
  chosen.
- *Devices*: errors they report of their own; the console's output by polling after a panic.
- *Shell*: characters and blanks (`gettoken` works on tokens here), the
  null-termination of arguments, the current directory.
- *morecore*: `nu * sizeof(Header)` is exact, without truncation to `int`.
- *usertests.c*: tests of addresses and page tables, of `exec` and of memory.

Not modelled at all: `start.c`, `entry.S` and the save and restore of registers
(machine code without kernel state), formatting and string functions, the user
library and the remaining utilities (loops over calls that `Fs` has), the stress
programs, the practicals that only print, the introduction examples, the grading
script, the course notes and their web site.
