-------------------------------- MODULE Proc --------------------------------
(***************************************************************************)
(* Processes, the per-CPU schedulers, sleep() and wakeup() (kernel/proc.c),*)
(* with the trap paths and the clock that drive them (kernel/trap.c,       *)
(* sys_sleep() of kernel/sysproc.c).                                       *)
(*                                                                         *)
(* A CPU executes on the stack of a process or on its scheduler's stack;   *)
(* swtch() moves it from one to the other, carrying a p->lock along.  A    *)
(* step runs from one acquire() to the next; the locks still held at its   *)
(* end are recorded with the CPU that holds them, and no interrupt is      *)
(* taken while one is held.                                                *)
(*                                                                         *)
(* A slot of proc[] stands for the process in it: pids are never reused,   *)
(* so kill(pid) is the killing of the process that is in a slot now.       *)
(***************************************************************************)
EXTENDS Naturals

CONSTANTS
  NPROC,      \* slots of proc[]; slot 0 is initproc
  NCPU,       \* CPUs; CPU 0 counts the ticks
  MaxSleep,   \* the longest sleep() asked for, in ticks
  Calls,      \* the system calls user programs make
  Victims,    \* the slots whose processes may get killed
  KillZero    \* whether some program calls kill(0)

ASSUME SizesAssumption == NPROC \in Nat \ {0} /\ NCPU \in Nat \ {0} /\ MaxSleep \in Nat
ASSUME CallsAssumption == Calls \subseteq {"fork", "exit", "wait", "kill", "sleep", "fault"}
                          /\ Victims \subseteq 0 .. NPROC - 1 /\ KillZero \in BOOLEAN

VARIABLES
  state, chan, killed, parent, context,  \* struct proc
  left,                                  \* ticks that the sys_sleep() of a process still waits for
  plock, wait_lock, tickslock,           \* the CPU that holds the lock, or FREE
  proc,                                  \* c->proc
  on,                                    \* whose stack a CPU executes on; NULL: its scheduler's
  pc, ret, child, idx,                   \* a process in the kernel: place, return place, fork()'s np, loop index
  clk,                                   \* clockintr() on CPU 0: where it is
  asked,                                 \* ghost: somebody meant to kill the process in this slot
  panic

table == <<state, chan, killed, parent, context>>
locks == <<plock, wait_lock, tickslock>>
frame == <<ret, child, idx>>
vars == <<state, chan, killed, parent, context, left, plock, wait_lock, tickslock,
          proc, on, pc, ret, child, idx, clk, asked, panic>>

Procs == 0 .. NPROC - 1
CPUs == 0 .. NCPU - 1
initproc == 0
TICKS == NPROC            \* &ticks
NULL == NPROC + 1
FREE == NCPU

Init ==
  /\ state = [p \in Procs |-> IF p = initproc THEN "RUNNABLE" ELSE "UNUSED"]
  /\ chan = [p \in Procs |-> NULL]
  /\ killed = [p \in Procs |-> FALSE]
  /\ parent = [p \in Procs |-> NULL]
  /\ context = [p \in Procs |-> IF p = initproc THEN "forkret" ELSE "none"]
  /\ left = [p \in Procs |-> 0]
  /\ plock = [p \in Procs |-> FREE] /\ wait_lock = FREE /\ tickslock = FREE
  /\ proc = [c \in CPUs |-> NULL] /\ on = [c \in CPUs |-> NULL]
  /\ pc = [p \in Procs |-> "none"] /\ ret = [p \in Procs |-> "none"]
  /\ child = [p \in Procs |-> NULL] /\ idx = [p \in Procs |-> 0]
  /\ clk = "idle"
  /\ asked = [p \in Procs |-> FALSE]
  /\ panic = "none"

-----------------------------------------------------------------------------
(* Where a CPU is.                                                         *)

InIntr(c) == c = 0 /\ clk # "idle"

\* CPU c executes the code of process p at place l, on p's stack.
At(c, p, l) == on[c] = p /\ ~InIntr(c) /\ pc[p] = l

\* mycpu()->noff: every lock held is one push_off().  The code asks whether it
\* is 0, and in sched() whether p->lock is the only one.
HoldsNone(c) == (\A q \in Procs : plock[q] # c) /\ wait_lock # c /\ tickslock # c
HoldsOnly(c, p) == (\A q \in Procs : plock[q] = c <=> q = p) /\ wait_lock # c /\ tickslock # c

\* Interrupts are off while a lock is held.
Interruptible(c) == ~InIntr(c) /\ HoldsNone(c)

Goto(p, l) == pc' = [pc EXCEPT ![p] = l]

\* wakeup(ch) called by process p, or by the idle CPU when p is NULL.  Its
\* rounds are one step: the lock that goes with ch is held, so nobody starts
\* to sleep on ch in between, and a slot with another channel is left alone.
Wake(p, ch) ==
  /\ \A q \in Procs \ {p} : chan[q] = ch => plock[q] = FREE
  /\ state' = [q \in Procs |-> IF q # p /\ state[q] = "SLEEPING" /\ chan[q] = ch
                                THEN "RUNNABLE" ELSE state[q]]

Kids(p) == {q \in Procs : parent[q] = p}

-----------------------------------------------------------------------------
(* scheduler(), sched() and swtch().                                       *)

\* Mutant: a process that is leaving its CPU can be chosen by another.
PickUnlocked(c, p) ==
  /\ on[c] = NULL /\ ~InIntr(c) /\ proc[c] = NULL
  /\ state[p] = "RUNNABLE"
  /\ state' = [state EXCEPT ![p] = "RUNNING"]
  /\ proc' = [proc EXCEPT ![c] = p] /\ on' = [on EXCEPT ![c] = p]
  /\ plock' = [plock EXCEPT ![p] = c]
  /\ Goto(p, context[p]) /\ context' = [context EXCEPT ![p] = "none"]
  /\ UNCHANGED <<chan, killed, parent, left, wait_lock, tickslock, frame, clk, asked, panic>>

\* Mutant: the scan starts over at slot 0 after every switch.
PickFirst(c, p) ==
  /\ on[c] = NULL /\ ~InIntr(c) /\ proc[c] = NULL
  /\ plock[p] = FREE /\ state[p] = "RUNNABLE" /\ \A q \in 0 .. p - 1 : state[q] # "RUNNABLE"
  /\ state' = [state EXCEPT ![p] = "RUNNING"]
  /\ proc' = [proc EXCEPT ![c] = p] /\ on' = [on EXCEPT ![c] = p]
  /\ plock' = [plock EXCEPT ![p] = c]
  /\ Goto(p, context[p]) /\ context' = [context EXCEPT ![p] = "none"]
  /\ UNCHANGED <<chan, killed, parent, left, wait_lock, tickslock, frame, clk, asked, panic>>

\* The scan comes to slot p.
Pick(c, p) ==
  /\ on[c] = NULL /\ ~InIntr(c) /\ proc[c] = NULL
  /\ plock[p] = FREE /\ state[p] = "RUNNABLE"
  /\ state' = [state EXCEPT ![p] = "RUNNING"]
  /\ proc' = [proc EXCEPT ![c] = p] /\ on' = [on EXCEPT ![c] = p]
  /\ plock' = [plock EXCEPT ![p] = c]
  /\ Goto(p, context[p]) /\ context' = [context EXCEPT ![p] = "none"]
  /\ UNCHANGED <<chan, killed, parent, left, wait_lock, tickslock, frame, clk, asked, panic>>

\* Back in scheduler(), on its own stack.
Back(c) ==
  /\ on[c] = NULL /\ ~InIntr(c) /\ proc[c] # NULL
  /\ plock' = [plock EXCEPT ![proc[c]] = FREE]
  /\ proc' = [proc EXCEPT ![c] = NULL]
  /\ UNCHANGED <<table, left, wait_lock, tickslock, on, pc, frame, clk, asked, panic>>

\* The check for interrupts is left out: acquire(&p->lock) turned them off.
sched(c, p) ==
  /\ At(c, p, "sched")
  /\ panic' = IF plock[p] # c THEN "sched_plock"
              ELSE IF ~ HoldsOnly(c, p) THEN "sched_locks"
              ELSE IF state[p] = "RUNNING" THEN "sched_running" ELSE panic
  /\ IF panic' = panic THEN on' = [on EXCEPT ![c] = NULL] /\ Goto(p, "none")
     ELSE UNCHANGED <<on, pc>>
  /\ UNCHANGED <<table, left, locks, proc, frame, clk, asked>>

\* Where swtch() continues in the process: in yield(), sleep() or forkret().
Yielded(c, p) ==
  /\ At(c, p, "yielded")
  /\ plock' = [plock EXCEPT ![p] = FREE]
  /\ Goto(p, ret[p]) /\ ret' = [ret EXCEPT ![p] = "none"]
  /\ UNCHANGED <<table, left, wait_lock, tickslock, proc, on, child, idx, clk, asked, panic>>

Slept(c, p) ==
  /\ At(c, p, "slept")
  /\ chan' = [chan EXCEPT ![p] = NULL]
  /\ plock' = [plock EXCEPT ![p] = FREE]
  /\ Goto(p, ret[p]) /\ ret' = [ret EXCEPT ![p] = "none"]
  /\ UNCHANGED <<state, killed, parent, context, left, wait_lock, tickslock, proc, on, child, idx,
                 clk, asked, panic>>

forkret(c, p) ==
  /\ At(c, p, "forkret")
  /\ plock' = [plock EXCEPT ![p] = FREE]
  /\ Goto(p, "user")
  /\ UNCHANGED <<table, left, wait_lock, tickslock, proc, on, frame, clk, asked, panic>>

\* sleep(ch, lk): p->lock is taken before lk is released.  The caller has
\* released lk in this step, and goes on at l when it is woken.
sleep(c, p, ch, l) ==
  /\ plock[p] = FREE
  /\ plock' = [plock EXCEPT ![p] = c]
  /\ chan' = [chan EXCEPT ![p] = ch]
  /\ state' = [state EXCEPT ![p] = "SLEEPING"]
  /\ context' = [context EXCEPT ![p] = "slept"]
  /\ ret' = [ret EXCEPT ![p] = l]
  /\ Goto(p, "sched")

\* yield(), called when a timer interrupt comes at the end of the trap; the
\* process goes on where it was.
yield(c, p) ==
  /\ plock[p] = FREE
  /\ plock' = [plock EXCEPT ![p] = c]
  /\ state' = [state EXCEPT ![p] = "RUNNABLE"]
  /\ context' = [context EXCEPT ![p] = "yielded"]
  /\ ret' = [ret EXCEPT ![p] = pc[p]]
  /\ Goto(p, "sched")

-----------------------------------------------------------------------------
(* Traps from user space, and the clock.                                   *)

\* What user/init.c calls; it exits when fork() or wait() fails.
InitCalls == {"fork", "wait", "exit"}

\* A system call: usertrap() looks at p->killed first.
Syscall(c, p, call) ==
  /\ call \in Calls /\ (p = initproc => call \in InitCalls)
  /\ At(c, p, "user") /\ plock[p] = FREE /\ ~killed[p]

SyscallKilled(c, p) ==
  /\ At(c, p, "user") /\ plock[p] = FREE /\ killed[p]
  /\ Goto(p, "exit")
  /\ UNCHANGED <<table, left, locks, proc, on, frame, clk, asked, panic>>

\* An exception in user code: setkilled().
Fault(c, p) ==
  /\ "fault" \in Calls /\ p # initproc
  /\ At(c, p, "user") /\ plock[p] = FREE
  /\ killed' = [killed EXCEPT ![p] = TRUE]
  /\ asked' = [asked EXCEPT ![p] = TRUE]
  /\ Goto(p, "ret")
  /\ UNCHANGED <<state, chan, parent, context, left, locks, proc, on, frame, clk, panic>>

\* The end of usertrap().
Return(c, p) ==
  /\ At(c, p, "ret") /\ plock[p] = FREE
  /\ Goto(p, IF killed[p] THEN "exit" ELSE "user")
  /\ UNCHANGED <<table, left, locks, proc, on, frame, clk, asked, panic>>

\* What a timer interrupt makes of CPU c: usertrap() lets a killed process
\* exit, and otherwise, like kerneltrap(), calls yield().
Preempt(c) ==
  IF on[c] = NULL THEN UNCHANGED <<state, context, plock, pc, ret>>
  ELSE IF pc[on[c]] = "user" /\ killed[on[c]]
    THEN Goto(on[c], "exit") /\ UNCHANGED <<state, context, plock, ret>>
    ELSE yield(c, on[c])

\* A timer interrupt on a CPU other than CPU 0.
TimerIntr(c) ==
  /\ c # 0 /\ on[c] # NULL /\ Interruptible(c)
  /\ Preempt(c)
  /\ UNCHANGED <<chan, killed, parent, left, wait_lock, tickslock, proc, on, child, idx, clk,
                 asked, panic>>

\* Mutant: clockintr() does not take tickslock.
ClockIntrUnlocked ==
  /\ Interruptible(0) /\ tickslock = FREE
  /\ left' = [p \in Procs |-> IF left[p] > 0 THEN left[p] - 1 ELSE 0]
  /\ clk' = "wake"
  /\ UNCHANGED <<table, locks, proc, on, pc, frame, asked, panic>>

\* clockintr() on CPU 0: ticks++ under tickslock, then wakeup(&ticks).
ClockIntr ==
  /\ Interruptible(0) /\ tickslock = FREE
  /\ tickslock' = 0
  /\ left' = [p \in Procs |-> IF left[p] > 0 THEN left[p] - 1 ELSE 0]
  /\ clk' = "wake"
  /\ UNCHANGED <<table, plock, wait_lock, proc, on, pc, frame, asked, panic>>

ClockWake ==
  /\ clk = "wake"
  /\ Wake(proc[0], TICKS)
  /\ clk' = "done"
  /\ UNCHANGED <<chan, killed, parent, context, left, locks, proc, on, pc, frame, asked, panic>>

\* The end of clockintr(), and of the trap.
ClockDone ==
  /\ clk = "done"
  /\ clk' = "idle"
  /\ tickslock' = FREE
  /\ Preempt(0)
  /\ UNCHANGED <<chan, killed, parent, left, wait_lock, proc, on, child, idx, asked, panic>>

-----------------------------------------------------------------------------
(* fork().                                                                 *)

\* allocproc() finds a slot; the copies made under np->lock all succeed.
Fork(c, p, np) ==
  /\ Syscall(c, p, "fork")
  /\ plock[np] = FREE /\ state[np] = "UNUSED"
  /\ state' = [state EXCEPT ![np] = "USED"]
  /\ context' = [context EXCEPT ![np] = "forkret"]
  /\ child' = [child EXCEPT ![p] = np]
  /\ Goto(p, "fork_parent")
  /\ UNCHANGED <<chan, killed, parent, left, locks, proc, on, ret, idx, clk, asked, panic>>

\* No slot, or no memory: freeproc() undoes what allocproc() did.
ForkFails(c, p) ==
  /\ Syscall(c, p, "fork")
  /\ \/ UNCHANGED killed
     \/ \E np \in Procs : /\ plock[np] = FREE /\ state[np] = "UNUSED"
                          /\ killed' = [killed EXCEPT ![np] = FALSE]
  /\ Goto(p, "ret")
  /\ UNCHANGED <<state, chan, parent, context, left, locks, proc, on, frame, clk, asked, panic>>

ForkParent(c, p) ==
  /\ At(c, p, "fork_parent") /\ wait_lock = FREE
  /\ parent' = [parent EXCEPT ![child[p]] = p]
  /\ Goto(p, "fork_run")
  /\ UNCHANGED <<state, chan, killed, context, left, locks, proc, on, frame, clk, asked, panic>>

ForkRun(c, p) ==
  /\ At(c, p, "fork_run") /\ plock[child[p]] = FREE
  /\ state' = [state EXCEPT ![child[p]] = "RUNNABLE"]
  /\ child' = [child EXCEPT ![p] = NULL]
  /\ Goto(p, "ret")
  /\ UNCHANGED <<chan, killed, parent, context, left, locks, proc, on, ret, idx, clk, asked, panic>>

-----------------------------------------------------------------------------
(* exit().                                                                 *)

\* Mutant: the children keep their dead parent.
ExitKeepsKids(c, p) ==
  /\ At(c, p, "exit") \/ Syscall(c, p, "exit")
  /\ IF p = initproc THEN panic' = "init_exiting" /\ UNCHANGED <<parent, wait_lock, pc>>
     ELSE /\ wait_lock = FREE /\ wait_lock' = c
          /\ Goto(p, "wake_parent")
          /\ UNCHANGED <<parent, panic>>
  /\ UNCHANGED <<state, chan, killed, context, left, plock, tickslock, proc, on, frame,
                 clk, asked>>

\* Up to reparent(), whose calls of wakeup(initproc) are one: nobody can go
\* to sleep in wait() between them, since wait_lock is held.
Exit(c, p) ==
  /\ At(c, p, "exit") \/ Syscall(c, p, "exit")
  /\ IF p = initproc THEN panic' = "init_exiting" /\ UNCHANGED <<parent, wait_lock, pc>>
     ELSE /\ wait_lock = FREE /\ wait_lock' = c
          /\ parent' = [q \in Procs |-> IF parent[q] = p THEN initproc ELSE parent[q]]
          /\ Goto(p, IF Kids(p) = {} THEN "wake_parent" ELSE "wake_init")
          /\ UNCHANGED panic
  /\ UNCHANGED <<state, chan, killed, context, left, plock, tickslock, proc, on, frame,
                 clk, asked>>

\* The wakeup() of initproc, then that of the parent.
ExitWake(c, p) ==
  \/ /\ At(c, p, "wake_init") /\ Wake(p, initproc) /\ Goto(p, "wake_parent")
     /\ UNCHANGED <<chan, killed, parent, context, left, locks, proc, on, frame, clk, asked, panic>>
  \/ /\ At(c, p, "wake_parent") /\ Wake(p, parent[p]) /\ Goto(p, "exit_zombie")
     /\ UNCHANGED <<chan, killed, parent, context, left, locks, proc, on, frame, clk, asked, panic>>

ExitZombie(c, p) ==
  /\ At(c, p, "exit_zombie") /\ plock[p] = FREE
  /\ plock' = [plock EXCEPT ![p] = c]
  /\ state' = [state EXCEPT ![p] = "ZOMBIE"]
  /\ wait_lock' = FREE
  /\ Goto(p, "sched")
  /\ UNCHANGED <<chan, killed, parent, context, left, tickslock, proc, on, frame, clk, asked, panic>>

-----------------------------------------------------------------------------
(* wait().                                                                 *)

WaitLock(c, p) ==
  /\ Syscall(c, p, "wait") \/ At(c, p, "wait_relock")
  /\ wait_lock = FREE /\ wait_lock' = c
  /\ idx' = [idx EXCEPT ![p] = 0]
  /\ Goto(p, "scan")
  /\ UNCHANGED <<table, left, plock, tickslock, proc, on, ret, child, clk, asked, panic>>

\* q is the next child in the table.
NextKid(p, q) == q \in Kids(p) /\ q >= idx[p] /\ \A r \in Kids(p) : r >= idx[p] => q <= r

\* Mutant: p->killed survives in the slot.
freeprocKeepsKilled(q) ==
  /\ state' = [state EXCEPT ![q] = "UNUSED"]
  /\ chan' = [chan EXCEPT ![q] = NULL]
  /\ parent' = [parent EXCEPT ![q] = NULL]
  /\ asked' = [asked EXCEPT ![q] = FALSE]
  /\ UNCHANGED killed

freeproc(q) ==
  /\ state' = [state EXCEPT ![q] = "UNUSED"]
  /\ chan' = [chan EXCEPT ![q] = NULL]
  /\ killed' = [killed EXCEPT ![q] = FALSE]
  /\ parent' = [parent EXCEPT ![q] = NULL]
  /\ asked' = [asked EXCEPT ![q] = FALSE]

\* A child that is still alive.
WaitScan(c, p) ==
  /\ At(c, p, "scan")
  /\ \E q \in Procs : /\ NextKid(p, q) /\ plock[q] = FREE /\ state[q] # "ZOMBIE"
                      /\ idx' = [idx EXCEPT ![p] = q + 1]
  /\ UNCHANGED <<table, left, locks, proc, on, pc, ret, child, clk, asked, panic>>

\* A zombie: it is freed, unless copyout() of its status fails.  init asks for
\* no status (user/init.c).
WaitReap(c, p) ==
  /\ At(c, p, "scan")
  /\ wait_lock' = FREE
  /\ Goto(p, "ret") /\ idx' = [idx EXCEPT ![p] = 0]
  /\ \E q \in Procs :
       /\ NextKid(p, q) /\ plock[q] = FREE /\ state[q] = "ZOMBIE"
       /\ freeproc(q) \/ (p # initproc /\ UNCHANGED <<state, chan, killed, parent, asked>>)
  /\ UNCHANGED <<context, left, plock, tickslock, proc, on, ret, child, clk, panic>>

\* The end of the scan: no children, or the test of killed(p).
WaitTest(c, p) ==
  /\ At(c, p, "scan") /\ \A q \in Kids(p) : q < idx[p]
  /\ Kids(p) # {} => plock[p] = FREE
  /\ IF Kids(p) = {} \/ killed[p]
       THEN Goto(p, "ret") /\ wait_lock' = FREE
       ELSE Goto(p, "wait_sleep") /\ UNCHANGED wait_lock
  /\ idx' = [idx EXCEPT ![p] = 0]
  /\ UNCHANGED <<table, left, plock, tickslock, proc, on, ret, child, clk, asked, panic>>

\* Mutant: wait_lock is released first, and p->lock taken afterwards.
WaitSleepLate(c, p) ==
  \/ /\ At(c, p, "wait_sleep") /\ wait_lock = c
     /\ wait_lock' = FREE
     /\ UNCHANGED <<table, left, plock, tickslock, proc, on, pc, frame, clk, asked, panic>>
  \/ /\ At(c, p, "wait_sleep") /\ wait_lock # c
     /\ sleep(c, p, p, "wait_relock")
     /\ UNCHANGED <<killed, parent, left, wait_lock, tickslock, proc, on, child, idx, clk, asked, panic>>

WaitSleep(c, p) ==
  /\ At(c, p, "wait_sleep")
  /\ sleep(c, p, p, "wait_relock")
  /\ wait_lock' = FREE
  /\ UNCHANGED <<killed, parent, left, tickslock, proc, on, child, idx, clk, asked, panic>>

-----------------------------------------------------------------------------
(* sys_sleep() and kill().                                                 *)

\* Mutant: ticks0 is read again in every round.
TicksLockAgain(c, p) ==
  /\ tickslock = FREE /\ tickslock' = c
  /\ Syscall(c, p, "sleep") \/ At(c, p, "ticks_relock")
  /\ \E n \in 0 .. MaxSleep : left' = [left EXCEPT ![p] = n]
  /\ Goto(p, "ticks")
  /\ UNCHANGED <<table, plock, wait_lock, proc, on, frame, clk, asked, panic>>

TicksLock(c, p) ==
  /\ tickslock = FREE /\ tickslock' = c
  /\ \/ /\ Syscall(c, p, "sleep")
        /\ \E n \in 0 .. MaxSleep : left' = [left EXCEPT ![p] = n]
     \/ At(c, p, "ticks_relock") /\ UNCHANGED left
  /\ Goto(p, "ticks")
  /\ UNCHANGED <<table, plock, wait_lock, proc, on, frame, clk, asked, panic>>

\* The while loop's condition, and then the test of killed().
TicksTest(c, p) ==
  /\ At(c, p, "ticks")
  /\ left[p] > 0 => plock[p] = FREE
  /\ IF left[p] = 0 \/ killed[p]
       THEN Goto(p, "ret") /\ tickslock' = FREE /\ left' = [left EXCEPT ![p] = 0]
       ELSE Goto(p, "ticks_sleep") /\ UNCHANGED <<tickslock, left>>
  /\ UNCHANGED <<table, plock, wait_lock, proc, on, frame, clk, asked, panic>>

TicksSleep(c, p) ==
  /\ At(c, p, "ticks_sleep")
  /\ sleep(c, p, TICKS, "ticks_relock")
  /\ tickslock' = FREE
  /\ UNCHANGED <<killed, parent, left, wait_lock, proc, on, child, idx, clk, asked, panic>>

\* kill(pid) reaches the slot q with that pid; an UNUSED slot has pid 0.
Kill(c, p, q) ==
  /\ Syscall(c, p, "kill") /\ q \in Victims /\ plock[q] = FREE
  /\ state[q] # "UNUSED" \/ KillZero
  /\ killed' = [killed EXCEPT ![q] = TRUE]
  /\ asked' = [asked EXCEPT ![q] = state[q] # "UNUSED"]
  /\ state' = IF state[q] = "SLEEPING" THEN [state EXCEPT ![q] = "RUNNABLE"] ELSE state
  /\ Goto(p, "ret")
  /\ UNCHANGED <<chan, parent, context, left, locks, proc, on, frame, clk, panic>>

-----------------------------------------------------------------------------
\* Both sides of a swtch(), and what a process does by itself in the kernel.
Switch(c, p) == sched(c, p) \/ Yielded(c, p) \/ Slept(c, p) \/ forkret(c, p)

Kernel(c, p) ==
  \/ Return(c, p)
  \/ ForkParent(c, p) \/ ForkRun(c, p)
  \/ pc[p] # "user" /\ Exit(c, p)
  \/ ExitWake(c, p) \/ ExitZombie(c, p)
  \/ pc[p] # "user" /\ WaitLock(c, p)
  \/ WaitScan(c, p) \/ WaitReap(c, p) \/ WaitTest(c, p) \/ WaitSleep(c, p)
  \/ pc[p] # "user" /\ TicksLock(c, p)
  \/ TicksTest(c, p) \/ TicksSleep(c, p)

\* What the program running in it chooses to do.
Program(c, p) ==
  \/ SyscallKilled(c, p) \/ Fault(c, p)
  \/ ForkFails(c, p) \/ \E np \in Procs : Fork(c, p, np)
  \/ pc[p] = "user" /\ (Exit(c, p) \/ WaitLock(c, p) \/ TicksLock(c, p))
  \/ \E q \in Procs : Kill(c, p, q)

Cpu(c) ==
  \/ Back(c) \/ TimerIntr(c)
  \/ \E p \in Procs : Pick(c, p) \/ Switch(c, p) \/ Kernel(c, p) \/ Program(c, p)

\* A panic() never returns.
Halted == panic # "none" /\ UNCHANGED vars

Next ==
  \/ panic = "none" /\ \E c \in CPUs : Cpu(c)
  \/ panic = "none" /\ (ClockIntr \/ ClockWake \/ ClockDone)
  \/ Halted

Spec == Init /\ [][Next]_vars

(* Fairness: a CPU in the kernel goes on; every CPU scans the whole table, *)
(* so a process that stays RUNNABLE is found, and is given a spin-lock that*)
(* comes free again and again; timer interrupts keep coming, far enough    *)
(* apart for the kernel to get on; and init calls wait() again and again   *)
(* (user/init.c).  No other program has to make a system call.             *)
Live(A) == panic = "none" /\ A
Fairness ==
  /\ \A c \in CPUs : /\ WF_vars(Live(Back(c) \/ \E p \in Procs : Switch(c, p)))
                     /\ SF_vars(Live(TimerIntr(c)))
  /\ \A p \in Procs : /\ SF_vars(Live(\E c \in CPUs : Pick(c, p)))
                      /\ SF_vars(Live(\E c \in CPUs : Kernel(c, p)))
  /\ SF_vars(Live(ClockIntr)) /\ WF_vars(Live(ClockWake \/ ClockDone))
  /\ SF_vars(Live(\E c \in CPUs : pc[initproc] = "user" /\ WaitLock(c, initproc)))

FairSpec == Spec /\ Fairness

-----------------------------------------------------------------------------
(* Properties.                                                             *)

States == {"UNUSED", "USED", "SLEEPING", "RUNNABLE", "RUNNING", "ZOMBIE"}
Places == {"none", "user", "ret", "sched", "yielded", "slept", "forkret",
           "fork_parent", "fork_run", "exit", "wake_init", "wake_parent", "exit_zombie",
           "scan", "wait_sleep", "wait_relock", "ticks", "ticks_sleep", "ticks_relock"}

\* The type of the state.
TypeOK ==
  /\ state \in [Procs -> States]
  /\ chan \in [Procs -> Procs \cup {TICKS, NULL}]
  /\ killed \in [Procs -> BOOLEAN] /\ asked \in [Procs -> BOOLEAN]
  /\ parent \in [Procs -> Procs \cup {NULL}]
  /\ context \in [Procs -> {"none", "forkret", "slept", "yielded"}]
  /\ left \in [Procs -> 0 .. MaxSleep]
  /\ plock \in [Procs -> CPUs \cup {FREE}]
  /\ wait_lock \in CPUs \cup {FREE} /\ tickslock \in CPUs \cup {FREE}
  /\ proc \in [CPUs -> Procs \cup {NULL}] /\ on \in [CPUs -> Procs \cup {NULL}]
  /\ pc \in [Procs -> Places] /\ ret \in [Procs -> Places]
  /\ child \in [Procs -> Procs \cup {NULL}] /\ idx \in [Procs -> 0 .. NPROC]
  /\ clk \in {"idle", "wake", "done"}
  /\ panic \in {"none", "init_exiting", "sched_plock", "sched_locks", "sched_running"}

\* No two CPUs ever execute on the same kernel stack, and a CPU is on the
\* stack of a process that is not RUNNING only while it holds its p->lock:
\* no one can choose, free or reuse a process that has not left its stack.
\* The assertions of sched() that guard this never fail; only "init_exiting" can
\* stop the kernel, when a program makes init exit.
OneStack ==
  /\ TypeOK
  /\ panic \in {"none", "init_exiting"}
  /\ \A c, d \in CPUs : on[c] = on[d] /\ on[c] # NULL => c = d
  /\ \A c \in CPUs :
       on[c] # NULL =>
         /\ proc[c] = on[c]
         /\ \/ state[on[c]] = "RUNNING"
            \/ state[on[c]] \in {"RUNNABLE", "SLEEPING", "ZOMBIE"} /\ plock[on[c]] = c

\* Nobody sleeps in wait() while a child of its own is a zombie, except
\* while the exit() that made it so still holds wait_lock to wake it.
NoZombieMissed ==
  wait_lock = FREE =>
    \A p, q \in Procs : state[p] = "SLEEPING" /\ chan[p] = p /\ parent[q] = p => state[q] # "ZOMBIE"

\* Every process but init has a parent that has not exited, from the moment
\* it can run: someone is there to free it.
NoOrphans ==
  \A q \in Procs \ {initproc} :
    state[q] \in {"SLEEPING", "RUNNABLE", "RUNNING", "ZOMBIE"} =>
      parent[q] # NULL /\ state[parent[q]] \notin {"UNUSED", "USED", "ZOMBIE"}

\* Nobody sleeps past its time: a process asleep in sys_sleep() has ticks
\* left to wait for, except while clockintr() is still waking the sleepers.
NoTickMissed ==
  tickslock = FREE =>
    \A p \in Procs : state[p] = "SLEEPING" /\ chan[p] = TICKS => left[p] > 0

\* sleep() and wakeup() lose no wake-up, whatever the two CPUs do: nobody sleeps
\* in wait() or in sys_sleep() for what has already happened.
NoWakeupLost == NoZombieMissed /\ NoTickMissed

\* A process is killed only if it did wrong or somebody named its pid:
\* "Kill the process with the given pid" (kill()).
KilledOnPurpose == \A p \in Procs : state[p] # "UNUSED" /\ killed[p] => asked[p]

\* Every process that can run comes to run: yield() and the schedulers
\* forget nobody.
RunnableRuns ==
  \A p \in Procs : state[p] = "RUNNABLE" ~> state[p] = "RUNNING" \/ panic # "none"

\* Once the forks stop, a process that exits and whose parent is or becomes
\* init is freed: no wake-up between exit(), reparent() and wait() is lost.
\* (While they go on, wait() can find a zombie in a lower slot every time.)
ZombiesReaped ==
  <>[](\A p \in Procs : pc[p] # "fork_parent") =>
    \A q \in Procs \ {initproc} :
      state[q] = "ZOMBIE" /\ parent[q] = initproc ~> state[q] = "UNUSED" \/ panic # "none"

\* A sys_sleep() that has gone to sleep returns, killed or not.
SleepReturns ==
  \A p \in Procs \ {initproc} :
    state[p] = "SLEEPING" /\ chan[p] = TICKS ~> pc[p] = "ret" \/ panic # "none"
=============================================================================
