-------------------------- MODULE ProcSwitchProof ---------------------------
(***************************************************************************)
(* Proofs about Proc, for any number of slots and CPUs: the switching      *)
(* between stacks and the assertions of sched().                           *)
(***************************************************************************)
EXTENDS Proc, TLAPS

\* The constants are all different.
LEMMA Distinct ==
  /\ 0 \in CPUs /\ initproc \in Procs /\ FREE \notin CPUs
  /\ NULL \notin Procs /\ TICKS \notin Procs /\ TICKS # NULL
BY SizesAssumption DEF CPUs, Procs, initproc, FREE, NULL, TICKS

\* The ranges of the counters.
LEMMA Ranges ==
  /\ 0 \in 0 .. NPROC /\ 0 .. NPROC \subseteq Nat /\ \A q \in Procs : q + 1 \in 0 .. NPROC
  /\ 0 \in 0 .. MaxSleep /\ \A n \in 0 .. MaxSleep : (IF n > 0 THEN n - 1 ELSE 0) \in 0 .. MaxSleep
BY SizesAssumption DEF Procs

\* The type of the state is kept by both sides of a swtch().
LEMMA SwitchTypes ==
  ASSUME TypeOK, NEW c \in CPUs, NEW p \in Procs,
         Pick(c, p) \/ Back(c) \/ sched(c, p) \/ Yielded(c, p) \/ Slept(c, p) \/ forkret(c, p)
  PROVE  TypeOK'
<1> USE Distinct DEF TypeOK
<1>1. CASE Pick(c, p)
  BY ZenonT(30), <1>1 DEF Pick, Goto, States, Places, table, locks, frame
<1>2. CASE Back(c)
  BY ZenonT(30), <1>2 DEF Back, table, locks, frame
<1>3. CASE sched(c, p)
  BY ZenonT(30), <1>3 DEF sched, Goto, Places, table, locks, frame
<1>4. CASE Yielded(c, p)
  BY ZenonT(30), <1>4 DEF Yielded, Goto, Places, table, locks, frame
<1>5. CASE Slept(c, p)
  BY ZenonT(30), <1>5 DEF Slept, Goto, Places, table, locks, frame
<1>6. CASE forkret(c, p)
  BY ZenonT(30), <1>6 DEF forkret, Goto, Places, table, locks, frame
<1> QED BY ZenonT(30), <1>1, <1>2, <1>3, <1>4, <1>5, <1>6

\* The type of the state is kept by fork(), exit() and the end of a trap.
LEMMA KernelTypes ==
  ASSUME TypeOK, NEW c \in CPUs, NEW p \in Procs,
         Return(c, p) \/ ForkParent(c, p) \/ ForkRun(c, p) \/ Exit(c, p) \/ ExitWake(c, p) \/ ExitZombie(c, p)
  PROVE  TypeOK'
<1> USE Distinct DEF TypeOK
<1>1. CASE Return(c, p)
  BY ZenonT(30), <1>1 DEF Return, Goto, Places, table, locks, frame
<1>2. CASE ForkParent(c, p)
  BY ZenonT(30), <1>2 DEF ForkParent, Goto, Places, table, locks, frame
<1>3. CASE ForkRun(c, p)
  BY ZenonT(30), <1>3 DEF ForkRun, Goto, Places, States, table, locks, frame
<1>4. CASE Exit(c, p)
  <2>1. UNCHANGED <<state, chan, killed, asked, context, left, plock, tickslock, proc, on, ret, child, idx, clk>>
    BY ZenonT(30), <1>4 DEF Exit, Goto, table, locks, frame
  <2>2. parent' \in [Procs -> Procs \cup {NULL}]
    <3>1. parent \in [Procs -> Procs \cup {NULL}] /\ initproc \in Procs
      BY ZenonT(30)
    <3>2. parent' = parent \/ parent' = [q \in Procs |-> IF parent[q] = p THEN initproc ELSE parent[q]]
      BY ZenonT(30), <1>4 DEF Exit
    <3> HIDE DEF TypeOK
    <3> QED BY ZenonT(30), <3>1, <3>2
  <2>3. wait_lock' \in CPUs \cup {FREE}
    BY ZenonT(30), <1>4 DEF Exit, Goto
  <2>4. pc' \in [Procs -> Places]
    BY ZenonT(30), <1>4 DEF Exit, Goto, Places
  <2>5. panic' \in {"none", "init_exiting", "sched_plock", "sched_locks", "sched_running"}
    BY ZenonT(30), <1>4 DEF Exit, Goto
  <2> QED BY ZenonT(30), <2>1, <2>2, <2>3, <2>4, <2>5
<1>5. CASE ExitWake(c, p)
  <2>1. UNCHANGED <<chan, killed, asked, parent, context, left, plock, wait_lock, tickslock, proc, on, ret, child, idx, clk, panic>>
    BY ZenonT(30), <1>5 DEF ExitWake, Wake, Goto, table, locks, frame
  <2>2. state' \in [Procs -> States]
    <3>1. state \in [Procs -> States] /\ "RUNNABLE" \in States
      BY ZenonT(30) DEF States
    <3> HIDE DEF TypeOK
    <3>2. \E ch : state' = [q \in Procs |-> IF q # p /\ state[q] = "SLEEPING" /\ chan[q] = ch THEN "RUNNABLE" ELSE state[q]]
      <4>1. Wake(p, initproc) \/ Wake(p, parent[p])
        BY ZenonT(30), <1>5 DEF ExitWake
      <4> QED BY ZenonT(30), <4>1 DEF Wake
    <3> QED BY ZenonT(30), <3>1, <3>2
  <2>3. pc' \in [Procs -> Places]
    BY ZenonT(30), <1>5 DEF ExitWake, Wake, Goto, Places
  <2> QED BY ZenonT(30), <2>1, <2>2, <2>3
<1>6. CASE ExitZombie(c, p)
  BY ZenonT(30), <1>6 DEF ExitZombie, Goto, Places, States, table, locks, frame
<1> QED BY ZenonT(30), <1>1, <1>2, <1>3, <1>4, <1>5, <1>6

\* The type of the state is kept by wait() and sys_sleep().
LEMMA WaitTypes ==
  ASSUME TypeOK, NEW c \in CPUs, NEW p \in Procs,
         WaitLock(c, p) \/ WaitScan(c, p) \/ WaitReap(c, p) \/ WaitTest(c, p) \/ WaitSleep(c, p) \/ TicksLock(c, p) \/ TicksTest(c, p) \/ TicksSleep(c, p)
  PROVE  TypeOK'
<1> USE Distinct DEF TypeOK
<1>1. CASE WaitLock(c, p)
  <2>1. UNCHANGED <<state, chan, killed, asked, parent, context, left, plock, tickslock, proc, on, ret, child, clk, panic>>
    BY ZenonT(30), <1>1 DEF WaitLock, Goto, table, locks, frame
  <2>2. wait_lock' \in CPUs \cup {FREE}
    BY ZenonT(30), <1>1 DEF WaitLock, Goto
  <2>3. pc' \in [Procs -> Places]
    BY ZenonT(30), <1>1 DEF WaitLock, Goto, Places
  <2>4. idx' \in [Procs -> 0 .. NPROC]
    <3>1. idx \in [Procs -> 0 .. NPROC] /\ idx' = [idx EXCEPT ![p] = 0]
      BY ZenonT(30), <1>1 DEF WaitLock
    <3>2. 0 \in 0 .. NPROC
      BY ZenonT(30), Ranges
    <3> HIDE DEF TypeOK
    <3> QED BY ZenonT(30), <3>1, <3>2
  <2> QED BY ZenonT(30), <2>1, <2>2, <2>3, <2>4
<1>2. CASE WaitScan(c, p)
  <2>1. UNCHANGED <<state, chan, killed, asked, parent, context, left, plock, wait_lock, tickslock, proc, on, pc, ret, child, clk, panic>>
    BY ZenonT(30), <1>2 DEF WaitScan, table, locks, frame
  <2>2. idx' \in [Procs -> 0 .. NPROC]
    <3>1. PICK q \in Procs : idx' = [idx EXCEPT ![p] = q + 1]
      BY ZenonT(30), <1>2 DEF WaitScan
    <3>2. idx \in [Procs -> 0 .. NPROC] /\ q + 1 \in 0 .. NPROC
      BY ZenonT(30), Ranges
    <3> HIDE DEF TypeOK
    <3> QED BY ZenonT(30), <3>1, <3>2
  <2> QED BY ZenonT(30), <2>1, <2>2
<1>3. CASE WaitReap(c, p)
  <2>1. UNCHANGED <<context, left, plock, tickslock, proc, on, ret, child, clk, panic>>
    BY ZenonT(30), <1>3 DEF WaitReap, freeproc, Goto, table, locks, frame
  <2>2. state' \in [Procs -> States]
    <3>1. state \in [Procs -> States] /\ "UNUSED" \in States
      BY ZenonT(30) DEF States
    <3>2. state' = state \/ \E q \in Procs : state' = [state EXCEPT ![q] = "UNUSED"]
      BY ZenonT(30), <1>3 DEF WaitReap, freeproc
    <3> HIDE DEF TypeOK
    <3> QED BY ZenonT(30), <3>1, <3>2
  <2>3. chan' \in [Procs -> Procs \cup {TICKS, NULL}]
    BY ZenonT(30), <1>3 DEF WaitReap, freeproc, Goto
  <2>4. killed' \in [Procs -> BOOLEAN]
    BY ZenonT(30), <1>3 DEF WaitReap, freeproc, Goto
  <2>5. parent' \in [Procs -> Procs \cup {NULL}]
    BY ZenonT(30), <1>3 DEF WaitReap, freeproc, Goto
  <2>6. asked' \in [Procs -> BOOLEAN]
    BY ZenonT(30), <1>3 DEF WaitReap, freeproc, Goto
  <2>7. wait_lock' \in CPUs \cup {FREE}
    BY ZenonT(30), <1>3 DEF WaitReap, freeproc, Goto
  <2>8. pc' \in [Procs -> Places]
    BY ZenonT(30), <1>3 DEF WaitReap, freeproc, Goto, Places
  <2>9. idx' \in [Procs -> 0 .. NPROC]
    <3>1. idx \in [Procs -> 0 .. NPROC] /\ idx' = [idx EXCEPT ![p] = 0]
      BY ZenonT(30), <1>3 DEF WaitReap
    <3>2. 0 \in 0 .. NPROC
      BY ZenonT(30), Ranges
    <3> HIDE DEF TypeOK
    <3> QED BY ZenonT(30), <3>1, <3>2
  <2> QED BY ZenonT(30), <2>1, <2>2, <2>3, <2>4, <2>5, <2>6, <2>7, <2>8, <2>9
<1>4. CASE WaitTest(c, p)
  <2>1. UNCHANGED <<state, chan, killed, asked, parent, context, left, plock, tickslock, proc, on, ret, child, clk, panic>>
    BY ZenonT(30), <1>4 DEF WaitTest, Goto, table, locks, frame
  <2>2. wait_lock' \in CPUs \cup {FREE}
    BY ZenonT(30), <1>4 DEF WaitTest, Goto
  <2>3. pc' \in [Procs -> Places]
    BY ZenonT(30), <1>4 DEF WaitTest, Goto, Places
  <2>4. idx' \in [Procs -> 0 .. NPROC]
    <3>1. idx \in [Procs -> 0 .. NPROC] /\ idx' = [idx EXCEPT ![p] = 0]
      BY ZenonT(30), <1>4 DEF WaitTest
    <3>2. 0 \in 0 .. NPROC
      BY ZenonT(30), Ranges
    <3> HIDE DEF TypeOK
    <3> QED BY ZenonT(30), <3>1, <3>2
  <2> QED BY ZenonT(30), <2>1, <2>2, <2>3, <2>4
<1>5. CASE WaitSleep(c, p)
  BY ZenonT(30), <1>5 DEF WaitSleep, sleep, Goto, Places, States, table, locks, frame
<1>6. CASE TicksLock(c, p)
  <2>1. UNCHANGED <<state, chan, killed, asked, parent, context, plock, wait_lock, proc, on, ret, child, idx, clk, panic>>
    BY ZenonT(30), <1>6 DEF TicksLock, Goto, table, locks, frame
  <2>2. tickslock' \in CPUs \cup {FREE}
    BY ZenonT(30), <1>6 DEF TicksLock, Goto
  <2>3. left' \in [Procs -> 0 .. MaxSleep]
    BY ZenonT(30), <1>6 DEF TicksLock, Goto
  <2>4. pc' \in [Procs -> Places]
    BY ZenonT(30), <1>6 DEF TicksLock, Goto, Places
  <2> QED BY ZenonT(30), <2>1, <2>2, <2>3, <2>4
<1>7. CASE TicksTest(c, p)
  <2>1. UNCHANGED <<state, chan, killed, asked, parent, context, plock, wait_lock, proc, on, ret, child, idx, clk, panic>>
    BY ZenonT(30), <1>7 DEF TicksTest, Goto, table, locks, frame
  <2>2. tickslock' \in CPUs \cup {FREE}
    BY ZenonT(30), <1>7 DEF TicksTest, Goto
  <2>3. left' \in [Procs -> 0 .. MaxSleep]
    <3>1. left \in [Procs -> 0 .. MaxSleep]
      BY ZenonT(30)
    <3>2. left' = left \/ left' = [left EXCEPT ![p] = 0]
      BY ZenonT(30), <1>7 DEF TicksTest
    <3>3. 0 \in 0 .. MaxSleep
      BY ZenonT(30), Ranges
    <3> HIDE DEF TypeOK
    <3> QED BY ZenonT(30), <3>1, <3>2, <3>3
  <2>4. pc' \in [Procs -> Places]
    BY ZenonT(30), <1>7 DEF TicksTest, Goto, Places
  <2> QED BY ZenonT(30), <2>1, <2>2, <2>3, <2>4
<1>8. CASE TicksSleep(c, p)
  BY ZenonT(30), <1>8 DEF TicksSleep, sleep, Goto, Places, States, table, locks, frame
<1> QED BY ZenonT(30), <1>1, <1>2, <1>3, <1>4, <1>5, <1>6, <1>7, <1>8

\* The type of the state is kept by what a program asks for.
LEMMA ProgramTypes ==
  ASSUME TypeOK, NEW c \in CPUs, NEW p \in Procs,
         SyscallKilled(c, p) \/ Fault(c, p) \/ ForkFails(c, p) \/ (\E np \in Procs : Fork(c, p, np)) \/ (\E q \in Procs : Kill(c, p, q))
  PROVE  TypeOK'
<1> USE Distinct DEF TypeOK
<1>1. CASE SyscallKilled(c, p)
  BY ZenonT(30), <1>1 DEF SyscallKilled, Goto, Places, table, locks, frame
<1>2. CASE Fault(c, p)
  BY ZenonT(30), <1>2 DEF Fault, Goto, Places, table, locks, frame
<1>3. CASE ForkFails(c, p)
  BY ZenonT(30), <1>3 DEF ForkFails, Goto, Places, table, locks, frame
<1>4. CASE (\E np \in Procs : Fork(c, p, np))
  <2>1. UNCHANGED <<chan, killed, asked, parent, left, plock, wait_lock, tickslock, proc, on, ret, idx, clk, panic>>
    BY ZenonT(30), <1>4 DEF Fork, Goto, table, locks, frame
  <2>2. state' \in [Procs -> States]
    BY ZenonT(30), <1>4 DEF Fork, Goto, States
  <2>3. context' \in [Procs -> {"none", "forkret", "slept", "yielded"}]
    BY ZenonT(30), <1>4 DEF Fork, Goto
  <2>4. child' \in [Procs -> Procs \cup {NULL}]
    <3>1. child \in [Procs -> Procs \cup {NULL}] /\ \E np \in Procs : child' = [child EXCEPT ![p] = np]
      BY ZenonT(30), <1>4 DEF Fork
    <3> HIDE DEF TypeOK
    <3> QED BY ZenonT(30), <3>1
  <2>5. pc' \in [Procs -> Places]
    BY ZenonT(30), <1>4 DEF Fork, Goto, Places
  <2> QED BY ZenonT(30), <2>1, <2>2, <2>3, <2>4, <2>5
<1>5. CASE (\E q \in Procs : Kill(c, p, q))
  <2>1. UNCHANGED <<chan, parent, context, left, plock, wait_lock, tickslock, proc, on, ret, child, idx, clk, panic>>
    BY ZenonT(30), <1>5 DEF Kill, Goto, table, locks, frame
  <2>2. killed' \in [Procs -> BOOLEAN]
    BY ZenonT(30), <1>5 DEF Kill, Goto
  <2>3. asked' \in [Procs -> BOOLEAN]
    BY ZenonT(30), <1>5 DEF Kill, Goto
  <2>4. state' \in [Procs -> States]
    <3>1. state \in [Procs -> States] /\ "RUNNABLE" \in States
      BY ZenonT(30) DEF States
    <3>2. state' = state \/ \E q \in Procs : state' = [state EXCEPT ![q] = "RUNNABLE"]
      BY ZenonT(30), <1>5 DEF Kill
    <3> HIDE DEF TypeOK
    <3> QED BY ZenonT(30), <3>1, <3>2
  <2>5. pc' \in [Procs -> Places]
    BY ZenonT(30), <1>5 DEF Kill, Goto, Places
  <2> QED BY ZenonT(30), <2>1, <2>2, <2>3, <2>4, <2>5
<1> QED BY ZenonT(30), <1>1, <1>2, <1>3, <1>4, <1>5

\* The type of the state is kept by the clock and the other timer interrupts.
LEMMA ClockTypes ==
  ASSUME TypeOK, NEW c \in CPUs, NEW p \in Procs,
         TimerIntr(c) \/ ClockIntr \/ ClockWake \/ ClockDone
  PROVE  TypeOK'
<1> USE Distinct DEF TypeOK
<1>1. CASE TimerIntr(c)
  <2>1. UNCHANGED <<chan, killed, asked, parent, left, wait_lock, tickslock, proc, on, child, idx, clk, panic>>
    BY ZenonT(30), <1>1 DEF TimerIntr, Preempt, yield, Goto, table, locks, frame
  <2>2. state' \in [Procs -> States]
    BY ZenonT(30), <1>1 DEF TimerIntr, Preempt, yield, Goto, States
  <2>3. context' \in [Procs -> {"none", "forkret", "slept", "yielded"}]
    BY ZenonT(30), <1>1 DEF TimerIntr, Preempt, yield, Goto
  <2>4. plock' \in [Procs -> CPUs \cup {FREE}]
    <3>1. plock \in [Procs -> CPUs \cup {FREE}] /\ 0 \in CPUs
      BY ZenonT(30)
    <3>2. plock' = plock \/ \E q : plock' = [plock EXCEPT ![q] = c]
      BY ZenonT(30), <1>1 DEF TimerIntr, Preempt, yield
    <3> HIDE DEF TypeOK
    <3> QED BY ZenonT(30), <3>1, <3>2
  <2>5. pc' \in [Procs -> Places]
    BY ZenonT(30), <1>1 DEF TimerIntr, Preempt, yield, Goto, Places
  <2>6. ret' \in [Procs -> Places]
    BY ZenonT(30), <1>1 DEF TimerIntr, Preempt, yield, Goto, Places
  <2> QED BY ZenonT(30), <2>1, <2>2, <2>3, <2>4, <2>5, <2>6
<1>2. CASE ClockIntr
  <2>1. UNCHANGED <<state, chan, killed, asked, parent, context, plock, wait_lock, proc, on, pc, ret, child, idx, panic>>
    BY ZenonT(30), <1>2 DEF ClockIntr, table, locks, frame
  <2>2. tickslock' \in CPUs \cup {FREE}
    BY ZenonT(30), <1>2 DEF ClockIntr
  <2>3. left' \in [Procs -> 0 .. MaxSleep]
    <3>1. left \in [Procs -> 0 .. MaxSleep] /\ left' = [q \in Procs |-> IF left[q] > 0 THEN left[q] - 1 ELSE 0]
      BY ZenonT(30), <1>2 DEF ClockIntr
    <3>2. \A n \in 0 .. MaxSleep : (IF n > 0 THEN n - 1 ELSE 0) \in 0 .. MaxSleep
      BY ZenonT(30), Ranges
    <3> HIDE DEF TypeOK
    <3> QED BY ZenonT(30), <3>1, <3>2
  <2>4. clk' \in {"idle", "wake", "done"}
    BY ZenonT(30), <1>2 DEF ClockIntr
  <2> QED BY ZenonT(30), <2>1, <2>2, <2>3, <2>4
<1>3. CASE ClockWake
  BY ZenonT(30), <1>3 DEF ClockWake, Wake, States, table, locks, frame
<1>4. CASE ClockDone
  <2>1. UNCHANGED <<chan, killed, asked, parent, left, wait_lock, proc, on, child, idx, panic>>
    BY ZenonT(30), <1>4 DEF ClockDone, Preempt, yield, Goto, table, locks, frame
  <2>2. clk' \in {"idle", "wake", "done"}
    BY ZenonT(30), <1>4 DEF ClockDone, Preempt, yield, Goto
  <2>3. tickslock' \in CPUs \cup {FREE}
    BY ZenonT(30), <1>4 DEF ClockDone, Preempt, yield, Goto
  <2>4. state' \in [Procs -> States]
    BY ZenonT(30), <1>4 DEF ClockDone, Preempt, yield, Goto, States
  <2>5. context' \in [Procs -> {"none", "forkret", "slept", "yielded"}]
    BY ZenonT(30), <1>4 DEF ClockDone, Preempt, yield, Goto
  <2>6. plock' \in [Procs -> CPUs \cup {FREE}]
    <3>1. plock \in [Procs -> CPUs \cup {FREE}] /\ 0 \in CPUs
      BY ZenonT(30)
    <3>2. plock' = plock \/ \E q : plock' = [plock EXCEPT ![q] = 0]
      BY ZenonT(30), <1>4 DEF ClockDone, Preempt, yield
    <3> HIDE DEF TypeOK
    <3> QED BY ZenonT(30), <3>1, <3>2
  <2>7. pc' \in [Procs -> Places]
    BY ZenonT(30), <1>4 DEF ClockDone, Preempt, yield, Goto, Places
  <2>8. ret' \in [Procs -> Places]
    BY ZenonT(30), <1>4 DEF ClockDone, Preempt, yield, Goto, Places
  <2> QED BY ZenonT(30), <2>1, <2>2, <2>3, <2>4, <2>5, <2>6, <2>7, <2>8
<1> QED BY ZenonT(30), <1>1, <1>2, <1>3, <1>4

\* Every step keeps the type of the state.
LEMMA NextTypes == ASSUME TypeOK, [Next]_vars PROVE TypeOK'
<1>1. CASE UNCHANGED vars
  BY ZenonT(30), <1>1 DEF TypeOK, vars
<1>2. ASSUME NEW c \in CPUs, NEW p \in Procs, Pick(c, p) \/ Switch(c, p) \/ Kernel(c, p) \/ Program(c, p)
      PROVE  TypeOK'
  BY ZenonT(30), <1>2, SwitchTypes, KernelTypes, WaitTypes, ProgramTypes DEF Switch, Kernel, Program
<1>3. ASSUME NEW c \in CPUs, Back(c) \/ TimerIntr(c) PROVE TypeOK'
  BY ZenonT(30), <1>3, Distinct, SwitchTypes, ClockTypes
<1>4. CASE ClockIntr \/ ClockWake \/ ClockDone
  BY ZenonT(30), <1>4, Distinct, ClockTypes
<1> QED BY ZenonT(30), <1>1, <1>2, <1>3, <1>4 DEF Next, Cpu, Halted

-----------------------------------------------------------------------------
(* Switching: which CPU is on which stack, and with which locks.           *)

\* Where a process may be interrupted, where it has wait_lock or tickslock,
\* and where a swtch() has its p->lock held.
Open == {"user", "ret", "exit", "fork_parent", "fork_run", "wait_relock", "ticks_relock"}
WaitHeld == {"wake_init", "wake_parent", "exit_zombie", "scan", "wait_sleep"}
TicksHeld == {"ticks", "ticks_sleep"}
Switching == {"sched", "yielded", "slept", "forkret"}
Quiet == Open \cup WaitHeld \cup TicksHeld

\* Where sleep() and yield() continue.
Resuming == {"slept", "yielded"}

\* The states in which a process leaves its CPU, and in which it has a context.
Leaving == {"RUNNABLE", "SLEEPING", "ZOMBIE"}
Waiting == {"USED", "RUNNABLE", "SLEEPING"}

\* A CPU is on the stack of its process, each CPU has its own, and a p->lock
\* held between steps is held by the CPU of that process.
CpuInv ==
  /\ \A c \in CPUs : on[c] # NULL => proc[c] = on[c]
  /\ \A c, d \in CPUs : proc[c] = proc[d] /\ proc[c] # NULL => c = d
  /\ \A c \in CPUs : proc[c] # NULL /\ on[c] = NULL => plock[proc[c]] = c /\ state[proc[c]] \in Leaving
  /\ \A p \in Procs : plock[p] # FREE => proc[plock[p]] = p

\* What a process on a CPU is doing tells its state and whether it is locked.
StackInv ==
  /\ \A c \in CPUs : on[c] # NULL =>
       /\ pc[on[c]] # "none"
       /\ plock[on[c]] = c <=> pc[on[c]] \in Switching
       /\ pc[on[c]] = "sched" => state[on[c]] \in Leaving
       /\ pc[on[c]] # "sched" => state[on[c]] = "RUNNING"
  /\ \A p \in Procs : pc[p] # "none" => \E c \in CPUs : on[c] = p

\* A process that can be chosen has a context to go on with, and sleep() and
\* yield() return to where no lock is held.
ContextInv ==
  \A p \in Procs :
    /\ context[p] # "none" <=> state[p] \in Waiting
    /\ ret[p] # "none" <=> pc[p] \in Resuming \/ context[p] \in Resuming
    /\ ret[p] \in Open \cup {"none"}
    /\ context[p] \in Resuming => pc[p] \in {"none", "sched"}
    /\ context[p] = "forkret" => pc[p] = "none"

\* wait_lock and tickslock belong to the CPU whose process is between their
\* acquire() and release(); clockintr() runs with no other lock held.
HeldInv ==
  /\ \A c \in CPUs : wait_lock = c <=> on[c] # NULL /\ pc[on[c]] \in WaitHeld
  /\ \A c \in CPUs : tickslock = c <=> InIntr(c) \/ (on[c] # NULL /\ pc[on[c]] \in TicksHeld)
  /\ clk # "idle" => (\A p \in Procs : plock[p] # 0) /\ (on[0] # NULL => pc[on[0]] \in Open)

\* The inductive invariant of the switching; no assertion of sched() fails.
SwitchInv ==
  /\ TypeOK /\ panic \in {"none", "init_exiting"}
  /\ CpuInv /\ StackInv /\ ContextInv /\ HeldInv

\* The kinds of places are disjoint.
LEMMA Kinds ==
  /\ \A l \in Open : l \in Quiet /\ l \notin WaitHeld /\ l \notin TicksHeld
  /\ \A l \in WaitHeld : l \in Quiet /\ l \notin TicksHeld
  /\ \A l \in TicksHeld : l \in Quiet
  /\ \A l \in Quiet : l \notin Switching /\ l \notin Resuming /\ l # "none" /\ l # "sched"
  /\ \A l \in Resuming : l \in Switching /\ l # "sched" /\ l # "none"
  /\ "sched" \in Switching /\ "forkret" \in Switching /\ "forkret" \notin Resuming
  /\ "none" \notin Switching
BY ZenonT(30) DEF Open, WaitHeld, TicksHeld, Switching, Quiet, Resuming

\* Initially every CPU is in its scheduler and no lock is held.
LEMMA InitSwitchInv == Init => SwitchInv
<1> SUFFICES ASSUME Init PROVE SwitchInv
  BY ZenonT(30)
<1> USE Distinct DEF Init
<1>1. TypeOK
  BY ZenonT(30), Ranges DEF TypeOK, States, Places
<1>2. CpuInv /\ StackInv
  BY ZenonT(30) DEF CpuInv, StackInv
<1>3. ContextInv
  BY ZenonT(30) DEF ContextInv, Waiting, Resuming
<1>4. HeldInv
  BY ZenonT(30) DEF HeldInv, InIntr
<1> QED BY ZenonT(30), <1>1, <1>2, <1>3, <1>4 DEF SwitchInv

\* The process of a CPU is in the table.
LEMMA OnIsProc ==
  ASSUME SwitchInv, NEW c \in CPUs
  PROVE  /\ proc[c] # NULL => proc[c] \in Procs
         /\ on[c] # NULL => on[c] \in Procs /\ proc[c] = on[c]
<1>1. proc \in [CPUs -> Procs \cup {NULL}] /\ on \in [CPUs -> Procs \cup {NULL}]
  BY ZenonT(30) DEF SwitchInv, TypeOK
<1>2. on[c] # NULL => proc[c] = on[c]
  BY ZenonT(30) DEF SwitchInv, CpuInv
<1> QED BY ZenonT(30), <1>1, <1>2

\* A process on a CPU is on no other.
LEMMA OnCpu ==
  ASSUME SwitchInv, NEW c \in CPUs, NEW p \in Procs, on[c] = p
  PROVE  /\ proc[c] = p /\ p # NULL /\ pc[p] # "none"
         /\ \A d \in CPUs \ {c} : proc[d] # p /\ on[d] # p
         /\ plock[p] = c \/ plock[p] = FREE
         /\ plock[p] = c <=> pc[p] \in Switching
         /\ pc[p] # "sched" => state[p] = "RUNNING"
<1> USE DEF SwitchInv
<1>0. p # NULL /\ proc[c] = p
  BY ZenonT(30), Distinct DEF CpuInv
<1>1. ASSUME NEW d \in CPUs \ {c} PROVE proc[d] # p /\ on[d] # p
  BY ZenonT(30), <1>0 DEF CpuInv
<1>2. plock[p] \in CPUs \cup {FREE}
  BY ZenonT(30) DEF TypeOK
<1>3. plock[p] = c \/ plock[p] = FREE
  BY ZenonT(30), <1>0, <1>1, <1>2 DEF CpuInv
<1> QED BY ZenonT(30), <1>0, <1>1, <1>3 DEF StackInv

\* A process that is unlocked and not RUNNING is on no CPU.
LEMMA OffCpu ==
  ASSUME SwitchInv, NEW q \in Procs, plock[q] = FREE, state[q] # "RUNNING"
  PROVE  pc[q] = "none" /\ \A d \in CPUs : proc[d] # q /\ on[d] # q
<1>1. ASSUME NEW d \in CPUs, on[d] = q PROVE FALSE
  <2>1. pc[q] = "sched"
    BY <1>1, OnCpu
  <2>2. plock[q] = d
    BY <1>1, <2>1, OnCpu, Kinds
  <2> QED BY ZenonT(30), <2>2, Distinct
<1>2. ASSUME NEW d \in CPUs, proc[d] = q PROVE FALSE
  <2>1. on[d] = NULL
    BY ZenonT(30), <1>1, <1>2, Distinct DEF SwitchInv, CpuInv, TypeOK
  <2> QED BY ZenonT(30), <1>2, <2>1, Distinct DEF SwitchInv, CpuInv
<1> QED BY ZenonT(30), <1>1, <1>2 DEF SwitchInv, StackInv

\* What a step may do to a process that is on no CPU.
Parked(q) ==
  /\ plock[q] = FREE /\ state[q] # "RUNNING" /\ state'[q] # "RUNNING"
  /\ context'[q] # "none" <=> state'[q] \in Waiting
  /\ context'[q] \in Resuming <=> context[q] \in Resuming

\* A step of a process that stays on its CPU and holds no p->lock keeps the
\* invariant, when wait_lock and tickslock follow the places it is at.
LEMMA LocalStep ==
  ASSUME SwitchInv, TypeOK', NEW c \in CPUs, NEW p \in Procs, NEW l \in Quiet,
         on[c] = p, ~InIntr(c), pc[p] \in Quiet, pc' = [pc EXCEPT ![p] = l],
         UNCHANGED <<plock, proc, on, clk, ret>>, panic' \in {"none", "init_exiting"},
         wait_lock' = IF l \in WaitHeld THEN c ELSE IF pc[p] \in WaitHeld THEN FREE ELSE wait_lock,
         l \in WaitHeld /\ pc[p] \notin WaitHeld => wait_lock = FREE,
         tickslock' = IF l \in TicksHeld THEN c ELSE IF pc[p] \in TicksHeld THEN FREE ELSE tickslock,
         l \in TicksHeld /\ pc[p] \notin TicksHeld => tickslock = FREE,
         \A q \in Procs : (state'[q] = state[q] /\ context'[q] = context[q]) \/ Parked(q)
  PROVE  SwitchInv'
<1>1. /\ proc[c] = p /\ p # NULL /\ plock[p] = FREE /\ state[p] = "RUNNING"
      /\ \A d \in CPUs \ {c} : proc[d] # p /\ on[d] # p
  BY ZenonT(30), OnCpu, Kinds
<1>2. pc'[p] = l /\ \A q \in Procs \ {p} : pc'[q] = pc[q]
  BY ZenonT(30) DEF SwitchInv, TypeOK
<1>3. \A q \in Procs : (\E d \in CPUs : proc[d] = q) => state'[q] = state[q] /\ context'[q] = context[q]
  BY ZenonT(30), OffCpu DEF Parked
<1>4. \A d \in CPUs : on[d] # NULL => on[d] \in Procs /\ proc[d] = on[d]
  BY ZenonT(30), OnIsProc
<1>5. CpuInv'
  <2>1. \A d \in CPUs : proc[d] # NULL => proc[d] \in Procs
    BY ZenonT(30), OnIsProc
  <2> QED BY ZenonT(30), <1>3, <2>1 DEF SwitchInv, CpuInv
<1>6. StackInv'
  <2>1. ASSUME NEW d \in CPUs, on[d] # NULL
        PROVE  /\ pc'[on[d]] # "none"
               /\ plock[on[d]] = d <=> pc'[on[d]] \in Switching
               /\ pc'[on[d]] = "sched" => state'[on[d]] \in Leaving
               /\ pc'[on[d]] # "sched" => state'[on[d]] = "RUNNING"
    <3>1. CASE d = c
      BY ZenonT(30), <1>1, <1>2, <1>3, <3>1, Kinds, Distinct
    <3>2. CASE d # c
      <4>1. pc'[on[d]] = pc[on[d]] /\ state'[on[d]] = state[on[d]]
        BY ZenonT(30), <1>1, <1>2, <1>3, <1>4, <2>1, <3>2
      <4> QED BY ZenonT(30), <2>1, <4>1 DEF SwitchInv, StackInv
    <3> QED BY ZenonT(30), <3>1, <3>2
  <2>2. ASSUME NEW q \in Procs, pc'[q] # "none" PROVE \E d \in CPUs : on[d] = q
    BY ZenonT(30), <1>2, <2>2 DEF SwitchInv, StackInv
  <2> QED BY ZenonT(30), <2>1, <2>2 DEF StackInv
<1>7. ContextInv'
  <2> SUFFICES ASSUME NEW q \in Procs
               PROVE  /\ context'[q] # "none" <=> state'[q] \in Waiting
                      /\ ret[q] # "none" <=> pc'[q] \in Resuming \/ context'[q] \in Resuming
                      /\ ret[q] \in Open \cup {"none"}
                      /\ context'[q] \in Resuming => pc'[q] \in {"none", "sched"}
                      /\ context'[q] = "forkret" => pc'[q] = "none"
    BY ZenonT(30) DEF ContextInv
  <2>1. CASE q = p
    <3>1. state'[q] = state[q] /\ context'[q] = context[q] /\ pc[q] # "none" /\ pc[q] # "sched"
      BY ZenonT(30), <1>1, <1>3, <2>1, Kinds
    <3>2. context[q] \notin Resuming /\ context[q] # "forkret" /\ pc[q] \notin Resuming /\ pc'[q] \notin Resuming
      BY <1>2, <2>1, <3>1, Kinds DEF SwitchInv, ContextInv
    <3> QED BY ZenonT(30), <3>1, <3>2 DEF SwitchInv, ContextInv
  <2>2. CASE q # p /\ state'[q] = state[q] /\ context'[q] = context[q]
    BY ZenonT(30), <1>2, <2>2 DEF SwitchInv, ContextInv
  <2>3. CASE q # p /\ Parked(q)
    <3>1. pc'[q] = "none" /\ pc[q] = "none"
      BY ZenonT(30), <1>2, <2>3, OffCpu DEF Parked
    <3> QED BY ZenonT(30), <2>3, <3>1 DEF SwitchInv, ContextInv, Parked
  <2> QED BY ZenonT(30), <2>1, <2>2, <2>3
<1>8. HeldInv'
  <2>1. ASSUME NEW d \in CPUs PROVE wait_lock' = d <=> on[d] # NULL /\ pc'[on[d]] \in WaitHeld
    <3>1. CASE d = c
      BY <1>1, <1>2, <3>1, Distinct DEF SwitchInv, HeldInv
    <3>2. CASE d # c
      <4>1. on[d] # NULL => pc'[on[d]] = pc[on[d]]
        BY ZenonT(30), <1>1, <1>2, <1>4, <3>2
      <4> QED BY ZenonT(30), <1>1, <3>2, <4>1, Distinct DEF SwitchInv, HeldInv
    <3> QED BY ZenonT(30), <3>1, <3>2
  <2>2. ASSUME NEW d \in CPUs
        PROVE  tickslock' = d <=> InIntr(d) \/ (on[d] # NULL /\ pc'[on[d]] \in TicksHeld)
    <3>1. CASE d = c
      BY <1>1, <1>2, <3>1, Distinct DEF SwitchInv, HeldInv
    <3>2. CASE d # c
      <4>1. on[d] # NULL => pc'[on[d]] = pc[on[d]]
        BY ZenonT(30), <1>1, <1>2, <1>4, <3>2
      <4> QED BY ZenonT(30), <1>1, <3>2, <4>1, Distinct DEF SwitchInv, HeldInv
    <3> QED BY ZenonT(30), <3>1, <3>2
  <2>3. clk # "idle" => (\A q \in Procs : plock[q] # 0) /\ (on[0] # NULL => pc'[on[0]] \in Open)
    <3>1. clk # "idle" => c # 0
      BY ZenonT(30) DEF InIntr
    <3> QED BY ZenonT(30), <1>1, <1>2, <1>4, <3>1, Distinct DEF SwitchInv, HeldInv
  <2> QED BY ZenonT(30), <2>1, <2>2, <2>3 DEF HeldInv, InIntr
<1> QED BY ZenonT(30), <1>5, <1>6, <1>7, <1>8 DEF SwitchInv

\* sched() finds p->lock held and nothing else, and a state other than RUNNING.
LEMMA SchedChecks ==
  ASSUME SwitchInv, NEW c \in CPUs, NEW p \in Procs, At(c, p, "sched")
  PROVE  plock[p] = c /\ HoldsOnly(c, p) /\ state[p] # "RUNNING" /\ state[p] \in Leaving
<1>1. on[c] = p /\ pc[p] = "sched" /\ p # NULL /\ ~InIntr(c)
  BY ZenonT(30), Distinct DEF At
<1>2. plock[p] = c /\ state[p] \in Leaving /\ state[p] # "RUNNING"
  <2>1. plock[p] = c
    BY <1>1, OnCpu, Kinds
  <2>2. state[on[c]] \in Leaving
    BY ZenonT(30), <1>1 DEF SwitchInv, StackInv
  <2> QED BY ZenonT(30), <1>1, <2>1, <2>2 DEF Leaving
<1>3. \A q \in Procs : plock[q] = c => q = p
  <2>1. proc[c] = p /\ c # FREE
    BY ZenonT(30), <1>1, OnCpu, Distinct
  <2> QED BY ZenonT(30), <2>1 DEF SwitchInv, CpuInv
<1>4. wait_lock # c /\ tickslock # c
  BY ZenonT(30), <1>1, Kinds DEF SwitchInv, HeldInv
<1> QED BY ZenonT(30), <1>2, <1>3, <1>4 DEF HoldsOnly

\* A process gives up its CPU in sleep(), yield() or exit(): it takes its
\* p->lock, sets its state and comes to sched() with no other lock.
LEMMA LeaveStep ==
  ASSUME SwitchInv, TypeOK', NEW c \in CPUs, NEW p \in Procs, NEW s \in Leaving,
         on[c] = p, pc[p] \in Quiet, pc' = [pc EXCEPT ![p] = "sched"],
         plock[p] = FREE, plock' = [plock EXCEPT ![p] = c],
         state' = [state EXCEPT ![p] = s], UNCHANGED <<proc, on, panic>>,
         wait_lock' = IF pc[p] \in WaitHeld THEN FREE ELSE wait_lock,
         \/ /\ s = "ZOMBIE" /\ UNCHANGED <<context, ret>>
         \/ /\ s # "ZOMBIE"
            /\ \E x \in Resuming : context' = [context EXCEPT ![p] = x]
            /\ \E l \in Open : ret' = [ret EXCEPT ![p] = l],
         \/ /\ ~InIntr(c) /\ clk' = clk
            /\ tickslock' = IF pc[p] \in TicksHeld THEN FREE ELSE tickslock
         \/ c = 0 /\ clk # "idle" /\ clk' = "idle" /\ tickslock' = FREE
  PROVE  SwitchInv'
<1>1. /\ proc[c] = p /\ p # NULL /\ state[p] = "RUNNING"
      /\ \A d \in CPUs \ {c} : proc[d] # p /\ on[d] # p
  BY OnCpu, Kinds
<1>2. /\ pc'[p] = "sched" /\ \A q \in Procs \ {p} : pc'[q] = pc[q]
      /\ plock'[p] = c /\ \A q \in Procs \ {p} : plock'[q] = plock[q]
      /\ state'[p] = s /\ \A q \in Procs \ {p} : state'[q] = state[q]
  BY ZenonT(30) DEF SwitchInv, TypeOK
<1>3. /\ \A q \in Procs \ {p} : context'[q] = context[q] /\ ret'[q] = ret[q]
      /\ IF s = "ZOMBIE" THEN context'[p] = context[p] /\ ret'[p] = ret[p]
                         ELSE context'[p] \in Resuming /\ ret'[p] \in Open
  <2>1. DOMAIN context = Procs /\ DOMAIN ret = Procs
    BY ZenonT(30) DEF SwitchInv, TypeOK
  <2>2. CASE s = "ZOMBIE"
    BY ZenonT(30), <2>2
  <2>3. CASE s # "ZOMBIE"
    BY ZenonT(30), <2>1, <2>3
  <2> QED BY ZenonT(30), <2>2, <2>3
<1>4. \A d \in CPUs : on[d] # NULL => on[d] \in Procs /\ proc[d] = on[d]
  BY ZenonT(30), OnIsProc
<1>5. \A d \in CPUs : proc[d] # NULL => proc[d] \in Procs
  BY ZenonT(30), OnIsProc
<1>6. ASSUME NEW d \in CPUs \ {c}, on[d] # NULL
      PROVE  on[d] \in Procs \ {p}
  BY ZenonT(30), <1>1, <1>4, <1>6
<1>7. CpuInv'
  <2>1. ASSUME NEW d \in CPUs, proc[d] # NULL, on[d] = NULL
        PROVE  plock'[proc[d]] = d /\ state'[proc[d]] \in Leaving
    <3>1. proc[d] \in Procs \ {p}
      BY ZenonT(30), <1>1, <1>5, <2>1
    <3> QED BY ZenonT(30), <1>2, <2>1, <3>1 DEF SwitchInv, CpuInv
  <2>2. ASSUME NEW q \in Procs, plock'[q] # FREE PROVE proc[plock'[q]] = q
    <3>1. CASE q = p
      BY ZenonT(30), <1>1, <1>2, <3>1
    <3>2. CASE q # p
      BY ZenonT(30), <1>2, <2>2, <3>2 DEF SwitchInv, CpuInv
    <3> QED BY ZenonT(30), <3>1, <3>2
  <2> QED BY ZenonT(30), <2>1, <2>2 DEF SwitchInv, CpuInv
<1>8. StackInv'
  <2>1. ASSUME NEW d \in CPUs, on[d] # NULL
        PROVE  /\ pc'[on[d]] # "none"
               /\ plock'[on[d]] = d <=> pc'[on[d]] \in Switching
               /\ pc'[on[d]] = "sched" => state'[on[d]] \in Leaving
               /\ pc'[on[d]] # "sched" => state'[on[d]] = "RUNNING"
    <3>1. CASE d = c
      BY <1>2, <3>1, Kinds
    <3>2. CASE d # c
      <4>1. pc'[on[d]] = pc[on[d]] /\ plock'[on[d]] = plock[on[d]] /\ state'[on[d]] = state[on[d]]
        BY ZenonT(30), <1>2, <1>6, <2>1, <3>2
      <4> QED BY ZenonT(30), <2>1, <4>1 DEF SwitchInv, StackInv
    <3> QED BY ZenonT(30), <3>1, <3>2
  <2>2. ASSUME NEW q \in Procs, pc'[q] # "none" PROVE \E d \in CPUs : on[d] = q
    BY <1>2, <2>2 DEF SwitchInv, StackInv
  <2> QED BY <2>1, <2>2 DEF StackInv
<1>9. ContextInv'
  <2> SUFFICES ASSUME NEW q \in Procs
               PROVE  /\ context'[q] # "none" <=> state'[q] \in Waiting
                      /\ ret'[q] # "none" <=> pc'[q] \in Resuming \/ context'[q] \in Resuming
                      /\ ret'[q] \in Open \cup {"none"}
                      /\ context'[q] \in Resuming => pc'[q] \in {"none", "sched"}
                      /\ context'[q] = "forkret" => pc'[q] = "none"
    BY ZenonT(30) DEF ContextInv
  <2>1. CASE q # p
    BY <1>2, <1>3, <2>1 DEF SwitchInv, ContextInv
  <2>2. CASE q = p /\ s = "ZOMBIE"
    <3>1. context[p] = "none" /\ ret[p] = "none"
      <4>1. state[p] \notin Waiting /\ pc[p] \notin Resuming /\ "none" \notin Resuming
        BY ZenonT(30), <1>1, Kinds DEF Waiting
      <4> QED BY ZenonT(30), <4>1 DEF SwitchInv, ContextInv
    <3>2. s \notin Waiting /\ "sched" \notin Resuming /\ "none" \notin Resuming
      BY ZenonT(30), <2>2, Kinds DEF Waiting
    <3> QED BY <1>2, <1>3, <2>2, <3>1, <3>2
  <2>3. CASE q = p /\ s # "ZOMBIE"
    <3>1. s \in Waiting /\ "none" \notin Resuming /\ "forkret" \notin Resuming /\ "none" \notin Open
      BY ZenonT(30), <2>3, Kinds DEF Waiting, Leaving
    <3> QED BY ZenonT(30), <1>2, <1>3, <2>3, <3>1
  <2> QED BY ZenonT(30), <2>1, <2>2, <2>3
<1>10. HeldInv'
  <2>1. "sched" \notin WaitHeld /\ "sched" \notin TicksHeld
    BY ZenonT(30), Kinds
  <2>2. ASSUME NEW d \in CPUs PROVE wait_lock' = d <=> on[d] # NULL /\ pc'[on[d]] \in WaitHeld
    <3>1. CASE d = c
      <4>1. wait_lock = c <=> pc[p] \in WaitHeld
        BY ZenonT(30), <1>1 DEF SwitchInv, HeldInv
      <4> QED BY <1>2, <2>1, <3>1, <4>1, Distinct
    <3>2. CASE d # c
      <4>1. on[d] # NULL => pc'[on[d]] = pc[on[d]]
        BY ZenonT(30), <1>2, <1>6, <3>2
      <4>2. pc[p] \in WaitHeld => wait_lock = c
        BY ZenonT(30), <1>1 DEF SwitchInv, HeldInv
      <4> QED BY ZenonT(30), <3>2, <4>1, <4>2, Distinct DEF SwitchInv, HeldInv
    <3> QED BY ZenonT(30), <3>1, <3>2
  <2>3. ASSUME NEW d \in CPUs
        PROVE  tickslock' = d <=> InIntr(d)' \/ (on[d] # NULL /\ pc'[on[d]] \in TicksHeld)
    <3>0. pc[p] \in TicksHeld \/ InIntr(c) => tickslock = c
      BY ZenonT(30), <1>1 DEF SwitchInv, HeldInv
    <3>1. CASE d = c
      <4>1. tickslock = c <=> InIntr(c) \/ pc[p] \in TicksHeld
        BY ZenonT(30), <1>1 DEF SwitchInv, HeldInv
      <4> QED BY <1>2, <2>1, <3>1, <4>1, Distinct DEF InIntr
    <3>2. CASE d # c
      <4>1. on[d] # NULL => pc'[on[d]] = pc[on[d]]
        BY ZenonT(30), <1>2, <1>6, <3>2
      <4>2. InIntr(d)' <=> InIntr(d)
        BY ZenonT(30), <3>2 DEF InIntr
      <4>3. tickslock' = d <=> tickslock = d
        BY ZenonT(30), <3>0, <3>2, Distinct DEF InIntr
      <4> QED BY ZenonT(30), <4>1, <4>2, <4>3 DEF SwitchInv, HeldInv
    <3> QED BY ZenonT(30), <3>1, <3>2
  <2>4. clk' # "idle" => (\A q \in Procs : plock'[q] # 0) /\ (on[0] # NULL => pc'[on[0]] \in Open)
    <3>1. clk' # "idle" => c # 0 /\ clk # "idle"
      BY ZenonT(30) DEF InIntr
    <3> QED BY ZenonT(30), <1>2, <1>6, <3>1, Distinct DEF SwitchInv, HeldInv
  <2> QED BY ZenonT(30), <2>2, <2>3, <2>4 DEF HeldInv
<1> QED BY ZenonT(30), <1>7, <1>8, <1>9, <1>10 DEF SwitchInv

\* The scheduler switches to a process: it is on no other CPU.
LEMMA PickKeeps ==
  ASSUME SwitchInv, TypeOK', NEW c \in CPUs, NEW p \in Procs, Pick(c, p)
  PROVE  SwitchInv'
<1>1. /\ on[c] = NULL /\ proc[c] = NULL /\ ~InIntr(c) /\ plock[p] = FREE /\ state[p] = "RUNNABLE"
      /\ UNCHANGED <<wait_lock, tickslock, ret, clk, panic>>
  BY ZenonT(30) DEF Pick, frame
<1>2. pc[p] = "none" /\ p # NULL /\ \A d \in CPUs : proc[d] # p /\ on[d] # p
  BY ZenonT(30), <1>1, OffCpu, Distinct
<1>3. /\ state'[p] = "RUNNING" /\ \A q \in Procs \ {p} : state'[q] = state[q]
      /\ plock'[p] = c /\ \A q \in Procs \ {p} : plock'[q] = plock[q]
      /\ pc'[p] = context[p] /\ \A q \in Procs \ {p} : pc'[q] = pc[q]
      /\ context'[p] = "none" /\ \A q \in Procs \ {p} : context'[q] = context[q]
  <2>1. /\ DOMAIN state = Procs /\ DOMAIN plock = Procs /\ DOMAIN pc = Procs /\ DOMAIN context = Procs
    BY ZenonT(30) DEF SwitchInv, TypeOK
  <2>2. /\ state' = [state EXCEPT ![p] = "RUNNING"] /\ plock' = [plock EXCEPT ![p] = c]
        /\ pc' = [pc EXCEPT ![p] = context[p]] /\ context' = [context EXCEPT ![p] = "none"]
    BY ZenonT(30) DEF Pick, Goto
  <2> QED BY ZenonT(30), <2>1, <2>2
<1>4. /\ proc'[c] = p /\ on'[c] = p /\ \A d \in CPUs \ {c} : proc'[d] = proc[d] /\ on'[d] = on[d]
  <2>1. DOMAIN proc = CPUs /\ DOMAIN on = CPUs
    BY ZenonT(30) DEF SwitchInv, TypeOK
  <2>2. proc' = [proc EXCEPT ![c] = p] /\ on' = [on EXCEPT ![c] = p]
    BY ZenonT(30) DEF Pick
  <2> QED BY ZenonT(30), <2>1, <2>2
<1>5. /\ \A d \in CPUs \ {c} : on[d] # NULL => on[d] \in Procs \ {p} /\ proc[d] = on[d]
      /\ \A d \in CPUs \ {c} : proc[d] # NULL => proc[d] \in Procs \ {p}
  BY ZenonT(30), <1>2, OnIsProc
<1>6. context[p] \in {"forkret", "slept", "yielded"}
  <2>1. context[p] \in {"none", "forkret", "slept", "yielded"}
    BY ZenonT(30) DEF SwitchInv, TypeOK
  <2>2. context[p] # "none"
    BY ZenonT(30), <1>1 DEF SwitchInv, ContextInv, Waiting
  <2> QED BY ZenonT(30), <2>1, <2>2
<1>7. CpuInv'
  <2>1. ASSUME NEW d \in CPUs, proc'[d] # NULL, on'[d] = NULL
        PROVE  plock'[proc'[d]] = d /\ state'[proc'[d]] \in Leaving
    <3>1. d # c /\ proc[d] \in Procs \ {p}
      BY ZenonT(30), <1>2, <1>4, <1>5, <2>1
    <3>2. proc'[d] = proc[d] /\ on[d] = NULL
      BY ZenonT(30), <1>4, <2>1, <3>1
    <3>3. plock[proc[d]] = d /\ state[proc[d]] \in Leaving
      BY ZenonT(30), <3>1, <3>2, Distinct DEF SwitchInv, CpuInv
    <3> QED BY ZenonT(30), <1>3, <3>1, <3>2, <3>3
  <2>2. ASSUME NEW q \in Procs, plock'[q] # FREE PROVE proc'[plock'[q]] = q
    <3>1. CASE q = p
      BY ZenonT(30), <1>3, <1>4, <3>1
    <3>2. CASE q # p
      <4>1. proc[plock[q]] = q /\ plock[q] \in CPUs
        <5>1. plock[q] \in CPUs \cup {FREE} /\ plock[q] # FREE
          BY ZenonT(30), <1>3, <2>2, <3>2 DEF SwitchInv, TypeOK
        <5> QED BY ZenonT(30), <5>1 DEF SwitchInv, CpuInv
      <4>2. q # NULL
        BY ZenonT(30), Distinct
      <4> QED BY <1>1, <1>3, <1>4, <3>2, <4>1, <4>2
    <3> QED BY ZenonT(30), <3>1, <3>2
  <2>3. ASSUME NEW d \in CPUs, on'[d] # NULL PROVE proc'[d] = on'[d]
    BY ZenonT(30), <1>4, <1>5, <2>3
  <2>4. ASSUME NEW d \in CPUs, NEW e \in CPUs, proc'[d] = proc'[e], proc'[d] # NULL PROVE d = e
    <3>1. CASE d # c /\ e # c
      BY <1>4, <2>4, <3>1 DEF SwitchInv, CpuInv
    <3>2. CASE d = c \/ e = c
      BY ZenonT(30), <1>2, <1>4, <2>4, <3>2
    <3> QED BY ZenonT(30), <3>1, <3>2
  <2> QED BY ZenonT(30), <2>1, <2>2, <2>3, <2>4 DEF CpuInv
<1>8. StackInv'
  <2>1. ASSUME NEW d \in CPUs, on'[d] # NULL
        PROVE  /\ pc'[on'[d]] # "none"
               /\ plock'[on'[d]] = d <=> pc'[on'[d]] \in Switching
               /\ pc'[on'[d]] = "sched" => state'[on'[d]] \in Leaving
               /\ pc'[on'[d]] # "sched" => state'[on'[d]] = "RUNNING"
    <3>1. CASE d = c
      BY ZenonT(30), <1>3, <1>4, <1>6, <3>1 DEF Switching
    <3>2. CASE d # c
      <4>1. /\ on'[d] = on[d] /\ pc'[on[d]] = pc[on[d]] /\ plock'[on[d]] = plock[on[d]]
            /\ state'[on[d]] = state[on[d]]
        BY ZenonT(30), <1>3, <1>4, <1>5, <2>1, <3>2
      <4>2. /\ pc[on[d]] # "none" /\ (plock[on[d]] = d <=> pc[on[d]] \in Switching)
            /\ pc[on[d]] = "sched" => state[on[d]] \in Leaving
            /\ pc[on[d]] # "sched" => state[on[d]] = "RUNNING"
        BY ZenonT(30), <2>1, <4>1 DEF SwitchInv, StackInv
      <4> QED BY ZenonT(30), <4>1, <4>2
    <3> QED BY ZenonT(30), <3>1, <3>2
  <2>2. ASSUME NEW q \in Procs, pc'[q] # "none" PROVE \E d \in CPUs : on'[d] = q
    <3>1. CASE q = p
      BY ZenonT(30), <1>4, <3>1
    <3>2. CASE q # p
      <4>1. PICK d \in CPUs : on[d] = q
        BY ZenonT(30), <1>3, <2>2, <3>2 DEF SwitchInv, StackInv
      <4> QED BY ZenonT(30), <1>1, <1>4, <4>1, Distinct
    <3> QED BY ZenonT(30), <3>1, <3>2
  <2> QED BY ZenonT(30), <2>1, <2>2 DEF StackInv
<1>9. ContextInv'
  <2> SUFFICES ASSUME NEW q \in Procs
               PROVE  /\ context'[q] # "none" <=> state'[q] \in Waiting
                      /\ ret'[q] # "none" <=> pc'[q] \in Resuming \/ context'[q] \in Resuming
                      /\ ret'[q] \in Open \cup {"none"}
                      /\ context'[q] \in Resuming => pc'[q] \in {"none", "sched"}
                      /\ context'[q] = "forkret" => pc'[q] = "none"
    BY ZenonT(30) DEF ContextInv
  <2>1. CASE q # p
    BY ZenonT(30), <1>1, <1>3, <2>1 DEF SwitchInv, ContextInv
  <2>2. CASE q = p
    <3>1. "RUNNING" \notin Waiting /\ "none" \notin Resuming
      BY ZenonT(30), Kinds DEF Waiting
    <3>2. ret[p] # "none" <=> context[p] \in Resuming
      BY ZenonT(30), <1>2, <3>1 DEF SwitchInv, ContextInv
    <3>3. ret[p] \in Open \cup {"none"}
      BY ZenonT(30) DEF SwitchInv, ContextInv
    <3> QED BY ZenonT(30), <1>1, <1>3, <2>2, <3>1, <3>2, <3>3
  <2> QED BY ZenonT(30), <2>1, <2>2
<1>10. HeldInv'
  <2>1. context[p] \notin WaitHeld /\ context[p] \notin TicksHeld
    BY ZenonT(30), <1>6 DEF WaitHeld, TicksHeld
  <2>2. ASSUME NEW d \in CPUs
        PROVE  /\ wait_lock = d <=> on'[d] # NULL /\ pc'[on'[d]] \in WaitHeld
               /\ tickslock = d <=> InIntr(d) \/ (on'[d] # NULL /\ pc'[on'[d]] \in TicksHeld)
    <3>1. CASE d = c
      BY ZenonT(30), <1>1, <1>3, <1>4, <2>1, <3>1 DEF SwitchInv, HeldInv
    <3>2. CASE d # c
      <4>1. on'[d] = on[d] /\ (on[d] # NULL => pc'[on[d]] = pc[on[d]])
        BY ZenonT(30), <1>3, <1>4, <1>5, <3>2
      <4> QED BY ZenonT(30), <4>1 DEF SwitchInv, HeldInv
    <3> QED BY ZenonT(30), <3>1, <3>2
  <2>3. clk # "idle" => (\A q \in Procs : plock'[q] # 0) /\ (on'[0] # NULL => pc'[on'[0]] \in Open)
    <3>1. clk # "idle" => c # 0
      BY ZenonT(30), <1>1 DEF InIntr
    <3>2. clk # "idle" => (\A q \in Procs : plock[q] # 0) /\ (on[0] # NULL => pc[on[0]] \in Open)
      BY ZenonT(30) DEF SwitchInv, HeldInv
    <3> QED BY <1>3, <1>4, <1>5, <3>1, <3>2, Distinct
  <2> QED BY ZenonT(30), <1>1, <2>2, <2>3 DEF HeldInv, InIntr
<1> QED BY ZenonT(30), <1>1, <1>7, <1>8, <1>9, <1>10 DEF SwitchInv

\* Back in the scheduler, the CPU gives up the lock of the process that left.
LEMMA BackKeeps ==
  ASSUME SwitchInv, TypeOK', NEW c \in CPUs, Back(c)
  PROVE  SwitchInv'
<1>1. /\ on[c] = NULL /\ proc[c] # NULL /\ ~InIntr(c)
      /\ UNCHANGED <<state, context, wait_lock, tickslock, on, pc, ret, clk, panic>>
  BY ZenonT(30) DEF Back, table, frame
<1>2. PICK p \in Procs : proc[c] = p
  BY ZenonT(30), <1>1, OnIsProc
<1>3. plock'[p] = FREE /\ \A q \in Procs \ {p} : plock'[q] = plock[q]
  BY ZenonT(30), <1>2 DEF Back, SwitchInv, TypeOK
<1>4. proc'[c] = NULL /\ \A d \in CPUs \ {c} : proc'[d] = proc[d]
  BY ZenonT(30) DEF Back, SwitchInv, TypeOK
<1>5. /\ \A d \in CPUs \ {c} : on[d] # NULL => on[d] \in Procs \ {p} /\ proc[d] = on[d]
      /\ \A d \in CPUs \ {c} : proc[d] # NULL => proc[d] \in Procs \ {p}
  <2>1. \A d \in CPUs \ {c} : proc[d] # p
    BY ZenonT(30), <1>1, <1>2 DEF SwitchInv, CpuInv
  <2> QED BY ZenonT(30), <2>1, OnIsProc
<1>6. CpuInv'
  <2>1. ASSUME NEW d \in CPUs, proc'[d] # NULL, on[d] = NULL
        PROVE  plock'[proc'[d]] = d /\ state[proc'[d]] \in Leaving
    <3>1. d # c /\ proc[d] \in Procs \ {p}
      BY ZenonT(30), <1>4, <1>5, <2>1
    <3>2. plock[proc[d]] = d /\ state[proc[d]] \in Leaving
      BY ZenonT(30), <2>1, <3>1, Distinct DEF SwitchInv, CpuInv
    <3> QED BY ZenonT(30), <1>3, <1>4, <3>1, <3>2
  <2>2. ASSUME NEW q \in Procs, plock'[q] # FREE PROVE proc'[plock'[q]] = q
    <3>1. q # p /\ plock'[q] = plock[q]
      BY ZenonT(30), <1>3, <2>2
    <3>2. proc[plock[q]] = q /\ plock[q] \in CPUs
      BY ZenonT(30), <2>2, <3>1 DEF SwitchInv, CpuInv, TypeOK
    <3> QED BY ZenonT(30), <1>2, <1>4, <3>1, <3>2
  <2>3. ASSUME NEW d \in CPUs, on[d] # NULL PROVE proc'[d] = on[d]
    BY ZenonT(30), <1>1, <1>4, <1>5, <2>3
  <2>4. ASSUME NEW d \in CPUs, NEW e \in CPUs, proc'[d] = proc'[e], proc'[d] # NULL PROVE d = e
    BY ZenonT(30), <1>4, <2>4 DEF SwitchInv, CpuInv
  <2> QED BY ZenonT(30), <1>1, <2>1, <2>2, <2>3, <2>4 DEF CpuInv
<1>7. StackInv'
  <2>1. ASSUME NEW d \in CPUs, on[d] # NULL PROVE plock'[on[d]] = plock[on[d]]
    BY ZenonT(30), <1>1, <1>3, <1>5, <2>1
  <2> QED BY ZenonT(30), <1>1, <2>1 DEF SwitchInv, StackInv
<1>8. ContextInv'
  BY ZenonT(30), <1>1 DEF SwitchInv, ContextInv
<1>9. HeldInv'
  <2>1. clk # "idle" => \A q \in Procs : plock'[q] # 0
    BY ZenonT(30), <1>3, Distinct DEF SwitchInv, HeldInv
  <2> QED BY ZenonT(30), <1>1, <2>1 DEF SwitchInv, HeldInv, InIntr
<1> QED BY ZenonT(30), <1>1, <1>6, <1>7, <1>8, <1>9 DEF SwitchInv

\* sched() switches to the scheduler; the process stays locked until Back.
LEMMA SchedKeeps ==
  ASSUME SwitchInv, TypeOK', NEW c \in CPUs, NEW p \in Procs, sched(c, p)
  PROVE  SwitchInv'
<1>1. plock[p] = c /\ HoldsOnly(c, p) /\ state[p] # "RUNNING" /\ state[p] \in Leaving
  BY ZenonT(30), SchedChecks DEF sched
<1>2. /\ on[c] = p /\ pc[p] = "sched" /\ ~InIntr(c)
      /\ UNCHANGED <<state, context, plock, wait_lock, tickslock, proc, ret, clk, panic>>
      /\ on' = [on EXCEPT ![c] = NULL] /\ pc' = [pc EXCEPT ![p] = "none"]
  BY ZenonT(30), <1>1 DEF sched, At, Goto, table, locks, frame
<1>3. /\ on'[c] = NULL /\ \A d \in CPUs \ {c} : on'[d] = on[d]
      /\ pc'[p] = "none" /\ \A q \in Procs \ {p} : pc'[q] = pc[q]
  <2>1. DOMAIN on = CPUs /\ DOMAIN pc = Procs
    BY ZenonT(30) DEF SwitchInv, TypeOK
  <2> QED BY ZenonT(30), <1>2, <2>1
<1>4. proc[c] = p /\ \A d \in CPUs \ {c} : on[d] # NULL => on[d] \in Procs \ {p} /\ proc[d] = on[d]
  BY <1>2, OnCpu, OnIsProc
<1>5. CpuInv'
  <2>1. ASSUME NEW d \in CPUs, proc[d] # NULL, on'[d] = NULL
        PROVE  plock[proc[d]] = d /\ state[proc[d]] \in Leaving
    <3>1. CASE d = c
      BY ZenonT(30), <1>1, <1>4, <3>1
    <3>2. CASE d # c
      BY ZenonT(30), <1>3, <2>1, <3>2 DEF SwitchInv, CpuInv
    <3> QED BY ZenonT(30), <3>1, <3>2
  <2>2. ASSUME NEW d \in CPUs, on'[d] # NULL PROVE proc[d] = on'[d]
    BY ZenonT(30), <1>3, <1>4, <2>2
  <2>3. /\ \A d, e \in CPUs : proc[d] = proc[e] /\ proc[d] # NULL => d = e
        /\ \A q \in Procs : plock[q] # FREE => proc[plock[q]] = q
    BY ZenonT(30) DEF SwitchInv, CpuInv
  <2> QED BY ZenonT(30), <1>2, <2>1, <2>2, <2>3 DEF CpuInv
<1>6. StackInv'
  <2>1. ASSUME NEW d \in CPUs, on'[d] # NULL
        PROVE  /\ pc'[on'[d]] # "none"
               /\ plock[on'[d]] = d <=> pc'[on'[d]] \in Switching
               /\ pc'[on'[d]] = "sched" => state[on'[d]] \in Leaving
               /\ pc'[on'[d]] # "sched" => state[on'[d]] = "RUNNING"
    <3>1. d # c /\ on'[d] = on[d] /\ pc'[on[d]] = pc[on[d]]
      BY ZenonT(30), <1>3, <1>4, <2>1
    <3>2. /\ pc[on[d]] # "none" /\ (plock[on[d]] = d <=> pc[on[d]] \in Switching)
          /\ pc[on[d]] = "sched" => state[on[d]] \in Leaving
          /\ pc[on[d]] # "sched" => state[on[d]] = "RUNNING"
      BY ZenonT(30), <2>1, <3>1 DEF SwitchInv, StackInv
    <3> QED BY ZenonT(30), <3>1, <3>2
  <2>2. ASSUME NEW q \in Procs, pc'[q] # "none" PROVE \E d \in CPUs : on'[d] = q
    <3>1. q # p /\ pc[q] # "none"
      BY ZenonT(30), <1>3, <2>2
    <3>2. PICK d \in CPUs : on[d] = q
      BY ZenonT(30), <3>1 DEF SwitchInv, StackInv
    <3> QED BY ZenonT(30), <1>2, <1>3, <3>1, <3>2
  <2> QED BY ZenonT(30), <1>2, <2>1, <2>2 DEF StackInv
<1>7. ContextInv'
  <2> SUFFICES ASSUME NEW q \in Procs
               PROVE  /\ context'[q] # "none" <=> state'[q] \in Waiting
                      /\ ret'[q] # "none" <=> pc'[q] \in Resuming \/ context'[q] \in Resuming
                      /\ ret'[q] \in Open \cup {"none"}
                      /\ context'[q] \in Resuming => pc'[q] \in {"none", "sched"}
                      /\ context'[q] = "forkret" => pc'[q] = "none"
    BY ZenonT(30) DEF ContextInv
  <2>1. CASE q # p
    BY ZenonT(30), <1>2, <1>3, <2>1 DEF SwitchInv, ContextInv
  <2>2. CASE q = p
    <3>1. "sched" \notin Resuming /\ "none" \notin Resuming
      BY ZenonT(30), Kinds
    <3> QED BY ZenonT(30), <1>2, <1>3, <2>2, <3>1 DEF SwitchInv, ContextInv
  <2> QED BY ZenonT(30), <2>1, <2>2
<1>8. HeldInv'
  <2>1. wait_lock # c /\ tickslock # c
    BY ZenonT(30), <1>2, Kinds DEF SwitchInv, HeldInv
  <2>2. ASSUME NEW d \in CPUs
        PROVE  /\ wait_lock = d <=> on'[d] # NULL /\ pc'[on'[d]] \in WaitHeld
               /\ tickslock = d <=> InIntr(d) \/ (on'[d] # NULL /\ pc'[on'[d]] \in TicksHeld)
    <3>1. CASE d = c
      BY ZenonT(30), <1>2, <1>3, <2>1, <3>1
    <3>2. CASE d # c
      <4>1. on'[d] = on[d] /\ (on[d] # NULL => pc'[on[d]] = pc[on[d]])
        BY ZenonT(30), <1>3, <1>4, <3>2
      <4> QED BY ZenonT(30), <4>1 DEF SwitchInv, HeldInv
    <3> QED BY ZenonT(30), <3>1, <3>2
  <2>3. clk # "idle" => (\A q \in Procs : plock[q] # 0) /\ (on'[0] # NULL => pc'[on'[0]] \in Open)
    <3>1. clk # "idle" => c # 0
      BY ZenonT(30), <1>2 DEF InIntr
    <3>2. clk # "idle" => (\A q \in Procs : plock[q] # 0) /\ (on[0] # NULL => pc[on[0]] \in Open)
      BY ZenonT(30) DEF SwitchInv, HeldInv
    <3> QED BY ZenonT(30), <1>3, <1>4, <3>1, <3>2, Distinct
  <2> QED BY ZenonT(30), <1>2, <2>2, <2>3 DEF HeldInv, InIntr
<1> QED BY ZenonT(30), <1>2, <1>5, <1>6, <1>7, <1>8 DEF SwitchInv

\* The process goes on after swtch(), and releases its p->lock.
LEMMA ResumeStep ==
  ASSUME SwitchInv, TypeOK', NEW c \in CPUs, NEW p \in Procs, NEW l \in Open,
         on[c] = p, ~InIntr(c), pc[p] \in Switching \ {"sched"},
         plock' = [plock EXCEPT ![p] = FREE], pc' = [pc EXCEPT ![p] = l],
         ret' = [ret EXCEPT ![p] = "none"],
         UNCHANGED <<state, context, wait_lock, tickslock, proc, on, clk, panic>>
  PROVE  SwitchInv'
<1>1. /\ proc[c] = p /\ p # NULL /\ state[p] = "RUNNING" /\ plock[p] = c
      /\ \A d \in CPUs \ {c} : proc[d] # p /\ on[d] # p
  BY ZenonT(30), OnCpu
<1>2. /\ pc'[p] = l /\ \A q \in Procs \ {p} : pc'[q] = pc[q]
      /\ plock'[p] = FREE /\ \A q \in Procs \ {p} : plock'[q] = plock[q]
      /\ ret'[p] = "none" /\ \A q \in Procs \ {p} : ret'[q] = ret[q]
  <2>1. DOMAIN pc = Procs /\ DOMAIN plock = Procs /\ DOMAIN ret = Procs
    BY ZenonT(30) DEF SwitchInv, TypeOK
  <2> QED BY ZenonT(30), <2>1
<1>3. \A d \in CPUs \ {c} : on[d] # NULL => on[d] \in Procs \ {p} /\ proc[d] = on[d]
  BY ZenonT(30), <1>1, OnIsProc
<1>4. \A d \in CPUs \ {c} : proc[d] # NULL => proc[d] \in Procs \ {p}
  BY ZenonT(30), <1>1, OnIsProc
<1>5. CpuInv'
  <2>1. ASSUME NEW d \in CPUs, proc[d] # NULL, on[d] = NULL
        PROVE  plock'[proc[d]] = d /\ state[proc[d]] \in Leaving
    <3>1. d # c /\ proc[d] \in Procs \ {p}
      BY ZenonT(30), <1>1, <1>4, <2>1
    <3>2. plock[proc[d]] = d /\ state[proc[d]] \in Leaving
      BY ZenonT(30), <2>1 DEF SwitchInv, CpuInv
    <3> QED BY ZenonT(30), <1>2, <3>1, <3>2
  <2>2. ASSUME NEW q \in Procs, plock'[q] # FREE PROVE proc[plock'[q]] = q
    <3>1. q # p /\ plock'[q] = plock[q]
      BY ZenonT(30), <1>2, <2>2
    <3> QED BY ZenonT(30), <2>2, <3>1 DEF SwitchInv, CpuInv
  <2>3. /\ \A d \in CPUs : on[d] # NULL => proc[d] = on[d]
        /\ \A d, e \in CPUs : proc[d] = proc[e] /\ proc[d] # NULL => d = e
    BY ZenonT(30) DEF SwitchInv, CpuInv
  <2> QED BY ZenonT(30), <2>1, <2>2, <2>3 DEF CpuInv
<1>6. StackInv'
  <2>1. ASSUME NEW d \in CPUs, on[d] # NULL
        PROVE  /\ pc'[on[d]] # "none"
               /\ plock'[on[d]] = d <=> pc'[on[d]] \in Switching
               /\ pc'[on[d]] = "sched" => state[on[d]] \in Leaving
               /\ pc'[on[d]] # "sched" => state[on[d]] = "RUNNING"
    <3>1. CASE d = c
      <4>1. l \notin Switching /\ l # "none" /\ l # "sched"
        BY ZenonT(30), Kinds
      <4>2. pc'[on[d]] = l /\ plock'[on[d]] = FREE /\ FREE # d /\ state[on[d]] = "RUNNING"
        BY ZenonT(30), <1>1, <1>2, <3>1, Distinct
      <4> QED BY ZenonT(30), <4>1, <4>2
    <3>2. CASE d # c
      <4>1. pc'[on[d]] = pc[on[d]] /\ plock'[on[d]] = plock[on[d]]
        BY ZenonT(30), <1>2, <1>3, <2>1, <3>2
      <4>2. /\ pc[on[d]] # "none" /\ (plock[on[d]] = d <=> pc[on[d]] \in Switching)
            /\ pc[on[d]] = "sched" => state[on[d]] \in Leaving
            /\ pc[on[d]] # "sched" => state[on[d]] = "RUNNING"
        BY ZenonT(30), <2>1 DEF SwitchInv, StackInv
      <4> QED BY ZenonT(30), <4>1, <4>2
    <3> QED BY ZenonT(30), <3>1, <3>2
  <2>2. ASSUME NEW q \in Procs, pc'[q] # "none" PROVE \E d \in CPUs : on[d] = q
    <3>1. CASE q = p
      BY ZenonT(30), <3>1
    <3>2. CASE q # p
      <4>1. pc[q] # "none"
        BY ZenonT(30), <1>2, <2>2, <3>2
      <4> QED BY ZenonT(30), <4>1 DEF SwitchInv, StackInv
    <3> QED BY ZenonT(30), <3>1, <3>2
  <2> QED BY <2>1, <2>2 DEF StackInv
<1>7. ContextInv'
  <2> SUFFICES ASSUME NEW q \in Procs
               PROVE  /\ context'[q] # "none" <=> state'[q] \in Waiting
                      /\ ret'[q] # "none" <=> pc'[q] \in Resuming \/ context'[q] \in Resuming
                      /\ ret'[q] \in Open \cup {"none"}
                      /\ context'[q] \in Resuming => pc'[q] \in {"none", "sched"}
                      /\ context'[q] = "forkret" => pc'[q] = "none"
    BY ZenonT(30) DEF ContextInv
  <2>1. CASE q # p
    BY <1>2, <2>1 DEF SwitchInv, ContextInv
  <2>2. CASE q = p
    <3>1. l \notin Resuming /\ "none" \notin Resuming
      BY ZenonT(30), Kinds
    <3>2. context[p] \notin Resuming /\ context[p] # "forkret"
      BY ZenonT(30), Kinds DEF SwitchInv, ContextInv
    <3>3. context[p] # "none" <=> state[p] \in Waiting
      BY ZenonT(30) DEF SwitchInv, ContextInv
    <3> QED BY ZenonT(30), <1>2, <2>2, <3>1, <3>2, <3>3
  <2> QED BY ZenonT(30), <2>1, <2>2
<1>8. HeldInv'
  <2>1. /\ l \notin WaitHeld /\ l \notin TicksHeld
        /\ pc[p] \notin WaitHeld /\ pc[p] \notin TicksHeld
    BY ZenonT(30), Kinds
  <2>2. ASSUME NEW d \in CPUs
        PROVE  /\ wait_lock = d <=> on[d] # NULL /\ pc'[on[d]] \in WaitHeld
               /\ tickslock = d <=> InIntr(d) \/ (on[d] # NULL /\ pc'[on[d]] \in TicksHeld)
    <3>1. CASE d = c
      <4>1. wait_lock # c /\ (tickslock = c <=> InIntr(c))
        BY ZenonT(30), <1>1, <2>1 DEF SwitchInv, HeldInv
      <4> QED BY <1>1, <1>2, <2>1, <3>1, <4>1
    <3>2. CASE d # c
      <4>1. on[d] # NULL => pc'[on[d]] = pc[on[d]]
        BY ZenonT(30), <1>2, <1>3, <3>2
      <4> QED BY ZenonT(30), <4>1 DEF SwitchInv, HeldInv
    <3> QED BY ZenonT(30), <3>1, <3>2
  <2>3. clk # "idle" => (\A q \in Procs : plock'[q] # 0) /\ (on[0] # NULL => pc'[on[0]] \in Open)
    <3>2. clk # "idle" => (\A q \in Procs : plock[q] # 0) /\ (on[0] # NULL => pc[on[0]] \in Open)
      BY ZenonT(30) DEF SwitchInv, HeldInv
    <3>3. \A q \in Procs : plock'[q] = FREE \/ plock'[q] = plock[q]
      BY ZenonT(30), <1>2
    <3>4. FREE # 0
      BY ZenonT(30), Distinct
    <3>5. on[0] # NULL => pc'[on[0]] = pc[on[0]] \/ pc'[on[0]] \in Open
      BY ZenonT(30), <1>2, <1>3, Distinct
    <3> QED BY ZenonT(30), <3>2, <3>3, <3>4, <3>5
  <2> QED BY ZenonT(30), <2>2, <2>3 DEF HeldInv, InIntr
<1> QED BY ZenonT(30), <1>5, <1>6, <1>7, <1>8 DEF SwitchInv

\* Every place is of one of these kinds.
LEMMA PlaceKinds == \A l \in Places : l = "none" \/ l \in Switching \/ l \in WaitHeld \/ l \in TicksHeld \/ l \in Open
BY ZenonT(30) DEF Places, Open, WaitHeld, TicksHeld, Switching

\* A process is interrupted only where it holds no lock.
LEMMA OpenToInterrupts ==
  ASSUME SwitchInv, NEW c \in CPUs, Interruptible(c), on[c] # NULL
  PROVE  on[c] \in Procs /\ pc[on[c]] \in Open
<1>1. on[c] \in Procs
  BY ZenonT(30), OnIsProc
<1>2. plock[on[c]] # c /\ wait_lock # c /\ tickslock # c
  BY ZenonT(30), <1>1 DEF Interruptible, HoldsNone
<1>3. pc[on[c]] # "none" /\ pc[on[c]] \notin Switching
  BY ZenonT(30), <1>2 DEF SwitchInv, StackInv
<1>4. pc[on[c]] \notin WaitHeld /\ pc[on[c]] \notin TicksHeld
  BY ZenonT(30), <1>2 DEF SwitchInv, HeldInv
<1>5. pc[on[c]] \in Places
  BY ZenonT(30), <1>1 DEF SwitchInv, TypeOK
<1> QED BY ZenonT(30), <1>1, <1>3, <1>4, <1>5, PlaceKinds

\* clockintr() starts on a CPU that holds no lock.
LEMMA ClockIntrKeeps == ASSUME SwitchInv, TypeOK', ClockIntr PROVE SwitchInv'
<1>1. /\ Interruptible(0) /\ tickslock = FREE /\ tickslock' = 0 /\ clk' = "wake"
      /\ UNCHANGED <<state, context, plock, wait_lock, proc, on, pc, ret, panic>>
  BY ZenonT(30) DEF ClockIntr, table, frame
<1>2. CpuInv' /\ StackInv' /\ ContextInv'
  <2>1. CpuInv'
    BY ZenonT(30), <1>1 DEF SwitchInv, CpuInv
  <2>2. StackInv'
    BY ZenonT(30), <1>1 DEF SwitchInv, StackInv
  <2>3. ContextInv'
    BY ZenonT(30), <1>1 DEF SwitchInv, ContextInv
  <2> QED BY ZenonT(30), <2>1, <2>2, <2>3
<1>3. /\ \A p \in Procs : plock[p] # 0
      /\ on[0] # NULL => pc[on[0]] \in Open
  BY ZenonT(30), <1>1, Distinct, OpenToInterrupts DEF Interruptible, HoldsNone
<1>4. \A c \in CPUs : on[c] # NULL => pc[on[c]] \notin TicksHeld
  BY ZenonT(30), <1>1, Distinct DEF SwitchInv, HeldInv
<1>5. HeldInv'
  <2>1. \A c \in CPUs : wait_lock = c <=> on[c] # NULL /\ pc[on[c]] \in WaitHeld
    BY ZenonT(30) DEF SwitchInv, HeldInv
  <2>2. \A c \in CPUs : InIntr(c)' <=> c = 0
    BY ZenonT(30), <1>1 DEF InIntr
  <2> QED BY ZenonT(30), <1>1, <1>3, <1>4, <2>1, <2>2 DEF HeldInv
<1> QED BY ZenonT(30), <1>1, <1>2, <1>5 DEF SwitchInv

\* The sleepers that clockintr() wakes are on no CPU.
LEMMA ClockWakeKeeps == ASSUME SwitchInv, TypeOK', ClockWake PROVE SwitchInv'
<1>1. /\ clk = "wake" /\ clk' = "done"
      /\ UNCHANGED <<context, plock, wait_lock, tickslock, proc, on, pc, ret, panic>>
  BY ZenonT(30) DEF ClockWake, locks, frame
<1>2. \A q \in Procs : \/ state'[q] = state[q]
                       \/ plock[q] = FREE /\ state[q] = "SLEEPING" /\ state'[q] = "RUNNABLE"
  BY ZenonT(30) DEF ClockWake, Wake
<1>3. \A q \in Procs : (\E d \in CPUs : proc[d] = q) => state'[q] = state[q]
  BY ZenonT(30), <1>2, OffCpu
<1>4. CpuInv'
  <2>1. \A d \in CPUs : proc[d] # NULL => proc[d] \in Procs
    BY ZenonT(30), OnIsProc
  <2>2. \A d \in CPUs : proc[d] # NULL => state'[proc[d]] = state[proc[d]]
    BY ZenonT(30), <1>3, <2>1
  <2> QED BY ZenonT(30), <1>1, <2>2 DEF SwitchInv, CpuInv
<1>5. StackInv'
  <2>1. \A d \in CPUs : on[d] # NULL => on[d] \in Procs /\ proc[d] = on[d]
    BY ZenonT(30), OnIsProc
  <2>2. \A d \in CPUs : on[d] # NULL => state'[on[d]] = state[on[d]]
    BY ZenonT(30), <1>3, <2>1
  <2> QED BY ZenonT(30), <1>1, <2>2 DEF SwitchInv, StackInv
<1>6. ContextInv'
  <2>1. \A q \in Procs : state'[q] \in Waiting <=> state[q] \in Waiting
    BY ZenonT(30), <1>2 DEF Waiting
  <2> QED BY ZenonT(30), <1>1, <2>1 DEF SwitchInv, ContextInv
<1>7. HeldInv'
  <2>1. \A c \in CPUs : InIntr(c)' <=> InIntr(c)
    BY ZenonT(30), <1>1 DEF InIntr
  <2> QED BY ZenonT(30), <1>1, <2>1 DEF SwitchInv, HeldInv
<1> QED BY ZenonT(30), <1>1, <1>4, <1>5, <1>6, <1>7 DEF SwitchInv

\* clockintr() ends: the process goes on, exits if it was killed, or yields.
LEMMA ClockDoneKeeps == ASSUME SwitchInv, TypeOK', ClockDone PROVE SwitchInv'
<1>1. /\ clk = "done" /\ clk' = "idle" /\ tickslock' = FREE /\ Preempt(0)
      /\ UNCHANGED <<wait_lock, proc, on, panic>>
  BY ZenonT(30) DEF ClockDone
<1>2. 0 \in CPUs /\ FREE \notin CPUs
  BY ZenonT(30), Distinct
<1>3. on[0] # NULL => pc[on[0]] \in Open /\ on[0] \in Procs
  BY ZenonT(30), <1>1, <1>2, OnIsProc DEF SwitchInv, HeldInv
<1>4. CASE on[0] # NULL /\ yield(0, on[0])
  <2>1. PICK p \in Procs : on[0] = p
    BY ZenonT(30), <1>3, <1>4
  <2>2. PICK l \in Open : pc[p] = l
    BY ZenonT(30), <1>3, <1>4, <2>1
  <2>3. /\ plock[p] = FREE /\ plock' = [plock EXCEPT ![p] = 0]
        /\ state' = [state EXCEPT ![p] = "RUNNABLE"] /\ context' = [context EXCEPT ![p] = "yielded"]
        /\ ret' = [ret EXCEPT ![p] = l] /\ pc' = [pc EXCEPT ![p] = "sched"]
    BY ZenonT(30), <1>4, <2>1, <2>2 DEF yield, Goto
  <2>4. /\ pc[p] \in Quiet /\ pc[p] \notin WaitHeld /\ "RUNNABLE" \in Leaving /\ "yielded" \in Resuming
    BY ZenonT(30), <2>2, Kinds DEF Leaving, Resuming
  <2> QED BY ZenonT(30), <1>1, <1>2, <2>1, <2>3, <2>4, LeaveStep
<1>5. CASE on[0] = NULL \/ (Goto(on[0], "exit") /\ pc[on[0]] = "user" /\ UNCHANGED <<state, context, plock, ret>>)
  <2>1. UNCHANGED <<state, context, plock, ret>>
    BY ZenonT(30), <1>1, <1>5 DEF Preempt
  <2>2. \A q \in Procs : pc'[q] = pc[q] \/ (pc[q] = "user" /\ pc'[q] = "exit")
    <3>1. CASE on[0] = NULL
      BY ZenonT(30), <1>1, <3>1 DEF Preempt
    <3>2. CASE on[0] # NULL
      BY ZenonT(30), <1>3, <1>5, <3>2 DEF Goto, SwitchInv, TypeOK
    <3> QED BY ZenonT(30), <3>1, <3>2
  <2>3. \A q \in Procs : /\ pc'[q] \in WaitHeld <=> pc[q] \in WaitHeld
                         /\ pc'[q] \in TicksHeld <=> pc[q] \in TicksHeld
                         /\ pc'[q] \in Switching <=> pc[q] \in Switching
                         /\ pc'[q] \in Open <=> pc[q] \in Open
                         /\ pc'[q] \in Resuming <=> pc[q] \in Resuming
                         /\ pc'[q] = "sched" <=> pc[q] = "sched"
                         /\ pc'[q] = "none" <=> pc[q] = "none"
    BY ZenonT(30), <2>2 DEF WaitHeld, TicksHeld, Switching, Open, Resuming
  <2>4. \A d \in CPUs : on[d] # NULL => on[d] \in Procs
    BY ZenonT(30), OnIsProc
  <2>5. CpuInv'
    BY ZenonT(30), <1>1, <2>1 DEF SwitchInv, CpuInv
  <2>6. StackInv'
    BY ZenonT(30), <1>1, <2>1, <2>3, <2>4 DEF SwitchInv, StackInv
  <2>7. ContextInv'
    BY ZenonT(30), <2>1, <2>3 DEF SwitchInv, ContextInv
  <2>8. HeldInv'
    <3>1. \A d \in CPUs : on[d] # NULL => pc[on[d]] \notin TicksHeld
      <4>1. tickslock = 0
        BY ZenonT(30), <1>1, <1>2 DEF SwitchInv, HeldInv, InIntr
      <4>2. on[0] # NULL => pc[on[0]] \notin TicksHeld
        BY ZenonT(30), <1>3, Kinds
      <4> QED BY ZenonT(30), <4>1, <4>2 DEF SwitchInv, HeldInv
    <3>2. \A d \in CPUs : ~InIntr(d)'
      BY ZenonT(30), <1>1 DEF InIntr
    <3>3. \A d \in CPUs : wait_lock = d <=> on[d] # NULL /\ pc'[on[d]] \in WaitHeld
      BY ZenonT(30), <2>3, <2>4 DEF SwitchInv, HeldInv
    <3> QED BY ZenonT(30), <1>1, <1>2, <2>3, <2>4, <3>1, <3>2, <3>3 DEF HeldInv
  <2> QED BY ZenonT(30), <1>1, <2>5, <2>6, <2>7, <2>8 DEF SwitchInv
<1> QED BY ZenonT(30), <1>1, <1>4, <1>5 DEF Preempt

\* A process on its CPU moves on to l, without a switch.
Move(c, p, l) ==
  /\ on[c] = p /\ ~InIntr(c) /\ pc' = [pc EXCEPT ![p] = l]
  /\ UNCHANGED <<plock, proc, on, clk, ret>> /\ panic' \in {"none", "init_exiting"}

\* Only processes that are on no CPU are changed by others.
OthersParked == \A q \in Procs : (state'[q] = state[q] /\ context'[q] = context[q]) \/ Parked(q)

\* A step between places where no lock is held.
LEMMA OpenStep ==
  ASSUME SwitchInv, TypeOK', NEW c \in CPUs, NEW p \in Procs, NEW l \in Open,
         Move(c, p, l), OthersParked, pc[p] \in Open, UNCHANGED <<wait_lock, tickslock>>
  PROVE  SwitchInv'
<1>1. /\ l \in Quiet /\ l \notin WaitHeld /\ l \notin TicksHeld
      /\ pc[p] \in Quiet /\ pc[p] \notin WaitHeld /\ pc[p] \notin TicksHeld
  BY ZenonT(30), Kinds
<1> QED BY ZenonT(30), <1>1, LocalStep DEF Move, OthersParked

\* wait_lock is taken, kept or released.
LEMMA WaitStep ==
  ASSUME SwitchInv, TypeOK', NEW c \in CPUs, NEW p \in Procs, NEW l \in Open \cup WaitHeld,
         Move(c, p, l), OthersParked, UNCHANGED tickslock,
         \/ pc[p] \in Open /\ l \in WaitHeld /\ wait_lock = FREE /\ wait_lock' = c
         \/ pc[p] \in WaitHeld /\ l \in WaitHeld /\ UNCHANGED wait_lock
         \/ pc[p] \in WaitHeld /\ l \in Open /\ wait_lock' = FREE
  PROVE  SwitchInv'
<1>1. l \in Quiet /\ l \notin TicksHeld /\ pc[p] \in Quiet /\ pc[p] \notin TicksHeld
  BY ZenonT(30), Kinds
<1>2. \A x \in Open : x \notin WaitHeld
  BY ZenonT(30), Kinds
<1>3. pc[p] \in WaitHeld => wait_lock = c
  BY ZenonT(30), Distinct DEF SwitchInv, HeldInv, Move
<1> QED BY ZenonT(30), <1>1, <1>2, <1>3, LocalStep DEF Move, OthersParked

\* tickslock is taken, kept or released.
LEMMA TicksStep ==
  ASSUME SwitchInv, TypeOK', NEW c \in CPUs, NEW p \in Procs, NEW l \in Open \cup TicksHeld,
         Move(c, p, l), OthersParked, UNCHANGED wait_lock,
         \/ pc[p] \in Open /\ l \in TicksHeld /\ tickslock = FREE /\ tickslock' = c
         \/ pc[p] \in TicksHeld /\ l \in TicksHeld /\ UNCHANGED tickslock
         \/ pc[p] \in TicksHeld /\ l \in Open /\ tickslock' = FREE
  PROVE  SwitchInv'
<1>1. l \in Quiet /\ l \notin WaitHeld /\ pc[p] \in Quiet /\ pc[p] \notin WaitHeld
  BY ZenonT(30), Kinds
<1>2. \A x \in Open : x \notin TicksHeld
  BY ZenonT(30), Kinds
<1>3. pc[p] \in TicksHeld => tickslock = c
  BY ZenonT(30), Distinct DEF SwitchInv, HeldInv, Move
<1> QED BY ZenonT(30), <1>1, <1>2, <1>3, LocalStep DEF Move, OthersParked

\* A wakeup() changes only sleepers that are on no CPU.
LEMMA WakeParks ==
  ASSUME SwitchInv, NEW p, NEW ch, Wake(p, ch), UNCHANGED context
  PROVE  OthersParked
<1>1. ASSUME NEW q \in Procs, state'[q] # state[q] PROVE Parked(q)
  <2>1. plock[q] = FREE /\ state[q] = "SLEEPING" /\ state'[q] = "RUNNABLE"
    BY ZenonT(30), <1>1 DEF Wake
  <2>2. state[q] \in Waiting /\ state'[q] \in Waiting
    BY ZenonT(30), <2>1 DEF Waiting
  <2>3. context[q] # "none"
    BY ZenonT(30), <2>2 DEF SwitchInv, ContextInv
  <2> QED BY ZenonT(30), <2>1, <2>2, <2>3 DEF Parked
<1> QED BY ZenonT(30), <1>1 DEF OthersParked

\* The system calls and traps that hold no lock keep the invariant.
LEMMA OpenKeeps ==
  ASSUME SwitchInv, TypeOK', NEW c \in CPUs, NEW p \in Procs,
         \/ SyscallKilled(c, p) \/ Fault(c, p) \/ ForkFails(c, p) \/ Return(c, p) \/ ForkParent(c, p)
  PROVE  SwitchInv'
<1>1. OthersParked
  BY ZenonT(30) DEF SyscallKilled, Fault, ForkFails, Return, ForkParent, table, OthersParked
<1>2. UNCHANGED <<wait_lock, tickslock>> /\ panic \in {"none", "init_exiting"}
  BY ZenonT(30) DEF SyscallKilled, Fault, ForkFails, Return, ForkParent, locks, SwitchInv
<1>3. \E l \in Open : Move(c, p, l) /\ pc[p] \in Open
  <2>1. CASE SyscallKilled(c, p)
    <3>1. Move(c, p, "exit") /\ pc[p] = "user"
      BY ZenonT(30), <1>2, <2>1 DEF SyscallKilled, At, Goto, locks, frame, Move
    <3> QED BY ZenonT(30), <3>1 DEF Open
  <2>2. CASE Fault(c, p)
    <3>1. Move(c, p, "ret") /\ pc[p] = "user"
      BY ZenonT(30), <1>2, <2>2 DEF Fault, At, Goto, locks, frame, Move
    <3> QED BY ZenonT(30), <3>1 DEF Open
  <2>3. CASE ForkFails(c, p)
    <3>1. Move(c, p, "ret") /\ pc[p] = "user"
      BY ZenonT(30), <1>2, <2>3 DEF ForkFails, Syscall, At, Goto, locks, frame, Move
    <3> QED BY ZenonT(30), <3>1 DEF Open
  <2>4. CASE Return(c, p)
    <3>1. Move(c, p, IF killed[p] THEN "exit" ELSE "user") /\ pc[p] = "ret"
      BY ZenonT(30), <1>2, <2>4 DEF Return, At, Goto, locks, frame, Move
    <3> QED BY ZenonT(30), <3>1 DEF Open
  <2>5. CASE ForkParent(c, p)
    <3>1. Move(c, p, "fork_run") /\ pc[p] = "fork_parent"
      BY ZenonT(30), <1>2, <2>5 DEF ForkParent, At, Goto, locks, frame, Move
    <3> QED BY ZenonT(30), <3>1 DEF Open
  <2> QED BY ZenonT(30), <2>1, <2>2, <2>3, <2>4, <2>5
<1> QED BY ZenonT(30), <1>1, <1>2, <1>3, OpenStep

\* fork() and kill() change another slot, which is unlocked and not running.
LEMMA ForkKeeps ==
  ASSUME SwitchInv, TypeOK', NEW c \in CPUs, NEW p \in Procs,
         \/ \E np \in Procs : Fork(c, p, np)
         \/ ForkRun(c, p) /\ child[p] \in Procs /\ state[child[p]] = "USED"
         \/ \E q \in Procs : Kill(c, p, q)
  PROVE  SwitchInv'
<1>0. panic \in {"none", "init_exiting"} /\ DOMAIN state = Procs /\ DOMAIN context = Procs
  BY ZenonT(30) DEF SwitchInv, TypeOK
<1>1. ASSUME NEW np \in Procs, Fork(c, p, np) PROVE SwitchInv'
  <2>1. Move(c, p, "fork_parent") /\ pc[p] = "user" /\ UNCHANGED <<wait_lock, tickslock>>
    BY ZenonT(30), <1>0, <1>1 DEF Fork, Syscall, At, Goto, locks, Move
  <2>2. /\ plock[np] = FREE /\ state[np] = "UNUSED" /\ state'[np] = "USED" /\ context'[np] = "forkret"
        /\ \A q \in Procs \ {np} : state'[q] = state[q] /\ context'[q] = context[q]
    BY ZenonT(30), <1>0, <1>1 DEF Fork
  <2>3. "USED" \in Waiting /\ "UNUSED" \notin Waiting /\ "forkret" \notin Resuming /\ "none" \notin Resuming
    BY ZenonT(30) DEF Waiting, Resuming
  <2>4. context[np] = "none"
    BY ZenonT(30), <2>2, <2>3 DEF SwitchInv, ContextInv
  <2>5. Parked(np)
    BY ZenonT(30), <2>2, <2>3, <2>4 DEF Parked
  <2>6. OthersParked
    BY ZenonT(30), <2>2, <2>5 DEF OthersParked
  <2>7. "fork_parent" \in Open /\ "user" \in Open
    BY ZenonT(30) DEF Open
  <2> QED BY ZenonT(30), <2>1, <2>6, <2>7, OpenStep
<1>2. ASSUME ForkRun(c, p), child[p] \in Procs, state[child[p]] = "USED" PROVE SwitchInv'
  <2>1. Move(c, p, "ret") /\ pc[p] = "fork_run" /\ UNCHANGED <<wait_lock, tickslock, context>>
    BY ZenonT(30), <1>0, <1>2 DEF ForkRun, At, Goto, locks, Move
  <2>2. PICK np \in Procs : np = child[p]
    BY ZenonT(30), <1>2
  <2>3. /\ plock[np] = FREE /\ state[np] = "USED" /\ state'[np] = "RUNNABLE"
        /\ \A q \in Procs \ {np} : state'[q] = state[q]
    BY ZenonT(30), <1>0, <1>2, <2>2 DEF ForkRun
  <2>4. "USED" \in Waiting /\ "RUNNABLE" \in Waiting
    BY ZenonT(30) DEF Waiting
  <2>5. context[np] # "none"
    BY ZenonT(30), <2>3, <2>4 DEF SwitchInv, ContextInv
  <2>6. Parked(np)
    BY ZenonT(30), <2>1, <2>3, <2>4, <2>5 DEF Parked
  <2>7. OthersParked
    BY ZenonT(30), <2>1, <2>3, <2>6 DEF OthersParked
  <2>8. "ret" \in Open /\ "fork_run" \in Open
    BY ZenonT(30) DEF Open
  <2> QED BY ZenonT(30), <2>1, <2>7, <2>8, OpenStep
<1>3. ASSUME NEW q \in Procs, Kill(c, p, q) PROVE SwitchInv'
  <2>1. Move(c, p, "ret") /\ pc[p] = "user" /\ UNCHANGED <<wait_lock, tickslock, context>>
    BY ZenonT(30), <1>0, <1>3 DEF Kill, Syscall, At, Goto, locks, frame, Move
  <2>2. /\ plock[q] = FREE /\ \A r \in Procs \ {q} : state'[r] = state[r]
        /\ state'[q] = state[q] \/ (state[q] = "SLEEPING" /\ state'[q] = "RUNNABLE")
    BY ZenonT(30), <1>0, <1>3 DEF Kill
  <2>3. "SLEEPING" \in Waiting /\ "RUNNABLE" \in Waiting
    BY ZenonT(30) DEF Waiting
  <2>4. state'[q] = state[q] \/ Parked(q)
    <3>1. CASE state[q] = "SLEEPING" /\ state'[q] = "RUNNABLE"
      <4>1. context[q] # "none"
        BY ZenonT(30), <2>3, <3>1 DEF SwitchInv, ContextInv
      <4> QED BY ZenonT(30), <2>1, <2>2, <2>3, <3>1, <4>1 DEF Parked
    <3> QED BY ZenonT(30), <2>2, <3>1
  <2>5. OthersParked
    BY ZenonT(30), <2>1, <2>2, <2>4 DEF OthersParked
  <2>6. "ret" \in Open /\ "user" \in Open
    BY ZenonT(30) DEF Open
  <2> QED BY ZenonT(30), <2>1, <2>5, <2>6, OpenStep
<1> QED BY ZenonT(30), <1>1, <1>2, <1>3

\* exit() keeps the invariant up to its sched().
LEMMA ExitKeeps ==
  ASSUME SwitchInv, TypeOK', NEW c \in CPUs, NEW p \in Procs, Exit(c, p) \/ ExitWake(c, p) \/ ExitZombie(c, p)
  PROVE  SwitchInv'
<1>0. panic \in {"none", "init_exiting"} /\ DOMAIN pc = Procs
  BY ZenonT(30) DEF SwitchInv, TypeOK
<1>1. CASE Exit(c, p)
  <2>1. /\ on[c] = p /\ ~InIntr(c) /\ pc[p] \in {"exit", "user"}
        /\ UNCHANGED <<state, context, plock, tickslock, proc, on, ret, clk>>
    BY ZenonT(30), <1>1 DEF Exit, Syscall, At, frame
  <2>2. pc[p] \in Open
    BY ZenonT(30), <2>1 DEF Open
  <2>3. OthersParked
    BY ZenonT(30), <2>1 DEF OthersParked
  <2>4. CASE p = initproc
    <3>1. panic' = "init_exiting" /\ UNCHANGED <<wait_lock, pc>>
      BY ZenonT(30), <1>1, <2>4 DEF Exit
    <3>2. pc' = [pc EXCEPT ![p] = pc[p]]
      BY ZenonT(30), <3>1 DEF SwitchInv, TypeOK
    <3>3. Move(c, p, pc[p])
      BY ZenonT(30), <1>0, <2>1, <3>1, <3>2 DEF Move
    <3> QED BY ZenonT(30), <2>1, <2>2, <2>3, <3>1, <3>3, OpenStep
  <2>5. CASE p # initproc
    <3>1. PICK l \in {"wake_parent", "wake_init"} : l = IF Kids(p) = {} THEN "wake_parent" ELSE "wake_init"
      BY ZenonT(30)
    <3>2. panic' = panic /\ wait_lock = FREE /\ wait_lock' = c /\ pc' = [pc EXCEPT ![p] = l]
      BY ZenonT(30), <1>1, <2>5, <3>1 DEF Exit, Goto
    <3>3. Move(c, p, l) /\ l \in WaitHeld
      BY ZenonT(30), <1>0, <2>1, <3>1, <3>2 DEF Move, WaitHeld
    <3> QED BY ZenonT(30), <2>1, <2>2, <2>3, <3>2, <3>3, WaitStep
  <2> QED BY ZenonT(30), <2>4, <2>5
<1>2. CASE ExitWake(c, p)
  <2>1. \E l \in {"wake_parent", "exit_zombie"} : Move(c, p, l) /\ pc[p] \in {"wake_init", "wake_parent"}
    BY ZenonT(30), <1>0, <1>2 DEF ExitWake, At, Goto, locks, frame, Move
  <2>2. UNCHANGED <<context, wait_lock, tickslock>> /\ \E ch : Wake(p, ch)
    BY ZenonT(30), <1>2 DEF ExitWake, locks
  <2>3. OthersParked
    BY ZenonT(30), <2>2, WakeParks
  <2>4. \E l \in WaitHeld : Move(c, p, l) /\ pc[p] \in WaitHeld
    BY ZenonT(30), <2>1 DEF WaitHeld
  <2> QED BY ZenonT(30), <2>2, <2>3, <2>4, WaitStep
<1>3. CASE ExitZombie(c, p)
  <2>1. /\ on[c] = p /\ ~InIntr(c) /\ pc[p] = "exit_zombie" /\ plock[p] = FREE
        /\ plock' = [plock EXCEPT ![p] = c] /\ state' = [state EXCEPT ![p] = "ZOMBIE"]
        /\ wait_lock' = FREE /\ pc' = [pc EXCEPT ![p] = "sched"]
        /\ UNCHANGED <<context, tickslock, proc, on, ret, clk, panic>>
    BY ZenonT(30), <1>3 DEF ExitZombie, At, Goto, frame
  <2>2. pc[p] \in WaitHeld /\ "ZOMBIE" \in Leaving
    BY ZenonT(30), <2>1 DEF WaitHeld, Leaving
  <2>3. pc[p] \in Quiet /\ pc[p] \notin TicksHeld
    BY ZenonT(30), <2>2, Kinds
  <2> QED BY ZenonT(30), <2>1, <2>2, <2>3, LeaveStep
<1> QED BY ZenonT(30), <1>1, <1>2, <1>3

\* wait() keeps the invariant.
LEMMA WaitKeeps ==
  ASSUME SwitchInv, TypeOK', NEW c \in CPUs, NEW p \in Procs,
         \/ WaitLock(c, p) \/ WaitScan(c, p) \/ WaitReap(c, p) \/ WaitTest(c, p) \/ WaitSleep(c, p)
  PROVE  SwitchInv'
<1>0. panic \in {"none", "init_exiting"} /\ DOMAIN pc = Procs /\ DOMAIN state = Procs
  BY ZenonT(30) DEF SwitchInv, TypeOK
<1>1. CASE WaitLock(c, p)
  <2>1. /\ Move(c, p, "scan") /\ pc[p] \in {"user", "wait_relock"}
        /\ wait_lock = FREE /\ wait_lock' = c /\ UNCHANGED <<state, context, tickslock>>
    BY ZenonT(30), <1>0, <1>1 DEF WaitLock, Syscall, At, Goto, table, Move
  <2>2. pc[p] \in Open /\ "scan" \in WaitHeld
    BY ZenonT(30), <2>1 DEF Open, WaitHeld
  <2>3. OthersParked
    BY ZenonT(30), <2>1 DEF OthersParked
  <2> QED BY ZenonT(30), <2>1, <2>2, <2>3, WaitStep
<1>2. CASE WaitScan(c, p)
  <2>0. pc' = [pc EXCEPT ![p] = pc[p]]
    BY ZenonT(30), <1>2 DEF WaitScan, SwitchInv, TypeOK
  <2>1. /\ Move(c, p, "scan") /\ pc[p] = "scan" /\ UNCHANGED <<state, context, wait_lock, tickslock>>
    BY ZenonT(30), <1>0, <1>2, <2>0 DEF WaitScan, At, table, locks, Move
  <2>2. "scan" \in WaitHeld
    BY ZenonT(30) DEF WaitHeld
  <2>3. OthersParked
    BY ZenonT(30), <2>1 DEF OthersParked
  <2> QED BY ZenonT(30), <2>1, <2>2, <2>3, WaitStep
<1>3. CASE WaitReap(c, p)
  <2>1. /\ Move(c, p, "ret") /\ pc[p] = "scan" /\ wait_lock' = FREE /\ UNCHANGED <<context, tickslock>>
    BY ZenonT(30), <1>0, <1>3 DEF WaitReap, At, Goto, Move
  <2>2. "scan" \in WaitHeld /\ "ret" \in Open
    BY ZenonT(30) DEF WaitHeld, Open
  <2>5. PICK q \in Procs : /\ plock[q] = FREE /\ state[q] = "ZOMBIE"
                           /\ state' = state \/ state' = [state EXCEPT ![q] = "UNUSED"]
    BY ZenonT(30), <1>3 DEF WaitReap, freeproc
  <2>6. /\ state'[q] = state[q] \/ state'[q] = "UNUSED"
        /\ \A r \in Procs \ {q} : state'[r] = state[r]
    BY ZenonT(30), <1>0, <2>5
  <2>7. state'[q] = state[q] \/ Parked(q)
    <3>1. "ZOMBIE" \notin Waiting /\ "UNUSED" \notin Waiting
      BY ZenonT(30) DEF Waiting
    <3>2. context[q] = "none"
      BY ZenonT(30), <2>5, <3>1 DEF SwitchInv, ContextInv
    <3> QED BY ZenonT(30), <2>1, <2>5, <2>6, <3>1, <3>2 DEF Parked
  <2>8. OthersParked
    BY ZenonT(30), <2>1, <2>6, <2>7 DEF OthersParked
  <2> QED BY ZenonT(30), <2>1, <2>2, <2>8, WaitStep
<1>4. CASE WaitTest(c, p)
  <2>1. /\ pc[p] = "scan" /\ UNCHANGED <<state, context, tickslock>>
        /\ \/ Move(c, p, "ret") /\ wait_lock' = FREE
           \/ Move(c, p, "wait_sleep") /\ UNCHANGED wait_lock
    BY ZenonT(30), <1>0, <1>4 DEF WaitTest, At, Goto, table, Move
  <2>2. "scan" \in WaitHeld /\ "wait_sleep" \in WaitHeld /\ "ret" \in Open
    BY ZenonT(30) DEF WaitHeld, Open
  <2>3. OthersParked
    BY ZenonT(30), <2>1 DEF OthersParked
  <2> QED BY ZenonT(30), <2>1, <2>2, <2>3, WaitStep
<1>5. CASE WaitSleep(c, p)
  <2>1. /\ on[c] = p /\ ~InIntr(c) /\ pc[p] = "wait_sleep" /\ plock[p] = FREE
        /\ plock' = [plock EXCEPT ![p] = c] /\ state' = [state EXCEPT ![p] = "SLEEPING"]
        /\ context' = [context EXCEPT ![p] = "slept"] /\ ret' = [ret EXCEPT ![p] = "wait_relock"]
        /\ wait_lock' = FREE /\ pc' = [pc EXCEPT ![p] = "sched"]
        /\ UNCHANGED <<tickslock, proc, on, clk, panic>>
    BY ZenonT(30), <1>5 DEF WaitSleep, sleep, At, Goto
  <2>2. /\ pc[p] \in WaitHeld /\ "SLEEPING" \in Leaving /\ "slept" \in Resuming
        /\ "wait_relock" \in Open
    BY ZenonT(30), <2>1 DEF WaitHeld, Leaving, Resuming, Open
  <2>3. pc[p] \in Quiet /\ pc[p] \notin TicksHeld
    BY ZenonT(30), <2>2, Kinds
  <2> QED BY ZenonT(30), <2>1, <2>2, <2>3, LeaveStep
<1> QED BY ZenonT(30), <1>1, <1>2, <1>3, <1>4, <1>5

\* sys_sleep() keeps the invariant.
LEMMA TicksKeeps ==
  ASSUME SwitchInv, TypeOK', NEW c \in CPUs, NEW p \in Procs,
         TicksLock(c, p) \/ TicksTest(c, p) \/ TicksSleep(c, p)
  PROVE  SwitchInv'
<1>0. panic \in {"none", "init_exiting"} /\ DOMAIN pc = Procs
  BY ZenonT(30) DEF SwitchInv, TypeOK
<1>1. CASE TicksLock(c, p)
  <2>1. /\ Move(c, p, "ticks") /\ pc[p] \in {"user", "ticks_relock"}
        /\ tickslock = FREE /\ tickslock' = c /\ UNCHANGED <<state, context, wait_lock>>
    BY ZenonT(30), <1>0, <1>1 DEF TicksLock, Syscall, At, Goto, table, frame, Move
  <2>2. pc[p] \in Open /\ "ticks" \in TicksHeld
    BY ZenonT(30), <2>1 DEF Open, TicksHeld
  <2>3. OthersParked
    BY ZenonT(30), <2>1 DEF OthersParked
  <2> QED BY ZenonT(30), <2>1, <2>2, <2>3, TicksStep
<1>2. CASE TicksTest(c, p)
  <2>1. /\ pc[p] = "ticks" /\ UNCHANGED <<state, context, wait_lock>>
        /\ \/ Move(c, p, "ret") /\ tickslock' = FREE
           \/ Move(c, p, "ticks_sleep") /\ UNCHANGED tickslock
    BY ZenonT(30), <1>0, <1>2 DEF TicksTest, At, Goto, table, frame, Move
  <2>2. "ticks" \in TicksHeld /\ "ticks_sleep" \in TicksHeld /\ "ret" \in Open
    BY ZenonT(30) DEF TicksHeld, Open
  <2>3. OthersParked
    BY ZenonT(30), <2>1 DEF OthersParked
  <2> QED BY ZenonT(30), <2>1, <2>2, <2>3, TicksStep
<1>3. CASE TicksSleep(c, p)
  <2>1. /\ on[c] = p /\ ~InIntr(c) /\ pc[p] = "ticks_sleep" /\ plock[p] = FREE
        /\ plock' = [plock EXCEPT ![p] = c] /\ state' = [state EXCEPT ![p] = "SLEEPING"]
        /\ context' = [context EXCEPT ![p] = "slept"] /\ ret' = [ret EXCEPT ![p] = "ticks_relock"]
        /\ tickslock' = FREE /\ pc' = [pc EXCEPT ![p] = "sched"]
        /\ UNCHANGED <<wait_lock, proc, on, clk, panic>>
    BY ZenonT(30), <1>3 DEF TicksSleep, sleep, At, Goto
  <2>2. /\ pc[p] \in TicksHeld /\ "SLEEPING" \in Leaving /\ "slept" \in Resuming
        /\ "ticks_relock" \in Open
    BY ZenonT(30), <2>1 DEF TicksHeld, Leaving, Resuming, Open
  <2>3. pc[p] \in Quiet /\ pc[p] \notin WaitHeld
    BY ZenonT(30), <2>2, Kinds
  <2> QED BY ZenonT(30), <2>1, <2>2, <2>3, LeaveStep
<1> QED BY ZenonT(30), <1>1, <1>2, <1>3

\* The steps that follow a swtch() keep the invariant.
LEMMA ResumeKeeps ==
  ASSUME SwitchInv, TypeOK', NEW c \in CPUs, NEW p \in Procs,
         Yielded(c, p) \/ Slept(c, p) \/ forkret(c, p)
  PROVE  SwitchInv'
<1>1. CASE Yielded(c, p) \/ Slept(c, p)
  <2>1. /\ on[c] = p /\ ~InIntr(c) /\ pc[p] \in {"yielded", "slept"}
        /\ plock' = [plock EXCEPT ![p] = FREE] /\ pc' = [pc EXCEPT ![p] = ret[p]]
        /\ ret' = [ret EXCEPT ![p] = "none"]
        /\ UNCHANGED <<state, context, wait_lock, tickslock, proc, on, clk, panic>>
    BY ZenonT(30), <1>1 DEF Yielded, Slept, At, Goto, table
  <2>2. pc[p] \in Switching \ {"sched"} /\ pc[p] \in Resuming
    BY ZenonT(30), <2>1 DEF Switching, Resuming
  <2>3. ret[p] \in Open
    BY ZenonT(30), <2>2 DEF SwitchInv, ContextInv
  <2> QED BY ZenonT(30), <2>1, <2>2, <2>3, ResumeStep
<1>2. CASE forkret(c, p)
  <2>1. /\ on[c] = p /\ ~InIntr(c) /\ pc[p] = "forkret"
        /\ plock' = [plock EXCEPT ![p] = FREE] /\ pc' = [pc EXCEPT ![p] = "user"]
        /\ UNCHANGED <<state, context, wait_lock, tickslock, proc, on, ret, clk, panic>>
    BY ZenonT(30), <1>2 DEF forkret, At, Goto, table, frame
  <2>2. pc[p] \in Switching \ {"sched"} /\ pc[p] \notin Resuming /\ "user" \in Open
    BY ZenonT(30), <2>1 DEF Switching, Resuming, Open
  <2>3. context[p] \notin Resuming
    BY ZenonT(30), <2>1 DEF SwitchInv, ContextInv
  <2>4. ret[p] = "none"
    BY ZenonT(30), <2>2, <2>3 DEF SwitchInv, ContextInv
  <2>5. ret' = [ret EXCEPT ![p] = "none"]
    BY ZenonT(30), <2>1, <2>4 DEF SwitchInv, TypeOK
  <2> QED BY ZenonT(30), <2>1, <2>2, <2>5, ResumeStep
<1> QED BY ZenonT(30), <1>1, <1>2

\* A timer interrupt on another CPU makes its process exit or yield.
LEMMA TimerKeeps == ASSUME SwitchInv, TypeOK', NEW c \in CPUs, TimerIntr(c) PROVE SwitchInv'
<1>1. PICK p \in Procs : on[c] = p /\ pc[p] \in Open /\ ~InIntr(c)
  BY ZenonT(30), OpenToInterrupts DEF TimerIntr, Interruptible
<1>2. p # NULL /\ Preempt(c) /\ UNCHANGED <<wait_lock, tickslock, proc, on, clk, panic>>
  BY ZenonT(30), Distinct DEF TimerIntr
<1>3. CASE Goto(p, "exit") /\ UNCHANGED <<state, context, plock, ret>>
  <2>1. Move(c, p, "exit") /\ "exit" \in Open
    BY ZenonT(30), <1>1, <1>2, <1>3 DEF Move, Goto, SwitchInv, Open
  <2>2. OthersParked
    BY ZenonT(30), <1>3 DEF OthersParked
  <2> QED BY ZenonT(30), <1>1, <1>2, <2>1, <2>2, OpenStep
<1>4. CASE yield(c, p)
  <2>1. PICK l \in Open : pc[p] = l
    BY ZenonT(30), <1>1
  <2>2. /\ plock[p] = FREE /\ plock' = [plock EXCEPT ![p] = c]
        /\ state' = [state EXCEPT ![p] = "RUNNABLE"] /\ context' = [context EXCEPT ![p] = "yielded"]
        /\ ret' = [ret EXCEPT ![p] = l] /\ pc' = [pc EXCEPT ![p] = "sched"]
    BY ZenonT(30), <1>4, <2>1 DEF yield, Goto
  <2>3. /\ pc[p] \in Quiet /\ pc[p] \notin WaitHeld /\ pc[p] \notin TicksHeld
        /\ "RUNNABLE" \in Leaving /\ "RUNNABLE" # "ZOMBIE" /\ "yielded" \in Resuming
    BY ZenonT(30), <1>1, Kinds DEF Leaving, Resuming
  <2> QED BY ZenonT(30), <1>1, <1>2, <2>2, <2>3, LeaveStep
<1> QED BY ZenonT(30), <1>1, <1>2, <1>3, <1>4 DEF Preempt

=============================================================================
