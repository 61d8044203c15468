-------------------------- MODULE ProcSleepProof ----------------------------
(***************************************************************************)
(* Proofs about Proc: the wake-ups of wait() and sys_sleep(), and kill().  *)
(***************************************************************************)
EXTENDS ProcFamilyProof

\* A process sleeps in wait(), or in sys_sleep().
Dozes(p) == state[p] = "SLEEPING" /\ chan[p] = p
Naps(p) == state[p] = "SLEEPING" /\ chan[p] = TICKS

\* wait() has seen no zombie below its loop index, sleeps only when there is
\* none at all, and is woken by exit() before a child becomes one; only init
\* gets zombies while it sleeps, and is then about to be woken.
WaitInv ==
  /\ \A p, q \in Procs : pc[p] = "scan" /\ parent[q] = p /\ q < idx[p] => state[q] # "ZOMBIE"
  /\ \A p, q \in Procs : pc[p] = "wait_sleep" /\ parent[q] = p => state[q] # "ZOMBIE"
  /\ \A p, q \in Procs : Dozes(p) /\ parent[q] = p => pc[q] # "exit_zombie"
  /\ \A p, q \in Procs : Dozes(p) /\ parent[q] = p /\ state[q] = "ZOMBIE" =>
       p = initproc /\ \E r \in Procs : pc[r] = "wake_init"

\* sys_sleep() sleeps with ticks left, and is woken once there are none.
TickInv ==
  /\ \A p \in Procs : pc[p] = "ticks_sleep" => left[p] > 0
  /\ \A p \in Procs : Naps(p) /\ left[p] = 0 => clk = "wake"

\* What the steps outside wait(), exit() and fork() leave alone.
WaitCalm ==
  /\ UNCHANGED <<parent, idx>>
  /\ \A q \in Procs : state'[q] = "ZOMBIE" => state[q] = "ZOMBIE"
  /\ \A q \in Procs : Dozes(q)' => Dozes(q)
  /\ \A q \in Procs : pc'[q] = pc[q] \/ (pc[q] \notin WaitHeld /\ pc'[q] \notin WaitHeld)

\* What the steps outside sys_sleep() and clockintr() leave alone.
TickCalm ==
  /\ UNCHANGED left /\ (clk = "wake" => clk' = "wake")
  /\ \A q \in Procs : Naps(q)' => Naps(q)
  /\ \A q \in Procs : pc'[q] = "ticks_sleep" => pc[q] = "ticks_sleep"

\* Such a step leaves wait() with every child it has seen, and every sleeper
\* of wait() with no ZOMBIE.
LEMMA WaitCalmKeeps == ASSUME WaitInv, WaitCalm PROVE WaitInv'
<1>1. UNCHANGED <<parent, idx>> /\ initproc' = initproc
  BY ZenonT(30) DEF WaitCalm, initproc
<1>2. \A q \in Procs : pc'[q] \in WaitHeld \/ pc[q] \in WaitHeld => pc'[q] = pc[q]
  BY ZenonT(30) DEF WaitCalm
<1>3. "scan" \in WaitHeld /\ "wait_sleep" \in WaitHeld /\ "wake_init" \in WaitHeld /\ "exit_zombie" \in WaitHeld
  BY ZenonT(30) DEF WaitHeld
<1>4. \A q \in Procs : state'[q] = "ZOMBIE" => state[q] = "ZOMBIE"
  BY ZenonT(30) DEF WaitCalm
<1>5. \A q \in Procs : Dozes(q)' => Dozes(q)
  BY ZenonT(30) DEF WaitCalm
<1>6. \A p, q \in Procs : pc'[p] = "scan" /\ parent'[q] = p /\ q < idx'[p] => state'[q] # "ZOMBIE"
  BY <1>1, <1>2, <1>3, <1>4 DEF WaitInv
<1>7. \A p, q \in Procs : pc'[p] = "wait_sleep" /\ parent'[q] = p => state'[q] # "ZOMBIE"
  BY <1>1, <1>2, <1>3, <1>4 DEF WaitInv
<1>8. \A p, q \in Procs : Dozes(p)' /\ parent'[q] = p => pc'[q] # "exit_zombie"
  BY ZenonT(30), <1>1, <1>2, <1>3, <1>5 DEF WaitInv
<1>9. \A p, q \in Procs : Dozes(p)' /\ parent'[q] = p /\ state'[q] = "ZOMBIE" =>
        p = initproc /\ \E r \in Procs : pc'[r] = "wake_init"
  BY ZenonT(30), <1>1, <1>2, <1>3, <1>4, <1>5 DEF WaitInv
<1> QED BY ZenonT(30), <1>1, <1>6, <1>7, <1>8, <1>9 DEF WaitInv

\* Such a step lets nobody sleep in sys_sleep() past its time.
LEMMA TickCalmKeeps == ASSUME TickInv, TickCalm PROVE TickInv'
<1>1. \A p \in Procs : pc'[p] = "ticks_sleep" => left'[p] > 0
  BY ZenonT(30) DEF TickInv, TickCalm
<1>2. \A p \in Procs : Naps(p)' /\ left'[p] = 0 => clk' = "wake"
  BY ZenonT(30) DEF TickInv, TickCalm
<1> QED BY ZenonT(30), <1>1, <1>2 DEF TickInv

\* The process that holds wait_lock is the only one between its acquire() and
\* its release(); so it is with tickslock.
LEMMA OneHolder ==
  ASSUME SwitchInv, NEW p \in Procs, NEW q \in Procs
  PROVE  /\ pc[p] \in WaitHeld => wait_lock # FREE
         /\ pc[p] \in WaitHeld /\ pc[q] \in WaitHeld => p = q
         /\ pc[p] \in TicksHeld => tickslock # FREE /\ clk = "idle"
<1>1. \A r \in Procs : pc[r] \in WaitHeld => \E c \in CPUs : on[c] = r /\ wait_lock = c
  <2> SUFFICES ASSUME NEW r \in Procs, pc[r] \in WaitHeld PROVE \E c \in CPUs : on[c] = r /\ wait_lock = c
    BY ZenonT(30)
  <2>1. pc[r] # "none"
    BY ZenonT(30), Kinds
  <2>2. PICK c \in CPUs : on[c] = r
    BY ZenonT(30), <2>1 DEF SwitchInv, StackInv
  <2>3. wait_lock = c
    BY ZenonT(30), <2>2, Distinct DEF SwitchInv, HeldInv
  <2> QED BY ZenonT(30), <2>2, <2>3
<1>2. pc[p] \in TicksHeld => tickslock # FREE /\ clk = "idle"
  <2> SUFFICES ASSUME pc[p] \in TicksHeld PROVE tickslock # FREE /\ clk = "idle"
    BY ZenonT(30)
  <2>1. pc[p] # "none" /\ pc[p] \notin Open
    BY ZenonT(30), Kinds
  <2>2. PICK c \in CPUs : on[c] = p
    BY ZenonT(30), <2>1 DEF SwitchInv, StackInv
  <2>3. tickslock = c
    BY ZenonT(30), <2>2, Distinct DEF SwitchInv, HeldInv
  <2>4. clk # "idle" => tickslock = 0
    <3>1. 0 \in CPUs
      BY SizesAssumption DEF CPUs
    <3> QED BY ZenonT(30), <3>1 DEF SwitchInv, HeldInv, InIntr
  <2>5. clk # "idle" => on[0] = p
    BY ZenonT(30), <2>2, <2>3, <2>4
  <2>6. clk = "idle"
    BY ZenonT(30), <2>1, <2>5, Distinct DEF SwitchInv, HeldInv
  <2> QED BY ZenonT(30), <2>3, <2>6, Distinct
<1> QED BY ZenonT(30), <1>1, <1>2, Distinct

\* What the steps outside of both leave alone; they put nobody to sleep.
Held == WaitHeld \cup TicksHeld
Restful ==
  \A q \in Procs : /\ state'[q] = "ZOMBIE" => state[q] = "ZOMBIE"
                   /\ state'[q] = "SLEEPING" => state[q] = "SLEEPING" /\ chan'[q] = chan[q]
Plain ==
  /\ UNCHANGED <<parent, idx, left>> /\ (clk' = clk \/ clk = "done") /\ Restful
  /\ \A q \in Procs : pc'[q] = pc[q] \/ (pc[q] \notin Held /\ pc'[q] \notin Held)

\* A step outside of both keeps both.
LEMMA PlainKeeps == ASSUME WaitInv, TickInv, Plain PROVE WaitInv' /\ TickInv'
<1>1. \A q \in Procs : (Dozes(q)' => Dozes(q)) /\ (Naps(q)' => Naps(q))
  BY ZenonT(30) DEF Plain, Restful, Dozes, Naps, TICKS
<1>2. \A q \in Procs : pc'[q] = pc[q] \/ (pc[q] \notin WaitHeld /\ pc'[q] \notin WaitHeld)
  BY ZenonT(30) DEF Plain, Held
<1>3. \A q \in Procs : pc'[q] = "ticks_sleep" => pc[q] = "ticks_sleep"
  BY ZenonT(30) DEF Plain, Held, TicksHeld
<1>4. WaitCalm
  BY ZenonT(30), <1>1, <1>2 DEF WaitCalm, Plain, Restful
<1>5. TickCalm
  BY ZenonT(30), <1>1, <1>3 DEF TickCalm, Plain
<1> QED BY ZenonT(30), <1>4, <1>5, WaitCalmKeeps, TickCalmKeeps

\* A process that moves from and to places where it holds no lock of the two.
LEMMA PlainMove ==
  ASSUME TypeOK, NEW p \in Procs, NEW l, pc' = [pc EXCEPT ![p] = l], pc[p] \notin Held, l \notin Held,
         UNCHANGED <<parent, idx, left>>, clk' = clk \/ clk = "done", Restful
  PROVE  Plain
<1>1. pc'[p] = l /\ \A q \in Procs \ {p} : pc'[q] = pc[q]
  BY ZenonT(30) DEF TypeOK
<1> QED BY ZenonT(30), <1>1 DEF Plain

\* scheduler(), sched() and what follows a swtch() touch neither wait() nor
\* sys_sleep().
LEMMA PlainSwitch ==
  ASSUME SwitchInv, NEW c \in CPUs, NEW p \in Procs,
         Pick(c, p) \/ Back(c) \/ sched(c, p) \/ Yielded(c, p) \/ Slept(c, p) \/ forkret(c, p)
  PROVE  Plain
<1>0. TypeOK /\ DOMAIN state = Procs /\ DOMAIN chan = Procs
  BY ZenonT(30) DEF SwitchInv, TypeOK
<1>1. CASE Pick(c, p)
  <2>1. /\ pc' = [pc EXCEPT ![p] = context[p]] /\ UNCHANGED <<parent, idx, left, clk, chan>>
        /\ state[p] = "RUNNABLE" /\ state' = [state EXCEPT ![p] = "RUNNING"]
    BY ZenonT(30), <1>1 DEF Pick, Goto, frame
  <2>2. Restful
    BY ZenonT(30), <1>0, <2>1 DEF Restful
  <2>3. context[p] \notin Held
    BY ZenonT(30), <1>0 DEF TypeOK, Held, WaitHeld, TicksHeld
  <2>4. pc[p] \notin Held
    <3>1. context[p] # "none"
      BY ZenonT(30), <2>1 DEF SwitchInv, ContextInv, Waiting
    <3>2. context[p] \in Resuming \/ context[p] = "forkret"
      BY ZenonT(30), <1>0, <3>1 DEF TypeOK, Resuming
    <3>3. pc[p] \in {"none", "sched"}
      BY ZenonT(30), <3>2 DEF SwitchInv, ContextInv
    <3> QED BY ZenonT(30), <3>3 DEF Held, WaitHeld, TicksHeld
  <2> QED BY ZenonT(30), <1>0, <2>1, <2>2, <2>3, <2>4, PlainMove
<1>2. CASE Back(c)
  BY ZenonT(30), <1>2 DEF Back, table, frame, Plain, Restful
<1>3. CASE sched(c, p)
  <2>1. /\ UNCHANGED <<state, chan, parent, idx, left, clk>> /\ pc[p] = "sched"
        /\ pc' = pc \/ pc' = [pc EXCEPT ![p] = "none"]
    BY ZenonT(30), <1>3 DEF sched, At, table, frame, Goto
  <2>2. Restful
    BY ZenonT(30), <2>1 DEF Restful
  <2>3. "none" \notin Held /\ "sched" \notin Held
    BY ZenonT(30) DEF Held, WaitHeld, TicksHeld
  <2>4. CASE pc' = pc
    BY ZenonT(30), <2>1, <2>2, <2>4 DEF Plain
  <2>5. CASE pc' = [pc EXCEPT ![p] = "none"]
    <3>1. UNCHANGED <<parent, idx, left, clk>> /\ pc[p] \notin Held
      BY ZenonT(30), <2>1, <2>3
    <3> QED BY ZenonT(30), <1>0, <2>2, <2>3, <2>5, <3>1, PlainMove
  <2> QED BY ZenonT(30), <2>1, <2>4, <2>5
<1>4. CASE Yielded(c, p) \/ Slept(c, p)
  <2>1. /\ UNCHANGED <<state, parent, idx, left, clk>> /\ pc' = [pc EXCEPT ![p] = ret[p]]
        /\ pc[p] \in Resuming /\ on[c] = p
        /\ \A q \in Procs \ {p} : chan'[q] = chan[q]
    BY ZenonT(30), <1>0, <1>4 DEF Yielded, Slept, At, Goto, table, Resuming
  <2>2. pc[p] # "sched" /\ pc[p] \notin Held
    BY ZenonT(30), <2>1 DEF Resuming, Held, WaitHeld, TicksHeld
  <2>3. state[p] = "RUNNING"
    BY ZenonT(30), <2>1, <2>2, Distinct DEF SwitchInv, StackInv
  <2>4. Restful
    BY ZenonT(30), <2>1, <2>3 DEF Restful
  <2>5. ret[p] \notin Held
    BY ZenonT(30) DEF SwitchInv, ContextInv, Open, Held, WaitHeld, TicksHeld
  <2> QED BY ZenonT(30), <1>0, <2>1, <2>2, <2>4, <2>5, PlainMove
<1>5. CASE forkret(c, p)
  <2>1. UNCHANGED <<state, chan, parent, idx, left, clk>> /\ pc' = [pc EXCEPT ![p] = "user"] /\ pc[p] = "forkret"
    BY ZenonT(30), <1>5 DEF forkret, At, table, frame, Goto
  <2>2. Restful
    BY ZenonT(30), <2>1 DEF Restful
  <2>3. "user" \notin Held /\ pc[p] \notin Held
    BY ZenonT(30), <2>1 DEF Held, WaitHeld, TicksHeld
  <2> QED BY ZenonT(30), <1>0, <2>1, <2>2, <2>3, PlainMove
<1> QED BY ZenonT(30), <1>1, <1>2, <1>3, <1>4, <1>5

\* A timer interrupt takes the CPU from a process that holds no lock.
LEMMA PlainPreempt ==
  ASSUME SwitchInv, NEW c \in CPUs, Preempt(c), UNCHANGED <<parent, idx, left, chan>>, clk' = clk \/ clk = "done",
         on[c] # NULL => pc[on[c]] \in Open
  PROVE  Plain
<1>0. TypeOK /\ DOMAIN state = Procs
  BY ZenonT(30) DEF SwitchInv, TypeOK
<1>1. CASE on[c] = NULL
  BY ZenonT(30), <1>1 DEF Preempt, Plain, Restful
<1>2. CASE on[c] # NULL
  <2>1. PICK p \in Procs : on[c] = p
    BY ZenonT(30), <1>0, <1>2 DEF TypeOK
  <2>2. pc[p] \notin Held /\ "exit" \notin Held /\ "sched" \notin Held
    BY ZenonT(30), <1>2, <2>1 DEF Open, Held, WaitHeld, TicksHeld
  <2>3. CASE Goto(p, "exit") /\ UNCHANGED state
    <3>1. Restful
      BY ZenonT(30), <2>3 DEF Restful
    <3>2. pc' = [pc EXCEPT ![p] = "exit"]
      BY ZenonT(30), <2>3 DEF Goto
    <3> QED BY ZenonT(30), <1>0, <2>2, <3>1, <3>2, PlainMove
  <2>4. CASE yield(c, p)
    <3>1. state' = [state EXCEPT ![p] = "RUNNABLE"] /\ pc' = [pc EXCEPT ![p] = "sched"]
      BY ZenonT(30), <2>4 DEF yield, Goto
    <3>2. Restful
      BY ZenonT(30), <1>0, <3>1 DEF Restful
    <3> QED BY ZenonT(30), <1>0, <2>2, <3>1, <3>2, PlainMove
  <2> QED BY ZenonT(30), <1>2, <2>1, <2>3, <2>4 DEF Preempt
<1> QED BY ZenonT(30), <1>1, <1>2

\* Entering and leaving the kernel, fork() but for its wait_lock part, and kill():
\* they wake processes at most.
LEMMA PlainKernel ==
  ASSUME SwitchInv, ForkInv, NEW c \in CPUs, NEW p \in Procs,
         \/ SyscallKilled(c, p) \/ Fault(c, p) \/ ForkFails(c, p) \/ Return(c, p)
         \/ (\E np \in Procs : Fork(c, p, np)) \/ ForkRun(c, p) \/ \E q \in Procs : Kill(c, p, q)
  PROVE  Plain
<1>0. TypeOK /\ DOMAIN state = Procs
  BY ZenonT(30) DEF SwitchInv, TypeOK
<1>1. PICK l \in {"exit", "ret", "user", "fork_parent"} : pc' = [pc EXCEPT ![p] = l]
  BY ZenonT(30) DEF SyscallKilled, Fault, ForkFails, Return, Fork, ForkRun, Kill, Goto
<1>2. pc[p] \in {"user", "ret", "fork_run"} /\ UNCHANGED <<chan, parent, idx, left, clk>>
  BY ZenonT(30) DEF SyscallKilled, Fault, ForkFails, Return, Fork, ForkRun, Kill, Syscall, At, table, frame
<1>3. pc[p] \notin Held /\ l \notin Held
  BY ZenonT(30), <1>2 DEF Held, WaitHeld, TicksHeld
<1>4. \/ UNCHANGED state
      \/ \E q : \E s \in {"USED", "RUNNABLE"} : state' = [state EXCEPT ![q] = s]
  BY ZenonT(30) DEF SyscallKilled, Fault, ForkFails, Return, Fork, ForkRun, Kill, table
<1>5. Restful
  BY ZenonT(30), <1>0, <1>2, <1>4 DEF Restful
<1> QED BY ZenonT(30), <1>0, <1>1, <1>2, <1>3, <1>5, PlainMove

\* clockintr() counts while nobody is between the test and the sleep() of
\* sys_sleep(), and wakes everybody: the process it interrupted is not asleep.
LEMMA ClockSleep ==
  ASSUME SwitchInv, WaitInv, TickInv, ClockIntr \/ ClockWake PROVE WaitInv' /\ TickInv'
<1>1. CASE ClockIntr
  <2>1. UNCHANGED <<state, chan, parent, pc, idx>> /\ tickslock = FREE /\ clk' = "wake"
    BY ZenonT(30), <1>1 DEF ClockIntr, table, frame
  <2>2. WaitCalm
    BY ZenonT(30), <2>1 DEF WaitCalm, Dozes
  <2>3. \A q \in Procs : pc[q] # "ticks_sleep"
    BY ZenonT(30), <2>1, OneHolder DEF TicksHeld
  <2>4. TickInv'
    BY ZenonT(30), <2>1, <2>3 DEF TickInv
  <2> QED BY ZenonT(30), <2>2, <2>4, WaitCalmKeeps
<1>2. CASE ClockWake
  <2>1. UNCHANGED <<chan, parent, pc, idx, left>> /\ Wake(proc[0], TICKS) /\ clk = "wake"
    BY ZenonT(30), <1>2 DEF ClockWake, frame
  <2>2. \A q \in Procs : state'[q] \in {"ZOMBIE", "SLEEPING"} => state'[q] = state[q]
    BY ZenonT(30), <2>1 DEF Wake
  <2>3. WaitCalm
    BY ZenonT(30), <2>1, <2>2 DEF WaitCalm, Dozes
  <2>4. \A q \in Procs : proc[0] = q => state[q] = "RUNNING"
    <3> SUFFICES ASSUME NEW q \in Procs, proc[0] = q PROVE state[q] = "RUNNING"
      BY ZenonT(30)
    <3>1. plock[q] # 0 /\ (on[0] # NULL => pc[on[0]] \in Open)
      BY ZenonT(30), <2>1 DEF SwitchInv, HeldInv
    <3>2. on[0] # NULL /\ proc[0] = on[0]
      BY ZenonT(30), <3>1, Distinct DEF SwitchInv, CpuInv
    <3>3. pc[q] \in Quiet
      BY ZenonT(30), <3>1, <3>2, Kinds
    <3> QED BY ZenonT(30), <3>2, <3>3, Distinct, Runs
  <2>5. \A q \in Procs : ~ Naps(q)'
    <3>1. \A q \in Procs \ {proc[0]} : state[q] = "SLEEPING" /\ chan[q] = TICKS => state'[q] = "RUNNABLE"
      BY ZenonT(30), <2>1 DEF Wake
    <3>2. \A q \in Procs : state'[q] = "SLEEPING" => state[q] = "SLEEPING"
      BY ZenonT(30), <2>2
    <3> QED BY ZenonT(30), <2>1, <2>4, <3>1, <3>2 DEF Naps, TICKS
  <2>6. TickInv'
    BY ZenonT(30), <2>1, <2>5 DEF TickInv
  <2> QED BY ZenonT(30), <2>3, <2>6, WaitCalmKeeps
<1> QED BY ZenonT(30), <1>1, <1>2

\* sys_sleep() sleeps only with ticks left: it tests them with tickslock held.
LEMMA TicksSleeps ==
  ASSUME SwitchInv, WaitInv, TickInv, NEW c \in CPUs, NEW p \in Procs,
         TicksLock(c, p) \/ TicksTest(c, p) \/ TicksSleep(c, p)
  PROVE  WaitInv' /\ TickInv'
<1>0. /\ DOMAIN state = Procs /\ DOMAIN chan = Procs /\ DOMAIN left = Procs /\ DOMAIN pc = Procs
      /\ left[p] \in 0 .. MaxSleep
  BY ZenonT(30) DEF SwitchInv, TypeOK
<1>1. CASE TicksLock(c, p) \/ TicksTest(c, p)
  <2>1. /\ on[c] = p /\ pc[p] \in {"user", "ticks_relock", "ticks"}
        /\ UNCHANGED <<state, chan, parent, idx, clk>>
    BY ZenonT(30), <1>1 DEF TicksLock, TicksTest, Syscall, At, table, frame
  <2>2. /\ pc'[p] \in {"ticks", "ret", "ticks_sleep"} /\ (pc'[p] = "ticks_sleep" => left[p] # 0 /\ left' = left)
        /\ \A q \in Procs \ {p} : pc'[q] = pc[q] /\ left'[q] = left[q]
    BY ZenonT(30), <1>0, <1>1 DEF TicksLock, TicksTest, Goto
  <2>3. WaitCalm
    BY ZenonT(30), <2>1, <2>2 DEF WaitCalm, Dozes, WaitHeld
  <2>4. state[p] = "RUNNING"
    <3>1. pc[p] \in Quiet
      BY ZenonT(30), <2>1 DEF Quiet, Open, TicksHeld
    <3> QED BY ZenonT(30), <2>1, <3>1, Runs
  <2>5. left[p] # 0 => left[p] > 0
    BY <1>0
  <2>6. \A q \in Procs : pc'[q] = "ticks_sleep" => left'[q] > 0
    BY ZenonT(30), <2>2, <2>5 DEF TickInv
  <2>7. \A q \in Procs : Naps(q)' /\ left'[q] = 0 => clk' = "wake"
    BY ZenonT(30), <2>1, <2>2, <2>4 DEF TickInv, Naps, TICKS
  <2>8. TickInv'
    BY ZenonT(30), <2>6, <2>7 DEF TickInv
  <2> QED BY ZenonT(30), <2>3, <2>8, WaitCalmKeeps
<1>2. CASE TicksSleep(c, p)
  <2>1. pc[p] = "ticks_sleep" /\ UNCHANGED <<parent, idx, clk, left>>
    BY ZenonT(30), <1>2 DEF TicksSleep, At
  <2>2. /\ pc'[p] = "sched" /\ state'[p] = "SLEEPING" /\ chan'[p] = TICKS
        /\ \A q \in Procs \ {p} : pc'[q] = pc[q] /\ state'[q] = state[q] /\ chan'[q] = chan[q]
    BY ZenonT(30), <1>0, <1>2 DEF TicksSleep, sleep, Goto
  <2>3. \A q \in Procs : Dozes(q)' => Dozes(q)
    BY ZenonT(30), <2>2, Distinct DEF Dozes
  <2>4. \A q \in Procs : pc'[q] = pc[q] \/ (pc[q] \notin WaitHeld /\ pc'[q] \notin WaitHeld)
    BY ZenonT(30), <2>1, <2>2 DEF WaitHeld
  <2>5. WaitCalm
    BY ZenonT(30), <2>1, <2>2, <2>3, <2>4 DEF WaitCalm
  <2>6. left[p] > 0 /\ left[p] # 0
    BY <1>0, <2>1 DEF TickInv
  <2>7. \A q \in Procs : pc'[q] = "ticks_sleep" => left'[q] > 0
    BY ZenonT(30), <2>1, <2>2 DEF TickInv
  <2>8. \A q \in Procs : Naps(q)' /\ left'[q] = 0 => clk' = "wake"
    BY ZenonT(30), <2>1, <2>2, <2>6 DEF TickInv, Naps, TICKS
  <2>9. TickInv'
    BY ZenonT(30), <2>7, <2>8 DEF TickInv
  <2> QED BY ZenonT(30), <2>5, <2>9, WaitCalmKeeps
<1> QED BY ZenonT(30), <1>1, <1>2

\* fork(), exit() and wait() do not touch what sys_sleep() waits for.
LEMMA FamilyTicks ==
  ASSUME SwitchInv, TickInv, NEW c \in CPUs, NEW p \in Procs,
         \/ ForkParent(c, p) \/ Exit(c, p) \/ ExitWake(c, p) \/ ExitZombie(c, p)
         \/ WaitLock(c, p) \/ WaitScan(c, p) \/ WaitReap(c, p) \/ WaitTest(c, p) \/ WaitSleep(c, p)
  PROVE  TickInv'
<1>0. TypeOK
  BY ZenonT(30) DEF SwitchInv
<1>1. UNCHANGED <<left, clk>>
  BY ZenonT(30) DEF ForkParent, Exit, ExitWake, ExitZombie, WaitLock, WaitScan, WaitReap, WaitTest, WaitSleep
<1>2. \/ UNCHANGED pc
      \/ \E l \in {"fork_run", "wake_init", "wake_parent", "exit_zombie", "sched", "scan", "ret", "wait_sleep"} :
           pc' = [pc EXCEPT ![p] = l]
  BY ZenonT(30) DEF ForkParent, Exit, ExitWake, ExitZombie, WaitLock, WaitScan, WaitReap, WaitTest, WaitSleep, sleep, Goto
<1>3. \A q \in Procs : pc'[q] = "ticks_sleep" => pc[q] = "ticks_sleep"
  BY ZenonT(30), <1>0, <1>2 DEF TypeOK
<1>4. \A q \in Procs : Naps(q)' => Naps(q)
  <2>1. CASE ForkParent(c, p) \/ Exit(c, p) \/ WaitLock(c, p) \/ WaitScan(c, p) \/ WaitTest(c, p)
    BY ZenonT(30), <2>1 DEF ForkParent, Exit, WaitLock, WaitScan, WaitTest, table, Naps, TICKS
  <2>2. CASE ExitWake(c, p)
    BY ZenonT(30), <2>2 DEF ExitWake, Wake, Naps, TICKS
  <2>3. CASE ExitZombie(c, p)
    BY ZenonT(30), <1>0, <2>3 DEF ExitZombie, TypeOK, Naps, TICKS
  <2>4. CASE WaitReap(c, p)
    <3>1. PICK z \in Procs : UNCHANGED <<state, chan>> \/ freeproc(z)
      BY ZenonT(30), <2>4 DEF WaitReap
    <3>2. CASE UNCHANGED <<state, chan>>
      BY ZenonT(30), <3>2 DEF Naps, TICKS
    <3>3. CASE freeproc(z)
      BY ZenonT(30), <1>0, <3>3 DEF freeproc, TypeOK, Naps, TICKS
    <3> QED BY ZenonT(30), <3>1, <3>2, <3>3
  <2>5. CASE WaitSleep(c, p)
    <3>1. /\ state'[p] = "SLEEPING" /\ chan'[p] = p
          /\ \A q \in Procs \ {p} : state'[q] = state[q] /\ chan'[q] = chan[q]
      BY ZenonT(30), <1>0, <2>5 DEF WaitSleep, sleep, TypeOK
    <3>2. TICKS' = TICKS
      BY ZenonT(30) DEF TICKS
    <3> QED BY ZenonT(30), <3>1, <3>2, Distinct DEF Naps
  <2> QED BY ZenonT(30), <2>1, <2>2, <2>3, <2>4, <2>5
<1>5. TickCalm
  BY ZenonT(30), <1>1, <1>3, <1>4 DEF TickCalm
<1> QED BY ZenonT(30), <1>5, TickCalmKeeps

\* A new child is no ZOMBIE.
LEMMA ForkParentWait ==
  ASSUME SwitchInv, ForkInv, WaitInv, NEW c \in CPUs, NEW p \in Procs, ForkParent(c, p)
  PROVE  WaitInv'
<1>0. DOMAIN parent = Procs /\ DOMAIN pc = Procs
  BY ZenonT(30) DEF SwitchInv, TypeOK
<1>1. on[c] = p /\ pc[p] = "fork_parent" /\ wait_lock = FREE /\ UNCHANGED <<state, chan, idx>>
  BY ZenonT(30) DEF ForkParent, At, frame
<1>2. PICK np \in Procs : child[p] = np
  <2>1. child[p] # NULL
    BY ZenonT(30), <1>1 DEF ForkInv, Reaches
  <2> QED BY ZenonT(30), <2>1 DEF SwitchInv, TypeOK
<1>3. /\ parent'[np] = p /\ pc'[p] = "fork_run"
      /\ \A q \in Procs \ {np} : parent'[q] = parent[q]
      /\ \A q \in Procs \ {p} : pc'[q] = pc[q]
  BY ZenonT(30), <1>0, <1>2 DEF ForkParent, Goto
<1>4. state[p] = "RUNNING"
  <2>1. pc[p] \in Quiet
    BY ZenonT(30), <1>1 DEF Quiet, Open
  <2> QED BY ZenonT(30), <1>1, <2>1, Runs
<1>5. \A q \in Procs : pc[q] \notin WaitHeld
  BY ZenonT(30), <1>1, OneHolder
<1>6. \A q \in Procs : pc'[q] \notin WaitHeld
  BY ZenonT(30), <1>3, <1>5 DEF WaitHeld
<1>7. \A q \in Procs : Dozes(q)' => Dozes(q) /\ q # p
  BY ZenonT(30), <1>1, <1>4 DEF Dozes
<1>8. \A q, r \in Procs : Dozes(q)' /\ parent'[r] = q => state'[r] # "ZOMBIE"
  <2> SUFFICES ASSUME NEW q \in Procs, NEW r \in Procs, Dozes(q)', parent'[r] = q, state'[r] = "ZOMBIE" PROVE FALSE
    BY ZenonT(30)
  <2>1. Dozes(q) /\ q # p
    BY ZenonT(30), <1>7
  <2>2. parent[r] = q /\ state[r] = "ZOMBIE"
    BY ZenonT(30), <1>1, <1>3, <2>1
  <2>3. \E s \in Procs : pc[s] = "wake_init"
    BY ZenonT(30), <2>1, <2>2 DEF WaitInv
  <2> QED BY ZenonT(30), <1>5, <2>3 DEF WaitHeld
<1> QED BY ZenonT(30), <1>6, <1>8 DEF WaitInv, WaitHeld

\* exit() announces the children it gives to init.
LEMMA ExitWait ==
  ASSUME SwitchInv, WaitInv, NEW c \in CPUs, NEW p \in Procs, Exit(c, p)
  PROVE  WaitInv'
<1>0. DOMAIN pc = Procs /\ DOMAIN parent = Procs
  BY ZenonT(30) DEF SwitchInv, TypeOK
<1>1. UNCHANGED <<state, chan, idx>>
  BY ZenonT(30) DEF Exit, frame
<1>2. CASE p = initproc
  <2>1. UNCHANGED <<parent, pc>>
    BY ZenonT(30), <1>2 DEF Exit
  <2>2. WaitCalm
    BY ZenonT(30), <1>1, <2>1 DEF WaitCalm, Dozes
  <2> QED BY ZenonT(30), <2>2, WaitCalmKeeps
<1>3. CASE p # initproc
  <2>1. /\ wait_lock = FREE
        /\ \A q \in Procs : parent[q] # p => parent'[q] = parent[q]
        /\ \A q \in Procs : parent[q] = p => parent'[q] = initproc /\ pc'[p] = "wake_init"
        /\ pc'[p] \in {"wake_init", "wake_parent"} /\ \A q \in Procs \ {p} : pc'[q] = pc[q]
    <3>1. wait_lock = FREE /\ parent' = [q \in Procs |-> IF parent[q] = p THEN initproc ELSE parent[q]]
      BY ZenonT(30), <1>3 DEF Exit
    <3>2. pc' = [pc EXCEPT ![p] = IF Kids(p) = {} THEN "wake_parent" ELSE "wake_init"]
      BY ZenonT(30), <1>3 DEF Exit, Goto
    <3>3. \A q \in Procs : parent[q] = p => Kids(p) # {}
      BY ZenonT(30) DEF Kids
    <3> QED BY ZenonT(30), <1>0, <3>1, <3>2, <3>3
  <2>2. \A q \in Procs : pc[q] \notin WaitHeld
    BY ZenonT(30), <2>1, OneHolder
  <2>3. \A q \in Procs : pc'[q] \notin {"scan", "wait_sleep", "exit_zombie"}
    BY ZenonT(30), <2>1, <2>2 DEF WaitHeld
  <2>4. \A q \in Procs : Dozes(q)' => Dozes(q)
    BY ZenonT(30), <1>1 DEF Dozes
  <2>5. \A q, r \in Procs : Dozes(q)' /\ parent'[r] = q /\ state'[r] = "ZOMBIE" =>
          q = initproc /\ \E s \in Procs : pc'[s] = "wake_init"
    <3> SUFFICES ASSUME NEW q \in Procs, NEW r \in Procs, Dozes(q)', parent'[r] = q, state'[r] = "ZOMBIE"
                 PROVE  q = initproc /\ \E s \in Procs : pc'[s] = "wake_init"
      BY ZenonT(30)
    <3>1. CASE parent[r] = p
      BY ZenonT(30), <2>1, <3>1
    <3>2. CASE parent[r] # p
      <4>1. Dozes(q) /\ parent[r] = q /\ state[r] = "ZOMBIE"
        BY ZenonT(30), <1>1, <2>1, <2>4, <3>2
      <4>2. \E s \in Procs : pc[s] = "wake_init"
        BY ZenonT(30), <4>1 DEF WaitInv
      <4> QED BY ZenonT(30), <2>2, <4>2 DEF WaitHeld
    <3> QED BY ZenonT(30), <3>1, <3>2
  <2>6. initproc' = initproc
    BY ZenonT(30) DEF initproc
  <2> QED BY ZenonT(30), <2>3, <2>5, <2>6 DEF WaitInv
<1> QED BY ZenonT(30), <1>2, <1>3

\* wakeup() in exit() reaches init, and the parent: neither can be the process
\* itself, which wakeup() passes over.
LEMMA ExitWakeWait ==
  ASSUME SwitchInv, KidsInv, WaitInv, NEW c \in CPUs, NEW p \in Procs, ExitWake(c, p)
  PROVE  WaitInv'
<1>0. DOMAIN pc = Procs /\ initproc' = initproc
  BY ZenonT(30) DEF SwitchInv, TypeOK, initproc
<1>1. UNCHANGED <<chan, parent, idx>> /\ \E ch : Wake(p, ch)
  BY ZenonT(30) DEF ExitWake, frame
<1>2. pc[p] \in WaitHeld /\ pc[p] \in Exiting
  BY ZenonT(30) DEF ExitWake, At, WaitHeld, Exiting
<1>3. \A q \in Procs : state'[q] \in {"ZOMBIE", "SLEEPING"} => state'[q] = state[q]
  BY ZenonT(30), <1>1 DEF Wake
<1>4. \A q \in Procs : Dozes(q)' => Dozes(q)
  BY ZenonT(30), <1>1, <1>3 DEF Dozes
<1>5. \A q \in Procs \ {p} : pc'[q] = pc[q] /\ pc[q] \notin WaitHeld
  <2>1. \A q \in Procs \ {p} : pc'[q] = pc[q]
    BY ZenonT(30), <1>0 DEF ExitWake, Goto
  <2>2. \A q \in Procs \ {p} : pc[q] \notin WaitHeld
    BY ZenonT(30), <1>2, OneHolder
  <2> QED BY ZenonT(30), <2>1, <2>2
<1>6. CASE At(c, p, "wake_init")
  <2>1. pc[p] = "wake_init" /\ pc'[p] = "wake_parent" /\ Wake(p, initproc)
    BY ZenonT(30), <1>0, <1>6 DEF ExitWake, Goto, At
  <2>2. p # initproc
    BY ZenonT(30), <1>2 DEF KidsInv
  <2>3. ~ Dozes(initproc)'
    BY ZenonT(30), <1>1, <2>1, <2>2, Distinct DEF Wake, Dozes, initproc
  <2>4. \A q \in Procs : pc'[q] \notin {"scan", "wait_sleep", "exit_zombie"}
    BY ZenonT(30), <1>5, <2>1 DEF WaitHeld
  <2>5. \A q, r \in Procs : Dozes(q)' /\ parent'[r] = q => state'[r] # "ZOMBIE"
    BY ZenonT(30), <1>1, <1>3, <1>4, <2>3 DEF WaitInv
  <2> QED BY ZenonT(30), <2>4, <2>5 DEF WaitInv
<1>7. CASE At(c, p, "wake_parent")
  <2>1. pc[p] = "wake_parent" /\ pc'[p] = "exit_zombie" /\ Wake(p, parent[p])
    BY ZenonT(30), <1>0, <1>7 DEF ExitWake, Goto, At
  <2>2. \A q \in Procs : pc'[q] \notin {"scan", "wait_sleep"} /\ (pc'[q] = "exit_zombie" => q = p)
    BY ZenonT(30), <1>5, <2>1 DEF WaitHeld
  <2>3. \A q \in Procs : parent'[p] = q => ~ Dozes(q)'
    <3> SUFFICES ASSUME NEW q \in Procs, parent[p] = q PROVE ~ Dozes(q)'
      BY ZenonT(30), <1>1
    <3>1. q # p
      BY ZenonT(30), <1>2 DEF KidsInv
    <3> QED BY ZenonT(30), <1>1, <2>1, <3>1 DEF Wake, Dozes
  <2>4. \A q, r \in Procs : Dozes(q)' /\ parent'[r] = q => pc'[r] # "exit_zombie"
    BY ZenonT(30), <2>2, <2>3
  <2>5. \A r \in Procs : pc[r] # "wake_init"
    BY ZenonT(30), <1>5, <2>1 DEF WaitHeld
  <2>6. \A q, r \in Procs : Dozes(q)' /\ parent'[r] = q => state'[r] # "ZOMBIE"
    BY ZenonT(30), <1>1, <1>3, <1>4, <2>5 DEF WaitInv
  <2> QED BY ZenonT(30), <2>2, <2>4, <2>6 DEF WaitInv
<1> QED BY ZenonT(30), <1>6, <1>7 DEF ExitWake

\* A ZOMBIE's parent is awake.
LEMMA ZombieWait ==
  ASSUME SwitchInv, WaitInv, NEW c \in CPUs, NEW p \in Procs, ExitZombie(c, p)
  PROVE  WaitInv'
<1>0. DOMAIN pc = Procs /\ DOMAIN state = Procs
  BY ZenonT(30) DEF SwitchInv, TypeOK
<1>1. pc[p] = "exit_zombie" /\ UNCHANGED <<chan, parent, idx>>
  BY ZenonT(30) DEF ExitZombie, At, frame
<1>2. /\ pc'[p] = "sched" /\ state'[p] = "ZOMBIE"
      /\ \A q \in Procs \ {p} : pc'[q] = pc[q] /\ state'[q] = state[q]
  BY ZenonT(30), <1>0 DEF ExitZombie, Goto
<1>3. \A q \in Procs \ {p} : pc[q] \notin WaitHeld
  BY ZenonT(30), <1>1, OneHolder DEF WaitHeld
<1>4. \A q \in Procs : pc'[q] \notin WaitHeld
  BY ZenonT(30), <1>2, <1>3 DEF WaitHeld
<1>5. \A q \in Procs : Dozes(q)' => Dozes(q)
  BY ZenonT(30), <1>1, <1>2 DEF Dozes
<1>6. \A r \in Procs : pc[r] # "wake_init"
  BY ZenonT(30), <1>1, <1>3 DEF WaitHeld
<1>7. \A q, r \in Procs : Dozes(q)' /\ parent'[r] = q => r # p /\ state[r] # "ZOMBIE"
  BY ZenonT(30), <1>1, <1>5, <1>6 DEF WaitInv
<1>8. \A q, r \in Procs : Dozes(q)' /\ parent'[r] = q => state'[r] # "ZOMBIE"
  BY ZenonT(30), <1>2, <1>7
<1> QED BY ZenonT(30), <1>4, <1>8 DEF WaitInv, WaitHeld

\* wait() looks at every child before it sleeps, and wait_lock keeps each of
\* them from becoming a ZOMBIE behind its back.
LEMMA WaitScans ==
  ASSUME SwitchInv, WaitInv, NEW c \in CPUs, NEW p \in Procs,
         WaitLock(c, p) \/ WaitScan(c, p) \/ WaitTest(c, p)
  PROVE  WaitInv'
<1>0. DOMAIN pc = Procs /\ DOMAIN idx = Procs /\ idx[p] \in Nat /\ initproc' = initproc /\ Procs \subseteq Nat
  <2>1. DOMAIN pc = Procs /\ DOMAIN idx = Procs /\ idx[p] \in Nat
    BY ZenonT(30), Ranges DEF SwitchInv, TypeOK
  <2>2. initproc' = initproc /\ Procs \subseteq Nat
    BY SizesAssumption DEF initproc, Procs
  <2> QED BY ZenonT(30), <2>1, <2>2
<1>1. UNCHANGED <<state, chan, parent>>
  BY ZenonT(30) DEF WaitLock, WaitScan, WaitTest, table
<1>2. \A q \in Procs : Dozes(q)' <=> Dozes(q)
  BY ZenonT(30), <1>1 DEF Dozes
<1>3. pc'[p] \in {"scan", "ret", "wait_sleep"} /\ \A q \in Procs \ {p} : pc'[q] = pc[q] /\ idx'[q] = idx[q]
  BY ZenonT(30), <1>0 DEF WaitLock, WaitScan, WaitTest, Goto, At
<1>4. pc[p] # "wake_init"
  BY ZenonT(30) DEF WaitLock, WaitScan, WaitTest, Syscall, At
<1>5. \A q, r \in Procs : Dozes(q)' /\ parent'[r] = q => pc'[r] # "exit_zombie"
  BY ZenonT(30), <1>1, <1>2, <1>3 DEF WaitInv
<1>6. \A q, r \in Procs : Dozes(q)' /\ parent'[r] = q /\ state'[r] = "ZOMBIE" =>
        q = initproc /\ \E s \in Procs : pc'[s] = "wake_init"
  BY ZenonT(30), <1>1, <1>2, <1>3, <1>4 DEF WaitInv
<1>7. \A r \in Procs : pc'[p] = "scan" /\ parent'[r] = p /\ r < idx'[p] => state'[r] # "ZOMBIE"
  <2>1. CASE WaitLock(c, p)
    <3>1. idx'[p] = 0
      BY ZenonT(30), <1>0, <2>1 DEF WaitLock
    <3> QED BY <1>0, <3>1
  <2>2. CASE WaitScan(c, p)
    <3>1. pc[p] = "scan"
      BY ZenonT(30), <2>2 DEF WaitScan, At
    <3>2. PICK k \in Procs : /\ \A r \in Kids(p) : r >= idx[p] => k <= r
                            /\ state[k] # "ZOMBIE" /\ idx' = [idx EXCEPT ![p] = k + 1]
      BY ZenonT(30), <2>2 DEF WaitScan, NextKid
    <3>3. idx'[p] = k + 1
      BY ZenonT(30), <1>0, <3>2
    <3>4. ASSUME NEW r \in Procs, parent[r] = p, r < k + 1 PROVE r < idx[p] \/ r = k
      <4>1. r \in Nat /\ k \in Nat /\ r \in Kids(p)
        BY ZenonT(30), <1>0, <3>4 DEF Kids
      <4>2. r >= idx[p] => k <= r
        BY ZenonT(30), <3>2, <4>1
      <4> QED BY <1>0, <3>4, <4>1, <4>2
    <3> QED BY ZenonT(30), <1>1, <3>1, <3>2, <3>3, <3>4 DEF WaitInv
  <2>3. CASE WaitTest(c, p)
    BY ZenonT(30), <1>0, <2>3 DEF WaitTest, Goto
  <2> QED BY ZenonT(30), <2>1, <2>2, <2>3
<1>8. \A r \in Procs : pc'[p] = "wait_sleep" /\ parent'[r] = p => state'[r] # "ZOMBIE"
  <2>1. CASE WaitLock(c, p) \/ WaitScan(c, p)
    BY ZenonT(30), <1>0, <2>1 DEF WaitLock, WaitScan, Goto, At
  <2>2. CASE WaitTest(c, p)
    <3>1. pc[p] = "scan" /\ \A r \in Procs : parent[r] = p => r < idx[p]
      BY ZenonT(30), <2>2 DEF WaitTest, At, Kids
    <3> QED BY ZenonT(30), <1>1, <3>1 DEF WaitInv
  <2> QED BY ZenonT(30), <2>1, <2>2
<1>9. \A q, r \in Procs : pc'[q] = "scan" /\ parent'[r] = q /\ r < idx'[q] => state'[r] # "ZOMBIE"
  BY <1>1, <1>3, <1>7 DEF WaitInv
<1>10. \A q, r \in Procs : pc'[q] = "wait_sleep" /\ parent'[r] = q => state'[r] # "ZOMBIE"
  BY <1>1, <1>3, <1>8 DEF WaitInv
<1> QED BY ZenonT(30), <1>0, <1>5, <1>6, <1>9, <1>10 DEF WaitInv

\* wait() returns with a ZOMBIE freed, or sleeps with none there.
LEMMA WaitEnds ==
  ASSUME SwitchInv, WaitInv, NEW c \in CPUs, NEW p \in Procs, WaitReap(c, p) \/ WaitSleep(c, p)
  PROVE  WaitInv'
<1>0. /\ DOMAIN pc = Procs /\ DOMAIN state = Procs /\ DOMAIN parent = Procs /\ DOMAIN chan = Procs
      /\ initproc' = initproc /\ idx[p] \in Nat
  BY ZenonT(30), Ranges DEF SwitchInv, TypeOK, initproc
<1>1. pc[p] \in {"scan", "wait_sleep"}
  BY ZenonT(30) DEF WaitReap, WaitSleep, At
<1>2. pc'[p] \in {"ret", "sched"} /\ \A q \in Procs \ {p} : pc'[q] = pc[q]
  BY ZenonT(30), <1>0 DEF WaitReap, WaitSleep, sleep, Goto
<1>3. \A q \in Procs \ {p} : pc[q] \notin WaitHeld
  BY ZenonT(30), <1>1, OneHolder DEF WaitHeld
<1>4. \A q \in Procs : pc'[q] \notin WaitHeld /\ pc[q] \notin Exiting
  BY ZenonT(30), <1>1, <1>2, <1>3 DEF WaitHeld, Exiting
<1>5. CASE WaitReap(c, p)
  <2>1. PICK z \in Procs : freeproc(z) \/ UNCHANGED <<state, chan, parent>>
    BY ZenonT(30), <1>5 DEF WaitReap
  <2>2. \A q \in Procs : state'[q] = "SLEEPING" => state[q] = "SLEEPING" /\ chan'[q] = chan[q]
    BY ZenonT(30), <1>0, <2>1 DEF freeproc
  <2>3. \A q \in Procs : state'[q] = "ZOMBIE" => state[q] = "ZOMBIE" /\ parent'[q] = parent[q]
    BY ZenonT(30), <1>0, <2>1 DEF freeproc
  <2>4. \A q, r \in Procs : Dozes(q)' /\ parent'[r] = q /\ state'[r] = "ZOMBIE" =>
          Dozes(q) /\ parent[r] = q /\ state[r] = "ZOMBIE"
    BY ZenonT(30), <2>2, <2>3 DEF Dozes
  <2>5. \A q, r \in Procs : Dozes(q)' /\ parent'[r] = q => state'[r] # "ZOMBIE"
    BY <1>4, <2>4 DEF WaitInv, Exiting
  <2> QED BY ZenonT(30), <1>4, <2>5 DEF WaitInv, WaitHeld
<1>6. CASE WaitSleep(c, p)
  <2>1. /\ pc[p] = "wait_sleep" /\ UNCHANGED parent /\ state'[p] = "SLEEPING"
        /\ \A q \in Procs \ {p} : state'[q] = state[q] /\ chan'[q] = chan[q]
    BY ZenonT(30), <1>0, <1>6 DEF WaitSleep, sleep, At
  <2>2. \A q \in Procs : Dozes(q)' => Dozes(q) \/ q = p
    BY ZenonT(30), <2>1 DEF Dozes
  <2>3. \A r \in Procs : parent[r] = p => state[r] # "ZOMBIE"
    BY ZenonT(30), <2>1 DEF WaitInv
  <2>4. \A q, r \in Procs : Dozes(q) /\ parent[r] = q => state[r] # "ZOMBIE"
    BY ZenonT(30), <1>4 DEF WaitInv, Exiting
  <2>5. \A q, r \in Procs : Dozes(q)' /\ parent'[r] = q => state'[r] # "ZOMBIE"
    BY ZenonT(30), <2>1, <2>2, <2>3, <2>4
  <2> QED BY ZenonT(30), <1>4, <2>5 DEF WaitInv, WaitHeld
<1> QED BY ZenonT(30), <1>5, <1>6

\* The inductive invariant of sleep() and wakeup().
SleepInv == FamilyInv /\ WaitInv /\ TickInv

\* Initially nobody sleeps.
LEMMA InitSleep == Init => WaitInv /\ TickInv
<1> SUFFICES ASSUME Init PROVE WaitInv /\ TickInv
  BY ZenonT(30)
<1>1. \A q \in Procs : pc[q] = "none" /\ state[q] \in {"RUNNABLE", "UNUSED"}
  BY ZenonT(30) DEF Init
<1> QED BY ZenonT(30), <1>1 DEF WaitInv, TickInv, Dozes, Naps

\* Every step keeps it.
LEMMA NextSleep == ASSUME FamilyInv, WaitInv, TickInv, Next PROVE WaitInv' /\ TickInv'
<1>0. SwitchInv /\ ForkInv /\ KidsInv
  BY ZenonT(30) DEF FamilyInv
<1>1. CASE UNCHANGED vars
  BY ZenonT(30), <1>1 DEF vars, WaitInv, TickInv, Dozes, Naps, TICKS, initproc
<1>2. CASE ClockIntr \/ ClockWake
  BY ZenonT(30), <1>0, <1>2, ClockSleep
<1>3. CASE ClockDone
  <2>1. clk = "done" /\ Preempt(0) /\ UNCHANGED <<parent, idx, left, chan>>
    BY ZenonT(30), <1>3 DEF ClockDone
  <2>2. on[0] # NULL => pc[on[0]] \in Open
    BY ZenonT(30), <1>0, <2>1 DEF SwitchInv, HeldInv
  <2>3. Plain
    BY ZenonT(30), <1>0, <2>1, <2>2, Distinct, PlainPreempt
  <2> QED BY ZenonT(30), <2>3, PlainKeeps
<1>4. ASSUME NEW c \in CPUs, TimerIntr(c) PROVE WaitInv' /\ TickInv'
  <2>1. Interruptible(c) /\ Preempt(c) /\ UNCHANGED <<parent, idx, left, chan, clk>>
    BY ZenonT(30), <1>4 DEF TimerIntr
  <2>2. on[c] # NULL => pc[on[c]] \in Open
    BY ZenonT(30), <1>0, <2>1, OpenToInterrupts
  <2>3. Plain
    BY ZenonT(30), <1>0, <2>1, <2>2, PlainPreempt
  <2> QED BY ZenonT(30), <2>3, PlainKeeps
<1>5. ASSUME NEW c \in CPUs, NEW p \in Procs,
             Back(c) \/ Pick(c, p) \/ sched(c, p) \/ Yielded(c, p) \/ Slept(c, p) \/ forkret(c, p)
      PROVE  WaitInv' /\ TickInv'
  BY ZenonT(30), <1>0, <1>5, PlainSwitch, PlainKeeps
<1>6. ASSUME NEW c \in CPUs, NEW p \in Procs,
             \/ SyscallKilled(c, p) \/ Fault(c, p) \/ ForkFails(c, p) \/ Return(c, p)
             \/ (\E np \in Procs : Fork(c, p, np)) \/ ForkRun(c, p) \/ \E q \in Procs : Kill(c, p, q)
      PROVE  WaitInv' /\ TickInv'
  <2>1. Plain
    BY ZenonT(30), <1>0, <1>6, PlainKernel
  <2> QED BY ZenonT(30), <2>1, PlainKeeps
<1>7. ASSUME NEW c \in CPUs, NEW p \in Procs, TicksLock(c, p) \/ TicksTest(c, p) \/ TicksSleep(c, p)
      PROVE  WaitInv' /\ TickInv'
  BY ZenonT(30), <1>0, <1>7, TicksSleeps
<1>8. ASSUME NEW c \in CPUs, NEW p \in Procs,
             \/ ForkParent(c, p) \/ Exit(c, p) \/ ExitWake(c, p) \/ ExitZombie(c, p)
             \/ WaitLock(c, p) \/ WaitScan(c, p) \/ WaitReap(c, p) \/ WaitTest(c, p) \/ WaitSleep(c, p)
      PROVE  WaitInv' /\ TickInv'
  <2>1. TickInv'
    BY ZenonT(30), <1>0, <1>8, FamilyTicks
  <2>2. WaitInv'
    BY ZenonT(30), <1>0, <1>8, ForkParentWait, ExitWait, ExitWakeWait, ZombieWait, WaitScans, WaitEnds
  <2> QED BY ZenonT(30), <2>1, <2>2
<1> QED BY ZenonT(30), <1>1, <1>2, <1>3, <1>4, <1>5, <1>6, <1>7, <1>8, Steps, Distinct

\* sleep() and wakeup() of proc.c stay consistent with the locks they are used under.
THEOREM SleepInvariant == Spec => []SleepInv
<1>1. Init => WaitInv /\ TickInv
  BY ZenonT(30), InitSleep
<1>2. FamilyInv /\ WaitInv /\ TickInv /\ [Next]_vars => WaitInv' /\ TickInv'
  <2> SUFFICES ASSUME FamilyInv, WaitInv, TickInv, [Next]_vars PROVE WaitInv' /\ TickInv'
    BY ZenonT(30)
  <2>1. CASE Next
    BY ZenonT(30), <2>1, NextSleep
  <2>2. CASE UNCHANGED vars
    BY ZenonT(30), <2>2 DEF vars, WaitInv, TickInv, Dozes, Naps, TICKS, initproc
  <2> QED BY ZenonT(30), <2>1, <2>2
<1>3. Spec => [](WaitInv /\ TickInv)
  BY <1>1, <1>2, FamilyInvariant, PTL DEF Spec
<1>4. FamilyInv /\ WaitInv /\ TickInv => SleepInv
  BY DEF SleepInv
<1> QED BY <1>3, <1>4, FamilyInvariant, PTL

\* No wakeup is lost: while wait_lock is free nobody sleeps in wait() with a
\* child that is a ZOMBIE, and while tickslock is free nobody sleeps in
\* sys_sleep() with no ticks left.
THEOREM WakeupsArrive == Spec => []NoWakeupLost
<1>1. SleepInv => NoWakeupLost
  <2> SUFFICES ASSUME SleepInv PROVE NoWakeupLost
    BY ZenonT(30)
  <2>0. SwitchInv /\ WaitInv /\ TickInv
    BY ZenonT(30) DEF SleepInv, FamilyInv
  <2>1. NoZombieMissed
    <3> SUFFICES ASSUME wait_lock = FREE, NEW p \in Procs, NEW q \in Procs, Dozes(p), parent[q] = p
                 PROVE  state[q] # "ZOMBIE"
      BY ZenonT(30) DEF NoZombieMissed, Dozes
    <3>1. \A r \in Procs : pc[r] \notin WaitHeld
      BY ZenonT(30), <2>0, OneHolder
    <3> QED BY ZenonT(30), <2>0, <3>1 DEF WaitInv, WaitHeld
  <2>2. NoTickMissed
    <3> SUFFICES ASSUME tickslock = FREE, NEW p \in Procs, Naps(p) PROVE left[p] > 0
      BY ZenonT(30) DEF NoTickMissed, Naps
    <3>1. clk = "idle"
      BY ZenonT(30), <2>0, Distinct DEF SwitchInv, HeldInv, InIntr
    <3>2. left[p] # 0 /\ left[p] \in 0 .. MaxSleep
      BY ZenonT(30), <2>0, <3>1 DEF TickInv, SwitchInv, TypeOK
    <3> QED BY <3>2
  <2> QED BY <2>1, <2>2 DEF NoWakeupLost
<1> QED BY <1>1, SleepInvariant, PTL

-----------------------------------------------------------------------------
(* kill().                                                                 *)

\* The killed flag of a slot is set only when somebody meant its process.
KillInv == TypeOK /\ \A p \in Procs : killed[p] => asked[p]

\* As long as no program calls kill(0), which finds UNUSED slots, nobody is
\* killed by a flag that an earlier process of the slot left behind.
THEOREM OnlyVictimsKilled == ASSUME ~ KillZero PROVE Spec => []KilledOnPurpose
<1>1. Init => KillInv
  <2>1. Init => TypeOK
    BY ZenonT(30), InitSwitchInv DEF SwitchInv
  <2> QED BY ZenonT(30), <2>1 DEF Init, KillInv
<1>2. KillInv /\ [Next]_vars => KillInv'
  <2> SUFFICES ASSUME KillInv, [Next]_vars PROVE KillInv'
    BY ZenonT(30)
  <2>0. TypeOK /\ TypeOK' /\ DOMAIN killed = Procs /\ DOMAIN asked = Procs
    BY ZenonT(30), NextTypes DEF KillInv, TypeOK
  <2>1. \/ UNCHANGED <<killed, asked>>
        \/ \E q \in Procs : killed' = [killed EXCEPT ![q] = FALSE] /\ UNCHANGED asked
        \/ \E q : killed' = [killed EXCEPT ![q] = FALSE] /\ asked' = [asked EXCEPT ![q] = FALSE]
        \/ \E q \in Procs : killed' = [killed EXCEPT ![q] = TRUE] /\ asked' = [asked EXCEPT ![q] = TRUE]
    <3>1. CASE UNCHANGED vars
      BY ZenonT(30), <3>1 DEF vars
    <3>2. CASE ClockIntr \/ ClockWake \/ ClockDone \/ \E c \in CPUs : Back(c) \/ TimerIntr(c)
      BY ZenonT(30), <3>2 DEF ClockIntr, ClockWake, ClockDone, Back, TimerIntr, table
    <3>3. ASSUME NEW c \in CPUs, NEW p \in Procs,
                 \/ Pick(c, p) \/ sched(c, p) \/ Yielded(c, p) \/ Slept(c, p) \/ forkret(c, p)
                 \/ SyscallKilled(c, p) \/ Return(c, p)
                 \/ (\E np \in Procs : Fork(c, p, np)) \/ ForkParent(c, p) \/ ForkRun(c, p)
          PROVE  UNCHANGED <<killed, asked>>
      BY ZenonT(30), <3>3 DEF Pick, sched, Yielded, Slept, forkret, SyscallKilled, Return, Fork, ForkParent, ForkRun, table
    <3>4. ASSUME NEW c \in CPUs, NEW p \in Procs,
                 \/ Exit(c, p) \/ ExitWake(c, p) \/ ExitZombie(c, p)
                 \/ WaitLock(c, p) \/ WaitScan(c, p) \/ WaitTest(c, p) \/ WaitSleep(c, p)
                 \/ TicksLock(c, p) \/ TicksTest(c, p) \/ TicksSleep(c, p)
          PROVE  UNCHANGED <<killed, asked>>
      BY ZenonT(30), <3>4 DEF Exit, ExitWake, ExitZombie, WaitLock, WaitScan, WaitTest, WaitSleep, TicksLock, TicksTest,
                  TicksSleep, table
    <3>5. ASSUME NEW c \in CPUs, NEW p \in Procs, ForkFails(c, p) \/ WaitReap(c, p) \/ Fault(c, p)
          PROVE  \/ UNCHANGED <<killed, asked>>
                 \/ \E q \in Procs : killed' = [killed EXCEPT ![q] = FALSE] /\ UNCHANGED asked
                 \/ \E q : killed' = [killed EXCEPT ![q] = FALSE] /\ asked' = [asked EXCEPT ![q] = FALSE]
                 \/ \E q \in Procs : killed' = [killed EXCEPT ![q] = TRUE] /\ asked' = [asked EXCEPT ![q] = TRUE]
      BY ZenonT(30), <3>5 DEF ForkFails, WaitReap, Fault, freeproc
    <3>6. ASSUME NEW c \in CPUs, NEW p \in Procs, NEW q \in Procs, Kill(c, p, q)
          PROVE  killed' = [killed EXCEPT ![q] = TRUE] /\ asked' = [asked EXCEPT ![q] = TRUE]
      BY ZenonT(30), <3>6 DEF Kill
    <3> QED BY ZenonT(30), <3>1, <3>2, <3>3, <3>4, <3>5, <3>6, Steps
  <2>2. \A p \in Procs : killed'[p] => asked'[p]
    BY ZenonT(30), <2>0, <2>1 DEF KillInv
  <2> QED BY ZenonT(30), <2>0, <2>2 DEF KillInv
<1>3. KillInv => KilledOnPurpose
  BY DEF KillInv, KilledOnPurpose
<1> QED BY <1>1, <1>2, <1>3, PTL DEF Spec

=============================================================================
