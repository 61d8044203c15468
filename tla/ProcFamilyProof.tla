-------------------------- MODULE ProcFamilyProof ---------------------------
(***************************************************************************)
(* Proofs about Proc: the tree of parents that fork(), exit() and wait()   *)
(* keep, and with it the switching of every step.                          *)
(***************************************************************************)
EXTENDS ProcSwitchProof

\* A process is at a place of the kernel, or comes back to it from yield().
Reaches(p, l) == pc[p] = l \/ ret[p] = l

\* The slot that fork() has taken is USED until fork() makes it RUNNABLE, it
\* belongs to one fork(), and has its parent before it can run.
ForkInv ==
  /\ \A p \in Procs : child[p] # NULL => state[child[p]] = "USED"
  /\ \A p, q \in Procs : child[p] = child[q] /\ child[p] # NULL => p = q
  /\ \A p \in Procs : Reaches(p, "fork_parent") => child[p] # NULL
  /\ \A p \in Procs : Reaches(p, "fork_run") => child[p] # NULL /\ parent[child[p]] = p

Alive == {"SLEEPING", "RUNNABLE", "RUNNING"}
Exiting == {"wake_init", "wake_parent", "exit_zombie"}

\* A parent is alive and has not given its children away, and every process
\* but init has one.
KidsInv ==
  /\ state[initproc] \in Alive
  /\ pc[initproc] \notin Exiting
  /\ \A p, q \in Procs : parent[q] = p => state[p] \in Alive /\ pc[p] \notin Exiting
  /\ \A q \in Procs \ {initproc} : state[q] \in Alive \cup {"ZOMBIE"} => parent[q] # NULL

\* What most steps leave as it is: who is alive, whose child is whose, how far
\* fork() and exit() are.
StayAlive == \A q \in Procs : state'[q] = state[q] \/ (state[q] \in Alive /\ state'[q] \in Alive)
Calm ==
  /\ UNCHANGED <<parent, child>> /\ StayAlive
  /\ \A q \in Procs : Reaches(q, "fork_parent")' => Reaches(q, "fork_parent")
  /\ \A q \in Procs : Reaches(q, "fork_run")' => Reaches(q, "fork_run")
  /\ \A q \in Procs : pc'[q] \in Exiting => pc[q] \in Exiting

\* Such a step keeps the two invariants of the family.
LEMMA CalmKeeps == ASSUME TypeOK, ForkInv, KidsInv, Calm PROVE ForkInv' /\ KidsInv'
<1>1. UNCHANGED <<parent, child>>
  BY ZenonT(30) DEF Calm
<1>2. \A q \in Procs : state[q] = "USED" => state'[q] = "USED"
  BY ZenonT(30) DEF Calm, StayAlive, Alive
<1>3. \A q \in Procs : child[q] # NULL => child[q] \in Procs
  BY ZenonT(30) DEF TypeOK
<1>4. \A q \in Procs : child'[q] # NULL => state'[child'[q]] = "USED"
  BY ZenonT(30), <1>1, <1>2, <1>3 DEF ForkInv
<1>5. \A q, r \in Procs : child'[q] = child'[r] /\ child'[q] # NULL => q = r
  BY ZenonT(30), <1>1 DEF ForkInv
<1>6. \A q \in Procs : Reaches(q, "fork_parent")' => child'[q] # NULL
  <2>1. \A q \in Procs : Reaches(q, "fork_parent")' => child[q] # NULL
    BY ZenonT(30) DEF Calm, ForkInv
  <2> QED BY ZenonT(30), <1>1, <2>1
<1>7. \A q \in Procs : Reaches(q, "fork_run")' => child'[q] # NULL /\ parent'[child'[q]] = q
  <2>1. \A q \in Procs : Reaches(q, "fork_run")' => child[q] # NULL /\ parent[child[q]] = q
    BY ZenonT(30) DEF Calm, ForkInv
  <2> QED BY ZenonT(30), <1>1, <2>1
<1>8. ForkInv'
  BY ZenonT(30), <1>4, <1>5, <1>6, <1>7 DEF ForkInv
<1>9. \A q \in Procs : state[q] \in Alive => state'[q] \in Alive
  BY ZenonT(30) DEF Calm, StayAlive
<1>10. \A q \in Procs : state'[q] \in Alive \cup {"ZOMBIE"} => state[q] \in Alive \cup {"ZOMBIE"}
  BY ZenonT(30) DEF Calm, StayAlive
<1>11. \A q \in Procs : pc[q] \notin Exiting => pc'[q] \notin Exiting
  BY ZenonT(30) DEF Calm
<1>12. state'[initproc] \in Alive /\ pc'[initproc] \notin Exiting
  BY ZenonT(30), <1>9, <1>11, Distinct DEF KidsInv
<1>13. \A q, r \in Procs : parent'[r] = q => state'[q] \in Alive /\ pc'[q] \notin Exiting
  BY ZenonT(30), <1>1, <1>9, <1>11 DEF KidsInv
<1>14. \A q \in Procs \ {initproc} : state'[q] \in Alive \cup {"ZOMBIE"} => parent'[q] # NULL
  BY ZenonT(30), <1>1, <1>10 DEF KidsInv
<1>15. initproc' = initproc
  BY ZenonT(30) DEF initproc
<1> QED BY ZenonT(30), <1>8, <1>12, <1>13, <1>14, <1>15 DEF KidsInv

\* A step of a process to a place where it is neither forking nor exiting.
LEMMA CalmMove ==
  ASSUME TypeOK, NEW p \in Procs, NEW l, pc' = [pc EXCEPT ![p] = l], UNCHANGED <<parent, child>>, StayAlive,
         l \notin {"fork_parent", "fork_run"}, l \in Exiting => pc[p] \in Exiting,
         \A q \in Procs \ {p} : ret'[q] = ret[q],
         ret'[p] \in {"none", ret[p], pc[p], "wait_relock", "ticks_relock"}
  PROVE  Calm
<1>1. pc'[p] = l /\ \A q \in Procs \ {p} : pc'[q] = pc[q]
  BY ZenonT(30) DEF TypeOK
<1>2. \A q \in Procs : Reaches(q, "fork_parent")' => Reaches(q, "fork_parent")
  BY ZenonT(30), <1>1 DEF Reaches
<1>3. \A q \in Procs : Reaches(q, "fork_run")' => Reaches(q, "fork_run")
  BY ZenonT(30), <1>1 DEF Reaches
<1> QED BY ZenonT(30), <1>1, <1>2, <1>3 DEF Calm

\* A step that moves no process.
LEMMA CalmStill ==
  ASSUME UNCHANGED <<pc, ret, parent, child>>, StayAlive
  PROVE  Calm
BY ZenonT(30) DEF Calm, Reaches

\* wakeup() makes sleepers RUNNABLE.
LEMMA WakeAlive == ASSUME NEW p, NEW ch, Wake(p, ch) PROVE StayAlive
BY ZenonT(30) DEF Wake, StayAlive, Alive

\* Leaving the CPU by sleep() or yield() keeps a process alive.
LEMMA LeaveAlive ==
  ASSUME SwitchInv, NEW c \in CPUs, NEW p \in Procs, on[c] = p, pc[p] # "sched",
         NEW s \in {"SLEEPING", "RUNNABLE"}, state' = [state EXCEPT ![p] = s]
  PROVE  StayAlive
<1>1. state[p] = "RUNNING"
  BY ZenonT(30), Distinct DEF SwitchInv, StackInv
<1>2. state'[p] = s /\ \A q \in Procs \ {p} : state'[q] = state[q]
  BY ZenonT(30) DEF SwitchInv, TypeOK
<1> QED BY ZenonT(30), <1>1, <1>2 DEF StayAlive, Alive

\* Switching is calm.
LEMMA SwitchCalm ==
  ASSUME SwitchInv, NEW c \in CPUs, NEW p \in Procs,
         Pick(c, p) \/ Back(c) \/ sched(c, p) \/ Yielded(c, p) \/ Slept(c, p) \/ forkret(c, p)
  PROVE  Calm
<1>0. TypeOK /\ DOMAIN state = Procs /\ DOMAIN ret = Procs
  BY ZenonT(30) DEF SwitchInv, TypeOK
<1>1. CASE Pick(c, p)
  <2>1. /\ pc' = [pc EXCEPT ![p] = context[p]] /\ UNCHANGED <<parent, child, ret>>
        /\ state[p] = "RUNNABLE" /\ state' = [state EXCEPT ![p] = "RUNNING"]
    BY ZenonT(30), <1>1 DEF Pick, Goto, frame
  <2>2. StayAlive
    BY ZenonT(30), <1>0, <2>1 DEF StayAlive, Alive
  <2>3. context[p] \notin {"fork_parent", "fork_run"} /\ context[p] \notin Exiting
    BY ZenonT(30), <1>0 DEF TypeOK, Exiting
  <2> QED BY ZenonT(30), <1>0, <2>1, <2>2, <2>3, CalmMove
<1>2. CASE Back(c)
  <2>1. UNCHANGED <<state, pc, ret, parent, child>>
    BY ZenonT(30), <1>2 DEF Back, table, frame
  <2>2. StayAlive
    BY ZenonT(30), <2>1 DEF StayAlive
  <2> QED BY ZenonT(30), <2>1, <2>2, CalmStill
<1>3. CASE sched(c, p)
  <2>1. UNCHANGED <<state, ret, parent, child>> /\ (pc' = pc \/ pc' = [pc EXCEPT ![p] = "none"])
    BY ZenonT(30), <1>3 DEF sched, table, frame, Goto
  <2>2. StayAlive
    BY ZenonT(30), <2>1 DEF StayAlive
  <2>3. "none" \notin Exiting
    BY ZenonT(30) DEF Exiting
  <2>4. CASE pc' = pc
    BY ZenonT(30), <2>1, <2>2, <2>4, CalmStill
  <2>5. CASE pc' = [pc EXCEPT ![p] = "none"]
    <3>1. UNCHANGED <<ret, parent, child>> /\ "none" \notin {"fork_parent", "fork_run"}
      BY ZenonT(30), <2>1
    <3> QED BY ZenonT(30), <1>0, <2>2, <2>3, <2>5, <3>1, CalmMove
  <2> QED BY ZenonT(30), <2>1, <2>4, <2>5
<1>4. CASE Yielded(c, p) \/ Slept(c, p)
  <2>1. /\ UNCHANGED <<state, parent, child>> /\ pc' = [pc EXCEPT ![p] = ret[p]]
        /\ ret' = [ret EXCEPT ![p] = "none"] /\ pc[p] \in Resuming
    BY ZenonT(30), <1>4 DEF Yielded, Slept, At, Goto, table, Resuming
  <2>2. StayAlive
    BY ZenonT(30), <2>1 DEF StayAlive
  <2>3. ret[p] \notin Exiting
    BY ZenonT(30) DEF SwitchInv, ContextInv, Open, Exiting
  <2>4. /\ pc'[p] = ret[p] /\ ret'[p] = "none"
        /\ \A q \in Procs \ {p} : pc'[q] = pc[q] /\ ret'[q] = ret[q]
    BY ZenonT(30), <1>0, <2>1 DEF TypeOK
  <2>5. \A q \in Procs : Reaches(q, "fork_parent")' => Reaches(q, "fork_parent")
    BY ZenonT(30), <2>4 DEF Reaches
  <2>6. \A q \in Procs : Reaches(q, "fork_run")' => Reaches(q, "fork_run")
    BY ZenonT(30), <2>4 DEF Reaches
  <2> QED BY ZenonT(30), <2>1, <2>2, <2>3, <2>4, <2>5, <2>6 DEF Calm
<1>5. CASE forkret(c, p)
  <2>1. UNCHANGED <<state, ret, parent, child>> /\ pc' = [pc EXCEPT ![p] = "user"]
    BY ZenonT(30), <1>5 DEF forkret, table, frame, Goto
  <2>2. StayAlive
    BY ZenonT(30), <2>1 DEF StayAlive
  <2>3. "user" \notin Exiting
    BY ZenonT(30) DEF Exiting
  <2> QED BY ZenonT(30), <1>0, <2>1, <2>2, <2>3, CalmMove
<1> QED BY ZenonT(30), <1>1, <1>2, <1>3, <1>4, <1>5

\* A timer interrupt is calm.
LEMMA PreemptCalm ==
  ASSUME SwitchInv, NEW c \in CPUs, Preempt(c), UNCHANGED <<parent, child, on>>,
         on[c] # NULL => pc[on[c]] # "sched"
  PROVE  Calm
<1>0. TypeOK /\ DOMAIN state = Procs /\ DOMAIN ret = Procs
  BY ZenonT(30) DEF SwitchInv, TypeOK
<1>1. CASE on[c] = NULL
  <2>1. UNCHANGED <<state, pc, ret>>
    BY ZenonT(30), <1>1 DEF Preempt
  <2>2. StayAlive
    BY ZenonT(30), <2>1 DEF StayAlive
  <2> QED BY ZenonT(30), <2>1, <2>2, CalmStill
<1>2. CASE on[c] # NULL
  <2>1. PICK p \in Procs : on[c] = p
    BY ZenonT(30), <1>0, <1>2 DEF TypeOK
  <2>2. CASE Goto(p, "exit") /\ UNCHANGED <<state, ret>>
    <3>1. StayAlive
      BY ZenonT(30), <2>2 DEF StayAlive
    <3>2. "exit" \notin Exiting /\ pc' = [pc EXCEPT ![p] = "exit"]
      BY ZenonT(30), <2>2 DEF Exiting, Goto
    <3> QED BY ZenonT(30), <1>0, <2>2, <3>1, <3>2, CalmMove
  <2>3. CASE yield(c, p)
    <3>1. /\ state' = [state EXCEPT ![p] = "RUNNABLE"] /\ pc' = [pc EXCEPT ![p] = "sched"]
          /\ ret' = [ret EXCEPT ![p] = pc[p]]
      BY ZenonT(30), <2>3 DEF yield, Goto
    <3>2. StayAlive
      BY ZenonT(30), <1>2, <2>1, <3>1, LeaveAlive
    <3>3. "sched" \notin Exiting
      BY ZenonT(30) DEF Exiting
    <3>4. ret'[p] = pc[p] /\ \A q \in Procs \ {p} : ret'[q] = ret[q]
      BY ZenonT(30), <1>0, <3>1
    <3> QED BY ZenonT(30), <1>0, <3>1, <3>2, <3>3, <3>4, CalmMove
  <2> QED BY ZenonT(30), <1>2, <2>1, <2>2, <2>3 DEF Preempt
<1> QED BY ZenonT(30), <1>1, <1>2

\* The clock is calm.
LEMMA ClockCalm ==
  ASSUME SwitchInv, ClockIntr \/ ClockWake \/ ClockDone \/ \E c \in CPUs : TimerIntr(c)
  PROVE  Calm
<1>1. CASE ClockIntr
  <2>1. UNCHANGED <<state, pc, ret, parent, child>>
    BY ZenonT(30), <1>1 DEF ClockIntr, table, frame
  <2>2. StayAlive
    BY ZenonT(30), <2>1 DEF StayAlive
  <2> QED BY ZenonT(30), <2>1, <2>2, CalmStill
<1>2. CASE ClockWake
  <2>1. UNCHANGED <<pc, ret, parent, child>> /\ Wake(proc[0], TICKS)
    BY ZenonT(30), <1>2 DEF ClockWake, frame
  <2>2. StayAlive
    BY ZenonT(30), <2>1, WakeAlive
  <2> QED BY ZenonT(30), <2>1, <2>2, CalmStill
<1>3. CASE ClockDone
  <2>1. 0 \in CPUs
    BY SizesAssumption DEF CPUs
  <2>2. clk # "idle"
    BY ZenonT(30), <1>3 DEF ClockDone
  <2>3. on[0] # NULL => pc[on[0]] # "sched"
    BY ZenonT(30), <2>2 DEF SwitchInv, HeldInv, Open
  <2> QED BY ZenonT(30), <1>3, <2>1, <2>3, PreemptCalm DEF ClockDone
<1>4. ASSUME NEW c \in CPUs, TimerIntr(c) PROVE Calm
  <2>1. on[c] # NULL => pc[on[c]] \in Open
    BY ZenonT(30), <1>4, OpenToInterrupts DEF TimerIntr
  <2>2. on[c] # NULL => pc[on[c]] # "sched"
    BY ZenonT(30), <2>1 DEF Open
  <2> QED BY ZenonT(30), <1>4, <2>2, PreemptCalm DEF TimerIntr
<1> QED BY ZenonT(30), <1>1, <1>2, <1>3, <1>4

\* Most of the kernel is calm.
LEMMA KernelCalm ==
  ASSUME SwitchInv, NEW c \in CPUs, NEW p \in Procs,
         \/ SyscallKilled(c, p) \/ Fault(c, p) \/ ForkFails(c, p) \/ Return(c, p)
         \/ ExitWake(c, p) \/ \E q \in Procs : Kill(c, p, q)
         \/ WaitLock(c, p) \/ WaitScan(c, p) \/ WaitTest(c, p) \/ WaitSleep(c, p)
         \/ TicksLock(c, p) \/ TicksTest(c, p) \/ TicksSleep(c, p)
  PROVE  Calm
<1>0. TypeOK /\ DOMAIN state = Procs /\ DOMAIN ret = Procs
  BY ZenonT(30) DEF SwitchInv, TypeOK
<1>1. ASSUME \E l \in {"exit", "ret", "user", "scan", "wait_sleep", "ticks", "ticks_sleep"} : Goto(p, l),
             UNCHANGED <<state, parent, child, ret>>
      PROVE  Calm
  <2>1. PICK l \in {"exit", "ret", "user", "scan", "wait_sleep", "ticks", "ticks_sleep"} : pc' = [pc EXCEPT ![p] = l]
    BY ZenonT(30), <1>1 DEF Goto
  <2>2. l \notin {"fork_parent", "fork_run"} /\ l \notin Exiting
    BY ZenonT(30) DEF Exiting
  <2>3. StayAlive
    BY ZenonT(30), <1>1 DEF StayAlive
  <2> QED BY ZenonT(30), <1>0, <1>1, <2>1, <2>2, <2>3, CalmMove
<1>2. CASE SyscallKilled(c, p) \/ Fault(c, p) \/ ForkFails(c, p) \/ Return(c, p)
  <2>1. \E l \in {"exit", "ret", "user"} : Goto(p, l)
    BY ZenonT(30), <1>2 DEF SyscallKilled, Fault, ForkFails, Return
  <2>2. UNCHANGED <<state, parent, child, ret>>
    BY ZenonT(30), <1>2 DEF SyscallKilled, Fault, ForkFails, Return, table, frame
  <2> QED BY ZenonT(30), <1>1, <2>1, <2>2
<1>3. CASE ExitWake(c, p)
  <2>1. PICK l \in {"wake_parent", "exit_zombie"} : pc' = [pc EXCEPT ![p] = l]
    BY ZenonT(30), <1>3 DEF ExitWake, Goto
  <2>2. UNCHANGED <<parent, child, ret>> /\ pc[p] \in Exiting
    BY ZenonT(30), <1>3 DEF ExitWake, At, frame, Exiting
  <2>3. l \notin {"fork_parent", "fork_run"}
    BY ZenonT(30)
  <2>4. StayAlive
    BY ZenonT(30), <1>3, WakeAlive DEF ExitWake
  <2> QED BY ZenonT(30), <1>0, <2>1, <2>2, <2>3, <2>4, CalmMove
<1>4. ASSUME NEW q \in Procs, Kill(c, p, q) PROVE Calm
  <2>1. UNCHANGED <<parent, child, ret>> /\ pc' = [pc EXCEPT ![p] = "ret"]
    BY ZenonT(30), <1>4 DEF Kill, frame, Goto
  <2>2. \A r \in Procs : state'[r] = state[r] \/ (state[r] = "SLEEPING" /\ state'[r] = "RUNNABLE")
    BY ZenonT(30), <1>0, <1>4 DEF Kill
  <2>3. StayAlive
    BY ZenonT(30), <2>2 DEF StayAlive, Alive
  <2>4. "ret" \notin Exiting
    BY ZenonT(30) DEF Exiting
  <2> QED BY ZenonT(30), <1>0, <2>1, <2>3, <2>4, CalmMove
<1>5. CASE WaitLock(c, p) \/ TicksLock(c, p) \/ WaitTest(c, p) \/ TicksTest(c, p)
  <2>1. \E l \in {"ret", "scan", "wait_sleep", "ticks", "ticks_sleep"} : Goto(p, l)
    BY ZenonT(30), <1>5 DEF WaitLock, TicksLock, WaitTest, TicksTest
  <2>2. UNCHANGED <<state, parent, child, ret>>
    BY ZenonT(30), <1>5 DEF WaitLock, TicksLock, WaitTest, TicksTest, table, frame
  <2> QED BY ZenonT(30), <1>1, <2>1, <2>2
<1>6. CASE WaitScan(c, p)
  <2>1. UNCHANGED <<state, pc, ret, parent, child>>
    BY ZenonT(30), <1>6 DEF WaitScan, table
  <2>2. StayAlive
    BY ZenonT(30), <2>1 DEF StayAlive
  <2> QED BY ZenonT(30), <2>1, <2>2, CalmStill
<1>7. CASE WaitSleep(c, p) \/ TicksSleep(c, p)
  <2>1. PICK l \in {"wait_relock", "ticks_relock"} : ret' = [ret EXCEPT ![p] = l]
    BY ZenonT(30), <1>7 DEF WaitSleep, TicksSleep, sleep
  <2>2. /\ on[c] = p /\ pc[p] # "sched" /\ state' = [state EXCEPT ![p] = "SLEEPING"]
        /\ pc' = [pc EXCEPT ![p] = "sched"] /\ UNCHANGED <<parent, child>>
    BY ZenonT(30), <1>7 DEF WaitSleep, TicksSleep, sleep, At, Goto
  <2>3. StayAlive
    BY ZenonT(30), <2>2, LeaveAlive
  <2>4. ret'[p] = l /\ \A q \in Procs \ {p} : ret'[q] = ret[q]
    BY ZenonT(30), <1>0, <2>1
  <2>5. "sched" \notin Exiting
    BY ZenonT(30) DEF Exiting
  <2> QED BY ZenonT(30), <1>0, <2>2, <2>3, <2>4, <2>5, CalmMove
<1> QED BY ZenonT(30), <1>2, <1>3, <1>4, <1>5, <1>6, <1>7

\* A process on a CPU, and not about to leave it, is RUNNING and comes back
\* from no yield().
LEMMA Runs ==
  ASSUME SwitchInv, NEW c \in CPUs, NEW p \in Procs, on[c] = p, pc[p] \in Quiet
  PROVE  state[p] = "RUNNING" /\ ret[p] = "none" /\ context[p] = "none"
<1>1. pc[p] # "sched" /\ pc[p] # "none" /\ pc[p] \notin Resuming
  BY ZenonT(30), Kinds
<1>2. state[p] = "RUNNING"
  BY ZenonT(30), <1>1, Distinct DEF SwitchInv, StackInv
<1>3. "RUNNING" \notin Waiting /\ "none" \notin Resuming
  BY ZenonT(30) DEF Waiting, Resuming
<1>4. context[p] = "none"
  BY ZenonT(30), <1>2, <1>3 DEF SwitchInv, ContextInv
<1>5. ret[p] = "none"
  BY ZenonT(30), <1>1, <1>3, <1>4 DEF SwitchInv, ContextInv
<1> QED BY ZenonT(30), <1>2, <1>4, <1>5

\* fork() takes an UNUSED slot.
LEMMA ForkFamily ==
  ASSUME SwitchInv, ForkInv, KidsInv, NEW c \in CPUs, NEW p \in Procs, NEW np \in Procs, Fork(c, p, np)
  PROVE  ForkInv' /\ KidsInv'
<1>0. DOMAIN state = Procs /\ DOMAIN pc = Procs /\ DOMAIN child = Procs
  BY ZenonT(30) DEF SwitchInv, TypeOK
<1>1. /\ on[c] = p /\ pc[p] = "user" /\ state[np] = "UNUSED"
      /\ UNCHANGED <<parent, ret>>
  BY ZenonT(30) DEF Fork, Syscall, At
<1>2. /\ state'[np] = "USED" /\ child'[p] = np /\ pc'[p] = "fork_parent"
      /\ \A q \in Procs \ {np} : state'[q] = state[q]
      /\ \A q \in Procs \ {p} : child'[q] = child[q] /\ pc'[q] = pc[q]
  BY ZenonT(30), <1>0 DEF Fork, Goto
<1>3. ret[p] = "none"
  <2>1. pc[p] \in Quiet
    BY ZenonT(30), <1>1 DEF Quiet, Open
  <2> QED BY ZenonT(30), <1>1, <2>1, Runs
<1>4. \A q \in Procs : child[q] # NULL => child[q] \in Procs /\ child[q] # np
  BY ZenonT(30), <1>1 DEF ForkInv, SwitchInv, TypeOK
<1>5. \A q \in Procs : child'[q] # NULL => state'[child'[q]] = "USED"
  BY <1>2, <1>4 DEF ForkInv
<1>6. \A q, r \in Procs : child'[q] = child'[r] /\ child'[q] # NULL => q = r
  BY <1>2, <1>4 DEF ForkInv
<1>7. \A q \in Procs : Reaches(q, "fork_parent")' => child'[q] # NULL
  BY <1>1, <1>2, Distinct DEF ForkInv, Reaches
<1>8. \A q \in Procs : Reaches(q, "fork_run")' => child'[q] # NULL /\ parent'[child'[q]] = q
  BY <1>1, <1>2, <1>3 DEF ForkInv, Reaches
<1>9. state[np] \notin Alive /\ "USED" \notin Alive \cup {"ZOMBIE"}
  BY ZenonT(30), <1>1 DEF Alive
<1>10. initproc \in Procs /\ state[initproc] \in Alive
  BY ZenonT(30), Distinct DEF KidsInv
<1>11. state'[initproc] \in Alive
  BY ZenonT(30), <1>2, <1>9, <1>10
<1>12. \A q \in Procs : pc'[q] \in Exiting => pc[q] \in Exiting
  BY ZenonT(30), <1>2 DEF Exiting
<1>13. \A q, r \in Procs : parent'[r] = q => state'[q] \in Alive /\ pc'[q] \notin Exiting
  BY <1>1, <1>2, <1>9, <1>12 DEF KidsInv
<1>14. \A q \in Procs \ {initproc} : state'[q] \in Alive \cup {"ZOMBIE"} => parent'[q] # NULL
  BY ZenonT(30), <1>1, <1>2, <1>9 DEF KidsInv
<1>15. pc'[initproc] \notin Exiting /\ initproc' = initproc
  BY ZenonT(30), <1>10, <1>12 DEF KidsInv, initproc
<1>16. ForkInv'
  BY ZenonT(30), <1>5, <1>6, <1>7, <1>8 DEF ForkInv
<1> QED BY ZenonT(30), <1>11, <1>13, <1>14, <1>15, <1>16 DEF KidsInv

\* fork() gives its child a parent.
LEMMA ForkParentFamily ==
  ASSUME SwitchInv, ForkInv, KidsInv, NEW c \in CPUs, NEW p \in Procs, ForkParent(c, p)
  PROVE  ForkInv' /\ KidsInv'
<1>0. DOMAIN parent = Procs /\ DOMAIN pc = Procs
  BY ZenonT(30) DEF SwitchInv, TypeOK
<1>1. on[c] = p /\ pc[p] = "fork_parent" /\ UNCHANGED <<state, ret, child>>
  BY ZenonT(30) DEF ForkParent, At, frame
<1>2. PICK np \in Procs : child[p] = np /\ state[np] = "USED"
  <2>1. child[p] # NULL
    BY ZenonT(30), <1>1 DEF ForkInv, Reaches
  <2>2. state[child[p]] = "USED"
    BY ZenonT(30), <2>1 DEF ForkInv
  <2>3. child[p] \in Procs
    BY ZenonT(30), <2>1 DEF SwitchInv, TypeOK
  <2> QED BY ZenonT(30), <2>2, <2>3
<1>3. /\ parent'[np] = p /\ pc'[p] = "fork_run"
      /\ \A q \in Procs \ {np} : parent'[q] = parent[q]
      /\ \A q \in Procs \ {p} : pc'[q] = pc[q]
  BY ZenonT(30), <1>0, <1>2 DEF ForkParent, Goto
<1>4. state[p] = "RUNNING" /\ ret[p] = "none"
  <2>1. pc[p] \in Quiet
    BY ZenonT(30), <1>1 DEF Quiet, Open
  <2> QED BY ZenonT(30), <1>1, <2>1, Runs
<1>5. \A q \in Procs : child[q] # NULL => child[q] \in Procs /\ (child[q] = np => q = p)
  BY ZenonT(30), <1>2, Distinct DEF ForkInv, SwitchInv, TypeOK
<1>6. \A q \in Procs : child'[q] # NULL => state'[child'[q]] = "USED"
  BY ZenonT(30), <1>1 DEF ForkInv
<1>7. \A q, r \in Procs : child'[q] = child'[r] /\ child'[q] # NULL => q = r
  BY ZenonT(30), <1>1 DEF ForkInv
<1>8. \A q \in Procs : Reaches(q, "fork_parent")' => child'[q] # NULL
  BY ZenonT(30), <1>1, <1>3 DEF ForkInv, Reaches
<1>9. \A q \in Procs : Reaches(q, "fork_run")' => child'[q] # NULL /\ parent'[child'[q]] = q
  <2>1. child'[p] # NULL /\ parent'[child'[p]] = p
    BY ZenonT(30), <1>1, <1>2, <1>3, Distinct
  <2>2. ASSUME NEW q \in Procs \ {p}, Reaches(q, "fork_run")' PROVE child'[q] # NULL /\ parent'[child'[q]] = q
    <3>1. Reaches(q, "fork_run")
      BY ZenonT(30), <1>1, <1>3, <2>2 DEF Reaches
    <3>2. child[q] # NULL /\ parent[child[q]] = q
      BY ZenonT(30), <3>1 DEF ForkInv
    <3> QED BY ZenonT(30), <1>1, <1>3, <1>5, <3>2
  <2> QED BY ZenonT(30), <2>1, <2>2
<1>10. \A q \in Procs : pc'[q] \in Exiting => pc[q] \in Exiting
  BY ZenonT(30), <1>3 DEF Exiting
<1>11. pc[p] \notin Exiting /\ state[p] \in Alive
  BY ZenonT(30), <1>1, <1>4 DEF Exiting, Alive
<1>12. \A q, r \in Procs : parent'[r] = q => state'[q] \in Alive /\ pc'[q] \notin Exiting
  <2>1. \A r \in Procs : parent'[r] = p \/ parent'[r] = parent[r]
    BY ZenonT(30), <1>3
  <2> QED BY ZenonT(30), <1>1, <1>10, <1>11, <2>1 DEF KidsInv
<1>13. \A q \in Procs \ {initproc} : state'[q] \in Alive \cup {"ZOMBIE"} => parent'[q] # NULL
  BY ZenonT(30), <1>1, <1>3, Distinct DEF KidsInv
<1>14. pc'[initproc] \notin Exiting /\ initproc' = initproc /\ state'[initproc] \in Alive
  BY ZenonT(30), <1>1, <1>10, Distinct DEF KidsInv, initproc
<1>15. ForkInv'
  BY ZenonT(30), <1>6, <1>7, <1>8, <1>9 DEF ForkInv
<1> QED BY ZenonT(30), <1>12, <1>13, <1>14, <1>15 DEF KidsInv

\* fork() lets its child run.
LEMMA ForkRunFamily ==
  ASSUME SwitchInv, ForkInv, KidsInv, NEW c \in CPUs, NEW p \in Procs, ForkRun(c, p)
  PROVE  ForkInv' /\ KidsInv'
<1>0. DOMAIN state = Procs /\ DOMAIN pc = Procs /\ DOMAIN child = Procs
  BY ZenonT(30) DEF SwitchInv, TypeOK
<1>1. on[c] = p /\ pc[p] = "fork_run" /\ UNCHANGED <<parent, ret>>
  BY ZenonT(30) DEF ForkRun, At
<1>2. PICK np \in Procs : child[p] = np /\ state[np] = "USED" /\ parent[np] = p
  <2>1. child[p] # NULL /\ parent[child[p]] = p
    BY ZenonT(30), <1>1 DEF ForkInv, Reaches
  <2>2. state[child[p]] = "USED"
    BY ZenonT(30), <2>1 DEF ForkInv
  <2>3. child[p] \in Procs
    BY ZenonT(30), <2>1 DEF SwitchInv, TypeOK
  <2> QED BY ZenonT(30), <2>1, <2>2, <2>3
<1>3. /\ state'[np] = "RUNNABLE" /\ pc'[p] = "ret" /\ child'[p] = NULL
      /\ \A q \in Procs \ {np} : state'[q] = state[q]
      /\ \A q \in Procs \ {p} : pc'[q] = pc[q] /\ child'[q] = child[q]
  BY ZenonT(30), <1>0, <1>2 DEF ForkRun, Goto
<1>4. ret[p] = "none"
  <2>1. pc[p] \in Quiet
    BY ZenonT(30), <1>1 DEF Quiet, Open
  <2> QED BY ZenonT(30), <1>1, <2>1, Runs
<1>5. \A q \in Procs : child[q] # NULL => child[q] \in Procs /\ (child[q] = np => q = p)
  BY ZenonT(30), <1>2, Distinct DEF ForkInv, SwitchInv, TypeOK
<1>6. \A q \in Procs : child'[q] # NULL => state'[child'[q]] = "USED"
  BY <1>3, <1>5 DEF ForkInv
<1>7. \A q, r \in Procs : child'[q] = child'[r] /\ child'[q] # NULL => q = r
  BY <1>3 DEF ForkInv
<1>8. \A q \in Procs : Reaches(q, "fork_parent")' => child'[q] # NULL
  BY <1>1, <1>3, <1>4 DEF ForkInv, Reaches
<1>9. \A q \in Procs : Reaches(q, "fork_run")' => child'[q] # NULL /\ parent'[child'[q]] = q
  <2>1. \A q \in Procs : Reaches(q, "fork_run")' => q # p /\ Reaches(q, "fork_run")
    BY ZenonT(30), <1>1, <1>3, <1>4 DEF Reaches
  <2>2. \A q \in Procs : Reaches(q, "fork_run")' => child[q] # NULL /\ parent[child[q]] = q
    BY ZenonT(30), <2>1 DEF ForkInv
  <2> QED BY ZenonT(30), <1>1, <1>3, <2>1, <2>2
<1>10. \A q \in Procs : pc'[q] \in Exiting => pc[q] \in Exiting
  BY ZenonT(30), <1>3 DEF Exiting
<1>11. "RUNNABLE" \in Alive /\ \A q \in Procs : state[q] \in Alive => state'[q] \in Alive
  BY ZenonT(30), <1>3 DEF Alive
<1>12. \A q, r \in Procs : parent'[r] = q => state'[q] \in Alive /\ pc'[q] \notin Exiting
  BY ZenonT(30), <1>1, <1>10, <1>11 DEF KidsInv
<1>13. \A q \in Procs \ {initproc} : state'[q] \in Alive \cup {"ZOMBIE"} => parent'[q] # NULL
  BY <1>1, <1>2, <1>3, Distinct DEF KidsInv
<1>14. pc'[initproc] \notin Exiting /\ initproc' = initproc /\ state'[initproc] \in Alive
  BY ZenonT(30), <1>10, <1>11, Distinct DEF KidsInv, initproc
<1>15. ForkInv'
  BY ZenonT(30), <1>6, <1>7, <1>8, <1>9 DEF ForkInv
<1> QED BY ZenonT(30), <1>12, <1>13, <1>14, <1>15 DEF KidsInv

\* exit() gives all children of the process to init.
LEMMA ExitFamily ==
  ASSUME SwitchInv, ForkInv, KidsInv, NEW c \in CPUs, NEW p \in Procs, Exit(c, p)
  PROVE  ForkInv' /\ KidsInv'
<1>0. TypeOK /\ DOMAIN pc = Procs
  BY ZenonT(30) DEF SwitchInv, TypeOK
<1>1. on[c] = p /\ pc[p] \in {"exit", "user"} /\ UNCHANGED <<state, ret, child>>
  BY ZenonT(30) DEF Exit, Syscall, At, frame
<1>2. CASE p = initproc
  <2>1. UNCHANGED <<parent, pc>>
    BY ZenonT(30), <1>2 DEF Exit
  <2>2. StayAlive
    BY ZenonT(30), <1>1 DEF StayAlive
  <2>3. Calm
    BY ZenonT(30), <1>1, <2>1, <2>2, CalmStill
  <2> QED BY ZenonT(30), <1>0, <2>3, CalmKeeps
<1>3. CASE p # initproc
  <2>1. /\ \A q \in Procs : parent[q] # p => parent'[q] = parent[q]
        /\ \A q \in Procs : parent[q] = p => parent'[q] = initproc
        /\ pc'[p] \in Exiting /\ \A q \in Procs \ {p} : pc'[q] = pc[q]
    BY ZenonT(30), <1>0, <1>3 DEF Exit, Goto, Exiting
  <2>2. ret[p] = "none" /\ pc[p] \in Open
    <3>1. pc[p] \in Quiet /\ pc[p] \in Open
      BY ZenonT(30), <1>1 DEF Quiet, Open
    <3> QED BY ZenonT(30), <1>1, <3>1, Runs
  <2>3. \A q \in Procs : child'[q] # NULL => state'[child'[q]] = "USED"
    BY ZenonT(30), <1>1 DEF ForkInv
  <2>4. \A q, r \in Procs : child'[q] = child'[r] /\ child'[q] # NULL => q = r
    BY ZenonT(30), <1>1 DEF ForkInv
  <2>5. \A q \in Procs : Reaches(q, "fork_parent")' => Reaches(q, "fork_parent")
    BY ZenonT(30), <1>1, <2>1 DEF Reaches, Exiting
  <2>6. \A q \in Procs : Reaches(q, "fork_run")' => q # p /\ Reaches(q, "fork_run")
    BY ZenonT(30), <1>1, <2>1, <2>2 DEF Reaches, Exiting
  <2>7. \A q \in Procs : Reaches(q, "fork_parent")' => child'[q] # NULL
    BY ZenonT(30), <1>1, <2>5 DEF ForkInv
  <2>8. \A q \in Procs : Reaches(q, "fork_run")' => child'[q] # NULL /\ parent'[child'[q]] = q
    <3>1. \A q \in Procs : Reaches(q, "fork_run")' => q # p /\ child[q] # NULL /\ parent[child[q]] = q
      BY ZenonT(30), <2>6 DEF ForkInv
    <3>2. \A q \in Procs : child[q] # NULL => child[q] \in Procs
      BY ZenonT(30), <1>0 DEF TypeOK
    <3> QED BY ZenonT(30), <1>1, <2>1, <3>1, <3>2
  <2>9. ForkInv'
    BY ZenonT(30), <2>3, <2>4, <2>7, <2>8 DEF ForkInv
  <2>10. state'[initproc] \in Alive /\ pc'[initproc] \notin Exiting /\ initproc' = initproc
    BY ZenonT(30), <1>1, <1>3, <2>1, Distinct DEF KidsInv, initproc
  <2>11. \A q, r \in Procs : parent'[r] = q => state'[q] \in Alive /\ pc'[q] \notin Exiting
    <3>1. ASSUME NEW q \in Procs, NEW r \in Procs, parent'[r] = q PROVE q = initproc \/ (parent[r] = q /\ q # p)
      BY ZenonT(30), <2>1, <3>1
    <3>2. \A q, r \in Procs : parent[r] = q /\ q # p => state'[q] \in Alive /\ pc'[q] \notin Exiting
      BY ZenonT(30), <1>1, <2>1 DEF KidsInv
    <3> QED BY ZenonT(30), <2>10, <3>1, <3>2
  <2>12. \A q \in Procs \ {initproc} : state'[q] \in Alive \cup {"ZOMBIE"} => parent'[q] # NULL
    BY ZenonT(30), <1>1, <2>1, Distinct DEF KidsInv
  <2> QED BY ZenonT(30), <2>9, <2>10, <2>11, <2>12 DEF KidsInv
<1> QED BY ZenonT(30), <1>2, <1>3

\* A process becomes a ZOMBIE when it has no children left.
LEMMA ZombieFamily ==
  ASSUME SwitchInv, ForkInv, KidsInv, NEW c \in CPUs, NEW p \in Procs, ExitZombie(c, p)
  PROVE  ForkInv' /\ KidsInv'
<1>0. DOMAIN state = Procs /\ DOMAIN pc = Procs
  BY ZenonT(30) DEF SwitchInv, TypeOK
<1>1. on[c] = p /\ pc[p] = "exit_zombie" /\ UNCHANGED <<parent, ret, child>>
  BY ZenonT(30) DEF ExitZombie, At, frame
<1>2. /\ state'[p] = "ZOMBIE" /\ pc'[p] = "sched"
      /\ \A q \in Procs \ {p} : state'[q] = state[q] /\ pc'[q] = pc[q]
  BY ZenonT(30), <1>0 DEF ExitZombie, Goto
<1>3. state[p] = "RUNNING" /\ state[p] \in Alive
  <2>1. pc[p] \in Quiet
    BY ZenonT(30), <1>1 DEF Quiet, WaitHeld
  <2>2. state[p] = "RUNNING"
    BY ZenonT(30), <1>1, <2>1, Runs
  <2> QED BY ZenonT(30), <2>2 DEF Alive
<1>4. \A q \in Procs : child[q] # NULL => child[q] \in Procs /\ child[q] # p
  BY ZenonT(30), <1>3 DEF ForkInv, SwitchInv, TypeOK
<1>5. \A q \in Procs : child'[q] # NULL => state'[child'[q]] = "USED"
  BY <1>1, <1>2, <1>4 DEF ForkInv
<1>6. \A q, r \in Procs : child'[q] = child'[r] /\ child'[q] # NULL => q = r
  BY ZenonT(30), <1>1 DEF ForkInv
<1>7. \A q \in Procs : Reaches(q, "fork_parent")' => child'[q] # NULL
  BY ZenonT(30), <1>1, <1>2 DEF ForkInv, Reaches
<1>8. \A q \in Procs : Reaches(q, "fork_run")' => child'[q] # NULL /\ parent'[child'[q]] = q
  <2>1. \A q \in Procs : Reaches(q, "fork_run")' => Reaches(q, "fork_run")
    BY ZenonT(30), <1>1, <1>2 DEF Reaches
  <2> QED BY ZenonT(30), <1>1, <2>1 DEF ForkInv
<1>9. \A q \in Procs : pc'[q] \in Exiting => pc[q] \in Exiting
  BY ZenonT(30), <1>2 DEF Exiting
<1>10. pc[p] \in Exiting
  BY ZenonT(30), <1>1 DEF Exiting
<1>11. \A q, r \in Procs : parent'[r] = q => state'[q] \in Alive /\ pc'[q] \notin Exiting
  BY ZenonT(30), <1>1, <1>2, <1>9, <1>10 DEF KidsInv
<1>12. \A q \in Procs \ {initproc} : state'[q] \in Alive \cup {"ZOMBIE"} => parent'[q] # NULL
  BY ZenonT(30), <1>1, <1>2, <1>3 DEF KidsInv
<1>13. pc'[initproc] \notin Exiting /\ initproc' = initproc /\ state'[initproc] \in Alive
  BY ZenonT(30), <1>2, <1>9, <1>10, Distinct DEF KidsInv, initproc
<1>14. ForkInv'
  BY ZenonT(30), <1>5, <1>6, <1>7, <1>8 DEF ForkInv
<1> QED BY ZenonT(30), <1>11, <1>12, <1>13, <1>14 DEF KidsInv

\* wait() frees a child that is a ZOMBIE.
LEMMA ReapFamily ==
  ASSUME SwitchInv, ForkInv, KidsInv, NEW c \in CPUs, NEW p \in Procs, WaitReap(c, p)
  PROVE  ForkInv' /\ KidsInv'
<1>0. TypeOK /\ DOMAIN state = Procs /\ DOMAIN parent = Procs
  BY ZenonT(30) DEF SwitchInv, TypeOK
<1>1. pc' = [pc EXCEPT ![p] = "ret"] /\ UNCHANGED <<ret, child>>
  BY ZenonT(30) DEF WaitReap, Goto
<1>4. PICK z \in Procs : state[z] = "ZOMBIE" /\ (freeproc(z) \/ UNCHANGED <<state, parent>>)
  BY ZenonT(30) DEF WaitReap
<1>5. CASE UNCHANGED <<state, parent>>
  <2>1. StayAlive
    BY ZenonT(30), <1>5 DEF StayAlive
  <2>2. "ret" \notin Exiting
    BY ZenonT(30) DEF Exiting
  <2>3. Calm
    BY ZenonT(30), <1>0, <1>1, <1>5, <2>1, <2>2, CalmMove
  <2> QED BY ZenonT(30), <1>0, <2>3, CalmKeeps
<1>6. CASE freeproc(z)
  <2>1. /\ state'[z] = "UNUSED" /\ parent'[z] = NULL
        /\ \A q \in Procs \ {z} : state'[q] = state[q] /\ parent'[q] = parent[q]
    BY ZenonT(30), <1>0, <1>6 DEF freeproc
  <2>2. pc'[p] = "ret" /\ \A q \in Procs \ {p} : pc'[q] = pc[q]
    BY ZenonT(30), <1>0, <1>1 DEF TypeOK
  <2>3. \A q \in Procs : child[q] # NULL => child[q] \in Procs /\ child[q] # z
    <3>1. \A q \in Procs : child[q] # NULL => child[q] \in Procs
      BY ZenonT(30), <1>0 DEF TypeOK
    <3>2. \A q \in Procs : child[q] # NULL => state[child[q]] = "USED"
      BY ZenonT(30) DEF ForkInv
    <3> QED BY ZenonT(30), <1>4, <3>1, <3>2
  <2>4. \A q \in Procs : child'[q] # NULL => state'[child'[q]] = "USED"
    BY ZenonT(30), <1>1, <2>1, <2>3 DEF ForkInv
  <2>5. \A q, r \in Procs : child'[q] = child'[r] /\ child'[q] # NULL => q = r
    BY ZenonT(30), <1>1 DEF ForkInv
  <2>6. \A q \in Procs : Reaches(q, "fork_parent")' => child'[q] # NULL
    BY ZenonT(30), <1>1, <2>2 DEF ForkInv, Reaches
  <2>7. \A q \in Procs : Reaches(q, "fork_run")' => child'[q] # NULL /\ parent'[child'[q]] = q
    <3>1. \A q \in Procs : Reaches(q, "fork_run")' => Reaches(q, "fork_run")
      BY ZenonT(30), <1>1, <2>2 DEF Reaches
    <3>2. \A q \in Procs : Reaches(q, "fork_run") => child[q] # NULL /\ parent[child[q]] = q
      BY ZenonT(30) DEF ForkInv
    <3> QED BY ZenonT(30), <1>1, <2>1, <2>3, <3>1, <3>2
  <2>8. \A q \in Procs : pc'[q] \in Exiting => pc[q] \in Exiting
    BY ZenonT(30), <2>2 DEF Exiting
  <2>9. state[z] \notin Alive /\ "UNUSED" \notin Alive \cup {"ZOMBIE"}
    BY ZenonT(30), <1>4 DEF Alive
  <2>10. \A q, r \in Procs : parent'[r] = q => state'[q] \in Alive /\ pc'[q] \notin Exiting
    <3>1. \A r \in Procs : parent'[r] = NULL \/ parent'[r] = parent[r]
      BY ZenonT(30), <2>1
    <3> QED BY <2>1, <2>8, <2>9, <3>1, Distinct DEF KidsInv
  <2>11. \A q \in Procs \ {initproc} : state'[q] \in Alive \cup {"ZOMBIE"} => parent'[q] # NULL
    BY ZenonT(30), <2>1, <2>9 DEF KidsInv
  <2>12. pc'[initproc] \notin Exiting /\ initproc' = initproc /\ state'[initproc] \in Alive
    BY ZenonT(30), <2>1, <2>8, <2>9, Distinct DEF KidsInv, initproc
  <2>13. ForkInv'
    BY ZenonT(30), <2>4, <2>5, <2>6, <2>7 DEF ForkInv
  <2> QED BY ZenonT(30), <2>10, <2>11, <2>12, <2>13 DEF KidsInv
<1> QED BY ZenonT(30), <1>4, <1>5, <1>6

\* Initially init is the only process.
LEMMA InitFamily == Init => ForkInv /\ KidsInv
<1> SUFFICES ASSUME Init PROVE ForkInv /\ KidsInv
  BY ZenonT(30)
<1>1. ForkInv
  BY ZenonT(30) DEF Init, ForkInv, Reaches
<1>2. \A q \in Procs : parent[q] \notin Procs /\ pc[q] = "none"
  BY ZenonT(30), Distinct DEF Init
<1>3. \A q \in Procs \ {initproc} : state[q] = "UNUSED"
  BY ZenonT(30) DEF Init
<1>4. state[initproc] = "RUNNABLE"
  BY ZenonT(30), Distinct DEF Init
<1> QED BY ZenonT(30), <1>1, <1>2, <1>3, <1>4, Distinct DEF KidsInv, Alive, Exiting

\* The steps of the system, one by one.
LEMMA Steps ==
  ASSUME Next
  PROVE  \/ UNCHANGED vars
         \/ panic = "none" /\ (ClockIntr \/ ClockWake \/ ClockDone)
         \/ panic = "none" /\ \E c \in CPUs : Back(c) \/ TimerIntr(c)
         \/ panic = "none" /\ \E c \in CPUs, p \in Procs :
              \/ Pick(c, p) \/ sched(c, p) \/ Yielded(c, p) \/ Slept(c, p) \/ forkret(c, p)
              \/ SyscallKilled(c, p) \/ Fault(c, p) \/ Return(c, p)
              \/ ForkFails(c, p) \/ (\E np \in Procs : Fork(c, p, np)) \/ ForkParent(c, p) \/ ForkRun(c, p)
              \/ Exit(c, p) \/ ExitWake(c, p) \/ ExitZombie(c, p)
              \/ WaitLock(c, p) \/ WaitScan(c, p) \/ WaitReap(c, p) \/ WaitTest(c, p) \/ WaitSleep(c, p)
              \/ TicksLock(c, p) \/ TicksTest(c, p) \/ TicksSleep(c, p)
              \/ \E q \in Procs : Kill(c, p, q)
BY DEF Next, Cpu, Switch, Kernel, Program, Halted

\* The inductive invariant of switching and of the family.
FamilyInv == SwitchInv /\ ForkInv /\ KidsInv

\* Every step keeps the family invariants.
LEMMA NextFamily == ASSUME SwitchInv, ForkInv, KidsInv, Next PROVE ForkInv' /\ KidsInv'
<1>0. TypeOK
  BY ZenonT(30) DEF SwitchInv
<1>1. CASE UNCHANGED vars
  BY ZenonT(30), <1>1 DEF vars, ForkInv, KidsInv, Reaches, initproc
<1>2. CASE ClockIntr \/ ClockWake \/ ClockDone
  BY ZenonT(30), <1>0, <1>2, ClockCalm, CalmKeeps
<1>3. ASSUME NEW c \in CPUs, TimerIntr(c) PROVE ForkInv' /\ KidsInv'
  BY ZenonT(30), <1>0, <1>3, ClockCalm, CalmKeeps
<1>4. ASSUME NEW c \in CPUs, Back(c) PROVE ForkInv' /\ KidsInv'
  <2>1. initproc \in Procs
    BY ZenonT(30), Distinct
  <2> QED BY ZenonT(30), <1>0, <1>4, <2>1, SwitchCalm, CalmKeeps
<1>5. ASSUME NEW c \in CPUs, NEW p \in Procs,
             Pick(c, p) \/ sched(c, p) \/ Yielded(c, p) \/ Slept(c, p) \/ forkret(c, p)
      PROVE  ForkInv' /\ KidsInv'
  BY ZenonT(30), <1>0, <1>5, SwitchCalm, CalmKeeps
<1>6. ASSUME NEW c \in CPUs, NEW p \in Procs,
             \/ SyscallKilled(c, p) \/ Fault(c, p) \/ ForkFails(c, p) \/ Return(c, p)
             \/ ExitWake(c, p) \/ \E q \in Procs : Kill(c, p, q)
             \/ WaitLock(c, p) \/ WaitScan(c, p) \/ WaitTest(c, p) \/ WaitSleep(c, p)
             \/ TicksLock(c, p) \/ TicksTest(c, p) \/ TicksSleep(c, p)
      PROVE  ForkInv' /\ KidsInv'
  <2>1. Calm
    BY ZenonT(30), <1>6, KernelCalm
  <2> QED BY ZenonT(30), <1>0, <2>1, CalmKeeps
<1>7. ASSUME NEW c \in CPUs, NEW p \in Procs,
             \/ (\E np \in Procs : Fork(c, p, np)) \/ ForkParent(c, p) \/ ForkRun(c, p)
             \/ Exit(c, p) \/ ExitZombie(c, p) \/ WaitReap(c, p)
      PROVE  ForkInv' /\ KidsInv'
  BY ZenonT(30), <1>7, ForkFamily, ForkParentFamily, ForkRunFamily, ExitFamily, ZombieFamily, ReapFamily
<1> QED BY ZenonT(30), <1>1, <1>2, <1>3, <1>4, <1>5, <1>6, <1>7, Steps

\* So does a step that changes nothing.
LEMMA StutterSwitch == ASSUME SwitchInv, UNCHANGED vars PROVE SwitchInv'
<1>1. TypeOK' /\ panic' \in {"none", "init_exiting"}
  BY ZenonT(30), NextTypes DEF SwitchInv, vars
<1>2. CpuInv'
  BY ZenonT(30) DEF SwitchInv, vars, CpuInv
<1>3. StackInv'
  BY ZenonT(30) DEF SwitchInv, vars, StackInv
<1>4. ContextInv'
  BY ZenonT(30) DEF SwitchInv, vars, ContextInv
<1>5. HeldInv'
  BY ZenonT(30) DEF SwitchInv, vars, HeldInv, InIntr
<1> QED BY ZenonT(30), <1>1, <1>2, <1>3, <1>4, <1>5 DEF SwitchInv

\* Every step keeps the invariant of the switching.
LEMMA NextSwitch == ASSUME SwitchInv, ForkInv, Next PROVE SwitchInv'
<1>0. TypeOK'
  BY ZenonT(30), NextTypes DEF SwitchInv
<1>1. CASE UNCHANGED vars
  BY ZenonT(30), <1>1, StutterSwitch
<1>2. CASE ClockIntr \/ ClockWake \/ ClockDone
  BY ZenonT(30), <1>0, <1>2, ClockIntrKeeps, ClockWakeKeeps, ClockDoneKeeps
<1>3. ASSUME NEW c \in CPUs, Back(c) \/ TimerIntr(c) PROVE SwitchInv'
  BY ZenonT(30), <1>0, <1>3, BackKeeps, TimerKeeps
<1>4. ASSUME NEW c \in CPUs, NEW p \in Procs,
             Pick(c, p) \/ sched(c, p) \/ Yielded(c, p) \/ Slept(c, p) \/ forkret(c, p)
      PROVE  SwitchInv'
  BY ZenonT(30), <1>0, <1>4, PickKeeps, SchedKeeps, ResumeKeeps
<1>5. ASSUME NEW c \in CPUs, NEW p \in Procs,
             \/ SyscallKilled(c, p) \/ Fault(c, p) \/ ForkFails(c, p) \/ Return(c, p) \/ ForkParent(c, p)
             \/ (\E np \in Procs : Fork(c, p, np)) \/ \E q \in Procs : Kill(c, p, q)
      PROVE  SwitchInv'
  BY ZenonT(30), <1>0, <1>5, OpenKeeps, ForkKeeps
<1>6. ASSUME NEW c \in CPUs, NEW p \in Procs, ForkRun(c, p) PROVE SwitchInv'
  <2>1. pc[p] = "fork_run"
    BY ZenonT(30), <1>6 DEF ForkRun, At
  <2>2. child[p] # NULL
    BY ZenonT(30), <2>1 DEF ForkInv, Reaches
  <2>3. child[p] \in Procs /\ state[child[p]] = "USED"
    BY ZenonT(30), <2>2 DEF ForkInv, SwitchInv, TypeOK
  <2> QED BY ZenonT(30), <1>0, <1>6, <2>3, ForkKeeps
<1>7. ASSUME NEW c \in CPUs, NEW p \in Procs,
             \/ Exit(c, p) \/ ExitWake(c, p) \/ ExitZombie(c, p)
             \/ WaitLock(c, p) \/ WaitScan(c, p) \/ WaitReap(c, p) \/ WaitTest(c, p) \/ WaitSleep(c, p)
             \/ TicksLock(c, p) \/ TicksTest(c, p) \/ TicksSleep(c, p)
      PROVE  SwitchInv'
  BY ZenonT(30), <1>0, <1>7, ExitKeeps, WaitKeeps, TicksKeeps
<1> QED BY ZenonT(30), <1>1, <1>2, <1>3, <1>4, <1>5, <1>6, <1>7, Steps

\* proc.c keeps its switching and its family consistent.
THEOREM FamilyInvariant == Spec => []FamilyInv
<1>1. Init => FamilyInv
  BY ZenonT(30), InitSwitchInv, InitFamily DEF FamilyInv
<1>2. FamilyInv /\ [Next]_vars => FamilyInv'
  <2> SUFFICES ASSUME FamilyInv, [Next]_vars PROVE FamilyInv'
    BY ZenonT(30)
  <2>1. CASE Next
    BY ZenonT(30), <2>1, NextSwitch, NextFamily DEF FamilyInv
  <2>2. CASE UNCHANGED vars
    <3>1. SwitchInv'
      BY ZenonT(30), <2>2, StutterSwitch DEF FamilyInv
    <3>2. ForkInv' /\ KidsInv'
      BY ZenonT(30), <2>2 DEF FamilyInv, vars, ForkInv, KidsInv, Reaches, initproc
    <3> QED BY ZenonT(30), <3>1, <3>2 DEF FamilyInv
  <2> QED BY <2>1, <2>2
<1> QED BY <1>1, <1>2, PTL DEF Spec

\* No kernel stack is ever executed by two CPUs, a CPU on the stack of a process
\* has it as c->proc, and none of the assertions of sched() fails.
THEOREM OneCpuPerStack == Spec => []OneStack
<1>1. FamilyInv => OneStack
  <2> SUFFICES ASSUME FamilyInv PROVE OneStack
    BY ZenonT(30)
  <2>1. TypeOK /\ panic \in {"none", "init_exiting"}
    BY ZenonT(30) DEF FamilyInv, SwitchInv
  <2>2. \A c, d \in CPUs : on[c] = on[d] /\ on[c] # NULL => c = d
    BY ZenonT(30) DEF FamilyInv, SwitchInv, CpuInv
  <2>3. \A c \in CPUs : on[c] # NULL => proc[c] = on[c]
    BY ZenonT(30) DEF FamilyInv, SwitchInv, CpuInv
  <2>4. ASSUME NEW c \in CPUs, on[c] # NULL
        PROVE  \/ state[on[c]] = "RUNNING"
               \/ state[on[c]] \in {"RUNNABLE", "SLEEPING", "ZOMBIE"} /\ plock[on[c]] = c
    BY ZenonT(30), <2>4 DEF FamilyInv, SwitchInv, StackInv, Switching, Leaving
  <2> QED BY <2>1, <2>2, <2>3, <2>4 DEF OneStack
<1> QED BY <1>1, FamilyInvariant, PTL

\* Every process but init has a parent that is alive, so that its exit() will be
\* noticed: exit() hands the children over before the process is a ZOMBIE.
THEOREM ParentsOutlive == Spec => []NoOrphans
<1>1. FamilyInv => NoOrphans
  <2> SUFFICES ASSUME FamilyInv, NEW q \in Procs \ {initproc},
                      state[q] \in {"SLEEPING", "RUNNABLE", "RUNNING", "ZOMBIE"}
               PROVE  parent[q] # NULL /\ state[parent[q]] \notin {"UNUSED", "USED", "ZOMBIE"}
    BY ZenonT(30) DEF NoOrphans
  <2>1. parent[q] # NULL
    BY ZenonT(30) DEF FamilyInv, KidsInv, Alive
  <2>2. parent[q] \in Procs
    BY ZenonT(30), <2>1 DEF FamilyInv, SwitchInv, TypeOK
  <2>3. state[parent[q]] \in Alive
    BY ZenonT(30), <2>2 DEF FamilyInv, KidsInv
  <2> QED BY <2>1, <2>3 DEF Alive
<1> QED BY <1>1, FamilyInvariant, PTL

=============================================================================
