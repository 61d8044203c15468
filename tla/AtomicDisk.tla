----------------------------- MODULE AtomicDisk -----------------------------
(***************************************************************************)
(* What the file-system log promises to the code above it: system calls    *)
(* update one in-memory image of the disk; the image becomes durable only  *)
(* as a whole and only while no system call is in the middle of its        *)
(* updates; a crash takes the image back to what was last made durable.    *)
(***************************************************************************)
CONSTANTS Procs, Blocks, Vals

VARIABLES
  stable,   \* what the disk holds for every block after a crash and recovery
  mem,      \* what the file system reads for every block
  active    \* the processes between begin_op() and end_op()

vars == <<stable, mem, active>>

Init ==
  /\ stable \in [Blocks -> Vals]
  /\ mem = stable
  /\ active = {}

Begin(p) ==
  /\ p \notin active
  /\ active' = active \cup {p}
  /\ UNCHANGED <<stable, mem>>

Write(p, b, v) ==
  /\ p \in active
  /\ mem' = [mem EXCEPT ![b] = v]
  /\ UNCHANGED <<stable, active>>

End(p) ==
  /\ p \in active
  /\ active' = active \ {p}
  /\ UNCHANGED <<stable, mem>>

\* Everything written by the finished system calls becomes durable at once.
Commit ==
  /\ active = {}
  /\ stable' = mem
  /\ UNCHANGED <<mem, active>>

Crash ==
  /\ mem' = stable
  /\ active' = {}
  /\ UNCHANGED stable

Next ==
  \/ \E p \in Procs : Begin(p) \/ End(p)
  \/ \E p \in Procs, b \in Blocks, v \in Vals : Write(p, b, v)
  \/ Commit
  \/ Crash

Spec == Init /\ [][Next]_vars
=============================================================================
