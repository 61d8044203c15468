----------------------------- MODULE BlockStore -----------------------------
(* What the buffer cache promises to its callers, the log first of all:    *)
(* each block has one current contents, at most one process at a time has  *)
(* the block, and what is not on the disk yet is pinned.  How many buffers *)
(* there are, and which block is in which, cannot be seen.                 *)
CONSTANTS Procs, Blocks, Vals, Nobody

VARIABLES contents, home, holder, pinned

Init ==
  /\ home \in [Blocks -> Vals] /\ contents = home
  /\ holder = [b \in Blocks |-> Nobody]
  /\ pinned = {}

Get(p, b) ==
  /\ holder[b] = Nobody
  /\ holder' = [holder EXCEPT ![b] = p]
  /\ UNCHANGED <<contents, home, pinned>>

\* The holder changes the block and pins it.
Write(p, b, v) ==
  /\ holder[b] = p
  /\ contents' = [contents EXCEPT ![b] = v]
  /\ pinned' = pinned \cup {b}
  /\ UNCHANGED <<home, holder>>

\* The holder brings the disk up to date.
Flush(p, b) ==
  /\ holder[b] = p
  /\ home' = [home EXCEPT ![b] = contents[b]]
  /\ UNCHANGED <<contents, holder, pinned>>

Unpin(p, b) ==
  /\ holder[b] = p /\ home[b] = contents[b]
  /\ pinned' = pinned \ {b}
  /\ UNCHANGED <<contents, home, holder>>

Put(p, b) ==
  /\ holder[b] = p
  /\ holder' = [holder EXCEPT ![b] = Nobody]
  /\ UNCHANGED <<contents, home, pinned>>

Next ==
  \E p \in Procs, b \in Blocks :
    \/ Get(p, b) \/ Flush(p, b) \/ Unpin(p, b) \/ Put(p, b)
    \/ \E v \in Vals : Write(p, b, v)

Spec == Init /\ [][Next]_<<contents, home, holder, pinned>>
=============================================================================
