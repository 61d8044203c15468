------------------------------- MODULE MCLog --------------------------------
(* Two instances of Log for TLC, one for each half of the behaviours.  In  *)
(* the wide ones three processes each write two blocks of their own, one   *)
(* after the other, which would fill the log if begin_op() let them in     *)
(* together; no crash comes and no buffer is taken away.  In the others    *)
(* two processes write different values to the same two blocks in any way, *)
(* one of them also reads outside its calls, and anything happens.         *)
EXTENDS Log, TLC

CONSTANTS p1, p2, p3, b1, b2, b3, b4, b5, b6, v0, v1

VARIABLE wide

Own == p1 :> <<b1, b2>> @@ p2 :> <<b3, b4>> @@ p3 :> <<b5, b6>>

Shared == {b1, b2}

\* What the callers of the wide instance do: a call has the next of its
\* process's blocks that it has not written, or the one it wrote last.
Wide ==
  /\ stage # "read_head"
  /\ \A p \in Procs : \A b \in Held(p) :
       /\ pc[p] = "op"
       /\ LET k == Cardinality(written[p])
          IN  \E i \in {k, k + 1} \cap {1, 2} : b = Own[p][i]
  /\ \A b \in Blocks : cache[b] \in {v0, Absent} /\ (holder[b] # NoProc => Held(holder[b]) = {b})

\* What the callers of the other do.
Narrow == pc[p3] = "idle" /\ \A p \in Procs : Held(p) \subseteq Shared

MCInit ==
  /\ Init
  /\ wide \in BOOLEAN
  /\ \A b \in Blocks : home[b] = v0 \/ (~wide /\ b \in Shared)

MCNext ==
  /\ UNCHANGED wide
  /\ Next
  /\ IF wide THEN Wide' /\ \A b \in Blocks : cache'[b] = Absent => cache[b] = Absent
             ELSE Narrow'

MCSpec == MCInit /\ [][MCNext]_<<vars, wide>> /\ Fairness
=============================================================================
