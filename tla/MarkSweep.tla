----------------------------- MODULE MarkSweep ------------------------------
(***************************************************************************)
(* The mark-and-sweep collector (memory_allocation/c/mark_sweep.c), used   *)
(* by any program that allocates objects, lets them refer to each other,   *)
(* and changes its roots.                                                  *)
(***************************************************************************)
EXTENDS Naturals, Sequences, FiniteSets

CONSTANTS Addresses, MAX_REFERENCES, RootCount

VARIABLES
  objects,     \* the list "heap": addresses, the newest first
  marked, references,
  roots,       \* 0 is NULL
  reclaimed    \* what the last collect() returned

gcvars == <<objects, marked, references, roots, reclaimed>>

Heap == {objects[i] : i \in DOMAIN objects}

GcInit ==
  /\ objects = <<>>
  /\ marked = [a \in Addresses |-> FALSE]
  /\ references = [a \in Addresses |-> <<>>]
  /\ roots = [r \in 1 .. RootCount |-> 0]
  /\ reclaimed = 0

\* calloc(): addresses of freed objects come back.  Which one it is does not matter.
AllocateObject ==
  /\ Addresses # Heap
  /\ LET a == CHOOSE x \in Addresses \ Heap : \A y \in Addresses \ Heap : x <= y
     IN  /\ objects' = <<a>> \o objects
         /\ marked' = [marked EXCEPT ![a] = FALSE]
         /\ references' = [references EXCEPT ![a] = <<>>]
  /\ UNCHANGED <<roots, reclaimed>>

\* (With no slot left the program exits.)
AddReference(from, to) ==
  /\ Len(references[from]) < MAX_REFERENCES
  /\ references' = [references EXCEPT ![from] = Append(@, to)]
  /\ UNCHANGED <<objects, marked, roots, reclaimed>>

SetRoot(r, a) ==
  /\ roots[r] # a
  /\ roots' = [roots EXCEPT ![r] = a]
  /\ UNCHANGED <<objects, marked, references, reclaimed>>

\* The references that mark() follows.
ToFollow(a) == DOMAIN references[a]

\* mark(): m are the marks.  The calls for the references come one after another.
RECURSIVE mark(_, _), markAll(_, _, _)
mark(m, candidate) ==
  IF candidate \notin Heap \/ m[candidate] THEN m
  ELSE markAll([m EXCEPT ![candidate] = TRUE], candidate, 1)

markAll(m, a, i) ==
  IF i > Len(references[a]) THEN m
  ELSE markAll(IF i \in ToFollow(a) THEN mark(m, references[a][i]) ELSE m, a, i + 1)

RECURSIVE markRoots(_, _)
markRoots(m, r) ==
  IF r > RootCount THEN m ELSE markRoots(mark(m, roots[r]), r + 1)

\* Mutant: the marks stay for the next collection.
UnmarkedNot(m) == m

\* The sweep clears the marks of the objects it keeps.
Unmarked(m) == [a \in Addresses |-> FALSE]

Collect ==
  LET m == markRoots(marked, 1)
      keep(a) == m[a]
  IN  /\ objects' = SelectSeq(objects, keep)
      /\ references' = [a \in Addresses |-> IF a \in Heap /\ ~m[a] THEN <<>> ELSE references[a]]
      /\ marked' = Unmarked(m)
      /\ reclaimed' = Len(objects) - Len(objects')
      /\ UNCHANGED roots

GcNext ==
  \/ AllocateObject
  \/ Collect
  \/ \E from, to \in Heap : AddReference(from, to)
  \/ \E r \in 1 .. RootCount, a \in Heap \cup {0} : SetRoot(r, a)

-----------------------------------------------------------------------------
(* Properties.                                                             *)

\* The objects that lead from the roots, by at most n references.
RECURSIVE Reach(_)
Reach(n) ==
  IF n = 0 THEN {roots[r] : r \in 1 .. RootCount} \ {0}
  ELSE LET R == Reach(n - 1)
       IN  R \cup UNION {{references[a][i] : i \in DOMAIN references[a]} : a \in R}

Reachable == Reach(Cardinality(Addresses))

\* collect() frees exactly the objects that no root leads to, cycles among them
\* included, keeps the others in their order, and counts what it has freed.
CollectsExactly ==
  [][Collect =>
       /\ objects' = SelectSeq(objects, LAMBDA a : a \in Reachable)
       /\ reclaimed' = Cardinality(Heap \ Reachable)]_gcvars
=============================================================================
