------------------------------- MODULE MCPipe -------------------------------
(* Three processes on a pipe of two bytes whose counters wrap at four.     *)
EXTENDS Pipe, TLC

CONSTANTS p1, p2, p3, a, b

Symmetry == Permutations(Procs) \cup Permutations(Bytes)
=============================================================================
