------------------------------ MODULE MCBcache ------------------------------
(* The buffer cache with fewer buffers than blocks.                        *)
EXTENDS Bcache, TLC

CONSTANTS p1, p2, p3, x, y

Symmetry == Permutations(Procs) \cup Permutations(Vals)
=============================================================================
