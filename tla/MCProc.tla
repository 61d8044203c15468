------------------------------- MODULE MCProc -------------------------------
(* The process table on a few slots and CPUs; the configurations differ in *)
(* the system calls that programs make.                                    *)
EXTENDS Proc
=============================================================================
