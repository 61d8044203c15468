------------------------------- MODULE MCUser -------------------------------
(* Processes and their programs.  The four share nothing, so a behaviour   *)
(* runs one of them: the memory of processes, the shell, a program that    *)
(* uses malloc(), and one that uses the collector.                         *)
EXTENDS Memory, Sh, Umalloc, MarkSweep

VARIABLE program

vars == <<program, memvars, shvars, heapvars, gcvars>>

Init ==
  /\ program \in {"memory", "sh", "malloc", "mark_sweep"}
  /\ MemInit /\ ShInit /\ HeapInit /\ GcInit
  /\ program # "sh" => work = CHOOSE w \in Workloads : TRUE
  /\ program # "memory" => kernel = {}

Images == program = "memory" /\ MemNext /\ UNCHANGED <<program, shvars, heapvars, gcvars>>
Shell == program = "sh" /\ ShNext /\ UNCHANGED <<program, memvars, heapvars, gcvars>>
Heaps == program = "malloc" /\ HeapNext /\ UNCHANGED <<program, memvars, shvars, gcvars>>
Collector == program = "mark_sweep" /\ GcNext /\ UNCHANGED <<program, memvars, shvars, heapvars>>

Next == Images \/ Shell \/ Heaps \/ Collector

\* scheduler() runs some process as long as one is runnable.  That is enough: no
\* process of the shell's can run for ever.
Fairness == WF_vars(Shell)

Spec == Init /\ [][Next]_vars /\ Fairness

\* The shell always comes to its prompt again (AllRun), in the behaviours that
\* run it.
ShellAllRun == program = "sh" => AllRun

-----------------------------------------------------------------------------
(* Programs for exec(), and amounts for sbrk().                            *)

Seg(vaddr, memsz, filesz, perm, data) ==
  [vaddr |-> vaddr, memsz |-> memsz, filesz |-> filesz, perm |-> perm, data |-> data, short |-> FALSE]

Text == Seg(0, 2, 2, {"x"}, 6)
Data == Seg(2, 3, 1, {"w"}, 7)

Prog(segs) == [magic |-> TRUE, segs |-> segs, stack |-> 1, args |-> 1]

\* Programs that run, and one for each way in which exec() fails.
MCExecs ==
  {Prog(<<Text>>), Prog(<<Text, Data>>), [Prog(<<Text>>) EXCEPT !.magic = FALSE],
   [Prog(<<Text>>) EXCEPT !.stack = 3], [Prog(<<Text>>) EXCEPT !.args = MAXARG],
   Prog(<<Text, [Data EXCEPT !.short = TRUE]>>), Prog(<<[Text EXCEPT !.memsz = 1]>>),
   Prog(<<Text, [Data EXCEPT !.vaddr = 3]>>), Prog(<<Text, [Data EXCEPT !.vaddr = UINT64 - 2]>>)}

\* Less than nothing left, across a page, within a page, and several pages.
MCAmounts == {-20, -3, 1, 5}

-----------------------------------------------------------------------------
(* Command lines.                                                          *)

echo(ws) == execcmd(<<"echo">> \o ws)
cat == execcmd(<<"cat">>)
catf == execcmd(<<"cat", "f">>)
none == execcmd(<<"none">>)
Into(c, mode) == redircmd(c, "f", mode, IF mode = "read" THEN 0 ELSE 1)
Bad(line) == [type |-> "BAD", line |-> line]
EOF == [type |-> "EOF"]

Two == echo(<<"a", "b">>)
One == echo(<<"c">>)

Lines ==
  {<<pipecmd(Two, cat)>>, <<pipecmd(Two, pipecmd(cat, cat))>>,
   <<listcmd(Two, One), One>>,
   <<pipecmd(listcmd(Two, One), cat)>>,
   <<pipecmd(Two, listcmd(cat, One))>>,
   <<pipecmd(pipecmd(One, cat), cat)>>,
   <<pipecmd(Two, none), One>>, <<pipecmd(none, cat)>>, <<pipecmd(Two, One)>>,
   <<Into(listcmd(Two, One), "truncate"), catf>>,
   <<listcmd(Into(Two, "truncate"), listcmd(Into(One, "write"), Into(cat, "read")))>>,
   <<listcmd(Into(Two, "truncate"), listcmd(Into(One, "truncate"), pipecmd(execcmd(<<"cat", "f", "f">>), cat)))>>,
   <<Into(cat, "read"), pipecmd(catf, cat)>>,
   <<Into(redircmd(Two, "g", "truncate", 1), "truncate"), catf, execcmd(<<"cat", "g", "f">>)>>,
   <<backcmd(pipecmd(Two, cat)), One>>, <<listcmd(backcmd(One), Two)>>,
   <<backcmd(listcmd(One, Two))>>,
   <<Into(Two, "truncate"), pipecmd(catf, none), redircmd(catf, "g", "truncate", 1)>>,
   <<execcmd(<<>>), Bad(<<"cd", "d">>), Bad(<<"echo", "c", ")">>), Bad(<<"echo", "c", ">">>), Bad(<<"(", "echo">>), Bad(<<"echo", "c", "&", "echo">>),
     Bad(<<"|", "(">>), Bad(<<"echo", "1", "2", "3">>), One>>,
   <<pipecmd(One, cat), EOF, One>>}

MCWorkloads ==
  {[cmds |-> l, spare |-> 7] : l \in Lines}
  \cup {[cmds |-> <<pipecmd(Two, cat), One>>, spare |-> n] : n \in 1 .. 4}
  \cup {[cmds |-> <<pipecmd(One, pipecmd(cat, pipecmd(cat, cat)))>>, spare |-> 6]}
=============================================================================
