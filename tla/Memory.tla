------------------------------- MODULE Memory -------------------------------
(***************************************************************************)
(* Processes and pipes that share the memory of module Vm.  Each system    *)
(* call is one step: calls of different processes share nothing but the    *)
(* free pages, and how many of those there are differs from state to       *)
(* state, so that a call runs out of memory at every point where it can.   *)
(***************************************************************************)
EXTENDS Vm

CONSTANTS
  Owners,     \* the process table; process 1 is init
  MaxSize,   \* processes do not grow beyond this (bytes)
  Amounts,   \* arguments of sbrk()
  Programs,  \* the programs exec() may be given
  Touched,   \* the pages that are stored to, written from and read to
  Reserved,  \* how many pages the kernel may have taken for itself at boot
  MaxCalls   \* steps of a run

VARIABLES
  mem,       \* the memory
  image,      \* the processes' images
  kernel,    \* the pages the kernel has taken at boot
  page,      \* the page of the pipe, 0 if there is none
  last       \* the last call: its number, the process, the call, did it succeed

memvars == <<mem, image, kernel, page, last>>

\* main(): the kernel allocates its page table, stacks and queues, then comes the
\* first process.
MemInit ==
  /\ \E n \in Reserved : \E u \in {userinit([kinit EXCEPT !.free = @ \ (1 .. n)])} :
       /\ kernel = 1 .. n
       /\ mem = u.m
       /\ image = [p \in Owners |-> IF p = 1 THEN u.p ELSE NoImage]
  /\ page = 0
  /\ last = [n |-> 0, who |-> 1, call |-> "none", ok |-> TRUE]

Did(p, call, ok) ==
  /\ last.n < MaxCalls
  /\ last' = [n |-> last.n + 1, who |-> p, call |-> call, ok |-> ok]

\* The call of p leaves memory x.m and makes x.p the image of q.
Becomes(p, q, call, x, ok) ==
  /\ mem' = x.m
  /\ image' = [image EXCEPT ![q] = x.p]
  /\ Did(p, call, ok)
  /\ UNCHANGED <<kernel, page>>

Forked(p, q, f) == Becomes(p, q, "fork", f, f.p.used)

\* allocproc() takes the first unused process.
Fork(p) ==
  LET slots == {q \in Owners : ~image[q].used}
  IN  /\ image[p].used
      /\ slots # {}
      /\ Forked(p, CHOOSE s \in slots : \A t \in slots : s <= t, forkmem(mem, image[p]))

\* A process has exited and its parent's wait() frees it.
Reap(p) ==
  /\ p # 1
  /\ image[p].used
  /\ mem' = freeproc(mem, image[p])
  /\ image' = [image EXCEPT ![p] = NoImage]
  /\ Did(p, "wait", TRUE)
  /\ UNCHANGED <<kernel, page>>

SameProc(p, call, x) == Becomes(p, p, call, x, x.ok)

SysSbrk(p, n) ==
  /\ image[p].used
  /\ image[p].sz + n <= MaxSize
  /\ SameProc(p, "sbrk", growproc(mem, image[p], n))

Exec(p, e) ==
  /\ image[p].used
  /\ SameProc(p, "exec", sys_exec(mem, image[p], e))

\* A store instruction of the process; each has a value of its own to store.
Store(p, va) ==
  LET pte == PteOf(mem, image[p].pagetable, va)
  IN  /\ image[p].used
      /\ {"u", "w"} \subseteq pte.perm
      /\ mem' = [mem EXCEPT !.data[pte.pa] = p]
      /\ Did(p, "store", TRUE)
      /\ UNCHANGED <<image, kernel, page>>

\* pipealloc() and pipeclose() take and give back a page.
PipeAlloc(p) ==
  LET k == kalloc(mem)
  IN  /\ image[p].used
      /\ page = 0
      /\ mem' = IF k.pa = 0 THEN mem ELSE [k.m EXCEPT !.data[k.pa] = 0]
      /\ page' = k.pa
      /\ Did(p, "pipe", k.pa # 0)
      /\ UNCHANGED <<image, kernel>>

PipeFree(p) ==
  /\ image[p].used
  /\ page # 0
  /\ mem' = kfree(mem, page)
  /\ page' = 0
  /\ Did(p, "close", TRUE)
  /\ UNCHANGED <<image, kernel>>

PipeWrite(p, va) ==
  LET c == copyin(mem, image[p].pagetable, va, 1, <<>>)
  IN  /\ image[p].used
      /\ page # 0
      /\ mem' = IF c = <<>> THEN mem ELSE [mem EXCEPT !.data[page] = c[1]]
      /\ Did(p, "write", c # <<>>)
      /\ UNCHANGED <<image, kernel, page>>

PipeRead(p, va, n) ==
  LET c == copyout(mem, image[p].pagetable, va, n, mem.data[page])
  IN  /\ image[p].used
      /\ page # 0
      /\ mem' = c.m
      /\ Did(p, "read", c.ok)
      /\ UNCHANGED <<image, kernel, page>>

MemNext ==
  \E p \in Owners :
    \/ Fork(p) \/ Reap(p) \/ PipeAlloc(p) \/ PipeFree(p)
    \/ \E n \in Amounts : SysSbrk(p, n)
    \/ \E e \in Programs : Exec(p, e)
    \/ \E va \in Touched : Store(p, va) \/ PipeWrite(p, va) \/ PipeRead(p, va, 2)

-----------------------------------------------------------------------------
(* Properties.                                                             *)

\* The type of the state: only pages between end and PHYSTOP are on the free
\* list, and no sbrk() or exec() makes a process larger than it asked to be.
MemTypeOK ==
  /\ mem.free \subseteq Pages
  /\ page \in Pages \cup {0}
  /\ \A p \in Owners : image[p].sz \in 0 .. MaxSize + (USERSTACK + 2) * PGSIZE

\* What the page table of p leads to: <<place, page>> for each of its tables and
\* for each page it maps.
Below(pt) == {<<i, mem.table[pt][i].pa>> : i \in {j \in Index : Valid(mem.table[pt][j])}}

Tables(p) ==
  LET root == image[p].pagetable
  IN  {<<<<p>>, root>>}
      \cup {<<<<p, x[1]>>, x[2]>> : x \in Below(root)}
      \cup UNION {{<<<<p, x[1], y[1]>>, y[2]>> : y \in Below(x[2])} : x \in Below(root)}

Maps(p) ==
  LET leaves == {t \in Tables(p) : Len(t[1]) = 3}
  IN  UNION {{<<Append(t[1], y[1]), y[2]>> : y \in Below(t[2])} : t \in leaves}

Used == {p \in Owners : image[p].used}

\* All uses of memory.  The trapframe is mapped, so its page is found twice in
\* the same place.
Uses ==
  UNION {Tables(p) : p \in Used}
  \cup {x \in UNION {Maps(p) : p \in Used} : x[2] # Trampoline}
  \cup {<<<<0>>, pa>> : pa \in (kernel \cup {page}) \ {0}}

\* Every page of memory is free or in use in exactly one place: no call, failed
\* half-way or not, leaks a page, frees one that is in use, or has two processes
\* share one.
PagesUsedOnce ==
  /\ Pages \ mem.free = {u[2] : u \in Uses}
  /\ \A u, w \in Uses : u[2] = w[2] => u = w

\* A process has exactly the pages below its size, the trampoline and its own
\* trapframe, whatever sizes sbrk() has been asked for, failed ones included.
MappedExactly ==
  \A p \in Used :
    /\ {(x[1][2] * RADIX + x[1][3]) * RADIX + x[1][4] : x \in Maps(p)} =
         (0 .. NPagesOf(image[p].sz) - 1) \cup {TRAMPOLINE, TRAPFRAME}
    /\ PteOf(mem, image[p].pagetable, TRAPFRAME).pa = image[p].trapframe

\* No panic of kalloc.c, vm.c and exec.c: nothing is mapped twice, unmapped
\* twice or freed twice, and freewalk() finds no leaves.
NoPanic == ~mem.panic

\* The page tables, the free list and the sizes of the processes account for all
\* of memory, exactly.
MemoryExact == MemTypeOK /\ PagesUsedOnce /\ MappedExactly /\ NoPanic

\* The memory of process p as the process sees it.
Image(m, p) ==
  [va \in 0 .. NPagesOf(p.sz) - 1 |->
     LET pte == PteOf(m, p.pagetable, va) IN <<m.data[pte.pa], pte.perm>>]

Before(p) == Image(mem, image[p])
After(p) == Image(mem', image'[p])

\* fork() gives the child the parent's image; and a step of one process leaves the
\* images of all the others as they are, whether forked from it or not.
ImagesSeparate ==
  [][/\ \A p \in Used : p # last'.who \/ last'.call = "fork" => After(p) = Before(p)
     /\ last'.call = "fork" =>
          \A q \in Owners \ Used : image'[q].used => After(q) = Before(last'.who)]_memvars

\* A fork() or exec() that fails, however far it has got, leaves the image and
\* the free pages as they were.  (A failed sbrk() leaves the image, but
\* page-table pages it has made stay until the process exits.)
FailureRestores ==
  [][~last'.ok /\ last'.call \in {"fork", "exec", "sbrk"} =>
       /\ After(last'.who) = Before(last'.who)
       /\ last'.call # "sbrk" => mem'.free = mem.free]_memvars

\* exec() gives the process the segments of the program, a page it cannot touch
\* below the stack, and a stack that it can write.
ExecLoads ==
  [][last'.call = "exec" /\ last'.ok =>
       LET new == After(last'.who)
           stack == Cardinality(DOMAIN new) - USERSTACK
       IN  /\ "u" \notin new[stack - 1][2]
           /\ \A va \in DOMAIN new : va >= stack => {"u", "w"} \subseteq new[va][2]
           /\ \A e \in Programs : Exec(last'.who, e) => \A i \in 1 .. Len(e.segs) :
                \A k \in 1 .. NPagesOf(e.segs[i].filesz) :
                  new[e.segs[i].vaddr \div PGSIZE + k - 1] =
                    <<e.segs[i].data, {"r", "u"} \cup e.segs[i].perm>>]_memvars

\* A call does all of what it promises or nothing: exec() loads the program or,
\* like fork() and sbrk(), leaves the process as it was.
AllOrNothing == ExecLoads /\ FailureRestores
=============================================================================
