--------------------------------- MODULE Vm ---------------------------------
(***************************************************************************)
(* The page allocator of kalloc.c, the page tables of vm.c and the process *)
(* images of proc.c and exec.c, as operators on a memory                   *)
(*   m = [free, table, data, panic]:                                       *)
(* the free pages, every page read as a page table and as data, and        *)
(* whether the kernel has panicked.  Operators that can fail return a      *)
(* record with the memory they leave behind.                               *)
(***************************************************************************)
EXTENDS Naturals, Integers, FiniteSets, Sequences

CONSTANTS
  NPAGES,    \* pages of physical memory
  RADIX,     \* entries of a page-table page
  PGSIZE,    \* bytes of a page
  UINT64,    \* the number of values of a uint64
  USERSTACK, \* pages of a user stack
  MAXARG     \* entries of an array of arguments

Pages == 1 .. NPAGES
Trampoline == NPAGES + 1    \* the page of kernel code that every process maps
Index == 0 .. RADIX - 1

\* Virtual pages: three levels of page tables.
MAXVA == RADIX * RADIX * RADIX
TRAMPOLINE == MAXVA - 1
TRAPFRAME == TRAMPOLINE - 1

\* A process runs out of memory before its addresses run into the trapframe.
ASSUME MemoryAssumption == NPAGES < TRAPFRAME /\ MAXVA * PGSIZE < UINT64

NoPte == [pa |-> 0, perm |-> {}]
Valid(pte) == pte.pa # 0
Leaf(pte) == pte.perm # {}

Zeros == [i \in Index |-> NoPte]
\* What kalloc() and kfree() fill a page with, should it be taken for a table.
Junk == [i \in Index |-> [pa |-> NPAGES + 2, perm |-> {"junk"}]]
JunkData == 5

PX(level, va) == (va \div (RADIX ^ level)) % RADIX

PGROUNDUP(sz) == ((sz + PGSIZE - 1) \div PGSIZE) * PGSIZE
NPagesOf(sz) == PGROUNDUP(sz) \div PGSIZE

Panic(m, cond) == [m EXCEPT !.panic = @ \/ cond]

-----------------------------------------------------------------------------
(* kalloc.c                                                                *)

\* kinit(): all memory is free.
kinit == [free |-> Pages, table |-> [pa \in Pages |-> Junk],
          data |-> [pa \in Pages |-> JunkData], panic |-> FALSE]

\* kfree() would not notice that a page is freed twice; here it counts as a panic.
kfree(m, pa) ==
  [Panic(m, pa \notin Pages \/ pa \in m.free) EXCEPT
     !.free = @ \cup ({pa} \cap Pages),
     !.table = [q \in Pages |-> IF q = pa THEN Junk ELSE @[q]],
     !.data = [q \in Pages |-> IF q = pa THEN JunkData ELSE @[q]]]

\* pa is 0 when there is no memory.  Which page it is does not matter.
kalloc(m) ==
  IF m.free = {} THEN [m |-> m, pa |-> 0]
  ELSE LET pa == CHOOSE q \in m.free : \A r \in m.free : q <= r
       IN  [m |-> [m EXCEPT !.free = @ \ {pa}], pa |-> pa]

-----------------------------------------------------------------------------
(* vm.c                                                                    *)

RECURSIVE Descend(_, _, _, _, _), NewTable(_, _, _, _)
Descend(m, pt, level, va, alloc) ==
  LET pte == m.table[pt][PX(level, va)]
  IN  IF level = 0 THEN [m |-> m, at |-> <<pt, PX(level, va)>>]
      ELSE IF Valid(pte) THEN Descend(m, pte.pa, level - 1, va, alloc)
      ELSE IF alloc THEN NewTable(kalloc(m), pt, level, va)
      ELSE [m |-> m, at |-> <<>>]

\* Page k, if there was one, becomes a table below table pt.
NewTable(k, pt, level, va) ==
  IF k.pa = 0 THEN [m |-> k.m, at |-> <<>>]
  ELSE Descend([k.m EXCEPT !.table[k.pa] = Zeros,
                           !.table[pt][PX(level, va)] = [pa |-> k.pa, perm |-> {}]],
               k.pa, level - 1, va, TRUE)

\* The place of the entry for va, <<>> if there is none (or no memory for it).
walk(m, pagetable, va, alloc) == Descend(Panic(m, va >= MAXVA), pagetable, 2, va, alloc)

Pte(m, at) == IF at = <<>> THEN NoPte ELSE m.table[at[1]][at[2]]

PteOf(m, pagetable, va) == Pte(m, walk(m, pagetable, va, FALSE).at)

SetPte(m, at, pte) == [m EXCEPT !.table[at[1]][at[2]] = pte]

\* The user page at va, 0 if there is none.
walkaddr(m, pagetable, va) ==
  LET pte == IF va >= MAXVA THEN NoPte ELSE PteOf(m, pagetable, va)
  IN  IF "u" \in pte.perm THEN pte.pa ELSE 0

\* The entry that walk() has found is set; it must not be in use.
MapAt(w, pte) ==
  IF w.at = <<>> THEN [m |-> w.m, ok |-> FALSE]
  ELSE [m |-> SetPte(Panic(w.m, Valid(Pte(w.m, w.at))), w.at, pte), ok |-> TRUE]

\* mappages() of one page.
mappages(m, pagetable, va, pa, perm) ==
  MapAt(walk(m, pagetable, va, TRUE), [pa |-> pa, perm |-> perm])

\* The entry at `at` is cleared, its page freed.
UnmapAt(m, at, do_free) ==
  SetPte(IF do_free THEN kfree(m, Pte(m, at).pa) ELSE m, at, NoPte)

RECURSIVE uvmunmap(_, _, _, _, _)
uvmunmap(m, pagetable, va, npages, do_free) ==
  IF npages <= 0 THEN m
  ELSE IF ~Leaf(PteOf(m, pagetable, va)) THEN Panic(m, TRUE)
  ELSE uvmunmap(UnmapAt(m, walk(m, pagetable, va, FALSE).at, do_free),
                pagetable, va + 1, npages - 1, do_free)

\* A page of zeroed entries.
Zeroed(k) == IF k.pa = 0 THEN k ELSE [k EXCEPT !.m.table[k.pa] = Zeros]

uvmcreate(m) == Zeroed(kalloc(m))

NotLess(newsz, oldsz) == newsz >= oldsz

\* The pages that a process of this size keeps.
Kept(newsz) == NPagesOf(newsz)

\* Sizes are in bytes and need not be page-aligned.
uvmdealloc(m, pagetable, oldsz, newsz) ==
  IF NotLess(newsz, oldsz) THEN [m |-> m, sz |-> oldsz]
  ELSE [m |-> uvmunmap(m, pagetable, Kept(newsz), NPagesOf(oldsz) - Kept(newsz), TRUE),
        sz |-> newsz]

\* Mutant: the page is not given back.
Lost(m, pa) == m

\* The page for which there was no page table goes back.
GiveBack(m, pa) == kfree(m, pa)

\* Pages a and up to page "to" of a process that had pages below "from": a page,
\* an entry for it, and the next; without either, back to what there was.
RECURSIVE Grow(_, _, _, _, _, _), GrowPage(_, _, _, _, _, _), GrowMapped(_, _, _, _, _, _, _)
Grow(m, pagetable, a, from, to, perm) ==
  IF a >= to THEN [m |-> m, ok |-> TRUE]
  ELSE GrowPage(kalloc(m), pagetable, a, from, to, perm)

Ungrow(m, pagetable, a, from) ==
  [m |-> uvmdealloc(m, pagetable, a * PGSIZE, from * PGSIZE).m, ok |-> FALSE]

GrowPage(k, pagetable, a, from, to, perm) ==
  IF k.pa = 0 THEN Ungrow(k.m, pagetable, a, from)
  ELSE GrowMapped(mappages([k.m EXCEPT !.data[k.pa] = 0], pagetable, a, k.pa, {"r", "u"} \cup perm),
                  k.pa, pagetable, a, from, to, perm)

GrowMapped(p, pa, pagetable, a, from, to, perm) ==
  IF p.ok THEN Grow(p.m, pagetable, a + 1, from, to, perm)
  ELSE Ungrow(GiveBack(p.m, pa), pagetable, a, from)

\* sz is 0 on failure.  Page-table pages stay.
uvmalloc(m, pagetable, oldsz, newsz, xperm) ==
  LET from == NPagesOf(oldsz)
      sized(g) == [m |-> g.m, sz |-> IF g.ok THEN newsz ELSE 0]
  IN  IF newsz < oldsz THEN [m |-> m, sz |-> oldsz]
      ELSE sized(Grow(m, pagetable, from, from, NPagesOf(newsz), xperm))

RECURSIVE freewalk(_, _)
freewalk(m, pagetable) ==
  LET RECURSIVE Entries(_, _)
      Entries(mm, i) ==
        IF i = RADIX THEN mm
        ELSE LET pte == mm.table[pagetable][i]
             IN  IF Valid(pte) /\ ~Leaf(pte)
                 THEN Entries(SetPte(freewalk(mm, pte.pa), <<pagetable, i>>, NoPte), i + 1)
                 ELSE Entries(Panic(mm, Valid(pte)), i + 1)
  IN  kfree(Entries(m, 0), pagetable)

uvmfree(m, pagetable, sz) == freewalk(uvmunmap(m, pagetable, 0, NPagesOf(sz), TRUE), pagetable)

\* Mutant: the page is not copied.
CopiedNot(m, pa) == kalloc(m)

\* A new page with the contents of page pa.
Copied(m, pa) ==
  LET filled(k) == IF k.pa = 0 THEN k ELSE [k EXCEPT !.m.data[k.pa] = m.data[pa]]
  IN  filled(kalloc(m))

\* From page i on: a copy of the page, an entry for it, and the next; without
\* either, what has been copied goes.
RECURSIVE uvmcopy(_, _, _, _, _), CopyPage(_, _, _, _, _, _), CopyMapped(_, _, _, _, _, _)
uvmcopy(m, old, new, i, n) ==
  LET pte == PteOf(m, old, i)
  IN  IF i >= n THEN [m |-> m, ok |-> TRUE]
      ELSE IF ~Valid(pte) THEN [m |-> Panic(m, TRUE), ok |-> FALSE]
      ELSE CopyPage(Copied(m, pte.pa), pte.perm, old, new, i, n)

Uncopy(m, new, i) == [m |-> uvmunmap(m, new, 0, i, TRUE), ok |-> FALSE]

CopyPage(k, perm, old, new, i, n) ==
  IF k.pa = 0 THEN Uncopy(k.m, new, i)
  ELSE CopyMapped(mappages(k.m, new, i, k.pa, perm), k.pa, old, new, i, n)

CopyMapped(p, pa, old, new, i, n) ==
  IF p.ok THEN uvmcopy(p.m, old, new, i + 1, n) ELSE Uncopy(GiveBack(p.m, pa), new, i)

uvmclear(m, pagetable, va) ==
  LET w == walk(m, pagetable, va, FALSE)
  IN  IF w.at = <<>> THEN Panic(m, TRUE)
      ELSE SetPte(m, w.at, [Pte(m, w.at) EXCEPT !.perm = @ \ {"u"}])

\* The entries copyout() accepts.
MayWrite(pte) == {"u", "w"} \subseteq pte.perm

\* copyout() of v to n pages from va on; it stops at the first it may not write.
RECURSIVE copyout(_, _, _, _, _)
copyout(m, pagetable, va, n, v) ==
  LET pte == IF va >= MAXVA THEN NoPte ELSE PteOf(m, pagetable, va)
  IN  IF n = 0 THEN [m |-> m, ok |-> TRUE]
      ELSE IF ~MayWrite(pte) THEN [m |-> m, ok |-> FALSE]
      ELSE copyout([m EXCEPT !.data[pte.pa] = v], pagetable, va + 1, n - 1, v)

\* copyin() and copyinstr() of n pages from va on: the contents, <<>> on failure.
RECURSIVE copyin(_, _, _, _, _)
copyin(m, pagetable, va, n, got) ==
  LET pa == walkaddr(m, pagetable, va)
  IN  IF n = 0 THEN got
      ELSE IF pa = 0 THEN <<>>
      ELSE copyin(m, pagetable, va + 1, n - 1, Append(got, m.data[pa]))

-----------------------------------------------------------------------------
(* Process images: proc.c                                                  *)

\* The trampoline, then the trapframe, are mapped into the new page table.
MapTrapframe(b, pt) ==
  IF b.ok THEN [m |-> b.m, pa |-> pt]
  ELSE [m |-> uvmfree(uvmunmap(b.m, pt, TRAMPOLINE, 1, FALSE), pt, 0), pa |-> 0]

MapTrampoline(a, pt, trapframe) ==
  IF a.ok THEN MapTrapframe(mappages(a.m, pt, TRAPFRAME, trapframe, {"r", "w"}), pt)
  ELSE [m |-> uvmfree(a.m, pt, 0), pa |-> 0]

\* pa is 0 on failure.
proc_pagetable(m, trapframe) ==
  LET filled(k) ==
        IF k.pa = 0 THEN k
        ELSE MapTrampoline(mappages(k.m, k.pa, TRAMPOLINE, Trampoline, {"r", "x"}), k.pa, trapframe)
  IN  filled(uvmcreate(m))

proc_freepagetable(m, pagetable, sz) ==
  uvmfree(uvmunmap(uvmunmap(m, pagetable, TRAMPOLINE, 1, FALSE), pagetable, TRAPFRAME, 1, FALSE),
          pagetable, sz)

NoImage == [used |-> FALSE, trapframe |-> 0, pagetable |-> 0, sz |-> 0]

\* freeproc(): p is unused afterwards.
freeproc(m, p) ==
  LET m1 == IF p.trapframe # 0 THEN kfree(m, p.trapframe) ELSE m
  IN  IF p.pagetable # 0 THEN proc_freepagetable(m1, p.pagetable, p.sz) ELSE m1

\* allocproc(): p is NoImage on failure.
WithPagetable(t, trapframe) ==
  LET p == [used |-> TRUE, trapframe |-> trapframe, pagetable |-> t.pa, sz |-> 0]
  IN  IF t.pa = 0 THEN [m |-> freeproc(t.m, p), p |-> NoImage] ELSE [m |-> t.m, p |-> p]

allocproc(m) ==
  LET filled(k) == IF k.pa = 0 THEN [m |-> k.m, p |-> NoImage]
                   ELSE WithPagetable(proc_pagetable(k.m, k.pa), k.pa)
  IN  filled(kalloc(m))

\* userinit() with uvmfirst(): one page with the code that runs init.
uvmfirst(k, pagetable) ==
  mappages([k.m EXCEPT !.data[k.pa] = 0], pagetable, 0, k.pa, {"r", "w", "x", "u"}).m

userinit(m) ==
  LET first(a) == [m |-> uvmfirst(kalloc(a.m), a.p.pagetable), p |-> [a.p EXCEPT !.sz = PGSIZE]]
  IN  first(allocproc(m))

\* fork(): the memory part.
ForkCopied(c, child, sz) ==
  IF c.ok THEN [m |-> c.m, p |-> [child EXCEPT !.sz = sz]]
  ELSE [m |-> freeproc(c.m, child), p |-> NoImage]

forkmem(m, p) ==
  LET filled(a) ==
        IF ~a.p.used THEN a
        ELSE ForkCopied(uvmcopy(a.m, p.pagetable, a.p.pagetable, 0, NPagesOf(p.sz)), a.p, p.sz)
  IN  filled(allocproc(m))

\* growproc(n): sz + n is computed modulo 2^64.
growproc(m, p, n) ==
  LET sz == (p.sz + n + UINT64) % UINT64
      resized(a) == [m |-> a.m, p |-> IF a.sz = 0 /\ n > 0 THEN p ELSE [p EXCEPT !.sz = a.sz],
                     ok |-> a.sz # 0 \/ n < 0]
  IN  IF n > 0 THEN resized(uvmalloc(m, p.pagetable, p.sz, sz, {"w"}))
      ELSE IF n < 0 THEN resized(uvmdealloc(m, p.pagetable, p.sz, sz))
      ELSE [m |-> m, p |-> p, ok |-> TRUE]

-----------------------------------------------------------------------------
(* exec.c                                                                  *)

\* A program: is its header good, its segments, what its arguments take of the
\* stack, and their number.  A segment has an address, a size in memory and a
\* size in the file (short: the file ends before), permissions and its contents.

\* loadseg() of the pages va to va + n.
RECURSIVE loadseg(_, _, _, _, _)
loadseg(m, pagetable, va, n, seg) ==
  LET pa == walkaddr(m, pagetable, va)
  IN  IF n = 0 THEN [m |-> m, ok |-> TRUE]
      ELSE IF pa = 0 THEN [m |-> Panic(m, TRUE), ok |-> FALSE]
      ELSE IF seg.short /\ n = 1 THEN [m |-> m, ok |-> FALSE]
      ELSE loadseg([m EXCEPT !.data[pa] = seg.data], pagetable, va + 1, n - 1, seg)

BadSegment(seg) ==
  \/ seg.memsz < seg.filesz
  \/ (seg.vaddr + seg.memsz) % UINT64 < seg.vaddr
  \/ seg.vaddr % PGSIZE # 0

\* The segments from the first of segs on: pages for it, its contents, the next.
RECURSIVE Load(_, _, _, _), LoadGrown(_, _, _, _), LoadRead(_, _, _, _)
Load(m, pagetable, sz, segs) ==
  LET seg == Head(segs)
  IN  IF segs = <<>> THEN [m |-> m, sz |-> sz, ok |-> TRUE]
      ELSE IF BadSegment(seg) THEN [m |-> m, sz |-> sz, ok |-> FALSE]
      ELSE LoadGrown(uvmalloc(m, pagetable, sz, seg.vaddr + seg.memsz, seg.perm), pagetable, sz, segs)

LoadGrown(a, pagetable, sz, segs) ==
  LET seg == Head(segs)
  IN  IF a.sz = 0 THEN [m |-> a.m, sz |-> sz, ok |-> FALSE]
      ELSE LoadRead(loadseg(a.m, pagetable, seg.vaddr \div PGSIZE, NPagesOf(seg.filesz), seg),
                    pagetable, a.sz, segs)

LoadRead(l, pagetable, sz, segs) ==
  IF l.ok THEN Load(l.m, pagetable, sz, Tail(segs)) ELSE [m |-> l.m, sz |-> sz, ok |-> FALSE]

\* What exec() does with the new page table at "bad".
FreedOnError(m, pagetable, sz) == proc_freepagetable(m, pagetable, sz)

\* Mutant: the arguments are pushed on the old stack.
ArgsToOld(p, new) == p.pagetable

\* The page table through which exec() pushes the arguments.
ArgsTo(p, new) == new

\* The steps of exec(), each with the outcome of the one before and pt, the new
\* page table: the arguments are on the stack; there are pages for the stack; the
\* segments are loaded; there is a page table.
BadExec(m, p, pt, sz) == [m |-> FreedOnError(m, pt, sz), p |-> p, ok |-> FALSE]

\* The old image goes only when nothing can fail any more.
ExecArgs(a, p, e, pt, sz) ==
  IF e.args > MAXARG \/ e.stack > USERSTACK * PGSIZE \/ ~a.ok THEN BadExec(a.m, p, pt, sz)
  ELSE [m |-> proc_freepagetable(a.m, p.pagetable, p.sz),
        p |-> [p EXCEPT !.pagetable = pt, !.sz = sz], ok |-> TRUE]

\* The page at base is the guard page below the stack.
ExecStack(s, p, e, pt, base) ==
  IF s.sz = 0 THEN BadExec(s.m, p, pt, base)
  ELSE ExecArgs(copyout(uvmclear(s.m, pt, base \div PGSIZE), ArgsTo(p, pt),
                        base \div PGSIZE + 1, USERSTACK, 0),
                p, e, pt, s.sz)

ExecLoaded(l, p, e, pt) ==
  LET base == PGROUNDUP(l.sz)
  IN  IF ~l.ok THEN BadExec(l.m, p, pt, l.sz)
      ELSE ExecStack(uvmalloc(l.m, pt, base, base + (USERSTACK + 1) * PGSIZE, {"w"}), p, e, pt, base)

ExecTable(t, p, e) ==
  IF t.pa = 0 THEN [m |-> t.m, p |-> p, ok |-> FALSE]
  ELSE ExecLoaded(Load(t.m, t.pa, 0, e.segs), p, e, t.pa)

execmem(m, p, e) ==
  IF ~e.magic THEN [m |-> m, p |-> p, ok |-> FALSE]
  ELSE ExecTable(proc_pagetable(m, p.trapframe), p, e)

RECURSIVE Fetch(_, _)
Fetch(m, n) ==
  LET k == kalloc(m)
      more == Fetch(k.m, n - 1)
  IN  IF n = 0 THEN [m |-> m, got |-> {}, ok |-> TRUE]
      ELSE IF k.pa = 0 THEN [m |-> m, got |-> {}, ok |-> FALSE]
      ELSE [more EXCEPT !.got = @ \cup {k.pa}]

RECURSIVE FreeAll(_, _)
FreeAll(m, S) ==
  IF S = {} THEN m ELSE LET pa == CHOOSE q \in S : TRUE IN FreeAll(kfree(m, pa), S \ {pa})

\* sys_exec(): a page for each argument while exec() runs, if argv[] has room for
\* them and the 0 after the last.
sys_exec(m, p, e) ==
  LET fits == e.args < MAXARG
      run(f) == [(IF fits /\ f.ok THEN execmem(f.m, p, e) ELSE [m |-> f.m, p |-> p, ok |-> FALSE]) EXCEPT
                   !.m = FreeAll(@, f.got)]
  IN  run(Fetch(m, IF fits THEN e.args ELSE MAXARG))
=============================================================================
