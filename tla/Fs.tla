--------------------------------- MODULE Fs ---------------------------------
(***************************************************************************)
(* The file system calls of sysfile.c and file.c over the inode layer of   *)
(* fs.c, run by concurrent processes: the inode table with its reference   *)
(* counts and sleep-locks, path name resolution, open files, and the       *)
(* transactions of the log, which a crash takes back as a whole.           *)
(*                                                                         *)
(* A step runs from one point where another process can get in the way to  *)
(* the next: a sleep-lock that may be held, a section under itable.lock or *)
(* ftable.lock, begin_op() and end_op().  What is done while an inode is   *)
(* locked touches only that inode, its blocks and free blocks.             *)
(***************************************************************************)
EXTENDS Inode, TLC

CONSTANTS
  Procs,     \* the process table; process 1 runs first
  NINODE,    \* entries of the inode table
  NFILE,     \* entries of the file table
  NOFILE,    \* open files per process
  MAXOPBLOCKS, \* blocks one transaction may write
  Files,     \* the files mkfs puts into the root directory
  Programs   \* the programs process 1 may run

VARIABLES
  disk,      \* the disk as the buffer cache shows it
  stable,    \* the disk as the log would recover it
  ops,       \* the processes between begin_op() and end_op()
  committing, \* log.committing
  itable,    \* the inode table
  ftable,    \* the file table
  pipes,     \* the pages of pipes: the ends that are open (no end: not allocated)
  proc,      \* the processes
  crashed    \* has the machine been restarted?

vars == <<disk, stable, ops, committing, itable, ftable, pipes, proc, crashed>>

Entries == 1 .. NINODE
Filenos == 1 .. NFILE
Fds == 0 .. NOFILE - 1

NoEntry == [inum |-> 0, ref |-> 0, valid |-> FALSE, lock |-> 0, node |-> NoInode]

NoFile == [ref |-> 0, type |-> "none", readable |-> FALSE, writable |-> FALSE,
           ip |-> 0, off |-> 0, pipe |-> 0]

\* A process: its program (the calls still to make), its files and directory,
\* and while in a call the place it is at (pc), where to go from there (k) and
\* the kernel stack's pointers.  n is the call's result, or a number on the way.
NoProc == [st |-> "unused", parent |-> 0, prog |-> <<>>, ofile |-> [i \in Fds |-> 0],
           cwd |-> 0, pc |-> "user", k |-> <<>>, path |-> <<>>, par |-> FALSE,
           name |-> "", ip |-> 0, dp |-> 0, old |-> 0, arg |-> 0, f |-> 0, wf |-> 0,
           n |-> 0, last |-> 0, failed |-> FALSE]

\* No code looks at "lost" and "reused".  The first counts, for each inode, the
\* links that went away with a directory that was freed while it had entries;
\* the second has the inodes allocated again before the iput() that freed them
\* had dropped its reference.
Image == mkfs(Files) @@ [lost |-> [i \in Inums |-> 0], reused |-> {}]

Init ==
  /\ disk = Image
  /\ stable = disk
  /\ ops = {}
  /\ committing = FALSE
  /\ itable = [e \in Entries |->
                 IF e = 1 THEN [NoEntry EXCEPT !.inum = ROOTINO, !.ref = 1] ELSE NoEntry]
  /\ ftable = [f \in Filenos |-> NoFile]
  /\ pipes = [f \in Filenos |-> {}]
  /\ crashed = FALSE
  /\ \E prog \in Programs :
       proc = [p \in Procs |-> IF p = 1
                 THEN [NoProc EXCEPT !.st = "run", !.prog = prog, !.cwd = 1] ELSE NoProc]

-----------------------------------------------------------------------------
(* Steps of a process.                                                     *)

Set(p, r) == proc' = [proc EXCEPT ![p] = r @@ @]

At(p, label) == proc[p].st = "run" /\ proc[p].pc = label

Call(p) == Head(proc[p].prog)

\* At the start of call c.
Calls(p, c) == At(p, "user") /\ proc[p].prog # <<>> /\ Call(p).f = c

\* Has a read the contents that the program expects: these units, so many bytes of
\* each value, so many entries of each name?
AsExpected(c, data) ==
  /\ c.data # <<>> => data = c.data
  /\ \A b \in DOMAIN c.bytes : Len(SelectSeq(data, LAMBDA u : u[1] = b)) = c.bytes[b]
  /\ \A x \in DOMAIN c.names : Len(SelectSeq(data, LAMBDA u : u[1] # 0 /\ u[2] = x)) = c.names[x]

\* The call returns n (and the units it has read).
Done(p, n, data) ==
  [pc |-> "user", k |-> <<>>, prog |-> Tail(proc[p].prog), path |-> <<>>, par |-> FALSE,
   name |-> "", ip |-> 0, dp |-> 0, old |-> 0, arg |-> 0, f |-> 0, wf |-> 0, n |-> 0,
   last |-> IF Call(p).f = "open" THEN n ELSE proc[p].last,
   failed |-> \/ proc[p].failed
              \/ Call(p).want # {} /\ n \notin Call(p).want
              \/ Call(p).f = "read" /\ ~AsExpected(Call(p), data)]

\* Go to the next place of k, or return n from the call.
Return(p, k, n) ==
  IF k = <<>> THEN Done(p, n, <<>>) ELSE [pc |-> Head(k), k |-> Tail(k), n |-> n]

-----------------------------------------------------------------------------
(* The inode table.                                                        *)

\* The entry of inode inum, a new one if need be; entry 0 when the table is full.
iget(it, inum) ==
  LET here == {e \in Entries : it[e].ref > 0 /\ it[e].inum = inum}
      empty == {e \in Entries : it[e].ref = 0}
      new == Least(empty)
  IN  CASE here # {} -> [it |-> [it EXCEPT ![Least(here)].ref = @ + 1], e |-> Least(here)]
        [] here = {} /\ empty # {} ->
             [it |-> [it EXCEPT ![new].inum = inum, ![new].ref = 1, ![new].valid = FALSE], e |-> new]
        [] OTHER -> [it |-> it, e |-> 0]

\* Where a process is after iget(): r, or in the panic "iget: no inodes", which
\* keeps itable.lock.
Got(g, r) == IF g.e = 0 THEN [pc |-> "panic"] ELSE r

TableUnlocked == \A p \in Procs : ~At(p, "panic")

idup(it, e) == [it EXCEPT ![e].ref = @ + 1]

\* What ilock(e) finds: the copy in the table, read from disk if need be.
Loaded(e) == IF itable[e].valid THEN itable[e].node ELSE disk.inode[itable[e].inum]

\* Entry e after ilock() and a change to node, held by p or (0) unlocked.
Locked(it, e, node, p) ==
  [it EXCEPT ![e].valid = TRUE, ![e].node = node, ![e].lock = p]

CanLock(e) == itable[e].lock = 0

iunlock(it, e) == [it EXCEPT ![e].lock = 0]

\* The table after iget() in a locked directory e, which is then unlocked.
Leave(g, e) == IF g.e = 0 THEN g.it ELSE iunlock(g.it, e)

\* Mutant: iput() never frees an inode.
LastRefNever(e) == FALSE

\* Mutant: iput() frees an inode that others refer to.
LastRefShared(e) == itable[e].valid /\ itable[e].node.nlink = 0

\* The test of iput(): no links and no other references.
LastRef(e) == itable[e].ref = 1 /\ itable[e].valid /\ itable[e].node.nlink = 0

\* iput(arg): the last reference to an inode without links frees the inode.
Iput(p) ==
  LET e == proc[p].arg
      last == LastRef(e)
  IN  /\ At(p, "iput")
      /\ TableUnlocked
      /\ last => CanLock(e)
      /\ IF last
         THEN itable' = [itable EXCEPT ![e].lock = p] /\ Set(p, [pc |-> "iput_free"])
         ELSE /\ itable' = [itable EXCEPT ![e].ref = @ - 1]
              /\ Set(p, [arg |-> 0] @@ Return(p, proc[p].k, proc[p].n))
      /\ UNCHANGED <<disk, stable, ops, committing, ftable, pipes, crashed>>

\* The inodes named by what is left in a directory, with "." and "..".
LeftIn(d, ip) ==
  IF ip.type # "dir" THEN <<>>
  ELSE SelectSeq(readi(d, ip, 0, ip.size), LAMBDA u : u[1] # 0 /\ u[2] \notin {".", ".."})

IputFree(p) ==
  LET e == proc[p].arg
      t == itrunc(disk, itable[e].inum, itable[e].node)
      gone == LeftIn(disk, itable[e].node)
      ip == [t.ip EXCEPT !.type = "free"]
  IN  /\ At(p, "iput_free")
      /\ disk' = [iupdate(t.d, itable[e].inum, ip) EXCEPT !.lost =
                    [i \in Inums |-> @[i] + Len(SelectSeq(gone, LAMBDA u : u[1] = i))]]
      /\ itable' = [itable EXCEPT ![e].node = ip, ![e].valid = FALSE, ![e].lock = 0]
      /\ Set(p, [pc |-> "iput_drop"])
      /\ UNCHANGED <<stable, ops, committing, ftable, pipes, crashed>>

IputDrop(p) ==
  /\ At(p, "iput_drop")
  /\ TableUnlocked
  /\ itable' = [itable EXCEPT ![proc[p].arg].ref = @ - 1]
  /\ Set(p, [arg |-> 0] @@ Return(p, proc[p].k, proc[p].n))
  /\ UNCHANGED <<disk, stable, ops, committing, ftable, pipes, crashed>>

-----------------------------------------------------------------------------
(* Transactions.  How the log does it is in module Log.                    *)

BeginOp(p) ==
  /\ At(p, "begin")
  /\ ~committing
  /\ ops' = ops \cup {p}
  /\ Set(p, Return(p, proc[p].k, proc[p].n))
  /\ UNCHANGED <<disk, stable, committing, itable, ftable, pipes, crashed>>

\* end_op() commits when no other call is in a transaction.
LastOp(active) == active = {}

\* The last call to end commits what all of them did.
EndOp(p) ==
  /\ At(p, "end")
  /\ ops' = ops \ {p}
  /\ committing' = LastOp(ops')
  /\ Set(p, IF LastOp(ops') THEN [pc |-> "commit"] ELSE Return(p, proc[p].k, proc[p].n))
  /\ UNCHANGED <<disk, stable, itable, ftable, pipes, crashed>>

Commit(p) ==
  /\ At(p, "commit")
  /\ stable' = disk
  /\ committing' = FALSE
  /\ Set(p, Return(p, proc[p].k, proc[p].n))
  /\ UNCHANGED <<disk, ops, itable, ftable, pipes, crashed>>

-----------------------------------------------------------------------------
(* Path names.  A path is a sequence of elements, with "/" first if it is  *)
(* absolute.                                                               *)

Absolute(path) == path # <<>> /\ path[1] = "/"

\* The inode where the resolution of path starts.
StartAt(p, it, path) ==
  IF Absolute(path) THEN iget(it, ROOTINO)
  ELSE [it |-> idup(it, proc[p].cwd), e |-> proc[p].cwd]

Rest(path) == IF Absolute(path) THEN Tail(path) ELSE path

Creates(c) == c.f \in {"mkdir", "mknod"} \/ (c.f = "open" /\ "create" \in c.mode)

\* Where a call on a name goes when the name is resolved.
Then(c) ==
  CASE c.f = "open" /\ ~Creates(c) -> <<"open_ip">>
    [] c.f = "open" /\ Creates(c) -> <<"create", "open_file">>
    [] c.f \in {"mkdir", "mknod"} -> <<"create", "mk_done">>
    [] c.f = "chdir" -> <<"chdir">>
    [] c.f = "link" -> <<"link_inc">>
    [] c.f = "unlink" -> <<"unlink_dp">>

\* sys_open, sys_mkdir, sys_mknod, sys_chdir, sys_link, sys_unlink up to the
\* loop of namex().
StartName(p) ==
  /\ \E c \in {"open", "mkdir", "mknod", "chdir", "link", "unlink"} : Calls(p, c)
  /\ ~committing
  /\ TableUnlocked
  /\ ops' = ops \cup {p}
  /\ LET s == StartAt(p, itable, Call(p).path)
     IN  /\ itable' = s.it
         /\ Set(p, Got(s, [pc |-> "namex", k |-> Then(Call(p)), ip |-> s.e,
                           path |-> Rest(Call(p).path),
                           par |-> Creates(Call(p)) \/ Call(p).f = "unlink"]))
  /\ UNCHANGED <<disk, stable, committing, ftable, pipes, crashed>>

\* One round of namex(): look up the next element in the locked directory.
\* Only then is the directory let go and the next one locked.
Namex(p) ==
  LET e == proc[p].ip
      path == proc[p].path
      node == Loaded(e)
      next == dirlookup(disk, node, Head(path))
      it == Locked(itable, e, node, 0)
      null == [pc |-> "iput", arg |-> e, ip |-> 0]
  IN  /\ At(p, "namex")
      /\ TableUnlocked
      /\ path # <<>>
      /\ CanLock(e)
      /\ CASE node.type # "dir" -> itable' = it /\ Set(p, null)
           [] node.type = "dir" /\ proc[p].par /\ Len(path) = 1 ->
                /\ itable' = it
                /\ Set(p, [name |-> Head(path)] @@ Return(p, proc[p].k, 0))
           [] node.type = "dir" /\ ~(proc[p].par /\ Len(path) = 1) /\ next.inum = 0 ->
                itable' = it /\ Set(p, null)
           [] OTHER ->
                LET g == iget(Locked(itable, e, node, p), next.inum)
                IN  /\ itable' = Leave(g, e)
                    /\ Set(p, Got(g, [pc |-> "iput", k |-> <<"namex">> \o proc[p].k, arg |-> e,
                                      ip |-> g.e, path |-> Tail(path)]))
      /\ UNCHANGED <<disk, stable, ops, committing, ftable, pipes, crashed>>

\* Mutant: nameiparent() keeps its reference when there is no parent.
NamexEndKeeps(p) ==
  /\ At(p, "namex")
  /\ proc[p].path = <<>>
  /\ Set(p, (IF proc[p].par THEN [ip |-> 0] ELSE <<>>) @@ Return(p, proc[p].k, 0))
  /\ UNCHANGED <<disk, stable, ops, committing, itable, ftable, pipes, crashed>>

\* With no element left, nameiparent() has no parent to return.
NamexEnd(p) ==
  /\ At(p, "namex")
  /\ proc[p].path = <<>>
  /\ Set(p, IF proc[p].par THEN [pc |-> "iput", arg |-> proc[p].ip, ip |-> 0]
            ELSE Return(p, proc[p].k, 0))
  /\ UNCHANGED <<disk, stable, ops, committing, itable, ftable, pipes, crashed>>

-----------------------------------------------------------------------------
(* create().                                                               *)

\* The name does not resolve: the call fails.
Null(p) ==
  /\ \E c \in {"create", "open_ip", "open_file", "mk_done", "chdir", "link_inc", "unlink_dp"} :
       At(p, c)
  /\ proc[p].ip = 0
  /\ Set(p, [pc |-> "end", k |-> <<>>, n |-> -1])
  /\ UNCHANGED <<disk, stable, ops, committing, itable, ftable, pipes, crashed>>

Type(c) == IF c.f = "mkdir" THEN "dir" ELSE IF c.f = "mknod" THEN "device" ELSE "file"

CreateLookup(p) ==
  LET e == proc[p].ip
      node == Loaded(e)
      found == dirlookup(disk, node, proc[p].name)
      g == iget(Locked(itable, e, node, p), found.inum)
  IN  /\ At(p, "create")
      /\ TableUnlocked
      /\ e # 0
      /\ CanLock(e)
      /\ IF found.inum # 0
         THEN /\ itable' = Leave(g, e)
              /\ Set(p, Got(g, [pc |-> "iput", k |-> <<"create_old">> \o proc[p].k,
                                arg |-> e, ip |-> g.e]))
         ELSE /\ itable' = Locked(itable, e, node, p)
              /\ Set(p, [pc |-> "create_new", dp |-> e, ip |-> 0])
      /\ UNCHANGED <<disk, stable, ops, committing, ftable, pipes, crashed>>

CreateOld(p) ==
  LET e == proc[p].ip
      node == Loaded(e)
  IN  /\ At(p, "create_old")
      /\ CanLock(e)
      /\ IF Type(Call(p)) = "file" /\ node.type \in {"file", "device"}
         THEN itable' = Locked(itable, e, node, p) /\ Set(p, Return(p, proc[p].k, 0))
         ELSE /\ itable' = Locked(itable, e, node, 0)
              /\ Set(p, [pc |-> "iput", arg |-> e, ip |-> 0])
      /\ UNCHANGED <<disk, stable, ops, committing, ftable, pipes, crashed>>

\* ialloc() up to its iget(): mark a free inode on disk as allocated.
Ialloc(p) ==
  LET free == {i \in Inums : disk.inode[i].type = "free"}
  IN  /\ At(p, "create_new")
      /\ IF free = {}
         THEN /\ itable' = iunlock(itable, proc[p].dp)
              /\ Set(p, [pc |-> "iput", arg |-> proc[p].dp, dp |-> 0])
              /\ UNCHANGED disk
         ELSE /\ disk' = iupdate(disk, Least(free), [NoInode EXCEPT !.type = Type(Call(p))])
              /\ Set(p, [pc |-> "create_iget", n |-> Least(free)])
              /\ UNCHANGED itable
      /\ UNCHANGED <<stable, ops, committing, ftable, pipes, crashed>>

IallocGet(p) ==
  LET g == iget(itable, proc[p].n)
  IN  /\ At(p, "create_iget")
      /\ TableUnlocked
      /\ itable' = g.it
      /\ disk' = IF \E q \in Procs : At(q, "iput_drop") /\ proc[q].arg = g.e
                 THEN [disk EXCEPT !.reused = @ \cup {proc[p].n}] ELSE disk
      /\ Set(p, Got(g, [pc |-> "create_init", ip |-> g.e]))
      /\ UNCHANGED <<stable, ops, committing, ftable, pipes, crashed>>

DotDot(b, inum, dnum) == IF b.n = 0 THEN dirlink(b.d, inum, b.ip, "..", dnum) ELSE b

\* The new inode, on disk with its link, and for a directory its "." and "..".
NewNode(p, inum, node) ==
  IF Type(Call(p)) = "dir"
  THEN DotDot(dirlink(iupdate(disk, inum, node), inum, node, ".", inum),
              inum, itable[proc[p].dp].inum)
  ELSE [d |-> iupdate(disk, inum, node), ip |-> node, n |-> 0]

\* The new inode's name in the parent.
NewName(p, c, dp) ==
  IF c.n = 0 THEN dirlink(c.d, dp.inum, dp.node, proc[p].name, itable[proc[p].ip].inum)
  ELSE [d |-> c.d, ip |-> dp.node, n |-> -1]

\* c is the new inode, up its parent: the parent is done with, or (the disk is
\* full) the inode is given back.
CreateEnd(p, c, up) ==
  LET e == proc[p].ip
      dp == IF Type(Call(p)) = "dir" THEN [up.ip EXCEPT !.nlink = @ + 1] ELSE up.ip
      undone == [c.ip EXCEPT !.nlink = 0]
  IN  IF up.n = 0
      THEN /\ disk' = iupdate(up.d, itable[proc[p].dp].inum, dp)
           /\ itable' = Locked(Locked(itable, e, c.ip, p), proc[p].dp, dp, 0)
           /\ Set(p, [pc |-> "iput", arg |-> proc[p].dp, dp |-> 0])
      ELSE /\ disk' = iupdate(up.d, itable[e].inum, undone)
           /\ itable' = Locked(Locked(itable, e, undone, 0), proc[p].dp, up.ip, p)
           /\ Set(p, [pc |-> "iput", arg |-> e, ip |-> 0, k |-> <<"put_dp">> \o proc[p].k])

CreateLink(p, c) == CreateEnd(p, c, NewName(p, c, itable[proc[p].dp]))

\* The new inode gets its link, a directory its "." and "..", the parent the
\* name; when the disk is full the inode is given back.
CreateInit(p) ==
  /\ At(p, "create_init")
  /\ CanLock(proc[p].ip)
  /\ CreateLink(p, NewNode(p, itable[proc[p].ip].inum, [Loaded(proc[p].ip) EXCEPT !.nlink = 1]))
  /\ UNCHANGED <<stable, ops, committing, ftable, pipes, crashed>>

\* iunlockput(dp) on the ways out of create() and sys_unlink().
PutDp(p) ==
  /\ At(p, "put_dp")
  /\ itable' = iunlock(itable, proc[p].dp)
  /\ Set(p, [pc |-> "iput", arg |-> proc[p].dp, dp |-> 0])
  /\ UNCHANGED <<disk, stable, ops, committing, ftable, pipes, crashed>>

-----------------------------------------------------------------------------
(* Calls on names.                                                         *)

FreeFiles(ft) == {f \in Filenos : ft[f].ref = 0}
FreeFds(p) == {fd \in Fds : proc[p].ofile[fd] = 0}

\* The end of sys_open(); create() has locked the inode, namei() has not.
OpenFile(p) ==
  LET e == proc[p].ip
      mode == Call(p).mode
      node == Loaded(e)
      f == Least(FreeFiles(ftable))
      fd == Least(FreeFds(p))
      t == IF "trunc" \in mode /\ node.type = "file"
           THEN itrunc(disk, itable[e].inum, node) ELSE [d |-> disk, ip |-> node]
  IN  /\ \/ At(p, "open_ip") /\ e # 0 /\ CanLock(e)
         \/ At(p, "open_file") /\ e # 0
      /\ IF \/ At(p, "open_ip") /\ node.type = "dir" /\ mode # {}
            \/ FreeFiles(ftable) = {} \/ FreeFds(p) = {}
         THEN /\ itable' = Locked(itable, e, node, 0)
              /\ Set(p, [pc |-> "iput", k |-> <<"end">>, arg |-> e, ip |-> 0, n |-> -1])
              /\ UNCHANGED <<disk, ftable>>
         ELSE /\ disk' = t.d
              /\ itable' = Locked(itable, e, t.ip, 0)
              /\ ftable' = [ftable EXCEPT ![f] =
                   [NoFile EXCEPT !.ref = 1, !.ip = e,
                      !.type = IF node.type = "device" THEN "device" ELSE "inode",
                      !.readable = "wronly" \notin mode,
                      !.writable = mode \cap {"wronly", "rdwr"} # {}]]
              /\ Set(p, [pc |-> "end", k |-> <<>>, n |-> fd, ip |-> 0,
                         ofile |-> [proc[p].ofile EXCEPT ![fd] = f]])
      /\ UNCHANGED <<stable, ops, committing, pipes, crashed>>

\* sys_mkdir and sys_mknod after create().
MkDone(p) ==
  /\ At(p, "mk_done")
  /\ proc[p].ip # 0
  /\ itable' = iunlock(itable, proc[p].ip)
  /\ Set(p, [pc |-> "iput", k |-> <<"end">>, arg |-> proc[p].ip, ip |-> 0, n |-> 0])
  /\ UNCHANGED <<disk, stable, ops, committing, ftable, pipes, crashed>>

\* iput(p->cwd) and the transaction's end come before the assignment to p->cwd,
\* which no other process reads.
Chdir(p) ==
  LET e == proc[p].ip
      dir == Loaded(e).type = "dir"
  IN  /\ At(p, "chdir")
      /\ e # 0
      /\ CanLock(e)
      /\ itable' = Locked(itable, e, Loaded(e), 0)
      /\ Set(p, [pc |-> "iput", k |-> <<"end">>, ip |-> 0,
                 arg |-> IF dir THEN proc[p].cwd ELSE e,
                 cwd |-> IF dir THEN e ELSE proc[p].cwd,
                 n |-> IF dir THEN 0 ELSE -1])
      /\ UNCHANGED <<disk, stable, ops, committing, ftable, pipes, crashed>>

\* sys_link counts the new link first and then looks for the place to put it.
LinkInc(p) ==
  LET e == proc[p].ip
      node == Loaded(e)
      more == [node EXCEPT !.nlink = @ + 1]
      s == StartAt(p, Locked(itable, e, more, 0), Call(p).new)
  IN  /\ At(p, "link_inc")
      /\ TableUnlocked
      /\ e # 0
      /\ CanLock(e)
      /\ IF node.type = "dir"
         THEN /\ itable' = Locked(itable, e, node, 0)
              /\ Set(p, [pc |-> "iput", k |-> <<"end">>, arg |-> e, ip |-> 0, n |-> -1])
              /\ UNCHANGED disk
         ELSE /\ disk' = iupdate(disk, itable[e].inum, more)
              /\ itable' = s.it
              /\ Set(p, Got(s, [pc |-> "namex", k |-> <<"link_dir">>, old |-> e, ip |-> s.e,
                                path |-> Rest(Call(p).new), par |-> TRUE]))
      /\ UNCHANGED <<stable, ops, committing, ftable, pipes, crashed>>

\* dirlink() has the inode of a name that is there already for a moment.
LinkDir(p) ==
  LET e == proc[p].ip
      node == Loaded(e)
      found == dirlookup(disk, node, proc[p].name)
      g == IF found.inum # 0 THEN iget(itable, found.inum) ELSE [e |-> e]
      w == dirlink(disk, itable[e].inum, node, proc[p].name, itable[proc[p].old].inum)
  IN  /\ At(p, "link_dir")
      /\ TableUnlocked
      /\ e # 0
      /\ CanLock(e)
      /\ disk' = w.d
      /\ itable' = Locked(itable, e, w.ip, IF g.e = 0 THEN p ELSE 0)
      /\ Set(p, Got(g, [pc |-> "iput", arg |-> e, ip |-> 0, n |-> w.n,
                        k |-> IF w.n = 0 THEN <<"put_old", "end">> ELSE <<"link_undo">>]))
      /\ UNCHANGED <<stable, ops, committing, ftable, pipes, crashed>>

LinkNoDir(p) ==
  /\ At(p, "link_dir")
  /\ proc[p].ip = 0
  /\ Set(p, [pc |-> "link_undo"])
  /\ UNCHANGED <<disk, stable, ops, committing, itable, ftable, pipes, crashed>>

LinkUndo(p) ==
  LET e == proc[p].old
      less == [Loaded(e) EXCEPT !.nlink = @ - 1]
  IN  /\ At(p, "link_undo")
      /\ CanLock(e)
      /\ disk' = iupdate(disk, itable[e].inum, less)
      /\ itable' = Locked(itable, e, less, 0)
      /\ Set(p, [pc |-> "iput", k |-> <<"end">>, arg |-> e, old |-> 0, n |-> -1])
      /\ UNCHANGED <<stable, ops, committing, ftable, pipes, crashed>>

PutOld(p) ==
  /\ At(p, "put_old")
  /\ Set(p, [pc |-> "iput", arg |-> proc[p].old, old |-> 0])
  /\ UNCHANGED <<disk, stable, ops, committing, itable, ftable, pipes, crashed>>

\* Mutant: "." may be unlinked.
NotUnlinkedDot == {".."}

NotUnlinked == {".", ".."}

\* sys_unlink locks the parent, finds the inode and then locks that too.
UnlinkParent(p) ==
  LET e == proc[p].ip
      node == Loaded(e)
      found == dirlookup(disk, node, proc[p].name)
      g == iget(Locked(itable, e, node, p), found.inum)
  IN  /\ At(p, "unlink_dp")
      /\ TableUnlocked
      /\ e # 0
      /\ CanLock(e)
      /\ IF proc[p].name \in NotUnlinked \/ found.inum = 0
         THEN /\ itable' = Locked(itable, e, node, 0)
              /\ Set(p, [pc |-> "iput", k |-> <<"end">>, arg |-> e, ip |-> 0, n |-> -1])
         ELSE /\ itable' = g.it
              /\ Set(p, Got(g, [pc |-> "unlink_ip", dp |-> e, ip |-> g.e, n |-> found.off]))
      /\ UNCHANGED <<disk, stable, ops, committing, ftable, pipes, crashed>>

UnlinkEntry(p) ==
  LET e == proc[p].ip
      node == Loaded(e)
      dnum == itable[proc[p].dp].inum
      w == writei(disk, dnum, itable[proc[p].dp].node, proc[p].n, <<Zero>>, 1)
      dp == IF node.type = "dir" THEN [w.ip EXCEPT !.nlink = @ - 1] ELSE w.ip
  IN  /\ At(p, "unlink_ip")
      /\ CanLock(e)
      /\ IF node.type = "dir" /\ ~isdirempty(disk, node)
         THEN /\ itable' = Locked(itable, e, node, 0)
              /\ Set(p, [pc |-> "iput", k |-> <<"put_dp", "end">>, arg |-> e, ip |-> 0,
                         n |-> -1])
              /\ UNCHANGED disk
         ELSE /\ disk' = iupdate(w.d, dnum, dp)
              /\ itable' = Locked(Locked(itable, e, node, p), proc[p].dp, dp, 0)
              /\ Set(p, [pc |-> "iput", k |-> <<"unlink_dec">>, arg |-> proc[p].dp,
                         dp |-> 0, n |-> 0])
      /\ UNCHANGED <<stable, ops, committing, ftable, pipes, crashed>>

UnlinkDec(p) ==
  LET e == proc[p].ip
      less == [itable[e].node EXCEPT !.nlink = @ - 1]
  IN  /\ At(p, "unlink_dec")
      /\ disk' = iupdate(disk, itable[e].inum, less)
      /\ itable' = Locked(itable, e, less, 0)
      /\ Set(p, [pc |-> "iput", k |-> <<"end">>, arg |-> e, ip |-> 0, n |-> 0])
      /\ UNCHANGED <<stable, ops, committing, ftable, pipes, crashed>>

-----------------------------------------------------------------------------
(* Calls on open files.  The descriptor -1 stands for the one the last     *)
(* open() returned.                                                        *)

Fd(p) == IF Call(p).fd = -1 THEN proc[p].last ELSE Call(p).fd

\* argfd(): the file table entry, 0 if the descriptor is not open.
argfd(p) == IF Fd(p) \in Fds THEN proc[p].ofile[Fd(p)] ELSE 0

Dup(p) ==
  LET f == argfd(p)
      fd == Least(FreeFds(p))
  IN  /\ Calls(p, "dup")
      /\ IF f = 0 \/ FreeFds(p) = {}
         THEN Set(p, Done(p, -1, <<>>)) /\ UNCHANGED ftable
         ELSE /\ ftable' = [ftable EXCEPT ![f].ref = @ + 1]
              /\ Set(p, [ofile |-> [proc[p].ofile EXCEPT ![fd] = f]] @@ Done(p, fd, <<>>))
      /\ UNCHANGED <<disk, stable, ops, committing, itable, pipes, crashed>>

\* Reading from the console and from pipes is in modules Console and Pipe.
Read(p) ==
  LET f == argfd(p)
      e == ftable[f].ip
      units == readi(disk, Loaded(e), ftable[f].off, Call(p).n)
  IN  /\ Calls(p, "read")
      /\ IF f = 0 \/ (f # 0 /\ ~ftable[f].readable)
         THEN Set(p, Done(p, -1, <<>>)) /\ UNCHANGED <<itable, ftable>>
         ELSE /\ ftable[f].type = "inode"
              /\ CanLock(e)
              /\ itable' = Locked(itable, e, Loaded(e), 0)
              /\ ftable' = [ftable EXCEPT ![f].off = @ + Len(units)]
              /\ Set(p, Done(p, Len(units), units))
      /\ UNCHANGED <<disk, stable, ops, committing, pipes, crashed>>

\* filestat() reports the number of links.
Fstat(p) ==
  LET f == argfd(p)
      e == ftable[f].ip
  IN  /\ Calls(p, "fstat")
      /\ IF f = 0 \/ (f # 0 /\ ftable[f].type = "pipe")
         THEN Set(p, Done(p, -1, <<>>)) /\ UNCHANGED itable
         ELSE /\ CanLock(e)
              /\ itable' = Locked(itable, e, Loaded(e), 0)
              /\ Set(p, Done(p, Loaded(e).nlink, <<>>))
      /\ UNCHANGED <<disk, stable, ops, committing, ftable, pipes, crashed>>

\* filewrite(): one transaction for each piece.  n counts what is written.
Write(p) ==
  LET f == argfd(p)
  IN  /\ Calls(p, "write")
      /\ IF f = 0 \/ (f # 0 /\ ~ftable[f].writable)
         THEN Set(p, Done(p, -1, <<>>))
         ELSE /\ ftable[f].type = "inode"
              /\ Set(p, IF Call(p).data = <<>> THEN Done(p, 0, <<>>)
                        ELSE [pc |-> "begin", k |-> <<"write">>, f |-> f, n |-> 0])
      /\ UNCHANGED <<disk, stable, ops, committing, itable, ftable, pipes, crashed>>

\* Mutant: f->off stays as it is.
AdvanceNot(off, n) == off

\* f->off after writei() returns n.
Advance(off, n) == IF n > 0 THEN off + n ELSE off

MaxWrite == ((MAXOPBLOCKS - 1 - 1 - 2) \div 2) * BSIZE

WritePiece(p) ==
  LET f == proc[p].f
      e == ftable[f].ip
      i == proc[p].n
      all == Len(Call(p).data)
      n1 == IF all - i > MaxWrite THEN MaxWrite ELSE all - i
      w == writei(disk, itable[e].inum, Loaded(e), ftable[f].off,
                  SubSeq(Call(p).data, i + 1, i + n1), Call(p).ok - i)
  IN  /\ At(p, "write")
      /\ CanLock(e)
      /\ disk' = w.d
      /\ itable' = Locked(itable, e, w.ip, 0)
      /\ ftable' = [ftable EXCEPT ![f].off = Advance(@, w.n)]
      /\ Set(p, [pc |-> "end",
                 k |-> IF w.n = n1 /\ i + n1 < all THEN <<"begin", "write">> ELSE <<>>,
                 n |-> IF w.n = n1 THEN i + n1 ELSE -1])
      /\ UNCHANGED <<stable, ops, committing, pipes, crashed>>

Close(p) ==
  LET f == argfd(p)
  IN  /\ Calls(p, "close")
      /\ Set(p, IF f = 0 THEN Done(p, -1, <<>>)
                ELSE [pc |-> "fileclose", f |-> f,
                      ofile |-> [proc[p].ofile EXCEPT ![Fd(p)] = 0]])
      /\ UNCHANGED <<disk, stable, ops, committing, itable, ftable, pipes, crashed>>

\* The end of a pipe that file f is.
End(f) == IF ftable[f].writable THEN "writeopen" ELSE "readopen"

\* fileclose() puts the inode of a file in a transaction.
PutInode == <<"begin", "iput", "end">>

FileClose(p) ==
  LET f == proc[p].f
      k == proc[p].k
  IN  /\ At(p, "fileclose")
      /\ ftable' = [ftable EXCEPT ![f] = IF @.ref > 1 THEN [@ EXCEPT !.ref = @ - 1] ELSE NoFile]
      /\ Set(p, [f |-> 0] @@
                IF ftable[f].ref > 1 \/ ftable[f].type \in {"none", "pipe"} THEN Return(p, k, 0)
                ELSE [pc |-> Head(PutInode), k |-> Tail(PutInode) \o k,
                      arg |-> ftable[f].ip, n |-> 0])
      /\ pipes' = IF ftable[f].ref = 1 /\ ftable[f].type = "pipe"
                  THEN [pipes EXCEPT ![ftable[f].pipe] = @ \ {End(f)}] ELSE pipes
      /\ UNCHANGED <<disk, stable, ops, committing, itable, crashed>>

\* sys_pipe(): pipealloc() takes two entries of the file table and a page.  When the
\* page, a descriptor or the user's memory is missing (c.err says so of the first
\* and the last) both files are closed again, one after the other.
SysPipe(p) ==
  LET free == FreeFiles(ftable)
      rf == Least(free)
      wf == Least(free \ {rf})
      fd0 == Least(FreeFds(p))
      fd1 == Least(FreeFds(p) \ {fd0})
      pi == Least({x \in Filenos : pipes[x] = {}})
      taken == [NoFile EXCEPT !.ref = 1]
      side == [taken EXCEPT !.type = "pipe", !.pipe = pi]
      undo == [pc |-> "fileclose", k |-> <<"pipe_undo">>, f |-> rf]
      Pair == [ftable EXCEPT ![rf] = [side EXCEPT !.readable = TRUE],
                             ![wf] = [side EXCEPT !.writable = TRUE]]
      both == [pipes EXCEPT ![pi] = {"readopen", "writeopen"}]
  IN  /\ Calls(p, "pipe")
      /\ CASE free = {} -> Set(p, Done(p, -1, <<>>)) /\ UNCHANGED <<ftable, pipes>>
           [] Cardinality(free) = 1 ->
                ftable' = [ftable EXCEPT ![rf] = taken] /\ Set(p, undo) /\ UNCHANGED pipes
           [] Cardinality(free) > 1 /\ Call(p).err = "kalloc" ->
                /\ ftable' = [ftable EXCEPT ![rf] = taken, ![wf] = taken]
                /\ Set(p, [wf |-> wf] @@ undo)
                /\ UNCHANGED pipes
           [] Cardinality(free) > 1 /\ Call(p).err # "kalloc"
                /\ (Cardinality(FreeFds(p)) < 2 \/ Call(p).err = "copyout") ->
                ftable' = Pair /\ pipes' = both /\ Set(p, [wf |-> wf] @@ undo)
           [] OTHER ->
                /\ ftable' = Pair /\ pipes' = both
                /\ Set(p, [ofile |-> [proc[p].ofile EXCEPT ![fd0] = rf, ![fd1] = wf]] @@
                          Done(p, 0, <<>>))
      /\ UNCHANGED <<disk, stable, ops, committing, itable, crashed>>

PipeUndo(p) ==
  /\ At(p, "pipe_undo")
  /\ Set(p, IF proc[p].wf # 0
            THEN [pc |-> "fileclose", k |-> <<"pipe_undo">>, f |-> proc[p].wf, wf |-> 0]
            ELSE Done(p, -1, <<>>))
  /\ UNCHANGED <<disk, stable, ops, committing, itable, ftable, pipes, crashed>>

-----------------------------------------------------------------------------
(* What fork(), exit() and wait() do with files.                           *)

\* Without a free entry of the process table fork() fails, without children wait().
NoFork(p) ==
  /\ Calls(p, "fork")
  /\ \A q \in Procs : proc[q].st # "unused"
  /\ Set(p, Done(p, -1, <<>>))
  /\ UNCHANGED <<disk, stable, ops, committing, itable, ftable, pipes, crashed>>

NoChild(p) ==
  /\ Calls(p, "wait")
  /\ \A q \in Procs : proc[q].st = "unused" \/ proc[q].parent # p
  /\ Set(p, Done(p, -1, <<>>))
  /\ UNCHANGED <<disk, stable, ops, committing, itable, ftable, pipes, crashed>>

Fork(p) ==
  LET free == {q \in Procs : proc[q].st = "unused"}
      q == Least(free)
      mine == proc[p].ofile
  IN  /\ Calls(p, "fork")
      /\ TableUnlocked
      /\ free # {}
      /\ ftable' = [f \in Filenos |->
           [ftable[f] EXCEPT !.ref = @ + Cardinality({fd \in Fds : mine[fd] = f})]]
      /\ itable' = idup(itable, proc[p].cwd)
      /\ proc' = [proc EXCEPT
           ![q] = [NoProc EXCEPT !.st = "run", !.parent = p, !.prog = Call(p).child,
                     !.ofile = mine, !.cwd = proc[p].cwd, !.last = proc[p].last],
           ![p] = Done(p, q, <<>>) @@ @]
      /\ UNCHANGED <<disk, stable, ops, committing, pipes, crashed>>

\* At the end of its program a process exits: it closes its files one by one
\* and then lets its directory go in a transaction.
Exit(p) ==
  LET open == Fds \ FreeFds(p)
      fd == Least(open)
  IN  /\ At(p, "exit") \/ (At(p, "user") /\ proc[p].prog = <<>>)
      /\ Set(p, IF open # {}
                THEN [pc |-> "fileclose", k |-> <<"exit">>, f |-> proc[p].ofile[fd],
                      ofile |-> [proc[p].ofile EXCEPT ![fd] = 0]]
                ELSE [pc |-> "begin", k |-> <<"iput", "end", "exited">>,
                      arg |-> proc[p].cwd, cwd |-> 0])
      /\ UNCHANGED <<disk, stable, ops, committing, itable, ftable, pipes, crashed>>

Exited(p) ==
  /\ At(p, "exited")
  /\ Set(p, [st |-> "zombie", pc |-> "user", n |-> 0])
  /\ UNCHANGED <<disk, stable, ops, committing, itable, ftable, pipes, crashed>>

\* A child that has failed makes its parent fail, as the exit status does.
Wait(p) ==
  /\ Calls(p, "wait")
  /\ \E q \in Procs :
       /\ proc[q].parent = p
       /\ proc[q].st = "zombie"
       /\ proc' = [proc EXCEPT ![q] = NoProc,
                     ![p] = [failed |-> @.failed \/ proc[q].failed] @@ Done(p, 0, <<>>) @@ @]
  /\ UNCHANGED <<disk, stable, ops, committing, itable, ftable, pipes, crashed>>

-----------------------------------------------------------------------------
\* Power fails; the log recovers the last committed disk, memory is lost.
Crash ==
  /\ ~crashed
  /\ crashed' = TRUE
  /\ disk' = stable
  /\ ops' = {}
  /\ committing' = FALSE
  /\ itable' = [e \in Entries |-> NoEntry]
  /\ ftable' = [f \in Filenos |-> NoFile]
  /\ pipes' = [f \in Filenos |-> {}]
  /\ proc' = [p \in Procs |-> NoProc]
  /\ UNCHANGED stable

Step(p) ==
  \/ StartName(p) \/ Namex(p) \/ NamexEnd(p) \/ Null(p)
  \/ Iput(p) \/ IputFree(p) \/ IputDrop(p)
  \/ BeginOp(p) \/ EndOp(p) \/ Commit(p)
  \/ CreateLookup(p) \/ CreateOld(p) \/ Ialloc(p) \/ IallocGet(p) \/ CreateInit(p) \/ PutDp(p)
  \/ OpenFile(p) \/ MkDone(p) \/ Chdir(p)
  \/ LinkInc(p) \/ LinkDir(p) \/ LinkNoDir(p) \/ LinkUndo(p) \/ PutOld(p)
  \/ UnlinkParent(p) \/ UnlinkEntry(p) \/ UnlinkDec(p)
  \/ Dup(p) \/ Read(p) \/ Fstat(p) \/ Write(p) \/ WritePiece(p)
  \/ Close(p) \/ FileClose(p) \/ SysPipe(p) \/ PipeUndo(p)
  \/ Fork(p) \/ NoFork(p) \/ Exit(p) \/ Exited(p) \/ Wait(p) \/ NoChild(p)

Next == (\E p \in Procs : Step(p)) \/ Crash

Spec == Init /\ [][Next]_vars

-----------------------------------------------------------------------------
(* Properties.                                                             *)

Named1(d) == {<<dir, off>> \in Inums \X (0 .. MAXFILE * BSIZE - 1) :
               /\ d.inode[dir].type = "dir"
               /\ off < d.inode[dir].size
               /\ UnitAt(d, d.inode[dir], off)[1] # 0}

EntryAt(d, x) == UnitAt(d, d.inode[x[1]], x[2])

\* The entries that are links: those with a name of their own, and the ".." of
\* directories that have one (or are the root).
LinkEntries(d) ==
  LET all == Named1(d)
      own == {x \in all : EntryAt(d, x)[2] \notin {".", ".."}}
      linked == {EntryAt(d, x)[1] : x \in own} \cup {ROOTINO}
  IN  own \cup {x \in all : EntryAt(d, x)[2] = ".." /\ x[1] \in linked}

\* The type of the state: balloc() marks only blocks of the disk, and writei()
\* lets no file grow past MAXFILE blocks.
TypeOK ==
  /\ ops \subseteq Procs
  /\ committing \in BOOLEAN
  /\ \A d \in {disk, stable} :
       /\ d.bitmap \subseteq Blocks
       /\ \A i \in Inums : /\ d.inode[i].type \in {"free", "file", "dir", "device"}
                            /\ d.inode[i].size \in 0 .. MAXFILE * BSIZE
  /\ \A e \in Entries : /\ itable[e].inum \in Inums \cup {0}
                        /\ itable[e].ref \in Nat
                        /\ itable[e].lock \in Procs \cup {0}
  /\ \A f \in Filenos : ftable[f].ref \in Nat /\ ftable[f].ip \in Entries \cup {0}

\* The links to inode i on the disk.
Links(i) == Cardinality({x \in LinkEntries(disk) : EntryAt(disk, x)[1] = i})

\* fs.h:36, nlink of struct dinode: "Number of links to inode in file system", also
\* on the disk that is recovered after a crash at any moment.
NlinkIsLinks == crashed => \A i \in Inums : disk.inode[i].nlink = Links(i)

\* That holds but for the links that went away with a directory: sys_unlink() has
\* removed it, create() or sys_link() put a name into it while it was still some
\* process's directory, and iput() freed it with that name.  Apart from these every
\* count is right after a crash, and no name leads to a free inode.
NlinkIsLinksOrLost ==
  crashed =>
    \A i \in Inums :
      /\ disk.inode[i].nlink = Links(i) + disk.lost[i]
      /\ disk.inode[i].type = "free" => disk.inode[i].nlink = 0

\* After a crash at any moment the bitmap of the recovered disk marks exactly
\* the blocks in use, and no block belongs to two inodes.
BlocksOwnedOnce ==
  crashed =>
    LET owned == [i \in Inums |-> BlocksOf(disk, disk.inode[i])]
    IN  /\ disk.bitmap = UNION {owned[i] : i \in Inums}
        /\ \A i, j \in Inums : i # j => owned[i] \cap owned[j] = {}

\* Two processes that create the same name never both succeed: no directory of
\* the recovered disk has a name twice.
NamesUnique ==
  crashed =>
    LET all == Named1(disk)
    IN  \A x, y \in all :
          x[1] = y[1] /\ x[2] # y[2] => EntryAt(disk, x)[2] # EntryAt(disk, y)[2]

\* After a crash at any moment the recovered disk has no block twice or unmarked, no
\* name twice, and no count of links wrong but for links lost with a directory.
DiskConsistent == NlinkIsLinksOrLost /\ BlocksOwnedOnce /\ NamesUnique

\* A reference count is the number of pointers there are: to an inode from open
\* files, directories of processes and calls under way, to a file from
\* descriptors.  A count too low frees what is in use, one too high leaks it.
RefsExact ==
  /\ TypeOK
  /\ \A e \in Entries : itable[e].ref =
       Cardinality({<<p, v>> \in Procs \X {"cwd", "ip", "dp", "old", "arg"} : proc[p][v] = e})
       + Cardinality({f \in Filenos : ftable[f].ref > 0 /\ ftable[f].ip = e})
  /\ \A f \in Filenos : ftable[f].ref =
       Cardinality({<<p, fd>> \in Procs \X Fds : proc[p].ofile[fd] = f})
       + Cardinality({p \in Procs : At(p, "fileclose") /\ proc[p].f = f})
       + Cardinality({p \in Procs : proc[p].wf = f})
  /\ \A f \in Filenos : pipes[f] =
       {End(g) : g \in {h \in Filenos : ftable[h].ref > 0 /\ ftable[h].type = "pipe"
                                        /\ ftable[h].pipe = f}}

\* The inodes that have no links, are not free and nothing points to.
Orphans ==
  {i \in Inums :
     /\ disk.inode[i].type # "free" /\ disk.inode[i].nlink = 0
     /\ \A e \in Entries : itable[e].ref = 0 \/ itable[e].inum # i
     /\ \A p \in Procs : ~(At(p, "create_iget") /\ proc[p].n = i)}

\* fs.c:332: "If that was the last reference and the inode has no links to it,
\* free the inode (and its content) on disk."  An inode without links is kept
\* only while something points to it (or after a crash, which forgets that).
UnlinkedAreOpen == ~crashed => Orphans = {}

\* That holds except for an inode that was allocated again in the middle of the
\* iput() that freed it.
UnlinkedAreOpenOrReused == ~crashed => Orphans \subseteq disk.reused

\* The entry whose lock the next step of p needs, 0 if none.
Wants(p) ==
  IF proc[p].st # "run" THEN 0
  ELSE IF proc[p].pc \in {"create", "create_old", "create_init", "open_ip", "chdir",
                          "link_inc", "link_dir", "unlink_dp", "unlink_ip"}
          \/ (proc[p].pc = "namex" /\ proc[p].path # <<>>) THEN proc[p].ip
  ELSE IF proc[p].pc = "link_undo" THEN proc[p].old
  ELSE IF proc[p].pc = "write" THEN ftable[proc[p].f].ip
  ELSE 0

\* None of the panics of fs.c, file.c and sysfile.c but "iget: no inodes": an inode
\* that is locked has a reference and a type, a name that is removed has a link, a
\* directory is searched as one, freed blocks are in use, and (fs.c:344) the lock
\* that the last iput() takes is free.  As for the inode table, no entry is lost
\* (RefsExact), but more than NINODE inodes may be in use at once.
NoPanic ==
  /\ \A p \in Procs :
       /\ Wants(p) # 0 /\ CanLock(Wants(p)) =>
            /\ itable[Wants(p)].ref > 0
            /\ Loaded(Wants(p)).type # "free"
            /\ At(p, "unlink_ip") => Loaded(Wants(p)).nlink > 0
            /\ proc[p].pc \in {"create", "link_dir", "unlink_dp"} =>
                 Loaded(Wants(p)).type = "dir"
       /\ At(p, "iput") /\ LastRef(proc[p].arg) => CanLock(proc[p].arg)
       /\ At(p, "iput_free") =>
            BlocksOf(disk, itable[proc[p].arg].node) \subseteq disk.bitmap
       /\ At(p, "fileclose") => ftable[proc[p].f].ref > 0

\* No set of processes waits for locks that only its members hold, although
\* calls lock a directory and then an inode in it, and paths go up and down.
NoDeadlock ==
  \A S \in SUBSET Procs \ {{}} :
    \E p \in S : Wants(p) = 0 \/ itable[Wants(p)].lock \notin S

\* Every program sees what it expects: the results user/usertests.c checks.
TestsPass == \A p \in Procs : ~proc[p].failed

=============================================================================
