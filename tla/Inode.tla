------------------------------- MODULE Inode -------------------------------
(***************************************************************************)
(* The layout of files on disk (fs.c): the block bitmap, inodes with       *)
(* direct and indirect addresses, file contents and directories.  Every    *)
(* operator works on a disk image d and, where the code has a locked       *)
(* struct inode in hand, on its in-memory copy ip; it returns the new      *)
(* image, the new copy and the C function's result.                        *)
(*                                                                         *)
(* A block holds BSIZE units.  A unit is a pair <<number, name>>: a        *)
(* directory entry, a byte of a file or a block number of an indirect      *)
(* block (the last two with the empty name).                               *)
(***************************************************************************)
EXTENDS Integers, Sequences, FiniteSets

CONSTANTS
  BSIZE,     \* units per block
  NDIRECT,   \* direct addresses of an inode
  NINODES,   \* inodes on disk, numbered 1 .. NINODES - 1
  NBLOCKS    \* data blocks, numbered 1 .. NBLOCKS

ASSUME LayoutAssumption ==
  BSIZE \in Nat \ {0} /\ NDIRECT \in Nat /\ NINODES \in Nat /\ NBLOCKS \in Nat

ROOTINO == 1
NINDIRECT == BSIZE
MAXFILE == NDIRECT + NINDIRECT

Inums == 1 .. NINODES - 1
Blocks == 1 .. NBLOCKS

Zero == <<0, "">>
Word(n) == <<n, "">>
Dirent(inum, name) == <<inum, name>>
ZeroBlock == [i \in 0 .. BSIZE - 1 |-> Zero]

NoInode == [type |-> "free", nlink |-> 0, size |-> 0,
            addrs |-> [i \in 0 .. NDIRECT |-> 0]]

Least(S) == CHOOSE x \in S : \A y \in S : x <= y

-----------------------------------------------------------------------------
(* Blocks.                                                                 *)

\* The blocks balloc() looks at.
Candidates == Blocks

\* The first free block, zeroed and marked in use; block 0 when there is none.
balloc(d) ==
  LET avail == Candidates \ d.bitmap
      b == IF avail = {} THEN 0 ELSE Least(avail)
  IN  [d |-> IF b = 0 THEN d
             ELSE [d EXCEPT !.bitmap = @ \cup {b}, !.block[b] = ZeroBlock],
       b |-> b]

bfree(d, S) == [d EXCEPT !.bitmap = @ \ S]

iupdate(d, inum, ip) == [d EXCEPT !.inode[inum] = ip]

\* Entry bn of the indirect block of ip.
Indirect(d, ip, bn) == d.block[ip.addrs[NDIRECT]][bn - NDIRECT][1]

\* The block at address b, a new one if the address is 0.
BlockAt(d, b) == IF b = 0 THEN balloc(d) ELSE [d |-> d, b |-> b]

\* Address bn of ip is set to what BlockAt() returned.
SetDirect(a, ip, bn) == [d |-> a.d, ip |-> [ip EXCEPT !.addrs[bn] = a.b], b |-> a.b]

\* The same in the indirect block t.
SetIndirect(a, ip, bn, t) ==
  [d |-> IF a.b = 0 THEN a.d ELSE [a.d EXCEPT !.block[t][bn - NDIRECT] = Word(a.b)],
   ip |-> [ip EXCEPT !.addrs[NDIRECT] = t], b |-> a.b]

ThroughIndirect(t, ip, bn) ==
  SetIndirect(IF t.b = 0 THEN t ELSE BlockAt(t.d, t.d.block[t.b][bn - NDIRECT][1]), ip, bn, t.b)

bmap(d, ip, bn) ==
  IF bn < NDIRECT THEN SetDirect(BlockAt(d, ip.addrs[bn]), ip, bn)
  ELSE ThroughIndirect(BlockAt(d, ip.addrs[NDIRECT]), ip, bn)

\* Every block an inode uses, the indirect one included.
BlocksOf(d, ip) ==
  ({ip.addrs[i] : i \in 0 .. NDIRECT} \cup
     (IF ip.addrs[NDIRECT] = 0 THEN {}
      ELSE {Indirect(d, ip, NDIRECT + j) : j \in 0 .. NINDIRECT - 1})) \ {0}

\* Mutant: itrunc() forgets the blocks of the indirect block.
FreedDirect(d, ip) == {ip.addrs[i] : i \in 0 .. NDIRECT} \ {0}

\* What itrunc() gives to bfree().
Freed(d, ip) == BlocksOf(d, ip)

itrunc(d, inum, ip) ==
  LET ip1 == [ip EXCEPT !.size = 0, !.addrs = [i \in 0 .. NDIRECT |-> 0]]
  IN  [d |-> iupdate(bfree(d, Freed(d, ip)), inum, ip1), ip |-> ip1]

-----------------------------------------------------------------------------
(* Contents.                                                               *)

\* Unit off of a file (off < size; a file has no holes).
UnitAt(d, ip, off) ==
  LET bn == off \div BSIZE
      b == IF bn < NDIRECT THEN ip.addrs[bn] ELSE Indirect(d, ip, bn)
  IN  d.block[b][off % BSIZE]

readi(d, ip, off, n) ==
  IF off > ip.size THEN <<>>
  ELSE [i \in 1 .. (IF off + n > ip.size THEN ip.size - off ELSE n) |->
          UnitAt(d, ip, off + i - 1)]

\* Block b with src put into it from unit `at` on.
Put(b, at, src) ==
  [i \in 0 .. BSIZE - 1 |-> IF i \in at .. at + Len(src) - 1 THEN src[i - at + 1] ELSE b[i]]

\* The loop of writei: one block at a time until src is written, the disk is
\* full, or the user's memory cannot be read (all but the first `ok` units).
RECURSIVE WriteBlocks(_, _, _, _, _), WriteBlock(_, _, _, _, _)
WriteBlocks(d, ip, off, src, ok) ==
  IF src = <<>> THEN [d |-> d, ip |-> ip, off |-> off]
  ELSE LET room == BSIZE - (off % BSIZE)
       IN  WriteBlock(bmap(d, ip, off \div BSIZE), off, src, ok,
                      IF Len(src) < room THEN Len(src) ELSE room)

\* m units into the block that bmap() found.
WriteBlock(a, off, src, ok, m) ==
  IF a.b = 0 \/ m > ok THEN [d |-> a.d, ip |-> a.ip, off |-> off]
  ELSE WriteBlocks([a.d EXCEPT !.block[a.b] = Put(@, off % BSIZE, SubSeq(src, 1, m))],
                   a.ip, off + m, SubSeq(src, m + 1, Len(src)), ok - m)

\* The end of writei: the file has grown if the last write was beyond its size.
Written(w, inum, off) ==
  LET ip == [w.ip EXCEPT !.size = IF w.off > @ THEN w.off ELSE @]
  IN  [d |-> iupdate(w.d, inum, ip), ip |-> ip, n |-> w.off - off]

\* The result n is -1 when nothing may be written at off.
writei(d, inum, ip, off, src, ok) ==
  IF off > ip.size \/ off + Len(src) > MAXFILE * BSIZE
  THEN [d |-> d, ip |-> ip, n |-> -1]
  ELSE Written(WriteBlocks(d, ip, off, src, ok), inum, off)

-----------------------------------------------------------------------------
(* Directories.                                                            *)

Offsets(dp) == 0 .. dp.size - 1

\* The offsets of the entries called name.
Named(d, dp, name) ==
  {off \in Offsets(dp) : UnitAt(d, dp, off)[1] # 0 /\ UnitAt(d, dp, off)[2] = name}

\* The inode number and the offset of the entry called name; inum 0 if none.
dirlookup(d, dp, name) ==
  LET at == Named(d, dp, name)
  IN  IF at = {} THEN [inum |-> 0, off |-> 0]
      ELSE [inum |-> UnitAt(d, dp, Least(at))[1], off |-> Least(at)]

Taken(d, dp, name) == Named(d, dp, name) # {}

\* Result n: 0, or -1 when the name is there or the directory cannot grow.
dirlink(d, dnum, dp, name, inum) ==
  LET slots == {off \in Offsets(dp) : UnitAt(d, dp, off)[1] = 0}
      off == IF slots = {} THEN dp.size ELSE Least(slots)
  IN  IF Taken(d, dp, name) THEN [d |-> d, ip |-> dp, n |-> -1]
      ELSE [writei(d, dnum, dp, off, <<Dirent(inum, name)>>, 1) EXCEPT
              !.n = IF @ = 1 THEN 0 ELSE -1]

isdirempty(d, dp) == \A off \in 2 .. dp.size - 1 : UnitAt(d, dp, off)[1] = 0

-----------------------------------------------------------------------------
(* mkfs: a root directory and the given files, allocated in order, and a   *)
(* root whose size is rounded up to leave free entries in its last block.  *)

EmptyImage ==
  [inode |-> [i \in Inums |-> NoInode], bitmap |-> {},
   block |-> [b \in Blocks |-> ZeroBlock]]

mkfs_ialloc(d, inum, type) ==
  iupdate(d, inum, [NoInode EXCEPT !.type = type, !.nlink = 1])

iappend(d, inum, src) ==
  writei(d, inum, d.inode[inum], d.inode[inum].size, src, Len(src)).d

\* files is a sequence of records with a name and data; file i is inode i + 1.
RECURSIVE AddFiles(_, _, _)
AddFiles(d, files, i) ==
  IF i > Len(files) THEN d
  ELSE LET d1 == mkfs_ialloc(d, i + 1, "file")
           d2 == iappend(d1, ROOTINO, <<Dirent(i + 1, files[i].name)>>)
       IN  AddFiles(iappend(d2, i + 1, files[i].data), files, i + 1)

mkfs(files) ==
  LET d1 == mkfs_ialloc(EmptyImage, ROOTINO, "dir")
      d2 == iappend(d1, ROOTINO, <<Dirent(ROOTINO, "."), Dirent(ROOTINO, "..")>>)
      d3 == AddFiles(d2, files, 1)
  IN  [d3 EXCEPT !.inode[ROOTINO].size = ((@ \div BSIZE) + 1) * BSIZE]
=============================================================================
