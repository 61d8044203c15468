----------------------------- MODULE UserTests -----------------------------
(***************************************************************************)
(* The file system tests of user/usertests.c as programs for module Fs: a  *)
(* program is a sequence of calls, each with the results the test accepts. *)
(* Loop counts, sizes and the number of children are scaled down to the    *)
(* instance; what a test asks of the results is kept.                      *)
(***************************************************************************)
EXTENDS Fs, SequencesExt

\* A call; "want" is the set of results accepted ({}: the test does not look),
\* "data" what is written or has to be read, "bytes" and "names" how many bytes of
\* a value or directory entries with a name have to be read, "err" what fails.
Do(f, r) ==
  r @@ [f |-> f, want |-> {}, data |-> <<>>, bytes |-> <<>>, names |-> <<>>, err |-> "none"]

Works(c) == [c EXCEPT !.want = IF c.f = "open" THEN Fds ELSE {0}]
Fails(c) == [c EXCEPT !.want = {-1}]

open(path, mode) == Do("open", [path |-> path, mode |-> mode])
unlink(path) == Do("unlink", [path |-> path])
mkdir(path) == Do("mkdir", [path |-> path])
mknod(path) == Do("mknod", [path |-> path])
chdir(path) == Do("chdir", [path |-> path])
link(path, new) == Do("link", [path |-> path, new |-> new])
close(fd) == Do("close", [fd |-> fd])
dup(fd) == Do("dup", [fd |-> fd])
fstat(fd, nlink) == Do("fstat", [fd |-> fd, want |-> {nlink}])
pipe == Do("pipe", [want |-> {0}])
fork(child) == Do("fork", [child |-> child])
wait == Do("wait", [want |-> {0}])

\* n bytes of value b.
Bytes(b, n) == [i \in 1 .. n |-> Word(b)]

write(fd, b, n) ==
  Do("write", [fd |-> fd, data |-> Bytes(b, n), ok |-> n, want |-> {n}])
read(fd, n, got) == Do("read", [fd |-> fd, n |-> n, want |-> {got}])
readbytes(fd, bytes) == Do("read", [fd |-> fd, n |-> MAXFILE * BSIZE, bytes |-> bytes])
readdir(fd, names) == Do("read", [fd |-> fd, n |-> MAXFILE * BSIZE, names |-> names])
readall(fd, data) == Do("read", [fd |-> fd, n |-> MAXFILE * BSIZE, data |-> data])

\* The descriptor that the last open returned.
fd == -1

RDONLY == {}
CREATE == {"create"}
CREATE_RDWR == {"create", "rdwr"}
CREATE_WRONLY == {"create", "wronly"}
TRUNC_WRONLY == {"wronly", "trunc"}
CREATE_TRUNC == {"create", "wronly", "trunc"}

Big == MAXFILE * BSIZE

\* s[1] \o s[2] \o ... \o s[n], for s a function on 1 .. n.
Loop(n, s) == FlattenSeq([i \in 1 .. n |-> s[i]])

truncate1 ==
  <<unlink(<<"t">>), open(<<"t">>, CREATE_TRUNC), write(0, 1, 4), close(0),
    open(<<"t">>, RDONLY), read(0, Big, 4), open(<<"t">>, TRUNC_WRONLY),
    open(<<"t">>, RDONLY), read(2, Big, 0), read(0, Big, 0), write(1, 2, 6),
    read(2, Big, 6), read(0, Big, 2), unlink(<<"t">>), close(1), close(0), close(2)>>

truncate2 ==
  <<unlink(<<"t">>), open(<<"t">>, CREATE_TRUNC), write(0, 1, 4),
    open(<<"t">>, TRUNC_WRONLY), Fails(write(0, 1, 1)), unlink(<<"t">>), close(0), close(1)>>

truncate3 ==
  <<open(<<"t">>, CREATE_TRUNC), close(fd),
    fork(<<Works(open(<<"t">>, {"wronly"})), write(fd, 1, 4), close(fd),
           open(<<"t">>, RDONLY), close(fd)>>),
    Works(open(<<"t">>, CREATE_TRUNC)), write(fd, 2, 3), close(fd), wait, unlink(<<"t">>)>>

iputtest ==
  <<Works(mkdir(<<"d">>)), Works(chdir(<<"d">>)), Works(unlink(<<"..", "d">>)),
    Works(chdir(<<"/">>))>>

exitiputtest ==
  <<fork(<<Works(mkdir(<<"d">>)), Works(chdir(<<"d">>)), Works(unlink(<<"..", "d">>))>>), wait>>

openiputtest ==
  <<Works(mkdir(<<"d">>)), fork(<<Fails(open(<<"d">>, {"rdwr"}))>>), Works(unlink(<<"d">>)), wait>>

opentest == <<Works(open(<<"echo">>, RDONLY)), close(fd), Fails(open(<<"x">>, RDONLY))>>

writetest ==
  <<Works(open(<<"s">>, CREATE_RDWR)), write(fd, 1, 3), write(fd, 2, 3), close(fd),
    Works(open(<<"s">>, RDONLY)), [readall(fd, Bytes(1, 3) \o Bytes(2, 3)) EXCEPT !.want = {6}],
    close(fd), Works(unlink(<<"s">>))>>

writebig ==
  <<Works(open(<<"b">>, CREATE_RDWR))>>
  \o Loop(MAXFILE, [i \in 1 .. MAXFILE |-> <<write(fd, i, BSIZE)>>])
  \o <<Fails(write(fd, 1, 1)), close(fd), Works(open(<<"b">>, RDONLY))>>
  \o Loop(MAXFILE, [i \in 1 .. MAXFILE |->
            <<Do("read", [fd |-> fd, n |-> BSIZE, data |-> Bytes(i, BSIZE)])>>])
  \o <<read(fd, BSIZE, 0), close(fd), Works(unlink(<<"b">>))>>

createtest ==
  Loop(2, [i \in 1 .. 2 |-> <<open(<<ToString(i)>>, CREATE_RDWR), close(fd)>>])
  \o [i \in 1 .. 2 |-> unlink(<<ToString(i)>>)]

dirtest ==
  <<Works(mkdir(<<"d">>)), Works(chdir(<<"d">>)), Works(chdir(<<"..">>)), Works(unlink(<<"d">>))>>

\* No write of parent and child to the shared file is lost: nc == np == N*SZ.
sharedfd ==
  <<unlink(<<"s">>), Works(open(<<"s">>, CREATE_RDWR)),
    fork(<<write(fd, 1, 2), write(fd, 1, 2)>>), write(fd, 2, 2), write(fd, 2, 2), wait, close(fd),
    Works(open(<<"s">>, RDONLY)), readbytes(fd, 1 :> 4 @@ 2 :> 4), close(fd), unlink(<<"s">>)>>

fourfiles ==
  Loop(2, [i \in 1 .. 2 |->
    <<unlink(<<ToString(i)>>), fork(<<Works(open(<<ToString(i)>>, CREATE_RDWR)), write(fd, i, 6)>>)>>])
  \o <<wait, wait>>
  \o Loop(2, [i \in 1 .. 2 |->
       <<open(<<ToString(i)>>, RDONLY), [readall(fd, Bytes(i, 6)) EXCEPT !.want = {6}],
         close(fd), unlink(<<ToString(i)>>)>>])

createdelete ==
  <<fork(<<Works(open(<<"p1">>, CREATE_RDWR)), close(fd), Works(unlink(<<"p1">>)),
           Works(open(<<"p2">>, CREATE_RDWR))>>),
    Works(open(<<"q1">>, CREATE_RDWR)), close(fd), Works(unlink(<<"q1">>)), wait,
    Fails(open(<<"p1">>, RDONLY)), Works(open(<<"p2">>, RDONLY)), close(fd),
    unlink(<<"p2">>)>>

unlinkread ==
  <<Works(open(<<"u">>, CREATE_RDWR)), write(fd, 1, 5), close(fd),
    Works(open(<<"u">>, {"rdwr"})), Works(unlink(<<"u">>)),
    open(<<"u">>, CREATE_RDWR), write(1, 2, 3), close(1),
    [readall(0, Bytes(1, 5)) EXCEPT !.want = {5}], write(0, 1, 4), close(0), unlink(<<"u">>)>>

linktest ==
  <<unlink(<<"l1">>), unlink(<<"l2">>), Works(open(<<"l1">>, CREATE_RDWR)), write(fd, 1, 5),
    close(fd), Works(link(<<"l1">>, <<"l2">>)), unlink(<<"l1">>),
    Fails(open(<<"l1">>, RDONLY)), Works(open(<<"l2">>, RDONLY)), read(fd, Big, 5), close(fd),
    Fails(link(<<"l2">>, <<"l2">>)), unlink(<<"l2">>), Fails(link(<<"l2">>, <<"l1">>)),
    Fails(link(<<".">>, <<"l1">>))>>

\* What parent or child do about file i: link it to C0, or create it.
ConCreate(file, links) ==
  IF links THEN <<link(<<"C0">>, <<file>>)>>
  ELSE <<Works(open(<<file>>, CREATE_RDWR)), close(fd)>>

ConDelete(file, opens) ==
  IF opens THEN <<open(<<file>>, RDONLY), close(fd)>> ELSE <<unlink(<<file>>), unlink(<<file>>)>>

\* C0, which both create, and a C1 for every i % 3 and i % 5 (mine: the parent
\* links, theirs: the child does).  Then the directory lists each of them once.
concreate ==
  {<<unlink(<<"C0">>), fork(ConCreate("C0", FALSE))>> \o ConCreate("C0", FALSE)
   \o <<wait, unlink(<<"C1">>), fork(ConCreate("C1", theirs))>> \o ConCreate("C1", mine)
   \o <<wait, Works(open(<<".">>, RDONLY)), readdir(fd, "C0" :> 1 @@ "C1" :> 1), close(fd),
        fork(ConDelete("C0", opens))>> \o ConDelete("C0", FALSE)
   \o <<wait, fork(ConDelete("C1", FALSE))>> \o ConDelete("C1", opens) \o <<wait>> :
     mine \in BOOLEAN, theirs \in BOOLEAN, opens \in BOOLEAN}

\* One round of linkunlink's loop, by what x is modulo 3.
LinkUnlinkStep(x) ==
  CASE x = 0 -> <<open(<<"x">>, CREATE_RDWR), close(fd)>>
    [] x = 1 -> <<link(<<"echo">>, <<"x">>)>>
    [] x = 2 -> <<unlink(<<"x">>)>>

\* Every way the rounds of parent and child may be drawn.
linkunlink ==
  {<<unlink(<<"x">>), fork(LinkUnlinkStep(c))>> \o LinkUnlinkStep(a) \o LinkUnlinkStep(b) \o <<wait>> :
     a \in 0 .. 2, b \in 0 .. 2, c \in 0 .. 2}

subdir ==
  <<unlink(<<"ff">>), Works(mkdir(<<"dd">>)), Works(open(<<"dd", "ff">>, CREATE_RDWR)),
    write(fd, 1, 2), close(fd), Fails(unlink(<<"dd">>)), Works(mkdir(<<"/", "dd", "dd">>)),
    Works(open(<<"dd", "dd", "ff">>, CREATE_RDWR)), write(fd, 2, 2), close(fd),
    Works(open(<<"dd", "dd", "..", "ff">>, RDONLY)),
    [readall(fd, Bytes(1, 2)) EXCEPT !.want = {2}], close(fd),
    Works(link(<<"dd", "dd", "ff">>, <<"dd", "dd", "ffff">>)), Works(unlink(<<"dd", "dd", "ff">>)),
    Fails(open(<<"dd", "dd", "ff">>, RDONLY)), Works(chdir(<<"dd">>)),
    Works(chdir(<<"dd", "..", "..", "dd">>)), Works(chdir(<<"dd", "..", "..", "..", "dd">>)),
    Works(chdir(<<".", "..">>)), Works(open(<<"dd", "dd", "ffff">>, RDONLY)),
    read(fd, Big, 2), close(fd), Fails(open(<<"dd", "dd", "ff">>, RDONLY)),
    Fails(open(<<"dd", "ff", "ff">>, CREATE_RDWR)), Fails(open(<<"dd", "xx", "ff">>, CREATE_RDWR)),
    Fails(open(<<"dd">>, CREATE)), Fails(open(<<"dd">>, {"rdwr"})),
    Fails(open(<<"dd">>, {"wronly"})), Fails(link(<<"dd", "ff", "ff">>, <<"dd", "dd", "xx">>)),
    Fails(link(<<"dd", "xx", "ff">>, <<"dd", "dd", "xx">>)),
    Fails(link(<<"dd", "ff">>, <<"dd", "dd", "ffff">>)), Fails(mkdir(<<"dd", "ff", "ff">>)),
    Fails(mkdir(<<"dd", "xx", "ff">>)), Fails(mkdir(<<"dd", "dd", "ffff">>)),
    Fails(unlink(<<"dd", "xx", "ff">>)), Fails(unlink(<<"dd", "ff", "ff">>)),
    Fails(chdir(<<"dd", "ff">>)), Fails(chdir(<<"dd", "xx">>)),
    Works(unlink(<<"dd", "dd", "ffff">>)), Works(unlink(<<"dd", "ff">>)), Fails(unlink(<<"dd">>)),
    Works(unlink(<<"dd", "dd">>)), Works(unlink(<<"dd">>))>>

bigwrite ==
  <<unlink(<<"b">>), Works(open(<<"b">>, CREATE_RDWR)), write(fd, 1, Big \div 2),
    write(fd, 2, Big \div 2), close(fd), unlink(<<"b">>)>>

bigfile ==
  <<unlink(<<"b">>), Works(open(<<"b">>, CREATE_RDWR)), write(fd, 1, 6), write(fd, 2, 6),
    close(fd), Works(open(<<"b">>, RDONLY))>>
  \o Loop(4, [i \in 1 .. 4 |->
       <<Do("read", [fd |-> fd, n |-> 3, data |-> Bytes((i + 1) \div 2, 3)])>>])
  \o <<read(fd, 3, 0), close(fd), unlink(<<"b">>)>>

rmdot ==
  <<Works(mkdir(<<"d">>)), Works(chdir(<<"d">>)), Fails(unlink(<<".">>)), Fails(unlink(<<"..">>)),
    Works(chdir(<<"/">>)), Fails(unlink(<<"d", ".">>)), Fails(unlink(<<"d", "..">>)),
    Works(unlink(<<"d">>))>>

dirfile ==
  <<Works(open(<<"f">>, CREATE)), close(fd), Fails(chdir(<<"f">>)),
    Fails(open(<<"f", "xx">>, RDONLY)), Fails(open(<<"f", "xx">>, CREATE)),
    Fails(mkdir(<<"f", "xx">>)), Fails(unlink(<<"f", "xx">>)),
    Fails(link(<<"echo">>, <<"f", "xx">>)), Works(unlink(<<"f">>)),
    Fails(open(<<".">>, {"rdwr"})), open(<<".">>, RDONLY), Fails(write(fd, 1, 1)), close(fd)>>

iref ==
  Loop(2, [i \in 1 .. 2 |->
    <<Works(mkdir(<<"i">>)), Works(chdir(<<"i">>)), mkdir(<<>>), link(<<"/", "echo">>, <<>>),
      open(<<>>, CREATE), open(<<"xx">>, CREATE), close(fd), unlink(<<"xx">>)>>])
  \o Loop(2, [i \in 1 .. 2 |-> <<chdir(<<"..">>), unlink(<<"i">>)>>]) \o <<chdir(<<"/">>)>>

bigdir ==
  <<unlink(<<"bd">>), Works(open(<<"bd">>, CREATE)), close(fd)>>
  \o [i \in 1 .. 6 |-> Works(link(<<"bd">>, <<ToString(i)>>))] \o <<unlink(<<"bd">>)>>
  \o [i \in 1 .. 6 |-> Works(unlink(<<ToString(i)>>))]

manywrites ==
  <<fork(<<unlink(<<"b1">>), Works(open(<<"b1">>, CREATE_RDWR)), write(fd, 1, BSIZE), close(fd),
           unlink(<<"b1">>)>>),
    fork(<<unlink(<<"b2">>), Works(open(<<"b2">>, CREATE_RDWR)), write(fd, 2, BSIZE)>>), wait, wait>>

\* A write from memory that is not there fails; what it allocated is freed
\* with the file.
badwrite ==
  Loop(3, [i \in 1 .. 3 |->
    <<Works(open(<<"j">>, CREATE_WRONLY)), [write(fd, 1, 1) EXCEPT !.ok = 0, !.want = {}],
      close(fd), unlink(<<"j">>)>>])
  \o <<Works(open(<<"j">>, CREATE_WRONLY)), write(fd, 1, 1), close(fd), unlink(<<"j">>)>>

\* Files are written until the disk is full; then mkdir fails.
diskfull ==
  Loop(2, [i \in 1 .. 2 |->
    <<unlink(<<ToString(i)>>), open(<<ToString(i)>>, CREATE_TRUNC)>>
    \o [j \in 1 .. MAXFILE |-> [write(fd, i, BSIZE) EXCEPT !.want = {}]] \o <<close(fd)>>])
  \o <<open(<<"z">>, CREATE_TRUNC), close(fd), open(<<"zz">>, CREATE_TRUNC), close(fd),
       Fails(mkdir(<<"d">>)), unlink(<<"d">>), unlink(<<"z">>), unlink(<<"zz">>),
       unlink(<<"1">>), unlink(<<"2">>)>>

outofinodes ==
  Loop(NINODES, [i \in 1 .. NINODES |->
    <<unlink(<<ToString(i)>>), open(<<ToString(i)>>, CREATE_TRUNC), close(fd)>>])
  \o [i \in 1 .. NINODES |-> unlink(<<ToString(i)>>)]
=============================================================================
