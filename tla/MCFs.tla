-------------------------------- MODULE MCFs --------------------------------
EXTENDS UserTests

MCFiles == <<[name |-> "echo", data |-> <<Word(1)>>]>>

\* Calls that get in each other's way in and around the directory d, which
\* holds the file f, and in an empty directory e.
Rivals ==
  << <<open(<<"d", "x">>, CREATE_RDWR)>>, <<mkdir(<<"e", "x">>)>>, <<mknod(<<"e", "x">>)>>,
     <<unlink(<<"d", "f">>), unlink(<<"d">>)>>, <<unlink(<<"e">>)>>,
     <<link(<<"echo">>, <<"e", "x">>)>>, <<link(<<"d", "f">>, <<"x">>)>>,
     <<chdir(<<"e">>), open(<<"x">>, CREATE)>>,
     <<open(<<"d", "f">>, TRUNC_WRONLY), [write(fd, 3, 4) EXCEPT !.want = {}]>>,
     <<unlink(<<"e", "x">>)>>, <<chdir(<<"e">>), chdir(<<"..">>)>> >>

Races ==
  {<<Works(mkdir(<<"d">>)), Works(mkdir(<<"e">>)), Works(open(<<"d", "f">>, CREATE)), close(fd),
     fork(Rivals[i])>> \o Rivals[j] \o <<wait>> :
     <<i, j>> \in {x \in (1 .. Len(Rivals)) \X (1 .. Len(Rivals)) : x[1] <= x[2]}}

\* Descriptors that share a file, pipe ends, and tables that are full.
Descriptors ==
  {<<Works(open(<<"echo">>, RDONLY)), dup(0), fork(<<close(0), read(1, Big, 1)>>), close(0),
     fstat(1, 1), wait, pipe, Fails(pipe), fork(<<close(2)>>),
     Fails(open(<<"echo">>, RDONLY)), Fails(dup(0)), Fails(fstat(0, 0)), Fails(close(5)), wait>>,
   <<pipe, fork(<<close(0)>>), close(1), wait, Works(mknod(<<"c">>)), close(0),
     Works(open(<<"c">>, CREATE_RDWR)), close(fd), Works(open(<<"d">>, CREATE)),
     link(<<"d">>, <<"e">>), fstat(0, 2), Fails(read(2, 1, 0))>>,
   <<pipe, fork(<<close(0), close(1)>>), fork(<<>>), Fails(fork(<<>>)), Fails(pipe), wait,
     wait, Fails(wait), close(0), close(1), Fails([pipe EXCEPT !.err = "kalloc"]),
     Fails([pipe EXCEPT !.err = "copyout"]), pipe>>,
   <<fork(<<Fails([pipe EXCEPT !.err = "copyout"])>>), open(<<"echo">>, RDONLY),
     [pipe EXCEPT !.want = {}], wait>>}

\* With as many inodes in use as the table has entries, another one is asked for.
TableFull ==
  {<<Works(mkdir(<<"d">>)), Works(chdir(<<"d">>)), fork(<<unlink(<<"a">>)>>)>>
   \o [i \in 1 .. 3 |-> Works(open(<<ToString(i)>>, CREATE))] \o <<open(<<"..", "echo">>, RDONLY)>>}

MCPrograms == linkunlink \cup concreate \cup Races \cup Descriptors \cup TableFull \cup
  {truncate1, truncate2, truncate3, iputtest, exitiputtest, openiputtest, opentest,
  writetest, writebig, createtest, dirtest, sharedfd, fourfiles, createdelete, unlinkread,
  linktest, subdir, bigwrite, bigfile, rmdot, dirfile, iref, bigdir, manywrites,
  badwrite, diskfull, outofinodes}

\* Two processes that create and remove files of their own.
RacePrograms == {createdelete}

\* A file is created in a directory that was removed.
RemovedDirPrograms ==
  {<<Works(mkdir(<<"d">>)), Works(chdir(<<"d">>)), Works(unlink(<<"..", "d">>)),
     open(<<"x">>, CREATE), close(fd), Works(chdir(<<"/">>))>>}
=============================================================================
