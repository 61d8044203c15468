--------------------------------- MODULE Sh ---------------------------------
(***************************************************************************)
(* The shell at work: init (user/init.c), the shell and the processes it   *)
(* makes for a command line (user/sh.c), and the programs echo and cat     *)
(* (user/echo.c, user/cat.c) with their pipes and files.                   *)
(*                                                                         *)
(* One step is one system call, or several that concern only the caller's  *)
(* own descriptors.  Of the kernel it has what these programs use: the     *)
(* process table, open files and pipes, whose insides are the business of  *)
(* modules Proc, Fs and Pipe.  A text is a sequence of words.  Reading     *)
(* from the console finds the end of the file at once.                     *)
(***************************************************************************)
EXTENDS ShellSyntax, FiniteSets

CONSTANTS
  Procs,      \* process slots: 1 .. n; 1 is init, 2 the first shell
  Files,      \* names of files
  NOFILE, PIPESIZE, NPIPES, NFILES,
  Workloads   \* each [cmds: what is typed, spare: how many slots are left]

VARIABLES
  proc,       \* processes
  pipe,       \* the words in each pipe
  ofile,      \* open files: name and offset
  content,    \* the files: do they exist, and what is in them
  console,    \* what has been written to the console
  input,      \* lines not yet read
  work        \* the workload

shvars == <<proc, pipe, ofile, content, console, input, work>>
world == <<pipe, ofile, content, console, input, work>>

-----------------------------------------------------------------------------
(* Descriptors.                                                            *)

Closed == <<>>
ConsoleEnd == <<"console">>
ReadEnd(k) == <<"pipe", k, "r">>
WriteEnd(k) == <<"pipe", k, "w">>
Fds == 0 .. NOFILE - 1

Lowest(S) == CHOOSE x \in S : \A y \in S : x <= y
close(fds, fd) == [fds EXCEPT ![fd] = Closed]
fdalloc(fds, end) == [fds EXCEPT ![Lowest({fd \in Fds : fds[fd] = Closed})] = end]
dup(fds, fd) == fdalloc(fds, fds[fd])

IsOpen(end) == \E q \in Procs, fd \in Fds : proc[q].fds[fd] = end

NoFds == [fd \in Fds |-> Closed]
Standard == [fd \in Fds |-> IF fd <= 2 THEN ConsoleEnd ELSE Closed]

-----------------------------------------------------------------------------
(* Processes.                                                              *)

NoCmd == execcmd(<<>>)

\* argv: the arguments (of the shell: the line) that remain; buf, in: cat's
\* buffer and the descriptor it reads; kid: what the last fork() returned; p: the
\* descriptors of the pipe that runcmd() has made.
Unused ==
  [state |-> "unused", parent |-> 0, pc |-> "", cmd |-> NoCmd, argv |-> <<>>, buf |-> <<>>, in |-> 0,
   kid |-> 0, p |-> <<>>, fds |-> NoFds]

\* A command as it is typed, with parentheses where they are needed; "EOF" is the
\* end of the input and "BAD" a line that is no command.
RECURSIVE Typed(_)
Typed(c) ==
  LET In(d, types) == IF d.type \in types THEN Typed(d) ELSE <<"(">> \o Typed(d) \o <<")">>
      op == [read |-> "<", truncate |-> ">", write |-> ">>"]
  IN  CASE c.type = "EXEC" -> c.argv
        [] c.type = "REDIR" -> In(c.cmd, {"EXEC", "REDIR"}) \o <<op[c.mode], c.file>>
        [] c.type = "PIPE" -> In(c.left, {"EXEC", "REDIR"}) \o <<"|">> \o In(c.right, {"EXEC", "REDIR", "PIPE"})
        [] c.type = "BACK" -> In(c.cmd, {"EXEC", "REDIR", "PIPE", "BACK"}) \o <<"&">>
        [] c.type = "LIST" -> In(c.left, {"EXEC", "REDIR", "PIPE", "BACK"}) \o <<";">> \o Typed(c.right)
        [] c.type = "BAD" -> c.line
        [] c.type = "EOF" -> <<"EOF">>

Typeable == UNION {{Typed(w.cmds[i]) : i \in DOMAIN w.cmds} : w \in Workloads}
Parses == [line \in Typeable |-> parsecmd(line)]

ShInit ==
  /\ work \in Workloads
  /\ input = [i \in DOMAIN work.cmds |-> Typed(work.cmds[i])]
  /\ proc = [q \in Procs |->
       IF q = 1 THEN [Unused EXCEPT !.state = "run", !.pc = "init_fork", !.fds = Standard] ELSE Unused]
  /\ pipe = [k \in 1 .. NPIPES |-> <<>>]
  /\ ofile = [o \in 1 .. NFILES |-> [name |-> CHOOSE f \in Files : TRUE, off |-> 0]]
  /\ content = [f \in Files |-> [exists |-> FALSE, text |-> <<>>]]
  /\ console = <<>>

At(p, pc) == proc[p].state = "run" /\ proc[p].pc = pc

Goto(p, pc) == proc' = [proc EXCEPT ![p].pc = pc]

\* The slots that other processes have not taken.
Slots == 1 .. work.spare + 1

exited(p) ==
  [q \in Procs |->
     IF q = p THEN [Unused EXCEPT !.state = "zombie", !.parent = proc[p].parent]
     ELSE IF proc[q].parent = p THEN [proc[q] EXCEPT !.parent = 1] ELSE proc[q]]

exit(p) == proc' = exited(p) /\ UNCHANGED world

\* fork(), and fork1(), which exits when there is no slot: the parent goes on as
\* "self", the child as "child".
fork(p, self, child) ==
  LET free == {q \in Slots : proc[q].state = "unused"}
  IN  /\ proc' = IF free = {} THEN exited(p)
                 ELSE [proc EXCEPT ![p] = [self EXCEPT !.kid = Lowest(free)],
                                   ![Lowest(free)] = [child EXCEPT !.state = "run", !.parent = p]]
      /\ UNCHANGED world

Children(p) == {q \in Procs : proc[q].state # "unused" /\ proc[q].parent = p}

\* wait() of p, which goes on as "self".  (Whoever waits here has a child.)
wait(p, self) ==
  /\ \E q \in Children(p) :
       /\ proc[q].state = "zombie"
       /\ proc' = [proc EXCEPT ![q] = Unused, ![p] = self]
  /\ UNCHANGED world

-----------------------------------------------------------------------------
(* init.c, and main() of sh.c.                                             *)

\* main() of the shell sees to it that three descriptors are open.
shmain(fds) == [Unused EXCEPT !.pc = "prompt", !.fds = close(fdalloc(fds, ConsoleEnd), 3)]

InitFork(p) ==
  /\ At(p, "init_fork")
  /\ fork(p, [proc[p] EXCEPT !.pc = "init_wait"], shmain(proc[p].fds))

\* The shell has exited and is started again, or it was a parentless process.
InitWait(p) ==
  /\ At(p, "init_wait")
  /\ \E q \in Children(p) :
       /\ proc[q].state = "zombie"
       /\ proc' = [proc EXCEPT ![q] = Unused, ![p].pc = IF q = proc[p].kid THEN "init_fork" ELSE @]
  /\ UNCHANGED world

\* getcmd() writes the prompt and then reads a line.
Prompt(p) ==
  /\ At(p, "prompt")
  /\ console' = Append(console, "$")
  /\ Goto(p, "gets")
  /\ UNCHANGED <<pipe, ofile, content, input, work>>

Gets(p) ==
  /\ At(p, "gets") /\ input # <<>>
  /\ LET line == Head(input)
     IN  proc' = CASE line = <<"EOF">> -> exited(p)
                   [] line # <<>> /\ line[1] = "cd" -> [proc EXCEPT ![p].pc = "prompt"]
                   [] OTHER -> [proc EXCEPT ![p].pc = "sh_fork", ![p].argv = line]
  /\ input' = Tail(input)
  /\ UNCHANGED <<pipe, ofile, content, console, work>>

\* The child parses the line, and exits if it cannot.
ShFork(p) ==
  LET c == Parses[proc[p].argv]
  IN  /\ At(p, "sh_fork")
      /\ fork(p, [proc[p] EXCEPT !.pc = "sh_wait", !.argv = <<>>],
              [Unused EXCEPT !.pc = IF c.ok THEN "run" ELSE "exit", !.cmd = c.cmd, !.fds = proc[p].fds])

ShWait(p) == At(p, "sh_wait") /\ wait(p, [proc[p] EXCEPT !.pc = "prompt"])

-----------------------------------------------------------------------------
(* runcmd().                                                               *)

Runs(p, type) == At(p, "run") /\ proc[p].cmd.type = type

\* A program starts; if exec() fails the process exits.
RunExec(p) ==
  LET argv == proc[p].cmd.argv
      start(pc) == [proc EXCEPT ![p].pc = pc, ![p].cmd = NoCmd, ![p].argv = Tail(argv)]
  IN  /\ Runs(p, "EXEC")
      /\ proc' = CASE argv = <<>> -> exited(p)
                   [] argv # <<>> /\ argv[1] = "echo" -> start("echo")
                   [] argv = <<"cat">> -> start("cat_read")
                   [] Len(argv) > 1 /\ argv[1] = "cat" -> start("cat_open")
                   [] OTHER -> exited(p)
      /\ UNCHANGED world

\* open(): a file is created or truncated as mode says; FALSE if there is none.
CanOpen(file, mode) == mode # "read" \/ content[file].exists

FreeFile == Lowest({o \in 1 .. NFILES : ~IsOpen(<<"file", o>>)})

open(p, self, file, mode) ==
  /\ ofile' = [ofile EXCEPT ![FreeFile] = [name |-> file, off |-> 0]]
  /\ content' = [content EXCEPT ![file] =
                   [exists |-> TRUE, text |-> IF mode = "truncate" THEN <<>> ELSE @.text]]
  /\ proc' = [proc EXCEPT ![p] = [self EXCEPT !.fds = fdalloc(@, <<"file", FreeFile>>)]]
  /\ UNCHANGED <<pipe, console, input, work>>

RunRedir(p) ==
  LET c == proc[p].cmd
  IN  /\ Runs(p, "REDIR")
      /\ IF CanOpen(c.file, c.mode)
         THEN open(p, [proc[p] EXCEPT !.fds = close(@, c.fd), !.cmd = c.cmd], c.file, c.mode)
         ELSE exit(p)

\* The child of p that runs cmd.
Runner(p, cmd, fds) == [Unused EXCEPT !.pc = "run", !.cmd = cmd, !.fds = fds]

RunList(p) ==
  /\ Runs(p, "LIST")
  /\ fork(p, [proc[p] EXCEPT !.pc = "list_wait"], Runner(p, proc[p].cmd.left, proc[p].fds))

\* Mutant: the right-hand side does not wait for the left-hand side.
ListWaitNot(p) ==
  /\ At(p, "list_wait")
  /\ proc' = [proc EXCEPT ![p].pc = "run", ![p].cmd = @.right]
  /\ UNCHANGED world

ListWait(p) ==
  /\ At(p, "list_wait")
  /\ wait(p, [proc[p] EXCEPT !.pc = "run", !.cmd = @.right])

\* pipe(); the process exits if there is no memory for one more.
RunPipe(p) ==
  LET unused == {j \in 1 .. NPIPES : ~IsOpen(ReadEnd(j)) /\ ~IsOpen(WriteEnd(j))}
      k == Lowest(unused)
      fds == fdalloc(fdalloc(proc[p].fds, ReadEnd(k)), WriteEnd(k))
      fd(end) == CHOOSE x \in Fds : fds[x] = end
  IN  /\ Runs(p, "PIPE")
      /\ IF unused = {} THEN exit(p)
         ELSE /\ pipe' = [pipe EXCEPT ![k] = <<>>]
              /\ proc' = [proc EXCEPT ![p].pc = "pipe_left", ![p].fds = fds,
                                      ![p].p = <<fd(ReadEnd(k)), fd(WriteEnd(k))>>]
              /\ UNCHANGED <<ofile, content, console, input, work>>

\* close(p[0]); close(p[1])
CloseBoth(fds, p) == close(close(fds, p[1]), p[2])

LeftEnds(fds, p) == CloseBoth(dup(close(fds, 1), p[2]), p)

RightEnds(fds, p) == CloseBoth(dup(close(fds, 0), p[1]), p)

PipeLeft(p) ==
  /\ At(p, "pipe_left")
  /\ fork(p, [proc[p] EXCEPT !.pc = "pipe_right"],
          Runner(p, proc[p].cmd.left, LeftEnds(proc[p].fds, proc[p].p)))

PipeRight(p) ==
  /\ At(p, "pipe_right")
  /\ fork(p, [proc[p] EXCEPT !.pc = "pipe_close"],
          Runner(p, proc[p].cmd.right, RightEnds(proc[p].fds, proc[p].p)))

\* Mutant: the process that waits keeps the write end.
ParentEndsKept(fds, p) == close(fds, p[1])

ParentEnds(fds, p) == CloseBoth(fds, p)

PipeClose(p) ==
  /\ At(p, "pipe_close")
  /\ proc' = [proc EXCEPT ![p].pc = "pipe_wait", ![p].fds = ParentEnds(@, proc[p].p), ![p].p = <<>>]
  /\ UNCHANGED world

\* Two children, two calls of wait().
PipeWait(p) ==
  \/ At(p, "pipe_wait") /\ wait(p, [proc[p] EXCEPT !.pc = "pipe_wait2"])
  \/ At(p, "pipe_wait2") /\ wait(p, [proc[p] EXCEPT !.pc = "exit"])

RunBack(p) ==
  /\ Runs(p, "BACK")
  /\ fork(p, [proc[p] EXCEPT !.pc = "exit"], Runner(p, proc[p].cmd.cmd, proc[p].fds))

Exit(p) == At(p, "exit") /\ exit(p)

-----------------------------------------------------------------------------
(* echo.c and cat.c.                                                       *)

\* write(1, w): p goes on as "done", or as "failed" if nobody can read it any
\* more, or the file has become shorter than the offset.
write(p, w, done, failed) ==
  LET end == proc[p].fds[1]
      go(self) == proc' = [proc EXCEPT ![p] = self]
      past(o) == o.off > Len(content[o.name].text)
  IN  \/ /\ end = ConsoleEnd
         /\ console' = Append(console, w)
         /\ go(done)
         /\ UNCHANGED <<pipe, ofile, content, input, work>>
      \/ /\ end # Closed /\ end[1] = "file" /\ ~past(ofile[end[2]])
         /\ LET o == ofile[end[2]]
            IN  content' = [content EXCEPT ![o.name].text =
                              SubSeq(@, 1, o.off) \o <<w>> \o SubSeq(@, o.off + 2, Len(@))]
         /\ ofile' = [ofile EXCEPT ![end[2]].off = @ + 1]
         /\ go(done)
         /\ UNCHANGED <<pipe, console, input, work>>
      \/ /\ end # Closed /\ end[1] = "pipe"
         /\ IsOpen(ReadEnd(end[2]))
         /\ Len(pipe[end[2]]) < PIPESIZE
         /\ pipe' = [pipe EXCEPT ![end[2]] = Append(@, w)]
         /\ go(done)
         /\ UNCHANGED <<ofile, content, console, input, work>>
      \/ /\ \/ end = Closed
            \/ end # Closed /\ end[1] = "pipe" /\ ~IsOpen(ReadEnd(end[2]))
            \/ end # Closed /\ end[1] = "file" /\ past(ofile[end[2]])
         /\ go(failed)
         /\ UNCHANGED world

\* echo takes no notice of a write that fails.
Echo(p) ==
  LET rest == [proc[p] EXCEPT !.argv = Tail(@)]
  IN  /\ At(p, "echo")
      /\ IF proc[p].argv = <<>> THEN exit(p) ELSE write(p, Head(proc[p].argv), rest, rest)

\* What read() finds: all there is; it waits while a pipe is empty that can
\* still be written.
Found(end) ==
  CASE end[1] = "pipe" -> pipe[end[2]]
    [] end[1] = "file" -> LET text == content[ofile[end[2]].name].text
                          IN  SubSeq(text, ofile[end[2]].off + 1, Len(text))
    [] OTHER -> <<>>

CatRead(p) ==
  LET end == proc[p].fds[proc[p].in]
      got == Found(end)
      next == IF proc[p].in = 0 THEN "exit" ELSE "cat_close"
  IN  /\ At(p, "cat_read")
      /\ end[1] = "pipe" => got # <<>> \/ ~IsOpen(WriteEnd(end[2]))
      /\ proc' = [proc EXCEPT ![p].pc = IF got = <<>> THEN next ELSE "cat_write", ![p].buf = got]
      /\ pipe' = IF end[1] = "pipe" THEN [pipe EXCEPT ![end[2]] = <<>>] ELSE pipe
      /\ ofile' = IF end[1] = "file" THEN [ofile EXCEPT ![end[2]].off = @ + Len(got)] ELSE ofile
      /\ UNCHANGED <<content, console, input, work>>

CatWrite(p) ==
  LET buf == proc[p].buf
      next == IF Len(buf) = 1 THEN "cat_read" ELSE "cat_write"
  IN  /\ At(p, "cat_write")
      /\ write(p, Head(buf), [proc[p] EXCEPT !.buf = Tail(@), !.pc = next],
                             [proc[p] EXCEPT !.buf = <<>>, !.pc = "exit"])

\* The next file of the arguments.
CatOpen(p) ==
  LET argv == proc[p].argv
      self == [proc[p] EXCEPT !.argv = Tail(argv), !.pc = "cat_read",
                              !.in = Lowest({fd \in Fds : proc[p].fds[fd] = Closed})]
  IN  /\ At(p, "cat_open")
      /\ IF argv = <<>> \/ ~CanOpen(argv[1], "read") THEN exit(p) ELSE open(p, self, argv[1], "read")

CatClose(p) ==
  /\ At(p, "cat_close")
  /\ proc' = [proc EXCEPT ![p].pc = "cat_open", ![p].fds = close(@, proc[p].in), ![p].in = 0]
  /\ UNCHANGED world

-----------------------------------------------------------------------------
Step(p) ==
  \/ InitFork(p) \/ InitWait(p) \/ Prompt(p) \/ Gets(p) \/ ShFork(p) \/ ShWait(p)
  \/ RunExec(p) \/ RunRedir(p) \/ RunList(p) \/ ListWait(p) \/ RunPipe(p) \/ PipeLeft(p) \/ PipeRight(p)
  \/ PipeClose(p) \/ PipeWait(p) \/ RunBack(p) \/ Exit(p)
  \/ Echo(p) \/ CatRead(p) \/ CatWrite(p) \/ CatOpen(p) \/ CatClose(p)

ShNext == \E p \in Procs : Step(p)

-----------------------------------------------------------------------------
(* Properties.                                                             *)

\* Pipes and files stay within their bounds, init lives, and a process that has
\* exited, waited for or not, has nothing open.
ShTypeOK ==
  /\ \A k \in 1 .. NPIPES : Len(pipe[k]) <= PIPESIZE
  /\ proc[1].state = "run"
  /\ \A q \in Procs : proc[q].state # "run" => proc[q].fds = NoFds

\* What a command means, given its input and the files: what it writes to its
\* output, what it leaves of its input, and the files afterwards.
RECURSIVE Meaning(_, _, _)
Meaning(c, in, files) ==
  LET nothing == [out |-> <<>>, in |-> in, files |-> files]
      RECURSIVE Texts(_)
      Texts(names) == IF names = <<>> \/ ~files[Head(names)].exists THEN <<>>
                      ELSE files[Head(names)].text \o Texts(Tail(names))
      over(new, old) == new \o SubSeq(old, Len(new) + 1, Len(old))
  IN  CASE c.type = "EXEC" /\ c.argv # <<>> /\ c.argv[1] = "echo" -> [nothing EXCEPT !.out = Tail(c.argv)]
        [] c.type = "EXEC" /\ c.argv = <<"cat">> -> [nothing EXCEPT !.out = in, !.in = <<>>]
        [] c.type = "EXEC" /\ c.argv # <<>> /\ c.argv[1] = "cat" ->
             IF Len(c.argv) > 1 THEN [nothing EXCEPT !.out = Texts(Tail(c.argv))] ELSE nothing
        [] c.type = "REDIR" /\ c.mode = "read" ->
             IF ~files[c.file].exists THEN nothing
             ELSE [Meaning(c.cmd, files[c.file].text, files) EXCEPT !.in = in]
        [] c.type = "REDIR" /\ c.mode # "read" ->
             LET old == IF c.mode = "truncate" THEN <<>> ELSE files[c.file].text
                 m == Meaning(c.cmd, in, [files EXCEPT ![c.file] = [exists |-> TRUE, text |-> old]])
             IN  IF m.out = <<>> THEN m
                 ELSE [m EXCEPT !.out = <<>>, !.files[c.file].text = over(m.out, old)]
        [] c.type = "PIPE" ->
             LET l == Meaning(c.left, in, files)
                 r == Meaning(c.right, l.out, l.files)
             IN  [r EXCEPT !.in = l.in]
        [] c.type = "LIST" ->
             LET l == Meaning(c.left, in, files)
                 r == Meaning(c.right, l.in, l.files)
             IN  [r EXCEPT !.out = l.out \o r.out]
        [] c.type = "BACK" -> Meaning(c.cmd, in, files)
        [] OTHER -> nothing

\* The console after the commands: a prompt before each, and one at the end.
RECURSIVE Dialogue(_, _)
Dialogue(cmds, files) ==
  IF cmds = <<>> THEN <<"$">>
  ELSE LET m == Meaning(Head(cmds), <<>>, files) IN <<"$">> \o m.out \o Dialogue(Tail(cmds), m.files)

RECURSIVE HasBack(_)
HasBack(c) ==
  \/ c.type = "BACK"
  \/ c.type = "REDIR" /\ HasBack(c.cmd)
  \/ c.type \in {"PIPE", "LIST"} /\ (HasBack(c.left) \/ HasBack(c.right))

\* Everything typed has been run, and the shell waits for the next line.
Quiet ==
  /\ input = <<>>
  /\ \E p \in Procs : At(p, "gets") /\ \A q \in Procs : proc[q].state # "unused" => q \in {1, p}

Count(s, w) == Cardinality({i \in DOMAIN s : s[i] = w})

\* A command line does what it says: the processes that runcmd() makes of it, in
\* whatever order they run, write to the console what the command means, and the
\* next prompt comes after it.  (In the background the order is open.)
OutputAsMeant ==
  /\ ShTypeOK
  /\ Quiet /\ work.spare = Cardinality(Procs) - 1 =>
       LET meant == Dialogue(work.cmds, [f \in Files |-> [exists |-> FALSE, text |-> <<>>]])
       IN  /\ Len(console) = Len(meant)
           /\ \A i \in DOMAIN meant : Count(console, meant[i]) = Count(meant, meant[i])
           /\ (\A i \in DOMAIN work.cmds : ~HasBack(work.cmds[i])) => console = meant

\* Every line comes to its end and the shell prompts again, also when the
\* process table is full or there is no memory for a pipe: readers see the end of
\* their input, writers do not wait for readers that are gone, and a shell that
\* has exited is started again.
AllRun == <>[]Quiet
=============================================================================
