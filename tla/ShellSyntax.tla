---------------------------- MODULE ShellSyntax -----------------------------
(***************************************************************************)
(* The shell's parser (user/sh.c).  A line is a sequence of the tokens     *)
(* that gettoken() finds: the symbols, ">>" (its '+'), and words.          *)
(*                                                                         *)
(* The parser's operators return the command and the tokens that are left, *)
(* and ok = FALSE when the code calls panic().  The recursion follows the  *)
(* code's.                                                                 *)
(***************************************************************************)
EXTENDS Naturals, Sequences

CONSTANT MAXARGS

Symbols == {"<", ">", ">>", "|", "&", ";", "(", ")"}

\* struct execcmd, redircmd, pipecmd, listcmd and backcmd.
execcmd(argv) == [type |-> "EXEC", argv |-> argv]
redircmd(subcmd, file, mode, fd) ==
  [type |-> "REDIR", cmd |-> subcmd, file |-> file, mode |-> mode, fd |-> fd]
pipecmd(left, right) == [type |-> "PIPE", left |-> left, right |-> right]
listcmd(left, right) == [type |-> "LIST", left |-> left, right |-> right]
backcmd(subcmd) == [type |-> "BACK", cmd |-> subcmd]

peek(s, toks) == s # <<>> /\ Head(s) \in toks

Parsed(cmd, s) == [cmd |-> cmd, s |-> s, ok |-> TRUE]
ParsePanic == [cmd |-> execcmd(<<>>), s |-> <<>>, ok |-> FALSE]

\* Which file a redirection opens, how, and as which descriptor.
Redirection(tok, file) ==
  CASE tok = "<" -> [file |-> file, mode |-> "read", fd |-> 0]
    [] tok = ">" -> [file |-> file, mode |-> "truncate", fd |-> 1]
    [] tok = ">>" -> [file |-> file, mode |-> "write", fd |-> 1]

RECURSIVE parseredirs(_, _)
parseredirs(cmd, s) ==
  IF ~peek(s, {"<", ">", ">>"}) THEN Parsed(cmd, s)
  ELSE IF Len(s) < 2 \/ s[2] \in Symbols THEN ParsePanic
  ELSE LET r == Redirection(s[1], s[2])
       IN  parseredirs(redircmd(cmd, r.file, r.mode, r.fd), SubSeq(s, 3, Len(s)))

\* The command inside the redirections that ret has gathered gets one more
\* argument: cmd points into ret.
RECURSIVE AddArg(_, _)
AddArg(ret, word) ==
  IF ret.type = "EXEC" THEN execcmd(Append(ret.argv, word)) ELSE [ret EXCEPT !.cmd = AddArg(@, word)]

\* The loop of parseexec(), after argc arguments.
RECURSIVE Words(_, _, _)
Words(ret, s, argc) ==
  LET more(r) == IF r.ok THEN Words(r.cmd, r.s, argc + 1) ELSE ParsePanic
  IN  IF s = <<>> \/ peek(s, {"|", ")", "&", ";"}) THEN Parsed(ret, s)
      ELSE IF Head(s) \in Symbols \/ argc + 1 >= MAXARGS THEN ParsePanic
      ELSE more(parseredirs(AddArg(ret, Head(s)), Tail(s)))

RECURSIVE Backs(_, _)
Backs(cmd, s) == IF peek(s, {"&"}) THEN Backs(backcmd(cmd), Tail(s)) ELSE Parsed(cmd, s)

\* What follows a part that has been parsed (l), and how the parts are joined.
CloseBlock(l) ==
  IF ~l.ok \/ ~peek(l.s, {")"}) THEN ParsePanic ELSE parseredirs(l.cmd, Tail(l.s))

PipeOf(l, r) == IF r.ok THEN Parsed(pipecmd(l.cmd, r.cmd), r.s) ELSE ParsePanic
ListOf(l, r) == IF r.ok THEN Parsed(listcmd(l.cmd, r.cmd), r.s) ELSE ParsePanic

RECURSIVE parseline(_), parsepipe(_), parseexec(_), parseblock(_), PipeRest(_), LineRest(_)
parseblock(s) == CloseBlock(parseline(Tail(s)))

parseexec(s) ==
  LET words(r) == IF r.ok THEN Words(r.cmd, r.s, 0) ELSE ParsePanic
  IN  IF peek(s, {"("}) THEN parseblock(s) ELSE words(parseredirs(execcmd(<<>>), s))

PipeRest(l) == IF l.ok /\ peek(l.s, {"|"}) THEN PipeOf(l, parsepipe(Tail(l.s))) ELSE l

parsepipe(s) == PipeRest(parseexec(s))

LineRest(l) == IF peek(l.s, {";"}) THEN ListOf(l, parseline(Tail(l.s))) ELSE l

parseline(s) ==
  LET backs(p) == IF p.ok THEN LineRest(Backs(p.cmd, p.s)) ELSE ParsePanic
  IN  backs(parsepipe(s))

\* parsecmd(): tokens that are left over are an error.
parsecmd(s) ==
  LET whole(l) == IF l.s = <<>> THEN l ELSE ParsePanic IN whole(parseline(s))
=============================================================================
