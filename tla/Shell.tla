------------------------------- MODULE Shell --------------------------------
(***************************************************************************)
(* user/sh.c and user/init.c: the parser of command lines, and the system  *)
(* calls that runcmd(), main() and init make, as scripts which processes   *)
(* work off concurrently.  Descriptors are tracked, as they decide who     *)
(* ends: a program that reads a pipe ends when nobody has its write end.   *)
(* Every call that may fail does so at will: fork(), exec(), open(),       *)
(* pipe().  The programs are user/cat.c, with and without an argument, and *)
(* any that neither reads nor writes (rm).                                 *)
(***************************************************************************)
EXTENDS Integers, FiniteSets, FiniteSetsExt, Sequences, SequencesExt

CONSTANTS
  Ids,      \* process slots, 1 .. n; 1 is init
  Fds,      \* 0 .. NOFILE - 1
  Pipes,
  Lines,    \* bound: the lines that are typed, sequences of tokens
  MaxLines, \* bound: how many
  MAXARGS

-----------------------------------------------------------------------------
(* Parsing. A parse is a command and the tokens that follow, or a panic(). *)

Redirs == {"<", ">", ">>"}
Symbols == Redirs \cup {"|", "&", ";", "(", ")"}

Parsed(cmd, rest) == [ok |-> TRUE, cmd |-> cmd, rest |-> rest]
Panic == [ok |-> FALSE, cmd |-> [type |-> "none"], rest |-> <<>>]

execcmd(argv) == [type |-> "EXEC", argv |-> argv]
redircmd(cmd, r) == [type |-> "REDIR", cmd |-> cmd, file |-> r[2], fd |-> IF r[1] = "<" THEN 0 ELSE 1]
pipecmd(left, right) == [type |-> "PIPE", left |-> left, right |-> right]
listcmd(left, right) == [type |-> "LIST", left |-> left, right |-> right]
backcmd(cmd) == [type |-> "BACK", cmd |-> cmd]

peek(s, toks) == s # <<>> /\ Head(s) \in toks
Word(s) == s # <<>> /\ Head(s) \notin Symbols

\* parseredirs(): cmd with the redirections at the beginning of s around it.
RECURSIVE parseredirs(_, _)
parseredirs(cmd, s) ==
  IF ~peek(s, Redirs) THEN Parsed(cmd, s)
  ELSE IF ~Word(Tail(s)) THEN Panic
  ELSE parseredirs(redircmd(cmd, s), SubSeq(s, 3, Len(s)))

\* The execcmd inside cmd gets one more argument.
RECURSIVE AddArg(_, _)
AddArg(cmd, w) ==
  IF cmd.type = "EXEC" THEN execcmd(Append(cmd.argv, w)) ELSE [cmd EXCEPT !.cmd = AddArg(@, w)]

\* The loop of parseexec(), at its argument argc.
RECURSIVE Arguments(_, _)
Arguments(r, argc) ==
  IF ~r.ok \/ r.rest = <<>> \/ peek(r.rest, {"|", ")", "&", ";"}) THEN r
  ELSE IF ~Word(r.rest) \/ argc + 1 >= MAXARGS THEN Panic
  ELSE Arguments(parseredirs(AddArg(r.cmd, Head(r.rest)), Tail(r.rest)), argc + 1)

RECURSIVE parseline(_)
RECURSIVE parsepipe(_)

parseblock(s) ==
  LET r == parseline(Tail(s))
  IN IF r.ok /\ peek(r.rest, {")"}) THEN parseredirs(r.cmd, Tail(r.rest)) ELSE Panic

parseexec(s) ==
  IF peek(s, {"("}) THEN parseblock(s) ELSE Arguments(parseredirs(execcmd(<<>>), s), 0)

parsepipe(s) ==
  LET r == parseexec(s) IN
  IF ~(r.ok /\ peek(r.rest, {"|"})) THEN r
  ELSE LET q == parsepipe(Tail(r.rest))
       IN IF q.ok THEN Parsed(pipecmd(r.cmd, q.cmd), q.rest) ELSE Panic

RECURSIVE Background(_)
Background(r) == IF r.ok /\ peek(r.rest, {"&"}) THEN Background(Parsed(backcmd(r.cmd), Tail(r.rest))) ELSE r

parseline(s) ==
  LET r == Background(parsepipe(s)) IN
  IF ~(r.ok /\ peek(r.rest, {";"})) THEN r
  ELSE LET q == parseline(Tail(r.rest))
       IN IF q.ok THEN Parsed(listcmd(r.cmd, q.cmd), q.rest) ELSE Panic

parsecmd(s) == LET r == parseline(s) IN IF r.ok /\ r.rest = <<>> THEN r ELSE Panic

-----------------------------------------------------------------------------
(* The system calls that a command makes *)

P0 == -1    \* p[0], p[1] of the process
P1 == -2

Close(fd) == [op |-> "close", fd |-> fd]
Dup(fd) == [op |-> "dup", fd |-> fd]
Fork(todo, bg) == [op |-> "fork", todo |-> todo, bg |-> bg]   \* bg: not waited for
Exec(argv) == [op |-> "exec", argv |-> argv]
Do(op) == [op |-> op]

RightEnd_open == <<Close(0), Dup(P0), Close(P0)>>

\* What the two children of a PIPE do before they run their command.
LeftEnd == <<Close(1), Dup(P1), Close(P0), Close(P1)>>
RightEnd == <<Close(0), Dup(P0), Close(P0), Close(P1)>>

\* runcmd()
RECURSIVE runcmd(_)
runcmd(cmd) ==
  CASE cmd.type = "EXEC" -> <<IF cmd.argv = <<>> THEN Do("exit") ELSE Exec(cmd.argv)>>
    [] cmd.type = "REDIR" -> <<Close(cmd.fd), Do("open")>> \o runcmd(cmd.cmd)
    [] cmd.type = "LIST" -> <<Fork(runcmd(cmd.left), FALSE), Do("wait")>> \o runcmd(cmd.right)
    [] cmd.type = "PIPE" ->
         <<Do("pipe"), Fork(LeftEnd \o runcmd(cmd.left), FALSE), Fork(RightEnd \o runcmd(cmd.right), FALSE),
           Close(P0), Close(P1), Do("wait"), Do("wait"), Do("exit")>>
    [] cmd.type = "BACK" -> <<Fork(runcmd(cmd.cmd), TRUE), Do("exit")>>

\* The shell's child, for the line s: a panic() in the parser exits.
Child(s) == LET r == parsecmd(s) IN IF r.ok THEN runcmd(r.cmd) ELSE <<Do("exit")>>

-----------------------------------------------------------------------------
VARIABLES
  proc,   \* of a process: todo, fd (what each descriptor is), p, parent, bg
  lines   \* typed so far

vars == <<proc, lines>>

Shut == <<"shut", 0>>
Other == <<"other", 0>>    \* the console, or a file
Unused == [todo |-> <<>>, fd |-> [d \in Fds |-> Shut], p |-> <<0, 0>>, parent |-> 0, bg |-> FALSE]

\* init has opened the console and made two copies of the descriptor.
Init ==
  /\ proc = [i \in Ids |->
               IF i = 1 THEN [Unused EXCEPT !.todo = <<Do("init")>>,
                                            !.fd = [d \in Fds |-> IF d <= 2 THEN Other ELSE Shut]]
               ELSE Unused]
  /\ lines = 0

Used(i) == proc[i].todo # <<>>
Op(i) == IF Used(i) THEN proc[i].todo[1].op ELSE "none"
Kids(i) == {k \in Ids : Used(k) /\ proc[k].parent = i}
Zombies(i) == {k \in Kids(i) : Op(k) = "zombie"}
Advanced(i) == [proc EXCEPT ![i].todo = Tail(@)]
Unallocated == {i \in Ids : ~Used(i)}
Holders(x) == {i \in Ids : \E d \in Fds : proc[i].fd[d] = x}
Closed(i) == {d \in Fds : proc[i].fd[d] = Shut}
Halted == Op(1) = "halt"   \* the kernel has panicked: init exiting
Fd(i) == LET n == proc[i].todo[1].fd IN IF n >= 0 THEN n ELSE proc[i].p[-n]

\* fork1(), which panics when there is no slot or no memory for the child.
fork1(i) ==
  LET step == proc[i].todo[1] IN
  /\ Op(i) = "fork"
  /\ \/ /\ Unallocated # {}
        /\ proc' = [Advanced(i) EXCEPT ![Min(Unallocated)] =
                      [proc[i] EXCEPT !.todo = step.todo, !.parent = i, !.bg = step.bg]]
     \/ proc' = [proc EXCEPT ![i].todo = <<Do("panic")>>]
  /\ UNCHANGED lines

\* exec() of cat without an argument, of cat of a file, or of another program,
\* which all begin anew; it may fail, and runcmd() exits.
exec(i) ==
  LET argv == proc[i].todo[1].argv
      prog == IF argv[1] # "cat" THEN "other" ELSE IF Len(argv) = 1 THEN "filter" ELSE "source"
  IN
  /\ Op(i) = "exec"
  /\ \E op \in {prog, "exit"} : proc' = [proc EXCEPT ![i].todo = <<Do(op)>>]
  /\ UNCHANGED lines

close(i) ==
  /\ Op(i) = "close"
  /\ proc' = [Advanced(i) EXCEPT ![i].fd[Fd(i)] = Shut]
  /\ UNCHANGED lines

dup(i) ==
  /\ Op(i) = "dup"
  /\ proc' = [Advanced(i) EXCEPT ![i].fd[Min(Closed(i))] = proc[i].fd[Fd(i)]]
  /\ UNCHANGED lines

\* open() of a redirection, which may fail.
open(i) ==
  /\ Op(i) = "open"
  /\ \/ proc' = [Advanced(i) EXCEPT ![i].fd[Min(Closed(i))] = Other]
     \/ proc' = [proc EXCEPT ![i].todo = <<Do("exit")>>]
  /\ UNCHANGED lines

pipe(i) ==
  LET k == Min({x \in Pipes : Holders(<<"r", x>>) \cup Holders(<<"w", x>>) = {}})
      r == Min(Closed(i))
      w == Min(Closed(i) \ {r})
  IN
  /\ Op(i) = "pipe"
  /\ \/ /\ Cardinality(Closed(i)) >= 2
        /\ proc' = [Advanced(i) EXCEPT ![i].fd[r] = <<"r", k>>, ![i].fd[w] = <<"w", k>>, ![i].p = <<r, w>>]
     \/ proc' = [proc EXCEPT ![i].todo = <<Do("panic")>>]
  /\ UNCHANGED lines

\* wait(0), for any child.
wait(i) ==
  /\ Op(i) = "wait"
  /\ \/ Kids(i) = {} /\ proc' = Advanced(i)
     \/ \E k \in Zombies(i) : proc' = [Advanced(i) EXCEPT ![k] = Unused]
  /\ UNCHANGED lines

\* exit() closes the descriptors and gives the children to init; that of init
\* is the kernel's panic("init exiting").
exit(i) ==
  /\ Op(i) \in {"exit", "panic"}
  /\ proc' = IF i = 1 THEN [proc EXCEPT ![1].todo = <<Do("halt")>>]
             ELSE [k \in Ids |->
                     IF k = i THEN [Unused EXCEPT !.todo = <<Do("zombie")>>, !.parent = proc[i].parent, !.bg = proc[i].bg]
                     ELSE IF k \in Kids(i) THEN [proc[k] EXCEPT !.parent = 1] ELSE proc[k]]
  /\ UNCHANGED lines

\* read() of descriptor 0 returns 0, or will when it has returned what there is.
EndOfFile(i) == proc[i].fd[0][1] = "r" => Holders(<<"w", proc[i].fd[0][2]>>) = {}

\* write() to descriptor 1 fails.
Broken(i) == proc[i].fd[1][1] = "w" /\ Holders(<<"r", proc[i].fd[1][2]>>) = {}

\* write()s of more than a pipe holds come to an end: they fail, or a filter
\* reads on, whose own do.
RECURSIVE Drained(_)
Drained(i) ==
  proc[i].fd[1][1] = "w" =>
    \/ Broken(i)
    \/ \E k \in Ids : Op(k) = "filter" /\ proc[k].fd[0] = <<"r", proc[i].fd[1][2]>> /\ Drained(k)

\* cat copies descriptor 0, or a file, to descriptor 1 and exits at the end or
\* when a write() fails; a file may be missing or short.
Program(i) ==
  /\ Op(i) \in {"source", "other"} \/ (Op(i) = "filter" /\ (EndOfFile(i) \/ Broken(i)))
  /\ proc' = [proc EXCEPT ![i].todo = <<Do("exit")>>]
  /\ UNCHANGED lines

\* main() of sh: a line is typed, a cd among them, or ^D.
main(i) ==
  /\ Op(i) = "prompt" /\ lines < MaxLines
  /\ \/ \E s \in Lines : proc' = [proc EXCEPT ![i].todo = <<Fork(Child(s), FALSE), Do("wait")>> \o @]
     \/ UNCHANGED proc
     \/ proc' = [proc EXCEPT ![i].todo = <<Do("exit")>>]
  /\ lines' = lines + 1

\* main() of init: start a shell, which exec() may refuse, and wait for it; other
\* children were left by their parents.  init exits when its fork() or its wait()
\* fails.
init_start(i) ==
  LET k == Min(Unallocated) IN
  /\ Op(i) = "init"
  /\ \/ /\ Unallocated # {}
        /\ \E op \in {"prompt", "exit"} :
             proc' = [proc EXCEPT ![i].todo = <<Do("reap")>>, ![i].p = <<k, k>>,
                                  ![k] = [proc[i] EXCEPT !.todo = <<Do(op)>>, !.parent = i]]
     \/ proc' = [proc EXCEPT ![i].todo = <<Do("panic")>>]
  /\ UNCHANGED lines

init_wait(i) ==
  /\ Op(i) = "reap"
  /\ IF Kids(i) = {} THEN proc' = [proc EXCEPT ![i].todo = <<Do("exit")>>]
     ELSE \E k \in Zombies(i) :
            proc' = [proc EXCEPT ![k] = Unused,
                                 ![i].todo = IF k = proc[i].p[1] THEN <<Do("init")>> ELSE @]
  /\ UNCHANGED lines

\* With all that cat may have to copy.
Blocked(i) ==
  CASE Op(i) = "wait" -> Kids(i) # {} /\ Zombies(i) = {}
    [] Op(i) = "reap" -> Kids(i) # {} /\ Zombies(i) = {}
    [] Op(i) = "filter" -> ~(EndOfFile(i) /\ Drained(i))
    [] Op(i) = "source" -> ~Drained(i)
    [] OTHER -> Op(i) \in {"none", "zombie", "prompt"}

\* All the lines of the bound are done, or the kernel has stopped.
Done == (Halted \/ (lines = MaxLines /\ \A i \in Ids : Blocked(i))) /\ UNCHANGED vars

Next ==
  \/ ~Halted /\ \E i \in Ids : fork1(i) \/ exec(i) \/ close(i) \/ dup(i) \/ open(i) \/ pipe(i)
  \/ ~Halted /\ \E i \in Ids : wait(i) \/ exit(i) \/ Program(i) \/ main(i)
  \/ ~Halted /\ \E i \in Ids : init_start(i) \/ init_wait(i)
  \/ Done

Spec == Init /\ [][Next]_vars

-----------------------------------------------------------------------------
(* Properties *)

Programs == {"filter", "source", "other"}

\* runcmd(), main() and init, whichever of fork(), exec(), open() and pipe() fail:
\* descriptors are closed and children waited for so that when no process can go
\* on, all commands have ended, those in the background too, and only init and a
\* shell that prompts are left; a process which prompts, runs a program or exits
\* has waited for every child that is not in the background; a program has the
\* descriptors 0, 1 and 2 and no other; and init's wait() never fails, so that
\* the kernel's panic("init exiting") takes a fork() that does.
CommandsEnd ==
  /\ ~Halted /\ (\A i \in Ids : Blocked(i)) => \A i \in Ids : Op(i) \in {"none", "prompt", "reap"}
  /\ \A i \in Ids : Op(i) \in Programs \cup {"prompt", "exec", "exit"} => \A k \in Kids(i) : proc[k].bg
  /\ \A i \in Ids : Op(i) \in Programs \cup {"prompt"} => Closed(i) = Fds \ (0 .. 2)
  /\ Op(1) # "exit"

\* The meaning of a line, by splitting it at its weakest operator outside of
\* parentheses, for comparison with the recursive descent of parsecmd().
Nothing == [type |-> "none"]
Depth(s, i) == Cardinality({j \in 1 .. i : s[j] = "("}) - Cardinality({j \in 1 .. i : s[j] = ")"})
Outside(s, t) == {i \in DOMAIN s : s[i] = t /\ Depth(s, i) = 0}
Before(s, i) == SubSeq(s, 1, i - 1)
After(s, i) == SubSeq(s, i + 1, Len(s))
Both(Op2(_, _), l, r) == IF Nothing \in {l, r} THEN Nothing ELSE Op2(l, r)

\* The arguments and redirections s, around the command inner if there is one.
Simple(s, inner) ==
  LET ops == {i \in DOMAIN s : s[i] \in Redirs}
      args == DOMAIN s \ (ops \cup {i + 1 : i \in ops})
      At(I) == SetToSortSeq(I, LAMBDA i, j : i < j)
      argv == [n \in 1 .. Cardinality(args) |-> s[At(args)[n]]]
  IN IF inner = Nothing \/ (\E i \in args : s[i] \in Symbols) \/ Len(argv) >= MAXARGS
          \/ (\E i \in ops : ~Word(After(s, i))) \/ (inner.type # "open" /\ args # {})
     THEN Nothing
     ELSE FoldLeft(LAMBDA cmd, i : redircmd(cmd, SubSeq(s, i, i + 1)),
                   IF inner.type = "open" THEN execcmd(argv) ELSE inner, At(ops))

RECURSIVE Meaning(_)
RECURSIVE MeaningBack(_)
RECURSIVE MeaningPipe(_)
MeaningExec(s) ==
  LET ends == Outside(s, ")") IN
  IF ~peek(s, {"("}) THEN Simple(s, [type |-> "open"])
  ELSE IF ends = {} THEN Nothing
  ELSE Simple(After(s, Min(ends)), Meaning(SubSeq(s, 2, Min(ends) - 1)))
MeaningPipe(s) ==
  LET i == Min(Outside(s, "|")) IN
  IF Outside(s, "|") = {} THEN MeaningExec(s)
  ELSE Both(pipecmd, MeaningExec(Before(s, i)), MeaningPipe(After(s, i)))
MeaningBack(s) ==
  IF s = <<>> \/ Last(s) # "&" THEN MeaningPipe(s)
  ELSE LET c == MeaningBack(Front(s)) IN IF c = Nothing THEN Nothing ELSE backcmd(c)
Meaning(s) ==
  LET i == Min(Outside(s, ";")) IN
  IF Outside(s, ";") = {} THEN MeaningBack(s)
  ELSE Both(listcmd, MeaningBack(Before(s, i)), Meaning(After(s, i)))

\* parsecmd(): the command of a line is its meaning, and a line without one is
\* refused.
ParsedRight(s) == parsecmd(s).cmd = Meaning(s)
=============================================================================
