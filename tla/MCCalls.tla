------------------------------ MODULE MCCalls -------------------------------
(***************************************************************************)
(* The system calls on names and open files, on the content of files and   *)
(* on user memory, and user programs, for TLC.  They share no state here:  *)
(* Init chooses the part that is explored, the others are idle or Off.     *)
(***************************************************************************)
EXTENDS MCFs, SequencesExt

CONSTANTS Off, DataBlocks, Uint

VARIABLES
  part,
  used, data, home, ind, addrs, size, fd, job,
  free, pages, proc, mjob, panic, mcalls,
  task, lines, typed,
  heap, held, own,
  pattern, input, pos, buf, out, ended

datavars == <<used, data, home, ind, addrs, size, fd, job>>
memvars == <<free, pages, proc, mjob, panic, mcalls>>
shellvars == <<task, lines, typed>>
heapvars == <<heap, held, own>>
grepvars == <<pattern, input, pos, buf, out, ended>>
uservars == <<shellvars, heapvars, grepvars>>

\* Two inodes, which bear the names of the processes to share their symmetry.
Data == INSTANCE FileData WITH
  Files <- Procs, Inodes <- Procs, Blocks <- DataBlocks, BPB <- 2, BSIZE <- 2,
  NDIRECT <- 1, NINDIRECT <- 2, MAXOPBLOCKS <- 6, Bytes <- {1},
  Counts <- {-1, 3}, file <- fd

\* Two programs: one page, and two segments of which the second begins in the
\* page after the first.
Mem == INSTANCE Memory WITH
  Procs <- {1, 2, 3}, Frames <- 1 .. 20, PTES <- 3, PGSIZE <- 2, MAXARG <- 2, Grows <- {-3, 3},
  Programs <- {<<[va |-> 0, file |-> 1, end |-> 2]>>,
               <<[va |-> 0, file |-> 1, end |-> 1], [va |-> 2, file |-> 3, end |-> 3]>>},
  Stores <- {<<1, 2>>}, MaxCalls <- 3, data <- pages, job <- mjob, calls <- mcalls

\* Pipelines that end from the left and from the right, a list inside of one, one
\* in the background with a command after it, redirections, a line that is refused.
Lines ==
  {<<"cat", "f", "|", "cat", "|", "rm">>,
   <<"(", "cat", "f", ";", "cat", ")", "|", "cat">>,
   <<"cat", "f", "|", "cat", "&", ";", "cat">>,
   <<"cat", "<", "f", "|", "rm", ">", "g">>,
   <<"cat", "|", "(">>}

Sh == INSTANCE Shell WITH
  Ids <- 1 .. 8, Fds <- 0 .. 4, Pipes <- {1, 2}, MaxLines <- 1, MAXARGS <- 3, proc <- task

Heap == INSTANCE Heap WITH
  Limit <- 11, Core <- 3, Requests <- {1, 2, 4}, MaxHeld <- 3, h <- heap

\* Every pattern of up to four characters on every text of up to three, and files
\* with lines longer than the buffer.
Text == INSTANCE Grep WITH
  Bufsiz <- 4, Patterns <- BoundedSeq({"^", "a", ".", "*", "$"}, 4),
  Texts <- BoundedSeq({"a", "b"}, 3), Files <- BoundedSeq({"a", "b", "\n"}, 5)

\* The lines that the parser is compared on, token by token.
TypeToken ==
  /\ Len(typed) < 5
  /\ \E t \in {"a", "<", "|", "&", ";", "(", ")"} : typed' = Append(typed, t)
Typed == Len(typed) = 5 /\ UNCHANGED typed

\* Paths of up to five characters, and small integers.
Str == INSTANCE Strings WITH DIRSIZ <- 2, Uint <- 64
Chars == {1, 2, 10, 13, 47}
TypeChar == Len(typed) < 5 /\ \E c \in Chars : typed' = Append(typed, c)

\* All the calls of the bound are over.
MemDone == mcalls = 3 /\ (\A p \in {1, 2, 3} : mjob[p] = Mem!Idle) /\ UNCHANGED memvars

DataOff ==
  /\ used = Off /\ data = Off /\ home = Off /\ ind = Off /\ addrs = Off /\ size = Off
  /\ fd = Off /\ job = Off
MemOff ==
  /\ free = Off /\ pages = Off /\ proc = Off /\ mjob = Off /\ panic = Off /\ mcalls = Off

ShellOff == task = Off /\ lines = Off /\ typed = <<>>
HeapOff == heap = Off /\ held = Off /\ own = Off
GrepOff ==
  /\ pattern = Off /\ input = Off /\ pos = Off /\ buf = Off /\ out = Off /\ ended = Off
UserOff == ShellOff /\ HeapOff /\ GrepOff

CallsInit ==
  \/ part = "names" /\ Init /\ DataOff /\ MemOff /\ UserOff
  \/ part = "data" /\ Data!Init /\ Init /\ MemOff /\ UserOff
  \/ part = "memory" /\ Mem!Init /\ Init /\ DataOff /\ UserOff
  \/ part = "shell" /\ Sh!Init /\ typed = <<>> /\ HeapOff /\ GrepOff /\ Init /\ DataOff /\ MemOff
  \/ part \in {"parser", "strings"} /\ UserOff /\ Init /\ DataOff /\ MemOff
  \/ part = "heap" /\ Heap!Init /\ ShellOff /\ GrepOff /\ Init /\ DataOff /\ MemOff
  \/ part = "grep" /\ Text!Init /\ ShellOff /\ HeapOff /\ Init /\ DataOff /\ MemOff

CallsNext ==
  \/ part = "names" /\ Next /\ UNCHANGED <<part, datavars, memvars, uservars>>
  \/ part = "data" /\ Data!Next /\ UNCHANGED <<part, vars, memvars, uservars>>
  \/ part = "memory" /\ (Mem!Next \/ MemDone) /\ UNCHANGED <<part, vars, datavars, uservars>>
  \/ /\ part = "shell" /\ Sh!Next /\ UNCHANGED typed
     /\ UNCHANGED <<part, vars, datavars, memvars, heapvars, grepvars>>
  \/ /\ \/ part = "parser" /\ TypeToken
        \/ part = "strings" /\ TypeChar
        \/ part \in {"parser", "strings"} /\ Typed
     /\ UNCHANGED <<task, lines>>
     /\ UNCHANGED <<part, vars, datavars, memvars, heapvars, grepvars>>
  \/ part = "heap" /\ Heap!Next /\ UNCHANGED <<part, vars, datavars, memvars, shellvars, grepvars>>
  \/ part = "grep" /\ Text!Next /\ UNCHANGED <<part, vars, datavars, memvars, shellvars, heapvars>>

CallsSpec == CallsInit /\ [][CallsNext]_<<part, vars, datavars, memvars, uservars>>

-----------------------------------------------------------------------------
(* The properties of content and memory *)

\* FileData's FileIsBytes: a file is a sequence of bytes.
FileIsBytes == [][part = "data" => Data!ByteStep]_datavars

\* FileData's BlocksOwned: the bitmap has exactly the blocks in use, each once.
BlocksOwned == part = "data" => Data!BlocksOwned

\* FileData's FitsTransaction: no transaction of filewrite() logs more than
\* MAXOPBLOCKS blocks.
FitsTransaction == part = "data" => Data!FitsTransaction

\* Memory's PagesOwned: every page is free or in one place of one process.
PagesOwned == part = "memory" => Mem!PagesOwned

\* Memory's UserMemory: what programs see of fork(), exec(), sbrk() and copies.
UserMemory == [][part = "memory" => Mem!UserStep]_memvars

\* Shell's CommandsEnd: what runcmd() and init start comes to an end.
CommandsEnd == part = "shell" => Sh!CommandsEnd

\* Heap's HeapSound: malloc() and free() share out what sbrk() gave.
HeapSound == part = "heap" => Heap!HeapSound

\* Shell's ParsedRight, Grep's GrepRight, and what Strings says of the loops over
\* characters: they all compute what they are to.
TextRight ==
  /\ part = "parser" => Sh!ParsedRight(typed)
  /\ part = "grep" => Text!GrepRight
  /\ part = "strings" =>
       /\ Str!StringRight(typed, BoundedSeq({1, 2}, 3))
       /\ typed = <<>> => Str!Moved([k \in 0 .. 5 |-> k]) /\ \A xx \in -32 .. 31 : Str!NumberRight(xx)
=============================================================================
