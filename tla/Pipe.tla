-------------------------------- MODULE Pipe --------------------------------
(***************************************************************************)
(* A pipe (kernel/pipe.c) with several processes at each end.  pi->lock is *)
(* held from step to step; one step is one turn of a loop.  sleep() lets   *)
(* go of the lock and sleeps in one step, as every wakeup() of the pipe    *)
(* holds it, but kill() does not and may come in between.                  *)
(***************************************************************************)
EXTENDS Integers, Sequences

CONSTANTS
  Writers, Readers,  \* processes with the write end, with the read end
  Nobody,            \* the holder of a free lock
  Bytes,
  PIPESIZE,
  Uint,              \* 2^32, the range of nread and nwrite
  MaxN               \* bound: largest n of a read() or write()

ASSUME PipeAssumption ==
  /\ PIPESIZE \in Nat \ {0}
  /\ Uint \in Nat /\ Uint % PIPESIZE = 0 /\ Uint > PIPESIZE
  /\ MaxN \in Nat
  /\ Nobody \notin Writers \cup Readers
  /\ Writers \cap Readers = {}

VARIABLES
  data, nread, nwrite, readopen, writeopen,  \* struct pipe
  freed,   \* its page is given back
  lock,    \* holder of pi->lock
  ends,    \* the processes whose descriptor is open
  pc,      \* where a process stands
  left,    \* n - i of its call
  killed,
  hushed   \* bytes that no wakeup(&pi->nread) has announced since they were put

pipe == <<data, nread, nwrite, readopen, writeopen, freed>>
vars == <<data, nread, nwrite, readopen, writeopen, freed, lock, ends, pc, left, killed, hushed>>

Procs == Writers \cup Readers

Inc(n) == (n + 1) % Uint

Full_late == nwrite = (nread + PIPESIZE + 1) % Uint

Full == nwrite = (nread + PIPESIZE) % Uint

Empty == nread = nwrite

\* After pipealloc(), when it gets its two files and its page.
Init ==
  /\ data \in [0 .. PIPESIZE - 1 -> Bytes]
  /\ nread = 0 /\ nwrite = 0
  /\ readopen = TRUE /\ writeopen = TRUE /\ freed = FALSE
  /\ lock = Nobody
  /\ ends \in {S \in SUBSET Procs : S \cap Writers # {} /\ S \cap Readers # {}}
  /\ pc = [p \in Procs |-> "user"]
  /\ left = [p \in Procs |-> 0]
  /\ killed = [p \in Procs |-> FALSE]
  /\ hushed = FALSE

\* p goes to l, and wakeup() rouses those of S that sleep.
Wake(S, p, l) ==
  pc' = [q \in Procs |-> IF q = p THEN l
                         ELSE IF q \in S /\ pc[q] = "asleep" THEN "enter" ELSE pc[q]]

Goto(p, l) == Wake({}, p, l)

\* p returns from its call, after a wakeup() of S.
Leave(S, p) ==
  /\ Wake(S, p, "user")
  /\ lock' = Nobody
  /\ left' = [left EXCEPT ![p] = 0]

-----------------------------------------------------------------------------
\* read() or write() of n bytes; a killed process makes no more calls.
Call(p) ==
  /\ pc[p] = "user" /\ p \in ends /\ ~killed[p]
  /\ Goto(p, "enter")
  /\ \E n \in 0 .. MaxN : left' = [left EXCEPT ![p] = n]
  /\ UNCHANGED <<pipe, lock, ends, killed, hushed>>

\* acquire(&pi->lock), at the beginning and when sleep() returns.
Enter(p) ==
  /\ pc[p] = "enter" /\ lock = Nobody
  /\ lock' = p
  /\ Goto(p, "loop")
  /\ UNCHANGED <<pipe, ends, left, killed, hushed>>

\* sleep(&pi->nwrite, &pi->lock) of a writer, sleep(&pi->nread, ...) of a reader.
Sleep(p) ==
  /\ pc[p] = "sleep"
  /\ Goto(p, "asleep")
  /\ lock' = Nobody
  /\ UNCHANGED <<pipe, ends, left, killed, hushed>>

\* The end of pipewrite(): wakeup(&pi->nread).
WriteEnd(p) == Leave(Readers, p)

\* One turn of pipewrite()'s loop.
pipewrite(p) ==
  /\ p \in Writers /\ pc[p] = "loop"
  /\ \/ /\ left[p] = 0
        /\ WriteEnd(p)
        /\ hushed' = FALSE
        /\ UNCHANGED <<data, nwrite>>
     \/ /\ left[p] > 0 /\ (~readopen \/ killed[p])
        /\ Leave({}, p)
        /\ UNCHANGED <<data, nwrite, hushed>>
     \/ /\ left[p] > 0 /\ readopen /\ ~killed[p] /\ Full
        /\ Wake(Readers, p, "sleep")
        /\ hushed' = FALSE
        /\ UNCHANGED <<data, nwrite, lock, left>>
     \/ /\ left[p] > 0 /\ readopen /\ ~killed[p] /\ ~Full
        /\ \E b \in Bytes : data' = [data EXCEPT ![nwrite % PIPESIZE] = b]
        /\ nwrite' = Inc(nwrite)
        /\ left' = [left EXCEPT ![p] = @ - 1]
        /\ hushed' = TRUE
        /\ UNCHANGED <<pc, lock>>
     \/ /\ left[p] > 0 /\ readopen /\ ~killed[p] /\ ~Full  \* copyin() fails
        /\ WriteEnd(p)
        /\ hushed' = FALSE
        /\ UNCHANGED <<data, nwrite>>
  /\ UNCHANGED <<nread, readopen, writeopen, freed, ends, killed>>

ReadEnd_silent(p) == Leave({}, p)

\* The end of piperead(): wakeup(&pi->nwrite).
ReadEnd(p) == Leave(Writers, p)

\* piperead()'s wait for data.
ReadWait(p) ==
  /\ p \in Readers /\ pc[p] = "loop"
  /\ \/ /\ Empty /\ writeopen /\ killed[p]
        /\ Leave({}, p)
     \/ /\ Empty /\ writeopen /\ ~killed[p]
        /\ Goto(p, "sleep")
        /\ UNCHANGED <<lock, left>>
     \/ /\ ~Empty \/ ~writeopen
        /\ Goto(p, "copy")
        /\ UNCHANGED <<lock, left>>
  /\ UNCHANGED <<pipe, ends, killed, hushed>>

\* One turn of piperead()'s copying; a byte whose copyout() fails is gone.
ReadCopy(p) ==
  /\ pc[p] = "copy"
  /\ \/ /\ left[p] = 0 \/ Empty
        /\ ReadEnd(p)
        /\ UNCHANGED nread
     \/ /\ left[p] > 0 /\ ~Empty
        /\ nread' = Inc(nread)
        /\ \/ left' = [left EXCEPT ![p] = @ - 1] /\ UNCHANGED <<pc, lock>>
           \/ ReadEnd(p)
  /\ UNCHANGED <<data, nwrite, readopen, writeopen, freed, ends, killed, hushed>>

\* close(); the last close of an end is pipeclose(), and the second of these
\* frees the page.
pipeclose(p) ==
  /\ pc[p] = "user" /\ p \in ends
  /\ ends' = ends \ {p}
  /\ IF ends' \cap Writers = {} /\ p \in Writers
     THEN /\ lock = Nobody
          /\ writeopen' = FALSE
          /\ Wake(Readers, p, "user")
          /\ hushed' = FALSE
          /\ UNCHANGED readopen
     ELSE IF ends' \cap Readers = {} /\ p \in Readers
     THEN /\ lock = Nobody
          /\ readopen' = FALSE
          /\ Wake(Writers, p, "user")
          /\ UNCHANGED <<writeopen, hushed>>
     ELSE UNCHANGED <<readopen, writeopen, pc, hushed>>
  /\ freed' = (~readopen' /\ ~writeopen')
  /\ UNCHANGED <<data, nread, nwrite, lock, left, killed>>

\* kill() sets the flag and makes a sleeping process RUNNABLE.
Kill(p) ==
  /\ p \in ends /\ ~killed[p]
  /\ killed' = [killed EXCEPT ![p] = TRUE]
  /\ pc' = IF pc[p] = "asleep" THEN [pc EXCEPT ![p] = "enter"] ELSE pc
  /\ UNCHANGED <<pipe, lock, ends, left, hushed>>

Next ==
  \E p \in Procs :
    \/ Call(p) \/ Enter(p) \/ Sleep(p) \/ pipewrite(p) \/ ReadWait(p) \/ ReadCopy(p)
    \/ pipeclose(p) \/ Kill(p)

Spec == Init /\ [][Next]_vars

-----------------------------------------------------------------------------
(* Properties *)

Queue ==
  [k \in 1 .. (nwrite - nread) % Uint |-> data[(nread + k - 1) % PIPESIZE]]

\* The pipe is a FIFO of PIPESIZE bytes whoever reads and writes it, also when
\* the 32-bit counters wrap and after a writer has slept in the middle of its
\* write().
IsFifo == INSTANCE Fifo WITH queue <- Queue, Capacity <- PIPESIZE
FifoOrder == IsFifo!Spec

\* A writer sleeps only while the pipe is full and somebody can still read it,
\* a reader only while it is empty and somebody can still write: piperead(),
\* pipewrite() and pipeclose() wake the others. Except that a writer which is
\* killed between two bytes returns without its wakeup(&pi->nread), and the
\* bytes it has put stay unannounced.  And kfree() in pipeclose() takes the page
\* when the last descriptor is closed and nobody is at the pipe, asleep or not.
SleepersWait ==
  /\ lock = Nobody =>
       /\ \A p \in Writers : pc[p] = "asleep" => Full /\ readopen
       /\ \A p \in Readers : pc[p] = "asleep" => (Empty \/ hushed) /\ writeopen
  /\ freed <=> ends = {}
  /\ freed => \A p \in Procs : pc[p] = "user"
=============================================================================
