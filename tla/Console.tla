------------------------------ MODULE Console -------------------------------
(***************************************************************************)
(* Console input (kernel/console.c): consoleintr() edits a line in a ring  *)
(* with three indices and commits it, consoleread() takes committed bytes. *)
(* cons.lock is held from step to step; a step of a reader is one turn of  *)
(* its loop.  sleep() lets go of the lock and sleeps in one step, as       *)
(* consoleintr() holds it for its wakeup(); kill() does not.               *)
(* Echoing is left out: uartputc_sync() changes nothing here.              *)
(***************************************************************************)
EXTENDS Integers, Sequences, SequencesExt

CONSTANTS
  Readers,
  Nobody,
  INPUT_BUF_SIZE,
  Uint,   \* 2^32, the range of the indices
  MaxN    \* bound: largest n of a read()

VARIABLES
  cbuf, r, w, e,  \* cons.buf, cons.r, cons.w, cons.e
  lock,           \* holder of cons.lock
  pc, n, target,  \* of a reader: its place, n, target
  killed

vars == <<cbuf, r, w, e, lock, pc, n, target, killed>>

\* What a key can be: text, end of line, ^D, ^U, backspace or delete, NUL, ^P.
Keys == {"a", "nl", "cr", "^D", "^U", "^H", "nul", "^P"}
Stored == {"a", "nl", "^D"}

Diff(x, y) == (x - y) % Uint
Slot(x) == x % INPUT_BUF_SIZE

Init ==
  /\ cbuf = [i \in 0 .. INPUT_BUF_SIZE - 1 |-> "a"]
  /\ r = 0 /\ w = 0 /\ e = 0
  /\ lock = Nobody
  /\ pc = [p \in Readers |-> "user"]
  /\ n = [p \in Readers |-> 0]
  /\ target = [p \in Readers |-> 0]
  /\ killed = [p \in Readers |-> FALSE]

-----------------------------------------------------------------------------
(* consoleintr() *)

\* ^U: the edit index goes back to the committed bytes or to the last newline.
KillLine ==
  e' = CHOOSE x \in {Diff(e, k) : k \in 0 .. Diff(e, w)} :
         /\ x = w \/ cbuf[Slot(Diff(x, 1))] = "nl"
         /\ \A k \in 1 .. Diff(e, x) : cbuf[Slot(Diff(e, k))] # "nl"

Erase_any == e' = Diff(e, 1)

\* ^H and delete.
Erase == e' = IF e # w THEN Diff(e, 1) ELSE e

Commits_line(c) == c \in {"nl", "^D"}

\* A whole line, an end-of-file or a full buffer has arrived.
Commits(c) == c \in {"nl", "^D"} \/ Diff(e + 1, r) = INPUT_BUF_SIZE

Store(c) ==
  /\ cbuf' = [cbuf EXCEPT ![Slot(e)] = c]
  /\ e' = (e + 1) % Uint
  /\ IF Commits(c)
     THEN /\ w' = e'
          /\ pc' = [p \in Readers |-> IF pc[p] = "asleep" THEN "enter" ELSE pc[p]]
     ELSE UNCHANGED <<w, pc>>

consoleintr(c) ==
  /\ lock = Nobody
  /\ CASE c = "^P" -> UNCHANGED <<cbuf, e, w, pc>>
       [] c = "^U" -> KillLine /\ UNCHANGED <<cbuf, w, pc>>
       [] c = "^H" -> Erase /\ UNCHANGED <<cbuf, w, pc>>
       [] OTHER    -> IF c # "nul" /\ Diff(e, r) < INPUT_BUF_SIZE
                      THEN Store(IF c = "cr" THEN "nl" ELSE c)
                      ELSE UNCHANGED <<cbuf, e, w, pc>>
  /\ UNCHANGED <<r, lock, n, target, killed>>

-----------------------------------------------------------------------------
(* consoleread() *)

Goto(p, l) == pc' = [pc EXCEPT ![p] = l]

\* read() of k bytes; a killed process does not come back.
Call(p) ==
  /\ pc[p] = "user" /\ ~killed[p]
  /\ \E k \in 0 .. MaxN : n' = [n EXCEPT ![p] = k] /\ target' = [target EXCEPT ![p] = k]
  /\ Goto(p, "enter")
  /\ UNCHANGED <<cbuf, r, w, e, lock, killed>>

\* acquire(&cons.lock), at the beginning and when sleep() returns.
Enter(p) ==
  /\ pc[p] = "enter" /\ lock = Nobody
  /\ lock' = p
  /\ Goto(p, "loop")
  /\ UNCHANGED <<cbuf, r, w, e, n, target, killed>>

Leave(p) ==
  /\ lock' = Nobody
  /\ n' = [n EXCEPT ![p] = 0]
  /\ target' = [target EXCEPT ![p] = 0]
  /\ Goto(p, "user")

\* ^D stays for the next read() unless this one has read nothing.
EndOfFile(p) == r' = IF n[p] < target[p] THEN r ELSE (r + 1) % Uint

\* One turn of the loop, up to sleep() or the next byte; copyout may fail.
Loop(p) ==
  LET c == cbuf[Slot(r)] IN
  /\ pc[p] = "loop"
  /\ \/ n[p] = 0 /\ Leave(p) /\ UNCHANGED r
     \/ /\ n[p] > 0 /\ r = w
        /\ IF killed[p] THEN Leave(p)
           ELSE Goto(p, "sleep") /\ UNCHANGED <<lock, n, target>>
        /\ UNCHANGED r
     \/ /\ n[p] > 0 /\ r # w /\ c = "^D"
        /\ EndOfFile(p)
        /\ Leave(p)
     \/ /\ n[p] > 0 /\ r # w /\ c # "^D"
        /\ r' = (r + 1) % Uint
        /\ \/ /\ c # "nl"
              /\ n' = [n EXCEPT ![p] = @ - 1]
              /\ UNCHANGED <<pc, lock, target>>
           \/ Leave(p)
  /\ UNCHANGED <<cbuf, w, e, killed>>

Sleep(p) ==
  /\ pc[p] = "sleep"
  /\ Goto(p, "asleep")
  /\ lock' = Nobody
  /\ UNCHANGED <<cbuf, r, w, e, n, target, killed>>

\* kill() sets the flag and wakes a sleeper.
Kill(p) ==
  /\ ~killed[p]
  /\ killed' = [killed EXCEPT ![p] = TRUE]
  /\ pc' = IF pc[p] = "asleep" THEN [pc EXCEPT ![p] = "enter"] ELSE pc
  /\ UNCHANGED <<cbuf, r, w, e, lock, n, target>>

Next ==
  \/ \E c \in Keys : consoleintr(c)
  \/ \E p \in Readers : Call(p) \/ Enter(p) \/ Loop(p) \/ Sleep(p) \/ Kill(p)

Spec == Init /\ [][Next]_vars

-----------------------------------------------------------------------------
(* Properties *)

Committed == [k \in 1 .. Diff(w, r) |-> cbuf[Slot(r + k - 1)]]

\* Committed input is a queue: it grows at its end by whole lines, an
\* end-of-file or a full buffer, readers take it from the front byte by byte,
\* and no backspace, line kill, overrun or wrap-around changes what is in it.
CommittedKept ==
  [][\/ Committed' = Committed
     \/ /\ IsPrefix(Committed, Committed')
        /\ Last(Committed') \in {"nl", "^D"} \/ Len(Committed') = INPUT_BUF_SIZE
     \/ Len(Committed) > 0 /\ Committed' = Tail(Committed)]_vars

\* The console never wedges: a reader sleeps only while there is nothing
\* committed, and then the next key still finds room, so that a line that
\* fills the buffer is handed over and not held back for ever.
InputFlows ==
  lock = Nobody => \A p \in Readers : pc[p] = "asleep" =>
    r = w /\ Diff(e, r) < INPUT_BUF_SIZE
=============================================================================
