----------------------------- MODULE AtomicDisk -----------------------------
(***************************************************************************)
(* What kernel/log.c promises the file system: operations between          *)
(* begin_op() and end_op() see each other's writes at once, and a crash    *)
(* takes the disk back to a moment at which no operation was under way, so *)
(* that it keeps all of an operation's writes or none.                     *)
(***************************************************************************)
CONSTANTS Threads, Blocks, Contents

VARIABLES
  view,     \* what bread() returns
  durable,  \* what a crash leaves
  active    \* the threads inside an operation

vars == <<view, durable, active>>

Init ==
  /\ durable \in [Blocks -> Contents]
  /\ view = durable
  /\ active = {}

Begin(t) ==
  /\ t \notin active
  /\ active' = active \cup {t}
  /\ UNCHANGED <<view, durable>>

Write(t, b, v) ==
  /\ t \in active
  /\ view' = [view EXCEPT ![b] = v]
  /\ UNCHANGED <<durable, active>>

End(t) ==
  /\ t \in active
  /\ active' = active \ {t}
  /\ UNCHANGED <<view, durable>>

Commit ==
  /\ active = {}
  /\ durable' = view
  /\ UNCHANGED <<view, active>>

Crash ==
  /\ view' = durable
  /\ active' = {}
  /\ UNCHANGED durable

Next ==
  \/ Commit \/ Crash
  \/ \E t \in Threads :
       Begin(t) \/ End(t) \/ \E b \in Blocks, v \in Contents : Write(t, b, v)

Spec == Init /\ [][Next]_vars
=============================================================================
