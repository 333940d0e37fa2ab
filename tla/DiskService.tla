---------------------------- MODULE DiskService -----------------------------
(***************************************************************************)
(* What virtio_disk_rw(b, write) promises its caller, which holds b->lock: *)
(* between call and return the block and the buffer are transferred once,  *)
(* in the direction asked for, and no other block or buffer is touched.    *)
(* A thread has a buffer of its own for a block of its own.                *)
(***************************************************************************)
CONSTANTS Threads, Contents

VARIABLES
  platter, data,  \* the threads' blocks on disk and in memory
  state           \* "out" of the driver, "read" or "write" asked for, "done"

vars == <<platter, data, state>>

Init ==
  /\ platter \in [Threads -> Contents]
  /\ data = platter
  /\ state = [t \in Threads |-> "out"]

\* The call; the caller may have changed its buffer before.
Call(t) ==
  /\ state[t] = "out"
  /\ \E v \in Contents : data' = [data EXCEPT ![t] = v]
  /\ \E rw \in {"read", "write"} : state' = [state EXCEPT ![t] = rw]
  /\ UNCHANGED platter

Transfer(t) ==
  /\ state[t] \in {"read", "write"}
  /\ IF state[t] = "write"
     THEN platter' = [platter EXCEPT ![t] = data[t]] /\ UNCHANGED data
     ELSE data' = [data EXCEPT ![t] = platter[t]] /\ UNCHANGED platter
  /\ state' = [state EXCEPT ![t] = "done"]

Return(t) ==
  /\ state[t] = "done"
  /\ state' = [state EXCEPT ![t] = "out"]
  /\ UNCHANGED <<platter, data>>

Next == \E t \in Threads : Call(t) \/ Transfer(t) \/ Return(t)

Spec == Init /\ [][Next]_vars
=============================================================================
