-------------------------------- MODULE Fifo --------------------------------
(***************************************************************************)
(* What a pipe promises: bytes come out in the order they went in, each    *)
(* once, and at most Capacity of them are in between.                      *)
(***************************************************************************)
EXTENDS Naturals, Sequences

CONSTANTS Bytes, Capacity

VARIABLE queue

Init == queue = <<>>

Put(b) == Len(queue) < Capacity /\ queue' = Append(queue, b)

Take == queue # <<>> /\ queue' = Tail(queue)

Next == Take \/ \E b \in Bytes : Put(b)

Spec == Init /\ [][Next]_queue
=============================================================================
