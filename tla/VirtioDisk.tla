----------------------------- MODULE VirtioDisk -----------------------------
(***************************************************************************)
(* The disk driver of kernel/virtio_disk.c and the device it talks to.     *)
(* vdisk_lock is free between steps unless the interrupt handler is in its *)
(* loop, where the device may add completions.  sleep() gives up the lock  *)
(* and sleeps in one step, as each wakeup() here is made with it held.     *)
(* Thread t reads and writes block t through buffer t: the buffer cache    *)
(* has one buffer for a block and its lock keeps other threads away.       *)
(* A consumed ring entry is cleared, to save states.                       *)
(***************************************************************************)
EXTENDS Integers, FiniteSets

CONSTANTS
  Threads, Contents,
  NUM,       \* descriptors, and entries of each ring
  Uint16,    \* the range of the ring indices
  Statuses,  \* what the device may report; 0 is success
  None

VARIABLES
  free, desc, info,  \* disk.free, disk.desc (a header's addr is its disk.ops), disk.info
  avail, availIdx,   \* disk.avail->ring, disk.avail->idx
  used, usedIdx,     \* disk.used->ring, disk.used->idx
  seen,              \* disk.used_idx
  taken, work,       \* the device: how far it has read avail, the chains it works on
  irq,               \* the device's interrupt is raised
  intr,              \* virtio_disk_intr() is in its loop, with vdisk_lock
  owned, data,       \* b->disk, b->data
  platter,           \* what is on the disk
  pc, write, idx,    \* of a thread: its place, and virtio_disk_rw()'s write and idx[0]
  panicked

rings == <<avail, availIdx, used, usedIdx, seen, taken, work, irq, intr>>
driver == <<free, desc, info, owned>>
thread == <<pc, write, idx>>
vars == <<driver, rings, thread, data, platter, panicked>>

Desc == 0 .. NUM - 1
NoDesc == [addr |-> None, more |-> FALSE, nxt |-> 0]

\* virtio_disk_init() leaves an empty queue.
Init ==
  /\ free = [i \in Desc |-> TRUE]
  /\ desc = [i \in Desc |-> NoDesc]
  /\ info = [i \in Desc |-> [b |-> None, status |-> 0]]
  /\ avail = [i \in Desc |-> None] /\ availIdx = 0
  /\ used = [i \in Desc |-> None] /\ usedIdx = 0
  /\ seen = 0 /\ taken = 0 /\ work = {}
  /\ irq = FALSE /\ intr = FALSE
  /\ owned = [t \in Threads |-> FALSE]
  /\ platter \in [Threads -> Contents]
  /\ data = platter
  /\ pc = [t \in Threads |-> "out"]
  /\ write = [t \in Threads |-> FALSE]
  /\ idx = [t \in Threads |-> None]
  /\ panicked = FALSE

Goto(t, l) == pc' = [pc EXCEPT ![t] = l]

\* t goes to l, after a wakeup(&disk.free[0]).
WakeFree(t, l) ==
  pc' = [u \in Threads |-> IF u = t THEN l
                           ELSE IF pc[u] = "sleepdesc" THEN "rw" ELSE pc[u]]

\* A 16-bit ring index, "not % NUM ...".
Inc(n) == (n + 1) % Uint16

Free == {i \in Desc : free[i]}

\* What the k-th alloc_desc() of a row returns: the lowest free descriptor.
Lowest(k) == CHOOSE i \in Free : Cardinality({j \in Free : j < i}) = k - 1

\* alloc3_desc() fails: what it got is freed again, with a wakeup, and t sleeps.
NoDescriptors(t) ==
  /\ Cardinality(Free) < 3
  /\ IF Free = {} THEN Goto(t, "sleepdesc") ELSE WakeFree(t, "sleepdesc")
  /\ UNCHANGED <<driver, rings, idx>>

\* The three descriptors are formatted and the chain is put into avail.
Submit(t) ==
  LET i0 == Lowest(1)
      i1 == Lowest(2)
      i2 == Lowest(3)
  IN /\ Cardinality(Free) >= 3
     /\ free' = [i \in Desc |-> free[i] /\ i \notin {i0, i1, i2}]
     /\ desc' = [desc EXCEPT ![i0] = [addr |-> <<write'[t], t>>, more |-> TRUE, nxt |-> i1],
                             ![i1] = [addr |-> t, more |-> TRUE, nxt |-> i2],
                             ![i2] = [addr |-> i0, more |-> FALSE, nxt |-> 0]]
     /\ info' = [info EXCEPT ![i0] = [b |-> t, status |-> 255]]
     /\ owned' = [owned EXCEPT ![t] = TRUE]
     /\ avail' = [avail EXCEPT ![availIdx % NUM] = i0]
     /\ availIdx' = Inc(availIdx)
     /\ idx' = [idx EXCEPT ![t] = i0]
     /\ Goto(t, "sleepbuf")
     /\ UNCHANGED <<used, usedIdx, seen, taken, work, irq, intr>>

\* virtio_disk_rw() up to its second sleep(): called by bread() or bwrite(), with
\* a buffer that differs from the block (if it did not, the transfer would not
\* be seen), or back from sleep(&disk.free[0]).
virtio_disk_rw(t) ==
  /\ ~intr
  /\ \/ /\ pc[t] = "out"
        /\ \E w \in BOOLEAN : write' = [write EXCEPT ![t] = w]
        /\ \E v \in Contents \ {platter[t]} : data' = [data EXCEPT ![t] = v]
     \/ pc[t] = "rw" /\ UNCHANGED <<write, data>>
  /\ NoDescriptors(t) \/ Submit(t)
  /\ UNCHANGED <<platter, panicked>>

Chain_short(i) == {i, desc[i].nxt}

\* The descriptors that free_chain(i) walks over: on to next as long as the
\* flag VRING_DESC_F_NEXT is set, so at most NUM of them.
Chain(i) ==
  LET walk[k \in Desc] ==
        IF k = 0 THEN {i}
        ELSE LET w == walk[k - 1]
             IN w \cup {desc[j].nxt : j \in {l \in w : desc[l].more}}
  IN walk[NUM - 1]

\* free_desc() finds each of them in use, once (else panic("free_desc 2")).
Freeable(i) ==
  /\ \A j \in Chain(i) : ~free[j]
  /\ \E j \in Chain(i) : ~desc[j].more

Done_if(t) == TRUE

\* The test of while(b->disk == 1).
Done(t) == ~owned[t]

\* virtio_disk_rw() after that sleep(): sleep again, or free the chain.
Finish(t) ==
  /\ pc[t] = "wait" /\ ~intr
  /\ panicked' = (Done(t) /\ ~Freeable(idx[t]))
  /\ IF Done(t)
     THEN /\ info' = [info EXCEPT ![idx[t]].b = None]
          /\ free' = [i \in Desc |-> free[i] \/ i \in Chain(idx[t])]
          /\ desc' = [i \in Desc |-> IF i \in Chain(idx[t]) THEN NoDesc ELSE desc[i]]
          /\ write' = [write EXCEPT ![t] = FALSE]
          /\ idx' = [idx EXCEPT ![t] = None]
          /\ WakeFree(t, "out")
     ELSE Goto(t, "sleepbuf") /\ UNCHANGED <<info, free, desc, write, idx>>
  /\ UNCHANGED <<owned, rings, data, platter>>

\* kill() makes a sleeping thread RUNNABLE; each of these loops then tests again.
Rouse(t) ==
  /\ pc[t] \in {"sleepdesc", "sleepbuf"}
  /\ Goto(t, IF pc[t] = "sleepdesc" THEN "rw" ELSE "wait")
  /\ UNCHANGED <<driver, rings, write, idx, data, platter, panicked>>

-----------------------------------------------------------------------------
(* The device *)

\* It fetches the next available chain ...
DeviceTake ==
  /\ taken # availIdx
  /\ work' = work \cup {avail[taken % NUM]}
  /\ avail' = [avail EXCEPT ![taken % NUM] = None]
  /\ taken' = Inc(taken)
  /\ UNCHANGED <<driver, availIdx, used, usedIdx, seen, irq, intr, thread, data, platter, panicked>>

\* ... and finishes chains in any order: transfer, status, used ring, interrupt.
DeviceDone ==
  \E h \in work, s \in Statuses :
    LET type   == desc[h].addr[1]
        sector == desc[h].addr[2]
        b      == desc[desc[h].nxt].addr
        st     == desc[desc[desc[h].nxt].nxt].addr
    IN /\ work' = work \ {h}
       /\ IF type
          THEN platter' = [platter EXCEPT ![sector] = data[b]] /\ UNCHANGED data
          ELSE data' = [data EXCEPT ![b] = platter[sector]] /\ UNCHANGED platter
       /\ info' = [info EXCEPT ![st].status = s]
       /\ used' = [used EXCEPT ![usedIdx % NUM] = h]
       /\ usedIdx' = Inc(usedIdx)
       /\ irq' = TRUE
       /\ UNCHANGED <<free, desc, owned, avail, availIdx, seen, taken, intr, thread, panicked>>

-----------------------------------------------------------------------------
(* virtio_disk_intr() *)

\* acquire(), and the acknowledgement that lets the device interrupt again.
IntrAck ==
  /\ irq /\ ~intr
  /\ irq' = FALSE
  /\ intr' = TRUE
  /\ UNCHANGED <<driver, avail, availIdx, used, usedIdx, seen, taken, work, thread, data,
                 platter, panicked>>

\* One turn of the loop over the used ring.
IntrLoop ==
  /\ intr /\ seen # usedIdx
  /\ LET id == used[seen % NUM]
         b  == info[id].b
     IN IF info[id].status # 0
        THEN panicked' = TRUE /\ UNCHANGED <<used, seen, owned, pc>>
        ELSE /\ owned' = [owned EXCEPT ![b] = FALSE]
             /\ pc' = [pc EXCEPT ![b] = IF @ = "sleepbuf" THEN "wait" ELSE @]
             /\ used' = [used EXCEPT ![seen % NUM] = None]
             /\ seen' = Inc(seen)
             /\ UNCHANGED panicked
  /\ UNCHANGED <<free, desc, info, avail, availIdx, usedIdx, taken, work, irq, intr, write, idx,
                 data, platter>>

IntrEnd_one ==
  /\ intr
  /\ intr' = FALSE
  /\ UNCHANGED <<driver, avail, availIdx, used, usedIdx, seen, taken, work, irq, thread, data,
                 platter, panicked>>

\* Nothing more in the used ring: release().
IntrEnd ==
  /\ intr /\ seen = usedIdx
  /\ intr' = FALSE
  /\ UNCHANGED <<driver, avail, availIdx, used, usedIdx, seen, taken, work, irq, thread, data,
                 platter, panicked>>

\* panic() spins for ever.
Halted == panicked /\ UNCHANGED vars

Next ==
  \/ /\ ~panicked
     /\ \/ \E t \in Threads : virtio_disk_rw(t) \/ Finish(t) \/ Rouse(t)
        \/ DeviceTake \/ DeviceDone
        \/ IntrAck \/ IntrLoop \/ IntrEnd
  \/ Halted

Spec == Init /\ [][Next]_vars

-----------------------------------------------------------------------------
(* Properties *)

Waiting == {t \in Threads : pc[t] \in {"sleepbuf", "wait"}}

\* A request is with the device until its completion has been put into used.
WithDevice(t) == idx[t] \in work \cup {avail[i] : i \in Desc}

Service == INSTANCE DiskService WITH
  state <- [t \in Threads |->
              IF pc[t] = "out" THEN "out"
              ELSE IF t \in Waiting /\ ~WithDevice(t) THEN "done"
              ELSE IF write[t] THEN "write" ELSE "read"]

\* virtio_disk_rw() transfers the block it was asked for, once, into or out of
\* the caller's buffer and no other, and returns after the transfer: however
\* completions are ordered, whichever descriptors a chain is made of, and when
\* the ring indices wrap.
RequestServed == Service!Spec

\* Descriptors in use are exactly those of the requests under way, three each:
\* none leaks or is shared when alloc3_desc() fails half-way or a chain is freed,
\* and free_desc() finds none of them free.
DescriptorsOwned ==
  /\ \A t \in Waiting : Freeable(idx[t])
  /\ Desc \ Free = UNION {Chain(idx[t]) : t \in Waiting}
  /\ Cardinality(Desc \ Free) = 3 * Cardinality(Waiting)

\* No completion is missed, also one that arrives while the handler is in its
\* loop or has just acknowledged: while b->disk is set the device has the
\* chain, or it is in the used ring and the handler is to look there.
CompletionNoticed ==
  \A t \in Waiting : owned[t] /\ ~panicked =>
    WithDevice(t) \/ (idx[t] \in {used[i] : i \in Desc} /\ (irq \/ intr))
=============================================================================
