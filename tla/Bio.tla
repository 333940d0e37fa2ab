-------------------------------- MODULE Bio ---------------------------------
(***************************************************************************)
(* The buffer cache (kernel/bio.c) with its sleep locks (sleeplock.c).     *)
(* bcache.lock and a sleep lock's spinlock are held within single steps.   *)
(* The disk is DiskService: one step between call and return of            *)
(* virtio_disk_rw().  Clients use a buffer as the kernel does: read it,    *)
(* change it and bwrite() it, change it and pin it as log_write() does, or *)
(* bwrite() a pinned one and bunpin() it as install_trans() does.          *)
(***************************************************************************)
EXTENDS Integers, Sequences, SequencesExt, FiniteSets

CONSTANTS
  Threads, Bufs, Blocks, Contents,
  None,
  MaxPins  \* bound: buffers the log pins at once

ASSUME BioAssumption ==
  /\ IsFiniteSet(Threads)
  /\ None \notin Threads \cup Bufs \cup Blocks

VARIABLES
  blockno, refcnt, valid, data,  \* of a buffer
  locked,                        \* the holder of b->lock
  mru,                           \* the list from bcache.head.next on
  pins,                          \* the references that bpin() made
  platter,                       \* the blocks on disk
  pc, buf,                       \* of a thread: its place, its buffer
  panicked

vars == <<blockno, refcnt, valid, data, locked, mru, pins, platter, pc, buf, panicked>>

\* binit(), with the disk as it happens to be.
Init ==
  /\ blockno = [b \in Bufs |-> None]
  /\ refcnt = [b \in Bufs |-> 0]
  /\ valid = [b \in Bufs |-> FALSE]
  /\ data \in [Bufs -> Contents]
  /\ locked = [b \in Bufs |-> None]
  /\ mru = SetToSeq(Bufs)
  /\ pins = [b \in Bufs |-> 0]
  /\ platter \in [Blocks -> Contents]
  /\ pc = [t \in Threads |-> "idle"]
  /\ buf = [t \in Threads |-> None]
  /\ panicked = FALSE

Goto(t, l) == pc' = [pc EXCEPT ![t] = l]

Cached(k) == {b \in Bufs : blockno[b] = k}

\* The unused buffer that the walk from bcache.head.prev meets first.
Recyclable(b) ==
  /\ refcnt[b] = 0
  /\ \A i, j \in DOMAIN mru : mru[i] = b /\ refcnt[mru[j]] = 0 => j <= i

Hit(t, k) ==
  \E b \in Cached(k) :
    /\ refcnt' = [refcnt EXCEPT ![b] = @ + 1]
    /\ buf' = [buf EXCEPT ![t] = b]
    /\ Goto(t, "lock")
    /\ UNCHANGED <<blockno, valid, panicked>>

Recycle_valid(t, k) ==
  \E b \in Bufs :
    /\ Cached(k) = {} /\ Recyclable(b)
    /\ blockno' = [blockno EXCEPT ![b] = k]
    /\ refcnt' = [refcnt EXCEPT ![b] = 1]
    /\ buf' = [buf EXCEPT ![t] = b]
    /\ Goto(t, "lock")
    /\ UNCHANGED <<valid, panicked>>

Recycle(t, k) ==
  \E b \in Bufs :
    /\ Cached(k) = {} /\ Recyclable(b)
    /\ blockno' = [blockno EXCEPT ![b] = k]
    /\ valid' = [valid EXCEPT ![b] = FALSE]
    /\ refcnt' = [refcnt EXCEPT ![b] = 1]
    /\ buf' = [buf EXCEPT ![t] = b]
    /\ Goto(t, "lock")
    /\ UNCHANGED panicked

\* panic("bget: no buffers")
NoBuffers(t, k) ==
  /\ Cached(k) = {} /\ \A b \in Bufs : refcnt[b] # 0
  /\ panicked' = TRUE
  /\ UNCHANGED <<blockno, refcnt, valid, pc, buf>>

\* bread() of block k: bget() up to acquiresleep().
bget(t, k) ==
  /\ pc[t] = "idle"
  /\ Hit(t, k) \/ Recycle(t, k) \/ NoBuffers(t, k)
  /\ UNCHANGED <<data, locked, mru, pins, platter>>

\* One turn of acquiresleep(); then bread() reads a buffer that is not valid.
acquiresleep(t) ==
  LET b == buf[t] IN
  /\ pc[t] = "lock"
  /\ IF locked[b] # None
     THEN Goto(t, "asleep") /\ UNCHANGED locked
     ELSE /\ locked' = [locked EXCEPT ![b] = t]
          /\ Goto(t, IF valid[b] THEN "have" ELSE "read")
  /\ UNCHANGED <<blockno, refcnt, valid, data, mru, pins, platter, buf, panicked>>

\* kill() of a thread asleep in acquiresleep(), whose loop tests again.
Rouse(t) ==
  /\ pc[t] = "asleep"
  /\ Goto(t, "lock")
  /\ UNCHANGED <<blockno, refcnt, valid, data, locked, mru, pins, platter, buf, panicked>>

\* virtio_disk_rw(b, 0) in bread().
bread(t) ==
  LET b == buf[t] IN
  /\ pc[t] = "read"
  /\ data' = [data EXCEPT ![b] = platter[blockno[b]]]
  /\ valid' = [valid EXCEPT ![b] = TRUE]
  /\ Goto(t, "have")
  /\ UNCHANGED <<blockno, refcnt, locked, mru, pins, platter, buf, panicked>>

\* The holder of an unpinned buffer changes it and calls bwrite().
Change(t, v) ==
  /\ pc[t] = "have" /\ pins[buf[t]] = 0
  /\ data' = [data EXCEPT ![buf[t]] = v]
  /\ Goto(t, "write")
  /\ UNCHANGED <<blockno, refcnt, valid, locked, mru, pins, platter, buf, panicked>>

\* bwrite(): virtio_disk_rw(b, 1).
bwrite(t) ==
  LET b == buf[t] IN
  /\ pc[t] = "write"
  /\ platter' = [platter EXCEPT ![blockno[b]] = data[b]]
  /\ Goto(t, "have")
  /\ UNCHANGED <<blockno, refcnt, valid, data, locked, mru, pins, buf, panicked>>

bpin(b) == refcnt' = [refcnt EXCEPT ![b] = @ + 1]

\* A change that log_write() records: the buffer is pinned until it is installed.
log_write(t, v) ==
  LET b == buf[t] IN
  /\ pc[t] = "have"
  /\ data' = [data EXCEPT ![b] = v]
  /\ IF pins[b] > 0 THEN UNCHANGED <<refcnt, pins>>
     ELSE /\ Cardinality({c \in Bufs : pins[c] > 0}) < MaxPins
          /\ bpin(b)
          /\ pins' = [pins EXCEPT ![b] = 1]
  /\ UNCHANGED <<blockno, valid, locked, mru, platter, pc, buf, panicked>>

\* install_trans(): bwrite() of a pinned buffer and bunpin().
install(t) ==
  LET b == buf[t] IN
  /\ pc[t] = "have" /\ pins[b] > 0
  /\ platter' = [platter EXCEPT ![blockno[b]] = data[b]]
  /\ refcnt' = [refcnt EXCEPT ![b] = @ - 1]
  /\ pins' = [pins EXCEPT ![b] = 0]
  /\ UNCHANGED <<blockno, valid, data, locked, mru, pc, buf, panicked>>

releasesleep_silent(t, b) ==
  /\ locked' = [locked EXCEPT ![b] = None]
  /\ Goto(t, "put")

\* releasesleep(&b->lock), with its wakeup().
releasesleep(t, b) ==
  /\ locked' = [locked EXCEPT ![b] = None]
  /\ pc' = [u \in Threads |-> IF u = t THEN "put"
                             ELSE IF pc[u] = "asleep" /\ buf[u] = b THEN "lock" ELSE pc[u]]

\* brelse(): the sleep lock first ...
brelse(t) ==
  /\ pc[t] = "have"
  /\ releasesleep(t, buf[t])
  /\ UNCHANGED <<blockno, refcnt, valid, data, mru, pins, platter, buf, panicked>>

\* ... then the reference; the last one moves the buffer to the front.
brelse_put(t) ==
  LET b == buf[t] IN
  /\ pc[t] = "put"
  /\ refcnt' = [refcnt EXCEPT ![b] = @ - 1]
  /\ mru' = IF refcnt[b] = 1 THEN <<b>> \o Remove(mru, b) ELSE mru
  /\ buf' = [buf EXCEPT ![t] = None]
  /\ Goto(t, "idle")
  /\ UNCHANGED <<blockno, valid, data, locked, pins, platter, panicked>>

\* panic() spins for ever.
Halted == panicked /\ UNCHANGED vars

Next ==
  \/ \E t \in Threads :
       /\ ~panicked
       /\ \/ \E k \in Blocks : bget(t, k)
          \/ acquiresleep(t) \/ Rouse(t) \/ bread(t) \/ bwrite(t) \/ install(t)
          \/ \E v \in Contents : Change(t, v) \/ log_write(t, v)
          \/ brelse(t) \/ brelse_put(t)
  \/ Halted

Spec == Init /\ [][Next]_vars

-----------------------------------------------------------------------------
(* Properties *)

\* What bread() of block k would find: the valid buffer of k, or the disk.
Current(k) ==
  LET B == {b \in Cached(k) : valid[b]}
  IN IF B = {} THEN platter[k] ELSE data[CHOOSE b \in B : TRUE]

\* The contents of a block change only when a thread that holds its buffer
\* writes them: recycling a buffer, reading into one and writing one back never
\* lose or revive a version of a block, so that the cache is a "synchronization
\* point for disk blocks used by multiple processes".
CacheCoherent ==
  [][\A k \in Blocks :
       Current(k)' # Current(k) =>
         \E t \in Threads : pc[t] = "have" /\ blockno[buf[t]] = k /\ locked[buf[t]] = t]_vars

\* A block has one buffer, one thread at a time has that buffer, and as long as
\* a thread has it, waits for it, or sleeps for its lock (which then has a
\* holder that will wake it), a reference keeps it from being recycled.
BufferHeld ==
  /\ \A k \in Blocks : Cardinality(Cached(k)) <= 1
  /\ \A t \in Threads :
       /\ pc[t] \in {"have", "read", "write"} => locked[buf[t]] = t
       /\ pc[t] = "asleep" => locked[buf[t]] \notin {None, t}
  /\ \A b \in Bufs : refcnt[b] = pins[b] + Cardinality({t \in Threads : buf[t] = b})
=============================================================================
