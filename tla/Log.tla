-------------------------------- MODULE Log ---------------------------------
(***************************************************************************)
(* The write-ahead log of kernel/log.c: begin_op(), log_write(), end_op(), *)
(* the block-by-block commit, a crash between any two disk writes (or in   *)
(* the middle of one) and recover_from_log() after it.                     *)
(*                                                                         *)
(* log.lock is held within single steps only.  sleep(&log, &log.lock) and  *)
(* wakeup(&log) are atomic: every wakeup(&log) is called with log.lock     *)
(* held.  The buffer of a block is locked from its modification to         *)
(* log_write(), so that both are one step.                                 *)
(***************************************************************************)
EXTENDS Integers, Sequences, FiniteSets

CONSTANTS
  Threads,      \* the kernel threads that make FS system calls
  Blocks,       \* home locations
  Contents,     \* what a block can hold
  MAXOPBLOCKS,  \* most blocks one operation writes
  LogBlocks     \* sb.nlog: header and data blocks of the on-disk log

LOGSIZE == MAXOPBLOCKS * 3

ASSUME LogAssumption ==
  /\ MAXOPBLOCKS \in Nat \ {0}
  /\ LogBlocks \in Nat \ {0}
  /\ IsFiniteSet(Threads)

VARIABLES
  home,         \* on disk: the home locations
  logblock,     \* on disk: the log's data blocks
  head,         \* on disk: the log header, block numbers in order
  cache,        \* what bread() of a block returns
  pins,         \* the references that bpin() holds on a block's buffer
  lh,           \* log.lh
  outstanding,  \* log.outstanding
  committing,   \* log.committing
  op,           \* where a thread is in its FS system call
  wrote,        \* the blocks its operation has logged
  phase,        \* where commit() or recover_from_log() stands
  tail,         \* the tail of write_log() and install_trans()
  panicked      \* the machine has stopped in panic()

disk == <<home, logblock, head>>
vars == <<home, logblock, head, cache, pins, lh, outstanding, committing,
          op, wrote, phase, tail, panicked>>

LogPos == 1 .. LogBlocks - 1

Recovering == phase \in {"boot", "recover"}

-----------------------------------------------------------------------------
\* A file system made by mkfs, with an empty log.
Init ==
  /\ home \in [Blocks -> Contents]
  /\ logblock \in [LogPos -> Contents]
  /\ head = <<>>
  /\ cache = home
  /\ pins = [b \in Blocks |-> 0]
  /\ lh = <<>>
  /\ outstanding = 0
  /\ committing = FALSE
  /\ op = [t \in Threads |-> "idle"]
  /\ wrote = [t \in Threads |-> {}]
  /\ phase = "idle"
  /\ tail = 1
  /\ panicked = FALSE

Up == ~panicked /\ ~Recovering

\* wakeup(&log), with thread t going to l.
WakeAll(t, l) ==
  op' = [u \in Threads |-> IF u = t THEN l
                           ELSE IF op[u] = "asleep" THEN "begin" ELSE op[u]]

\* A thread enters a system call that uses the file system.
Start(t) ==
  /\ Up
  /\ op[t] = "idle"
  /\ op' = [op EXCEPT ![t] = "begin"]
  /\ UNCHANGED <<disk, cache, pins, lh, outstanding, committing, wrote, phase, tail, panicked>>

NoSpace_lazy == Len(lh) + outstanding * MAXOPBLOCKS > LOGSIZE

NoSpace == Len(lh) + (outstanding + 1) * MAXOPBLOCKS > LOGSIZE

\* One turn of begin_op()'s loop.
begin_op(t) ==
  /\ Up
  /\ op[t] = "begin"
  /\ IF committing \/ NoSpace
     THEN /\ op' = [op EXCEPT ![t] = "asleep"]
          /\ UNCHANGED outstanding
     ELSE /\ op' = [op EXCEPT ![t] = "active"]
          /\ outstanding' = outstanding + 1
  /\ UNCHANGED <<disk, cache, pins, lh, committing, wrote, phase, tail, panicked>>

\* kill() makes a thread asleep in begin_op() RUNNABLE; its loop goes on.
Rouse(t) ==
  /\ Up
  /\ op[t] = "asleep"
  /\ op' = [op EXCEPT ![t] = "begin"]
  /\ UNCHANGED <<disk, cache, pins, lh, outstanding, committing, wrote, phase, tail, panicked>>

\* The search for a logged block with b's number.
Absorbed(b) == \E n \in DOMAIN lh : lh[n] = b

bpin_none(b) == UNCHANGED pins

bpin(b) == pins' = [pins EXCEPT ![b] = @ + 1]

LogFull == Len(lh) >= LOGSIZE \/ Len(lh) >= LogBlocks - 1

\* bread(), modify, log_write(), brelse(); a block already in the log is
\* absorbed.  An operation writes at most MAXOPBLOCKS blocks.
log_write(t, b, v) ==
  /\ Up
  /\ op[t] = "active"
  /\ Cardinality(wrote[t] \cup {b}) <= MAXOPBLOCKS
  /\ cache' = [cache EXCEPT ![b] = v]
  /\ IF LogFull \/ outstanding < 1
     THEN panicked' = TRUE /\ UNCHANGED <<lh, pins, wrote>>
     ELSE /\ wrote' = [wrote EXCEPT ![t] = @ \cup {b}]
          /\ IF Absorbed(b)
             THEN UNCHANGED <<lh, pins>>
             ELSE lh' = Append(lh, b) /\ bpin(b)
          /\ UNCHANGED panicked
  /\ UNCHANGED <<disk, outstanding, committing, op, phase, tail>>

CommitStart_head == IF lh = <<>> THEN "done" ELSE "write_head"

\* commit() does nothing for an empty transaction.
CommitStart == IF lh = <<>> THEN "done" ELSE "write_log"

\* end_op() up to commit().
end_op(t) ==
  /\ Up
  /\ op[t] = "active"
  /\ outstanding' = outstanding - 1
  /\ wrote' = [wrote EXCEPT ![t] = {}]
  /\ IF committing
     THEN panicked' = TRUE /\ UNCHANGED <<op, committing, phase, tail>>
     ELSE /\ IF outstanding = 1
             THEN /\ committing' = TRUE
                  /\ op' = [op EXCEPT ![t] = "commit"]
                  /\ phase' = CommitStart
                  /\ tail' = 1
             ELSE WakeAll(t, "idle") /\ UNCHANGED <<committing, phase, tail>>
          /\ UNCHANGED panicked
  /\ UNCHANGED <<disk, cache, pins, lh>>

-----------------------------------------------------------------------------
(* commit() *)

\* One block of write_log().
write_log ==
  /\ phase = "write_log"
  /\ logblock' = [logblock EXCEPT ![tail] = cache[lh[tail]]]
  /\ tail' = tail + 1
  /\ phase' = IF tail = Len(lh) THEN "write_head" ELSE phase
  /\ UNCHANGED <<home, head, cache, pins, lh, outstanding, committing, op, wrote, panicked>>

\* write_head(): the commit point.
write_head ==
  /\ phase = "write_head"
  /\ head' = lh
  /\ phase' = "install"
  /\ tail' = 1
  /\ UNCHANGED <<home, logblock, cache, pins, lh, outstanding, committing, op, wrote, panicked>>

bunpin_none(b) == UNCHANGED pins

bunpin(b) == pins' = [pins EXCEPT ![b] = @ - 1]

Installing == phase \in {"install", "recover"} /\ tail <= Len(lh)

\* One block of install_trans(), while committing or recovering.
install_trans ==
  /\ Installing
  /\ home'  = [home  EXCEPT ![lh[tail]] = logblock[tail]]
  /\ cache' = [cache EXCEPT ![lh[tail]] = logblock[tail]]
  /\ IF Recovering THEN UNCHANGED pins ELSE bunpin(lh[tail])
  /\ tail' = tail + 1
  /\ UNCHANGED <<logblock, head, lh, outstanding, committing, op, wrote, phase, panicked>>

\* install_trans() is through: log.lh.n = 0, and the write_head() that erases
\* the transaction, in commit() and in recover_from_log().
clear_head ==
  /\ phase \in {"install", "recover"}
  /\ tail > Len(lh)
  /\ lh' = <<>>
  /\ head' = <<>>
  /\ phase' = IF Recovering THEN "idle" ELSE "done"
  /\ tail' = 1
  /\ UNCHANGED <<home, logblock, cache, pins, outstanding, committing, op, wrote, panicked>>

end_commit_silent(t) ==
  /\ phase = "done"
  /\ op[t] = "commit"
  /\ committing' = FALSE
  /\ op' = [op EXCEPT ![t] = "idle"]
  /\ phase' = "idle"
  /\ UNCHANGED <<disk, cache, pins, lh, outstanding, wrote, tail, panicked>>

\* The end of end_op(): commit() has returned.
end_commit(t) ==
  /\ phase = "done"
  /\ op[t] = "commit"
  /\ committing' = FALSE
  /\ WakeAll(t, "idle")
  /\ phase' = "idle"
  /\ UNCHANGED <<disk, cache, pins, lh, outstanding, wrote, tail, panicked>>

-----------------------------------------------------------------------------
(* Crash and recovery *)

\* What an interrupted write may leave of the block it was writing: anything.
\* The header's contents lie within one sector, which the disk writes whole.
Torn ==
  \/ UNCHANGED <<home, logblock>>
  \/ /\ phase = "write_log"
     /\ \E v \in Contents : logblock' = [logblock EXCEPT ![tail] = v]
     /\ UNCHANGED home
  \/ /\ Installing
     /\ \E v \in Contents : home' = [home EXCEPT ![lh[tail]] = v]
     /\ UNCHANGED logblock

\* Power is lost at any moment; memory is gone.
Crash ==
  /\ Torn
  /\ cache' = home'
  /\ pins' = [b \in Blocks |-> 0]
  /\ lh' = <<>>
  /\ outstanding' = 0
  /\ committing' = FALSE
  /\ op' = [t \in Threads |-> "idle"]
  /\ wrote' = [t \in Threads |-> {}]
  /\ phase' = "boot"
  /\ tail' = 1
  /\ panicked' = FALSE
  /\ UNCHANGED head

\* initlog() calls recover_from_log(): read_head().
read_head ==
  /\ phase = "boot"
  /\ lh' = head
  /\ phase' = "recover"
  /\ UNCHANGED <<disk, cache, pins, outstanding, committing, op, wrote, tail, panicked>>

-----------------------------------------------------------------------------
Commit == write_log \/ write_head \/ install_trans \/ clear_head

Next ==
  \/ Commit \/ Crash \/ read_head
  \/ \E t \in Threads :
       \/ Start(t) \/ begin_op(t) \/ Rouse(t) \/ end_op(t) \/ end_commit(t)
       \/ \E b \in Blocks, v \in Contents : log_write(t, b, v)

Spec == Init /\ [][Next]_vars

\* A system call that has begun comes to its end_op(), and the thread in
\* commit() goes on: the disk answers.
Fairness ==
  /\ WF_vars(Commit)
  /\ \A t \in Threads : WF_vars(end_op(t)) /\ WF_vars(end_commit(t))

FairSpec == Spec /\ Fairness

-----------------------------------------------------------------------------
(* Properties *)

\* The disk as a crash now would leave it once recover_from_log() has run.
Durable ==
  [b \in Blocks |->
     IF \E n \in DOMAIN head : head[n] = b
     THEN logblock[CHOOSE n \in DOMAIN head : head[n] = b]
     ELSE home[b]]

Active == {t \in Threads : op[t] = "active"}

Disk == INSTANCE AtomicDisk WITH
          view <- IF Recovering THEN Durable ELSE cache,
          durable <- Durable,
          active <- Active

\* Crash atomicity: whenever the machine stops, in commit(), in recovery or in
\* the middle of a block write, what recovery makes of the disk is the state
\* of some moment without an operation under way, and between crashes every
\* bread() returns what was written last.
Atomic == Disk!Spec

\* bget() may recycle any buffer without references: a block that is not
\* pinned is the same in memory and on disk, so its contents are not lost, in
\* every phase of commit() and, with nothing pinned, of recover_from_log().
CacheClean ==
  ~panicked => \A b \in Blocks : pins[b] = 0 => cache[b] = home[b]

\* Once the last end_op() has returned, everything written is in its home
\* location, the log is empty and no buffer stays pinned.
QuiescentDurable ==
  Up /\ outstanding = 0 /\ ~committing =>
    /\ head = <<>> /\ lh = <<>>
    /\ cache = home
    /\ \A b \in Blocks : pins[b] = 0

\* Whoever sleeps in begin_op() has somebody to wake it: an operation whose
\* end_op() is still to come, or a commit under way.
SleeperHasWaker ==
  \A t \in Threads : op[t] = "asleep" => committing \/ outstanding > 0

\* The log blocks that the operations under way may still take.
Unused == {s \in Active \X (1 .. MAXOPBLOCKS) : s[2] > Cardinality(wrote[s[1]])}

\* "this op might exhaust log space; wait for commit": begin_op() admits an
\* operation only if LOGSIZE leaves room for all that the admitted ones may
\* still write.
SpaceReserved == Len(lh) + Cardinality(Unused) <= LOGSIZE

\* LOGSIZE is the "max data blocks in on-disk log": operations that keep to
\* MAXOPBLOCKS and were admitted by begin_op() do not run into log_write()'s
\* panic("too big a transaction").
AdmittedFits == ~panicked

\* begin_op() does not sleep for ever: a commit or an end_op() wakes it.
SleeperWoken ==
  \A t \in Threads : op[t] = "asleep" ~> op[t] # "asleep" \/ panicked
=============================================================================
