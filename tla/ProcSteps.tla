----------------------------- MODULE ProcSteps ------------------------------
(***************************************************************************)
(* The inductive invariant of Proc, for every NPROC, every set of CPUs,    *)
(* every bound on nextpid and every set of pids passed to kill(); what     *)
(* leaves a conjunct of it alone; and the steps of the scheduler, of       *)
(* traps, of fork(), wait() and sleep() that keep it: one lemma per action *)
(* of Proc, and in it one step per conjunct.                               *)
(***************************************************************************)
EXTENDS Proc, TLAPS

\* Where a thread on a CPU holds its own p->lock.
Locked == {"forkret", "resume", "sleeping", "sched"}

\* Where a thread holds wait_lock.
WaitLocked == {"wait_scan", "wait_check", "sleep", "reparent",
               "wakeup_init", "wakeup_parent", "zombie"}

Live == {"SLEEPING", "RUNNABLE", "RUNNING"}

\* What p's thread does once it is out of the scheduling code.
Loc(p) == IF pc[p] \in {"sched", "resume"} THEN back[p] ELSE pc[p]

Forking == {"fork_parent", "fork_run"}

\* Asleep in wait(), or committed to it: wait_lock is released, p->lock held.
Dozing(p) == state[p] = "SLEEPING" \/ pc[p] = "sleeping"

-----------------------------------------------------------------------------
(* The inductive invariant *)

\* A CPU's scheduling state agrees with the lock and the state of the process
\* it runs or comes back from.
CpuInv ==
  \A c \in CPUs :
    /\ cpc[c] = "scan" => cproc[c] = NoProc
    /\ cpc[c] # "scan" => cproc[c] = ci[c]
    /\ cpc[c] = "run" =>
         /\ plock[ci[c]] = IF pc[ci[c]] \in Locked THEN c ELSE NoCpu
         /\ IF pc[ci[c]] = "sched" THEN state[ci[c]] \in {"RUNNABLE", "SLEEPING", "ZOMBIE"}
                                   ELSE state[ci[c]] = "RUNNING"
    /\ cpc[c] = "back" =>
         /\ plock[ci[c]] = c
         /\ pc[ci[c]] = "resume"
         /\ state[ci[c]] \in {"RUNNABLE", "SLEEPING", "ZOMBIE"}

\* A p->lock that is held across steps belongs to the CPU p is on.
LockInv == \A c \in CPUs, p \in Procs : plock[p] = c => cproc[c] = p

\* A process on no CPU is parked in the scheduling code.
OffInv ==
  \A p \in Procs : (\A c \in CPUs : cproc[c] # p) =>
    pc[p] \in {"resume", "forkret"} /\ state[p] # "RUNNING"

\* p->state agrees with where p's thread stands.
ThreadInv ==
  \A p \in Procs :
    /\ state[p] = "SLEEPING" => pc[p] \in {"sched", "resume"} /\ back[p] = "sleep" /\ chan[p] = p
    /\ state[p] = "ZOMBIE" => pc[p] \in {"sched", "resume"} /\ back[p] = "dead"
    /\ state[p] = "USED" => pc[p] = "forkret"
    /\ state[p] = "UNUSED" => pc[p] = "forkret" \/ (pc[p] = "resume" /\ back[p] = "dead")
    /\ state[p] \in {"RUNNABLE", "RUNNING"} /\ pc[p] \in {"sched", "resume"} =>
         back[p] \in Preemptible \cup {"user", "sleep"}
    /\ pc[p] \notin {"dead", "panic"}

\* wait_lock is held by the CPU whose thread is in one of its sections.
WaitInv ==
  /\ \A c \in CPUs : wait_lock = c => cpc[c] = "run" /\ pc[ci[c]] \in WaitLocked
  /\ \A p \in Procs : pc[p] \in WaitLocked => \E c \in CPUs : wait_lock = c /\ On(c, p)

\* Scan positions; the slot a fork() has allocated.
ScanInv ==
  /\ \A p \in Procs :
       /\ Loc(p) \notin Forking \cup {"fork", "kill", "wait_scan", "reparent", "wakeup_init"} => i[p] = 1
       /\ Loc(p) \notin {"wakeup_init", "wakeup_parent"} => j[p] = 1
       /\ Loc(p) \in Forking =>
            /\ i[p] \in Procs
            /\ state[i[p]] = "USED"
            /\ parent[i[p]] = IF Loc(p) = "fork_run" THEN p ELSE NoProc
  /\ \A p, q \in Procs : p # q /\ Loc(p) \in Forking /\ Loc(q) \in Forking => i[p] # i[q]

\* The process tree, and how far exit() has got in giving it away.
TreeInv ==
  /\ parent[initproc] = NoProc
  /\ state[initproc] \in Live
  /\ \A q \in Procs :
       /\ state[q] = "UNUSED" => parent[q] = NoProc
       /\ parent[q] # NoProc => parent[q] # q /\ state[parent[q]] \in Live
       /\ q # initproc /\ state[q] \in Live \cup {"ZOMBIE"} => parent[q] # NoProc
  /\ \A p \in Procs :
       /\ pc[p] \in {"reparent", "wakeup_init", "wakeup_parent", "zombie"} => p # initproc
       /\ pc[p] = "reparent" => \A q \in Procs : q < i[p] => parent[q] # p
       /\ pc[p] = "wakeup_init" => i[p] \in Procs /\ \A q \in Procs : q <= i[p] => parent[q] # p
       /\ pc[p] \in {"wakeup_parent", "zombie"} => \A q \in Procs : parent[q] # p

\* Who may be asleep with a zombie child, and who has been woken.
WakeInv ==
  /\ \A p, q \in Procs : parent[q] = p /\ state[q] = "ZOMBIE" =>
       /\ pc[p] = "wait_scan" => q >= i[p]
       /\ pc[p] \notin {"wait_check", "sleep"}
       /\ Dozing(p) => p = initproc /\ \E x \in Procs : pc[x] = "wakeup_init" /\ j[x] = 1
  /\ \A q \in Procs :
       pc[q] = "zombie" \/ (pc[q] = "wakeup_parent" /\ j[q] > parent[q]) => ~Dozing(parent[q])

\* The part of the invariant that is about scheduling.
SchedInv == OneCpu /\ CpuInv /\ LockInv /\ OffInv /\ ThreadInv

IInv == TypeOK /\ SchedInv /\ WaitInv /\ ScanInv /\ TreeInv /\ WakeInv

\* The invariant is its parts, now and after a step.
LEMMA Parts == IInv => TypeOK /\ SchedInv /\ WaitInv /\ ScanInv /\ TreeInv /\ WakeInv
BY DEF IInv

LEMMA Whole == TypeOK' /\ SchedInv' /\ WaitInv' /\ ScanInv' /\ TreeInv' /\ WakeInv' => IInv'
BY DEF IInv

-----------------------------------------------------------------------------
(* Facts about slots and names *)

\* init has a slot; the null process and the null CPU are none.
LEMMA InitSlot == initproc \in Procs /\ NoProc \notin Procs /\ NoCpu \notin CPUs
  BY ProcAssumption DEF Procs, initproc, NoProc

\* A loop over the table starts inside it.
LEMMA ScanStart == 1 \in ScanPos
  BY ProcAssumption DEF ScanPos

\* A loop over the table goes from slot to slot and leaves after the last.
LEMMA ScanNext == ASSUME NEW n \in ScanPos PROVE
    /\ n \in Nat /\ NPROC \in Nat
    /\ n <= NPROC => n \in Procs /\ n + 1 \in ScanPos
    /\ n > NPROC => \A q \in Procs : q < n
  BY ProcAssumption DEF ScanPos, Procs

\* scheduler()'s loop stays inside the table.
LEMMA NextSlotType == ASSUME NEW n \in Procs PROVE NextSlot(n) \in Procs
  BY ProcAssumption DEF NextSlot, Procs

\* The values of enum procstate.
LEMMA StateNames == "UNUSED" \in States /\ "USED" \in States /\ "SLEEPING" \in States
                 /\ "RUNNABLE" \in States /\ "RUNNING" \in States /\ "ZOMBIE" \in States
  BY DEF States

\* The control points that the steps use.
LEMMA LabelNames == \A l \in
  {"fork", "fork_parent", "fork_run", "wait", "kill", "exit", "ret",
   "forkret", "user", "tick", "sched", "resume", "dead", "panic", "init_exiting",
   "wait_scan", "wait_check", "sleep", "sleeping",
   "reparent", "wakeup_init", "wakeup_parent", "zombie"} : l \in Labels
  BY DEF Labels, Preemptible

\* Slots are positive numbers.
LEMMA SlotNat == \A q \in Procs : q \in Nat /\ q >= 1
  BY DEF Procs

\* The tree does not mind a process that stays alive, or where it goes, as long
\* as that is not the middle of exit().
LEMMA TreeKept ==
  ASSUME TypeOK, TreeInv,
         NEW p \in Procs, state[p] \in Live,
         NEW s \in Live, state' = [state EXCEPT ![p] = s],
         NEW l \in Labels \ {"reparent", "wakeup_init", "wakeup_parent", "zombie"},
         pc' = [pc EXCEPT ![p] = l],
         parent' = parent, i' = i
  PROVE  TreeInv'
<1>1. \A q \in Procs : /\ q # p => state'[q] = state[q] /\ pc'[q] = pc[q]
                       /\ q = p => state'[q] = s /\ pc'[q] = l
  BY DEF TypeOK
<1>2. \A q \in Procs : /\ state'[q] \in Live <=> state[q] \in Live
                       /\ state'[q] = "UNUSED" <=> state[q] = "UNUSED"
                       /\ state'[q] = "ZOMBIE" <=> state[q] = "ZOMBIE"
  BY <1>1 DEF Live
<1>3. parent'[initproc] = NoProc /\ state'[initproc] \in Live
  BY <1>2, InitSlot DEF TreeInv
<1>4. ASSUME NEW q \in Procs
      PROVE  /\ state'[q] = "UNUSED" => parent'[q] = NoProc
             /\ parent'[q] # NoProc => parent'[q] # q /\ state'[parent'[q]] \in Live
             /\ q # initproc /\ state'[q] \in Live \cup {"ZOMBIE"} => parent'[q] # NoProc
  BY <1>2 DEF TreeInv, TypeOK
<1>5. ASSUME NEW r \in Procs
      PROVE  /\ pc'[r] \in {"reparent", "wakeup_init", "wakeup_parent", "zombie"} => r # initproc
             /\ pc'[r] = "reparent" => \A q \in Procs : q < i'[r] => parent'[q] # r
             /\ pc'[r] = "wakeup_init" => i'[r] \in Procs /\ \A q \in Procs : q <= i'[r] => parent'[q] # r
             /\ pc'[r] \in {"wakeup_parent", "zombie"} => \A q \in Procs : parent'[q] # r
  BY <1>1 DEF TreeInv
<1> QED BY <1>3, <1>4, <1>5 DEF TreeInv

-----------------------------------------------------------------------------
(* What leaves a conjunct alone: a thread that only moves, from a label that *)
(* the conjunct does not speak of to another one                             *)

\* Where exit() walks the tree.
Exiting == {"reparent", "wakeup_init", "wakeup_parent", "zombie"}

\* Where the wakeup of a parent is at stake.
Watched == {"wait_scan", "wait_check", "sleep", "sleeping", "wakeup_parent", "zombie"}

\* Where i is in use.
Scanning == Forking \cup {"fork", "kill", "wait_scan", "reparent", "wakeup_init"}

\* A thread moves between labels where it does not hold its own lock.
LEMMA SchedMoved ==
  ASSUME SchedInv, NEW c \in CPUs, NEW p \in Procs, cpc[c] = "run", cproc[c] = p,
         pc[p] \notin Locked, NEW l, l \notin Locked \cup {"dead", "panic"},
         pc' = [pc EXCEPT ![p] = l],
         state' = state, chan' = chan, plock' = plock, cproc' = cproc, cpc' = cpc,
         ci' = ci, back' = back
  PROVE  SchedInv'
  BY DEF SchedInv, OneCpu, CpuInv, LockInv, OffInv, ThreadInv, Locked

\* A thread does not move and leaves the process table alone.
LEMMA SchedSame ==
  ASSUME SchedInv, pc' = pc, state' = state, chan' = chan, plock' = plock, cproc' = cproc,
         cpc' = cpc, ci' = ci, back' = back
  PROVE  SchedInv'
  BY DEF SchedInv, OneCpu, CpuInv, LockInv, OffInv, ThreadInv

\* A thread that scheduler() or sched() has just resumed lets go of its lock.
LEMMA SchedReleased ==
  ASSUME TypeOK, SchedInv, NEW c \in CPUs, NEW p \in Procs, cpc[c] = "run", cproc[c] = p,
         pc[p] \in {"forkret", "resume"}, NEW l, l \notin Locked \cup {"dead", "panic"},
         pc' = [pc EXCEPT ![p] = l], plock' = [plock EXCEPT ![p] = NoCpu],
         \A q \in Procs : q # p => back'[q] = back[q] /\ chan'[q] = chan[q],
         state' = state, cproc' = cproc, cpc' = cpc, ci' = ci
  PROVE  SchedInv'
  BY InitSlot DEF TypeOK, SchedInv, OneCpu, CpuInv, LockInv, OffInv, ThreadInv, Locked

\* yield() makes a running process RUNNABLE under its lock.
LEMMA SchedYielded ==
  ASSUME TypeOK, SchedInv, NEW c \in CPUs, NEW p \in Procs, cpc[c] = "run", cproc[c] = p,
         pc[p] \notin Locked, NEW b \in Preemptible \cup {"user"},
         state' = [state EXCEPT ![p] = "RUNNABLE"], pc' = [pc EXCEPT ![p] = "sched"],
         plock' = [plock EXCEPT ![p] = c], back' = [back EXCEPT ![p] = b],
         chan' = chan, cproc' = cproc, cpc' = cpc, ci' = ci
  PROVE  SchedInv'
  BY InitSlot DEF TypeOK, SchedInv, OneCpu, CpuInv, LockInv, OffInv, ThreadInv, Locked

\* fork() or kill() makes a process that no CPU is on RUNNABLE, and moves.
LEMMA SchedReadied ==
  ASSUME SchedInv, NEW c \in CPUs, NEW p \in Procs, cpc[c] = "run", cproc[c] = p,
         pc[p] \notin Locked, NEW l, l \notin Locked \cup {"dead", "panic"},
         NEW n \in Procs, n # p, state[n] \in {"USED", "SLEEPING"}, plock[n] = NoCpu,
         pc' = [pc EXCEPT ![p] = l], state' = [state EXCEPT ![n] = "RUNNABLE"],
         chan' = chan, plock' = plock, cproc' = cproc, cpc' = cpc, ci' = ci, back' = back
  PROVE  SchedInv'
  BY DEF SchedInv, OneCpu, CpuInv, LockInv, OffInv, ThreadInv, Locked

\* fork() takes an UNUSED slot and gives its thread a context.
LEMMA SchedAllocated ==
  ASSUME TypeOK, SchedInv, NEW c \in CPUs, NEW p \in Procs, cpc[c] = "run", cproc[c] = p,
         pc[p] = "fork", NEW n \in Procs, n # p, state[n] = "UNUSED", plock[n] = NoCpu,
         state' = [state EXCEPT ![n] = "USED"],
         pc' = [pc EXCEPT ![p] = "fork_parent", ![n] = "forkret"],
         chan' = chan, plock' = plock, cproc' = cproc, cpc' = cpc, ci' = ci, back' = back
  PROVE  SchedInv'
  BY DEF TypeOK, SchedInv, OneCpu, CpuInv, LockInv, OffInv, ThreadInv, Locked

\* freeproc() of a slot that no CPU is on, and the thread that calls it moves.
LEMMA SchedFreed ==
  ASSUME TypeOK, SchedInv, NEW c \in CPUs, NEW p \in Procs, cpc[c] = "run", cproc[c] = p,
         pc[p] \notin Locked, NEW l, l \notin Locked \cup {"dead", "panic"},
         NEW n \in Procs, n # p, state[n] \in {"UNUSED", "ZOMBIE"}, plock[n] = NoCpu,
         pc' = [pc EXCEPT ![p] = l], state' = [state EXCEPT ![n] = "UNUSED"],
         chan' = [chan EXCEPT ![n] = NoProc],
         plock' = plock, cproc' = cproc, cpc' = cpc, ci' = ci, back' = back
  PROVE  SchedInv'
  BY InitSlot DEF TypeOK, SchedInv, OneCpu, CpuInv, LockInv, OffInv, ThreadInv, Locked

\* A sleeper that no CPU is on becomes RUNNABLE.
LEMMA SchedWoken ==
  ASSUME SchedInv, NEW q \in Procs, plock[q] = NoCpu, state[q] = "SLEEPING",
         state' = [state EXCEPT ![q] = "RUNNABLE"],
         pc' = pc, chan' = chan, plock' = plock, cproc' = cproc,
         cpc' = cpc, ci' = ci, back' = back
  PROVE  SchedInv'
  BY DEF SchedInv, OneCpu, CpuInv, LockInv, OffInv, ThreadInv

\* A thread moves inside a section of wait_lock, or outside of all of them.
LEMMA WaitMoved ==
  ASSUME WaitInv, NEW p \in Procs, NEW l, pc[p] \in WaitLocked <=> l \in WaitLocked,
         pc' = [pc EXCEPT ![p] = l],
         wait_lock' = wait_lock, cproc' = cproc, cpc' = cpc, ci' = ci
  PROVE  WaitInv'
  BY DEF WaitInv, On

\* Nobody enters or leaves a section of wait_lock.
LEMMA WaitKept ==
  ASSUME TypeOK, WaitInv, \A q \in Procs : pc'[q] \in WaitLocked <=> pc[q] \in WaitLocked,
         wait_lock' = wait_lock, cproc' = cproc, cpc' = cpc, ci' = ci
  PROVE  WaitInv'
  BY DEF TypeOK, WaitInv, On

\* A thread that does not move keeps wait_lock, if it has it.
LEMMA WaitSame ==
  ASSUME WaitInv, pc' = pc, wait_lock' = wait_lock, cproc' = cproc, cpc' = cpc, ci' = ci
  PROVE  WaitInv'
  BY DEF WaitInv, On

\* A thread enters a section of wait_lock.
LEMMA WaitTaken ==
  ASSUME TypeOK, SchedInv, WaitInv, NEW c \in CPUs, NEW p \in Procs,
         cpc[c] = "run", cproc[c] = p, wait_lock = NoCpu,
         NEW l \in WaitLocked, pc' = [pc EXCEPT ![p] = l], wait_lock' = c,
         cproc' = cproc, cpc' = cpc, ci' = ci
  PROVE  WaitInv'
  BY InitSlot DEF SchedInv, TypeOK, CpuInv, WaitInv, On

\* A thread leaves a section of wait_lock.
LEMMA WaitGiven ==
  ASSUME TypeOK, WaitInv, NEW p \in Procs, pc[p] \in WaitLocked,
         NEW l, l \notin WaitLocked, pc' = [pc EXCEPT ![p] = l], wait_lock' = NoCpu,
         cproc' = cproc, cpc' = cpc, ci' = ci
  PROVE  WaitInv'
  BY InitSlot DEF TypeOK, WaitInv, On

\* A thread that scans nothing moves.
LEMMA ScanMoved ==
  ASSUME ScanInv, NEW p \in Procs, pc[p] \notin Scanning \cup {"wakeup_parent", "sched", "resume"},
         NEW l, l \notin Forking \cup {"sched", "resume"}, pc' = [pc EXCEPT ![p] = l],
         state' = state, parent' = parent, back' = back, i' = i, j' = j
  PROVE  ScanInv'
  BY DEF ScanInv, Scanning, Loc, Forking

\* A thread leaves a scan.
LEMMA ScanLeft ==
  ASSUME TypeOK, ScanInv, NEW p \in Procs,
         pc[p] \notin {"wakeup_init", "wakeup_parent", "sched", "resume"},
         NEW l, l \notin Forking \cup {"sched", "resume"}, pc' = [pc EXCEPT ![p] = l],
         i' = [i EXCEPT ![p] = 1],
         state' = state, parent' = parent, back' = back, j' = j
  PROVE  ScanInv'
  BY DEF TypeOK, ScanInv, Loc, Forking

\* A thread goes on to the next slot.
LEMMA ScanAdvanced ==
  ASSUME ScanInv, NEW p \in Procs, pc[p] \in {"fork", "kill", "wait_scan", "reparent"},
         NEW n, i' = [i EXCEPT ![p] = n],
         state' = state, parent' = parent, back' = back, j' = j, pc' = pc
  PROVE  ScanInv'
  BY DEF ScanInv, Loc, Forking

\* A thread goes into the scheduling code, or comes out of it where it was.
LEMMA ScanParked ==
  ASSUME TypeOK, ScanInv, NEW p \in Procs, \A q \in Procs : Loc(q)' = Loc(q),
         state[p] # "USED", NEW s \in States, state' = [state EXCEPT ![p] = s],
         parent' = parent, i' = i, j' = j
  PROVE  ScanInv'
  BY DEF TypeOK, ScanInv

\* A thread moves to a label outside of exit()'s walk.
LEMMA TreeMoved ==
  ASSUME TypeOK, TreeInv, NEW p \in Procs, NEW l, l \notin Exiting,
         pc' = [pc EXCEPT ![p] = l],
         \A q \in Procs : q # p => i'[q] = i[q],
         state' = state, parent' = parent
  PROVE  TreeInv'
  BY DEF TypeOK, TreeInv, Exiting

\* A thread outside of exit()'s walk goes on to the next slot.
LEMMA TreeAdvanced ==
  ASSUME TypeOK, TreeInv, NEW p \in Procs, pc[p] \notin Exiting, pc' = pc,
         NEW n, i' = [i EXCEPT ![p] = n], state' = state, parent' = parent
  PROVE  TreeInv'
  BY DEF TypeOK, TreeInv, Exiting

\* A thread that is neither waiting nor exiting moves.
LEMMA WakeMoved ==
  ASSUME TypeOK, WakeInv, NEW p \in Procs, pc[p] # "wakeup_init",
         NEW l, l \notin Watched,
         pc' = [pc EXCEPT ![p] = l],
         \A q \in Procs : q # p => i'[q] = i[q],
         state' = state, parent' = parent, j' = j
  PROVE  WakeInv'
  BY DEF TypeOK, WakeInv, Dozing, Watched

\* fork() makes its child RUNNABLE.
LEMMA TreeForked ==
  ASSUME TypeOK, TreeInv, NEW p \in Procs, NEW n \in Procs, state[n] = "USED",
         parent[n] = p, state' = [state EXCEPT ![n] = "RUNNABLE"],
         NEW l, l \notin Exiting, pc' = [pc EXCEPT ![p] = l],
         \A q \in Procs : q # p => i'[q] = i[q], parent' = parent
  PROVE  TreeInv'
  BY InitSlot DEF TypeOK, TreeInv, Exiting, Live

\* A process becomes RUNNABLE, and a thread that is neither waiting nor exiting moves.
LEMMA WakeReadied ==
  ASSUME TypeOK, WakeInv, NEW p \in Procs, pc[p] # "wakeup_init", NEW n \in Procs,
         state' = [state EXCEPT ![n] = "RUNNABLE"],
         NEW l, l \notin Watched,
         pc' = [pc EXCEPT ![p] = l],
         \A q \in Procs : q # p => i'[q] = i[q], parent' = parent, j' = j
  PROVE  WakeInv'
  BY DEF TypeOK, WakeInv, Dozing, Watched

\* A thread outside of wait() goes on to the next slot.
LEMMA WakeAdvanced ==
  ASSUME TypeOK, WakeInv, NEW p \in Procs, pc[p] # "wait_scan", pc' = pc,
         NEW n, i' = [i EXCEPT ![p] = n], state' = state, parent' = parent, j' = j
  PROVE  WakeInv'
  BY DEF TypeOK, WakeInv, Dozing

\* The child of a fork() that has not finished.
LEMMA ForkChild ==
  ASSUME SchedInv, ScanInv, NEW c \in CPUs, NEW p \in Procs, cpc[c] = "run", cproc[c] = p,
         pc[p] \in Forking
  PROVE  /\ i[p] \in Procs /\ i[p] # p /\ state[i[p]] = "USED"
         /\ parent[i[p]] = IF pc[p] = "fork_run" THEN p ELSE NoProc
  BY DEF SchedInv, CpuInv, ScanInv, Loc, Forking

\* fork() hangs its child below itself.
LEMMA ScanHung ==
  ASSUME TypeOK, ScanInv, NEW p \in Procs, pc[p] = "fork_parent",
         pc' = [pc EXCEPT ![p] = "fork_run"], parent' = [parent EXCEPT ![i[p]] = p],
         state' = state, back' = back, i' = i, j' = j
  PROVE  ScanInv'
  BY DEF TypeOK, ScanInv, Loc, Forking

\* The new parent is alive and does not exit.
LEMMA TreeHung ==
  ASSUME TypeOK, TreeInv, NEW p \in Procs, state[p] = "RUNNING", pc[p] \notin Exiting,
         NEW l, l \notin Exiting, pc' = [pc EXCEPT ![p] = l],
         NEW n \in Procs, n # p, state[n] = "USED", parent' = [parent EXCEPT ![n] = p],
         state' = state, i' = i
  PROVE  TreeInv'
  BY InitSlot DEF TypeOK, TreeInv, Exiting, Live

\* The new child is no zombie and does not exit.
LEMMA WakeHung ==
  ASSUME TypeOK, WakeInv, NEW p \in Procs, pc[p] # "wakeup_init",
         NEW l, l \notin Watched,
         pc' = [pc EXCEPT ![p] = l],
         NEW n \in Procs, state[n] = "USED", pc[n] \notin Exiting,
         parent' = [parent EXCEPT ![n] = p], state' = state, i' = i, j' = j
  PROVE  WakeInv'
  BY DEF TypeOK, WakeInv, Exiting, Dozing, Watched

\* Nobody is on an UNUSED slot, and nobody's fork() uses it.
LEMMA UnusedSlot ==
  ASSUME TypeOK, SchedInv, ScanInv, TreeInv, NEW c \in CPUs, NEW p \in Procs, cpc[c] = "run",
         cproc[c] = p, pc[p] # "sched", NEW n \in Procs, state[n] = "UNUSED"
  PROVE  /\ n # p /\ parent[n] = NoProc /\ Loc(n) \in {"forkret", "dead"}
         /\ \A q \in Procs : Loc(q) \in Forking => i[q] # n /\ state[i[q]] = "USED"
  BY DEF SchedInv, CpuInv, ThreadInv, ScanInv, TreeInv, Loc

\* fork() takes an UNUSED slot.
LEMMA ScanAllocated ==
  ASSUME TypeOK, ScanInv, NEW p \in Procs, pc[p] = "fork", i[p] \in Procs, i[p] # p,
         parent[i[p]] = NoProc, Loc(i[p]) \in {"forkret", "dead"},
         \A q \in Procs : Loc(q) \in Forking => i[q] # i[p] /\ state[i[q]] = "USED",
         state' = [state EXCEPT ![i[p]] = "USED"],
         pc' = [pc EXCEPT ![p] = "fork_parent", ![i[p]] = "forkret"],
         parent' = parent, back' = back, i' = i, j' = j
  PROVE  ScanInv'
<1>1. /\ Loc(p) = "fork" /\ Loc(p)' = "fork_parent" /\ Loc(i[p])' = "forkret"
      /\ \A q \in Procs : q # p /\ q # i[p] => Loc(q)' = Loc(q)
  BY DEF TypeOK, Loc
<1>2. \A q \in Procs : state'[q] = IF q = i[p] THEN "USED" ELSE state[q]
  BY DEF TypeOK
<1> QED BY <1>1, <1>2 DEF ScanInv, Forking

\* The slot was nobody's child, and nobody walks the tree there.
LEMMA TreeAllocated ==
  ASSUME TypeOK, TreeInv, NEW p \in Procs, NEW n \in Procs, state[n] = "UNUSED",
         state' = [state EXCEPT ![n] = "USED"],
         \A q \in Procs : pc'[q] = pc[q] \/ pc'[q] \notin Exiting,
         \A q \in Procs : q # p => i'[q] = i[q], pc[p] \notin Exiting,
         \A q \in Procs : parent'[q] = parent[q]
  PROVE  TreeInv'
  BY InitSlot DEF TypeOK, TreeInv, Exiting, Live

\* A process that exits is RUNNING and is not init, so it has a parent.
LEMMA ExitingParent ==
  ASSUME SchedInv, WaitInv, TreeInv
  PROVE  \A q \in Procs : pc[q] \in Exiting => parent[q] # NoProc
  BY DEF SchedInv, CpuInv, WaitInv, WaitLocked, On, TreeInv, Live, Exiting

\* The slot holds no zombie and nobody asleep, and it stays so.
LEMMA WakeAllocated ==
  ASSUME TypeOK, WakeInv, \A q \in Procs : pc[q] \in Exiting => parent[q] # NoProc, NEW p \in Procs, NEW n \in Procs, state[n] = "UNUSED",
         state' = [state EXCEPT ![n] = "USED"],
         \A q \in Procs : pc'[q] = pc[q]
           \/ /\ pc[q] # "wakeup_init"
              /\ pc'[q] \notin Exiting \cup {"wait_scan", "wait_check", "sleep", "sleeping"},
         \A q \in Procs : q # p => i'[q] = i[q], pc'[p] # "wait_scan", j' = j,
         \A q \in Procs : parent'[q] = parent[q]
  PROVE  WakeInv'
  BY InitSlot DEF TypeOK, WakeInv, Exiting, Dozing

-----------------------------------------------------------------------------
(* The scheduler, traps and the switch between them *)

\* scheduler() takes the lock of a RUNNABLE process that is on no CPU.
LEMMA SchedulerStep ==
  ASSUME IInv, NEW c \in CPUs, Scheduler(c)
  PROVE  IInv'
<1>s. ci[c] \in Procs /\ NextSlot(ci[c]) \in Procs
  BY NextSlotType, Parts, Zenon DEF TypeOK
<1>1. CASE state[ci[c]] = "RUNNABLE"
  <2>0. /\ cpc[c] = "scan" /\ plock[ci[c]] = NoCpu
        /\ state' = [state EXCEPT ![ci[c]] = "RUNNING"]
        /\ cproc' = [cproc EXCEPT ![c] = ci[c]]
        /\ cpc' = [cpc EXCEPT ![c] = "run"]
        /\ plock' = [plock EXCEPT ![ci[c]] = c]
        /\ UNCHANGED <<chan, killed, pid, parent, wait_lock, nextpid, ci, pc, back, i,
                       j, kids, arg>>
    BY <1>1, Zenon DEF Unlocked, Acquire, locals, Scheduler
  <2>1. TypeOK' BY <2>0, StateNames, Parts, Zenon DEF TypeOK
  <2>2. SchedInv'
    BY <1>1, <2>0, InitSlot, Parts, SMTT(20), Z3T(60) DEF SchedInv, TypeOK, OneCpu, CpuInv,
      LockInv, OffInv, ThreadInv, Locked
  <2>3. WaitInv' BY <2>0, Parts, SMTT(20), Z3T(60) DEF WaitInv, On
  <2>4. ScanInv' BY <1>1, <2>0, Parts, SMTT(20), Z3T(60) DEF ScanInv, Loc
  <2>5. TreeInv' BY <1>1, <2>0, Parts, SMTT(20), Z3T(60) DEF TreeInv, Live
  <2>6. WakeInv' BY <2>0, Parts, SMTT(20), Z3T(60) DEF WakeInv, Dozing
  <2> QED BY <2>1, <2>2, <2>3, <2>4, <2>5, <2>6, Whole
<1>2. CASE state[ci[c]] # "RUNNABLE"
  <2>0. /\ cpc[c] = "scan"
        /\ ci' = [ci EXCEPT ![c] = NextSlot(ci[c])]
        /\ UNCHANGED <<state, chan, killed, pid, parent, plock, wait_lock, nextpid,
                       cproc, cpc, pc, back, i, j, kids, arg>>
    BY <1>2, Zenon DEF locals, Scheduler
  <2>1. TypeOK' BY <1>s, <2>0, Parts, Zenon DEF TypeOK
  <2>2. SchedInv'
    BY <2>0, Parts, SMTT(20), Z3T(60) DEF SchedInv, OneCpu, CpuInv, LockInv, OffInv, ThreadInv
  <2>3. WaitInv' BY <2>0, Parts, SMTT(20), Z3T(60) DEF WaitInv, On
  <2>4. ScanInv' BY <2>0, Parts, SMTT(20), Z3T(60) DEF ScanInv, Loc
  <2>5. TreeInv' BY <2>0, Parts, Zenon DEF TreeInv
  <2>6. WakeInv' BY <2>0, Parts, Zenon DEF WakeInv, Dozing
  <2> QED BY <2>1, <2>2, <2>3, <2>4, <2>5, <2>6, Whole
<1> QED BY <1>1, <1>2, Zenon

\* scheduler() gives back the lock of a process that has left its stack.
LEMMA SchedulerBackStep ==
  ASSUME IInv, NEW c \in CPUs, SchedulerBack(c)
  PROVE  IInv'
<1>s. ci[c] \in Procs /\ NextSlot(ci[c]) \in Procs
  BY NextSlotType, Parts, Zenon DEF TypeOK
<1>0. /\ cpc[c] = "back"
      /\ cproc' = [cproc EXCEPT ![c] = NoProc]
      /\ cpc' = [cpc EXCEPT ![c] = "scan"]
      /\ ci' = [ci EXCEPT ![c] = NextSlot(ci[c])]
      /\ plock' = [plock EXCEPT ![ci[c]] = NoCpu]
      /\ UNCHANGED <<state, chan, killed, pid, parent, wait_lock, nextpid, pc, back, i,
                     j, kids, arg>>
  BY Zenon DEF Release, procvars, locals, SchedulerBack
<1>1. TypeOK' BY <1>s, <1>0, Parts, Zenon DEF TypeOK
<1>2. SchedInv'
  BY <1>0, InitSlot, Parts, SMTT(20), Z3T(60) DEF SchedInv, TypeOK, OneCpu, CpuInv, LockInv,
    OffInv, ThreadInv
<1>3. WaitInv' BY <1>0, Parts, SMTT(20), Z3T(60) DEF WaitInv, On
<1>4. ScanInv' BY <1>0, Parts DEF ScanInv, Loc
<1>5. TreeInv' BY <1>0, Parts, Zenon DEF TreeInv
<1>6. WakeInv' BY <1>0, Parts, Zenon DEF WakeInv, Dozing
<1> QED BY <1>1, <1>2, <1>3, <1>4, <1>5, <1>6, Whole

\* sched()'s checks hold and it switches away with p->lock held.
LEMMA SchedStep ==
  ASSUME IInv, NEW c \in CPUs, NEW p \in Procs, sched(c, p)
  PROVE  IInv'
<1>p. plock[p] = c /\ (\A q \in Procs \ {p} : plock[q] # c) /\ wait_lock # c
      /\ state[p] # "RUNNING"
  BY Parts, SMTT(20), Z3T(60) DEF SchedInv, CpuInv, LockInv, WaitInv, Locked, WaitLocked, sched,
    At, On
<1>0. /\ cpc[c] = "run" /\ cproc[c] = p /\ pc[p] = "sched" /\ plock[p] = c
      /\ wait_lock # c
      /\ pc' = [pc EXCEPT ![p] = "resume"]
      /\ cpc' = [cpc EXCEPT ![c] = "back"]
      /\ UNCHANGED <<state, chan, killed, pid, parent, plock, wait_lock, nextpid,
                     cproc, ci, back, i, j, kids, arg>>
  BY <1>p, Zenon DEF At, On, Goto, procvars, locals, sched
<1>1. TypeOK' BY <1>0, LabelNames, Parts, Zenon DEF TypeOK
<1>2. SchedInv'
  BY <1>0, Parts, SMTT(20), Z3T(60) DEF SchedInv, TypeOK, OneCpu, CpuInv, LockInv, OffInv,
    ThreadInv, Locked
<1>3. WaitInv' BY <1>0, Parts DEF WaitInv, WaitLocked, On
<1>4. ScanInv' BY <1>0, Parts, SMTT(20), Z3T(60) DEF ScanInv, Loc
<1>5. TreeInv' BY <1>0, Parts, TreeMoved, Zenon DEF Exiting
<1>6. WakeInv' BY <1>0, Parts, WakeMoved, Zenon DEF Watched
<1> QED BY <1>1, <1>2, <1>3, <1>4, <1>5, <1>6, Whole

\* sched() returns with p->lock held and the thread lets go of it.
LEMMA ResumeStep ==
  ASSUME IInv, NEW c \in CPUs, NEW p \in Procs, Resume(c, p)
  PROVE  IInv'
<1>p. back[p] # "dead" /\ back[p] \in Preemptible \cup {"user", "sleep"}
      /\ state[p] = "RUNNING"
  BY Parts, SMTT(20), Z3T(60) DEF SchedInv, CpuInv, ThreadInv, Resume, At, On, Preemptible
<1>1. CASE back[p] = "sleep"
  <2>0. /\ cpc[c] = "run" /\ cproc[c] = p /\ pc[p] = "resume" /\ state[p] = "RUNNING"
        /\ pc' = [pc EXCEPT ![p] = "wait"]
        /\ chan' = [chan EXCEPT ![p] = NoProc]
        /\ plock' = [plock EXCEPT ![p] = NoCpu]
        /\ back' = [back EXCEPT ![p] = "user"]
        /\ UNCHANGED <<state, killed, pid, parent, wait_lock, nextpid, cproc, cpc, ci,
                       i, j, kids, arg>>
    BY <1>1, <1>p, Zenon DEF At, On, Goto, Release, cpuvars, Resume
  <2>1. TypeOK' BY <2>0, LabelNames, Parts, Zenon DEF TypeOK
  <2>2. SchedInv' BY <2>0, LabelNames, Parts, SchedReleased, Zenon DEF Locked, TypeOK
  <2>3. WaitInv' BY <2>0, Parts, WaitMoved, Zenon DEF WaitLocked
  <2>4. ScanInv' BY <1>1, <2>0, Parts, SMTT(20), Z3T(60) DEF ScanInv, Loc, Forking
  <2>5. TreeInv' BY <2>0, Parts, TreeMoved, Zenon DEF Exiting
  <2>6. WakeInv' BY <2>0, Parts, WakeMoved, Zenon DEF Watched
  <2> QED BY <2>1, <2>2, <2>3, <2>4, <2>5, <2>6, Whole
<1>2. CASE back[p] # "sleep"
  <2>0. /\ cpc[c] = "run" /\ cproc[c] = p /\ pc[p] = "resume"
        /\ back[p] \in Preemptible \cup {"user"} /\ state[p] = "RUNNING"
        /\ pc' = [pc EXCEPT ![p] = back[p]]
        /\ plock' = [plock EXCEPT ![p] = NoCpu]
        /\ back' = [back EXCEPT ![p] = "user"]
        /\ UNCHANGED <<state, chan, killed, pid, parent, wait_lock, nextpid, cproc,
                       cpc, ci, i, j, kids, arg>>
    BY <1>2, <1>p, Zenon DEF At, On, Goto, Release, cpuvars, Resume
  <2>1. TypeOK' BY <2>0, LabelNames, Parts, Zenon DEF TypeOK
  <2>2. SchedInv' BY <2>0, Parts, SchedReleased, Zenon DEF Locked, Preemptible, TypeOK
  <2>3. WaitInv' BY <2>0, Parts, WaitMoved, Zenon DEF WaitLocked, Preemptible
  <2>4. ScanInv' BY <2>0, Parts, SMTT(20), Z3T(60) DEF TypeOK, ScanInv, Loc, Forking
  <2>5. TreeInv' BY <2>0, Parts, TreeMoved, Zenon DEF Exiting, Preemptible
  <2>6. WakeInv' BY <2>0, Parts, WakeMoved, Zenon DEF Watched, Preemptible
  <2> QED BY <2>1, <2>2, <2>3, <2>4, <2>5, <2>6, Whole
<1> QED BY <1>1, <1>2, Zenon

\* forkret() lets go of the lock that scheduler() has taken.
LEMMA ForkretStep ==
  ASSUME IInv, NEW c \in CPUs, NEW p \in Procs, forkret(c, p)
  PROVE  IInv'
<1>0. /\ cpc[c] = "run" /\ cproc[c] = p /\ pc[p] = "forkret"
      /\ pc' = [pc EXCEPT ![p] = "user"]
      /\ plock' = [plock EXCEPT ![p] = NoCpu]
      /\ UNCHANGED <<state, chan, killed, pid, parent, wait_lock, nextpid, cproc, cpc,
                     ci, back, i, j, kids, arg>>
  BY Zenon DEF At, On, Goto, Release, procvars, cpuvars, locals, forkret
<1>1. TypeOK' BY <1>0, LabelNames, Parts, Zenon DEF TypeOK
<1>2. SchedInv' BY <1>0, Parts, SchedReleased, Zenon DEF Locked
<1>3. WaitInv' BY <1>0, Parts, WaitMoved, Zenon DEF WaitLocked
<1>4. ScanInv' BY <1>0, Parts, ScanMoved, Zenon DEF Scanning, Forking
<1>5. TreeInv' BY <1>0, Parts, TreeMoved, Zenon DEF Exiting
<1>6. WakeInv' BY <1>0, Parts, WakeMoved, Zenon DEF Watched
<1> QED BY <1>1, <1>2, <1>3, <1>4, <1>5, <1>6, Whole

\* A yield() in the kernel makes the process RUNNABLE under its lock.
LEMMA KerneltrapStep ==
  ASSUME IInv, NEW c \in CPUs, NEW p \in Procs, kerneltrap(c, p)
  PROVE  IInv'
<1>0. /\ cpc[c] = "run" /\ cproc[c] = p /\ pc[p] \in Preemptible /\ plock[p] = NoCpu
      /\ state' = [state EXCEPT ![p] = "RUNNABLE"]
      /\ pc' = [pc EXCEPT ![p] = "sched"]
      /\ plock' = [plock EXCEPT ![p] = c]
      /\ back' = [back EXCEPT ![p] = pc[p]]
      /\ UNCHANGED <<chan, killed, pid, parent, wait_lock, nextpid, cproc, cpc, ci, i,
                     j, kids, arg>>
  BY Zenon DEF On, Goto, Unlocked, Acquire, cpuvars, kerneltrap, yield
<1>1. TypeOK' BY <1>0, StateNames, LabelNames, Parts, Zenon DEF TypeOK
<1>2. SchedInv' BY <1>0, Parts, SchedYielded, Zenon DEF Locked, Preemptible
<1>r. state[p] = "RUNNING" BY <1>0, Parts, Zenon DEF SchedInv, CpuInv, Preemptible
<1>3. WaitInv' BY <1>0, Parts, WaitMoved, Zenon DEF WaitLocked, Preemptible
<1>4. ScanInv'
  <2>1. \A q \in Procs : Loc(q)' = Loc(q) BY <1>0, Parts DEF TypeOK, Loc, Preemptible
  <2> QED BY <1>0, <1>r, <2>1, StateNames, Parts, ScanParked, Zenon
<1>5. TreeInv' BY <1>0, <1>r, TreeKept, LabelNames, Parts, Zenon DEF Live
<1>6. WakeInv' BY <1>0, Parts, WakeReadied, Zenon DEF Watched, Preemptible
<1> QED BY <1>1, <1>2, <1>3, <1>4, <1>5, <1>6, Whole

\* setkilled() of the running process.
LEMMA FaultStep ==
  ASSUME IInv, NEW c \in CPUs, NEW p \in Procs, Fault(c, p)
  PROVE  IInv'
<1>0. /\ cpc[c] = "run" /\ cproc[c] = p /\ pc[p] = "user"
      /\ pc' = [pc EXCEPT ![p] = "ret"]
      /\ killed' = [killed EXCEPT ![p] = TRUE]
      /\ UNCHANGED <<state, chan, pid, parent, plock, wait_lock, nextpid, cproc, cpc,
                     ci, back, i, j, kids, arg>>
  BY Zenon DEF At, On, Goto, cpuvars, locals, Fault
<1>1. TypeOK' BY <1>0, LabelNames, Parts, Zenon DEF TypeOK
<1>2. SchedInv' BY <1>0, Parts, SchedMoved, Zenon DEF Locked
<1>3. WaitInv' BY <1>0, Parts, WaitMoved, Zenon DEF WaitLocked
<1>4. ScanInv' BY <1>0, Parts, ScanMoved, Zenon DEF Scanning, Forking
<1>5. TreeInv' BY <1>0, Parts, TreeMoved, Zenon DEF Exiting
<1>6. WakeInv' BY <1>0, Parts, WakeMoved, Zenon DEF Watched
<1> QED BY <1>1, <1>2, <1>3, <1>4, <1>5, <1>6, Whole

\* A timer interrupt in user mode.
LEMMA TimerStep ==
  ASSUME IInv, NEW c \in CPUs, NEW p \in Procs, Timer(c, p)
  PROVE  IInv'
<1>0. /\ cpc[c] = "run" /\ cproc[c] = p /\ pc[p] = "user"
      /\ pc' = [pc EXCEPT ![p] = "tick"]
      /\ UNCHANGED <<state, chan, killed, pid, parent, plock, wait_lock, nextpid,
                     cproc, cpc, ci, back, i, j, kids, arg>>
  BY Zenon DEF At, On, Goto, procvars, cpuvars, locals, Timer
<1>1. TypeOK' BY <1>0, LabelNames, Parts, Zenon DEF TypeOK
<1>2. SchedInv' BY <1>0, Parts, SchedMoved, Zenon DEF Locked
<1>3. WaitInv' BY <1>0, Parts, WaitMoved, Zenon DEF WaitLocked
<1>4. ScanInv' BY <1>0, Parts, ScanMoved, Zenon DEF Scanning, Forking
<1>5. TreeInv' BY <1>0, Parts, TreeMoved, Zenon DEF Exiting
<1>6. WakeInv' BY <1>0, Parts, WakeMoved, Zenon DEF Watched
<1> QED BY <1>1, <1>2, <1>3, <1>4, <1>5, <1>6, Whole

\* usertrap() exits, returns or yields with no lock held.
LEMMA UserRetStep ==
  ASSUME IInv, NEW c \in CPUs, NEW p \in Procs, UserRet(c, p)
  PROVE  IInv'
<1>1. CASE killed[p]
  <2>0. /\ cpc[c] = "run" /\ cproc[c] = p /\ pc[p] \in {"ret", "tick"}
        /\ pc' = [pc EXCEPT ![p] = "exit"]
        /\ UNCHANGED <<state, chan, killed, pid, parent, plock, wait_lock, nextpid,
                       cproc, cpc, ci, back, i, j, kids, arg>>
    BY <1>1, Zenon DEF At, On, Goto, procvars, cpuvars, locals, UserRet
  <2>1. TypeOK' BY <2>0, LabelNames, Parts, Zenon DEF TypeOK
  <2>2. SchedInv' BY <2>0, Parts, SchedMoved, Zenon DEF Locked
  <2>3. WaitInv' BY <2>0, Parts, WaitMoved, Zenon DEF WaitLocked
  <2>4. ScanInv' BY <2>0, Parts, ScanMoved, Zenon DEF Scanning, Forking
  <2>5. TreeInv' BY <2>0, Parts, TreeMoved, Zenon DEF Exiting
  <2>6. WakeInv' BY <2>0, Parts, WakeMoved, Zenon DEF Watched
  <2> QED BY <2>1, <2>2, <2>3, <2>4, <2>5, <2>6, Whole
<1>2. CASE ~killed[p] /\ pc[p] = "ret"
  <2>0. /\ cpc[c] = "run" /\ cproc[c] = p /\ pc[p] = "ret"
        /\ pc' = [pc EXCEPT ![p] = "user"]
        /\ UNCHANGED <<state, chan, killed, pid, parent, plock, wait_lock, nextpid,
                       cproc, cpc, ci, back, i, j, kids, arg>>
    BY <1>2, Zenon DEF At, On, Goto, procvars, cpuvars, locals, UserRet
  <2>1. TypeOK' BY <2>0, LabelNames, Parts, Zenon DEF TypeOK
  <2>2. SchedInv' BY <2>0, Parts, SchedMoved, Zenon DEF Locked
  <2>3. WaitInv' BY <2>0, Parts, WaitMoved, Zenon DEF WaitLocked
  <2>4. ScanInv' BY <2>0, Parts, ScanMoved, Zenon DEF Scanning, Forking
  <2>5. TreeInv' BY <2>0, Parts, TreeMoved, Zenon DEF Exiting
  <2>6. WakeInv' BY <2>0, Parts, WakeMoved, Zenon DEF Watched
  <2> QED BY <2>1, <2>2, <2>3, <2>4, <2>5, <2>6, Whole
<1>3. CASE ~killed[p] /\ pc[p] = "tick"
  <2>0. /\ cpc[c] = "run" /\ cproc[c] = p /\ pc[p] = "tick"
        /\ state' = [state EXCEPT ![p] = "RUNNABLE"]
        /\ pc' = [pc EXCEPT ![p] = "sched"]
        /\ plock' = [plock EXCEPT ![p] = c]
        /\ back' = [back EXCEPT ![p] = "user"]
        /\ UNCHANGED <<chan, killed, pid, parent, wait_lock, nextpid, cproc, cpc, ci,
                       i, j, kids, arg>>
    BY <1>3, Zenon DEF At, On, Goto, Acquire, cpuvars, UserRet, yield
  <2>1. TypeOK' BY <2>0, StateNames, LabelNames, Parts, Zenon DEF TypeOK
  <2>2. SchedInv' BY <2>0, Parts, SchedYielded, Zenon DEF Locked
  <2>3. WaitInv' BY <2>0, Parts, WaitMoved, Zenon DEF WaitLocked
  <2>4. ScanInv'
    BY <2>0, Parts, SMTT(20), Z3T(60) DEF SchedInv, TypeOK, ThreadInv, ScanInv, Loc, Forking
  <2>5. TreeInv'
    <3>1. state[p] = "RUNNING" BY <2>0, Parts, Zenon DEF SchedInv, CpuInv
    <3> QED BY <2>0, <3>1, TreeKept, LabelNames, Parts, Zenon DEF Live
  <2>6. WakeInv' BY <2>0, Parts, WakeReadied, Zenon DEF Watched
  <2> QED BY <2>1, <2>2, <2>3, <2>4, <2>5, <2>6, Whole
<1> QED BY <1>1, <1>2, <1>3, Zenon DEF UserRet

-----------------------------------------------------------------------------
(* System call entry and fork() *)

\* Entering a system call changes nothing that others see.
LEMMA SyscallEntryStep ==
  ASSUME IInv, NEW c \in CPUs, NEW p \in Procs, Syscall(c, p)
  PROVE  IInv'
<1>1. CASE \E l \in {"exit", "fork", "wait", "ret"} : Goto(p, l) /\ UNCHANGED arg
  <2>0. /\ cpc[c] = "run" /\ cproc[c] = p /\ pc[p] = "user"
        /\ \E l \in {"exit", "fork", "wait", "ret"} : pc' = [pc EXCEPT ![p] = l]
        /\ UNCHANGED <<state, chan, killed, pid, parent, plock, wait_lock, nextpid,
                       cproc, cpc, ci, back, i, j, kids, arg>>
    BY <1>1, Zenon DEF At, On, Goto, procvars, cpuvars, Syscall
  <2>1. TypeOK' BY <2>0, LabelNames, Parts, SMTT(20), Z3T(60) DEF TypeOK
  <2>2. SchedInv' BY <2>0, Parts, SchedMoved, Zenon DEF Locked
  <2>3. WaitInv' BY <2>0, Parts, WaitMoved, Zenon DEF WaitLocked
  <2>4. ScanInv' BY <2>0, Parts, ScanMoved, Zenon DEF Scanning, Forking
  <2>5. TreeInv' BY <2>0, Parts, TreeMoved, Zenon DEF Exiting
  <2>6. WakeInv' BY <2>0, Parts, WakeMoved, Zenon DEF Watched
  <2> QED BY <2>1, <2>2, <2>3, <2>4, <2>5, <2>6, Whole
<1>2. CASE \E k \in KillPids : Goto(p, "kill") /\ arg' = [arg EXCEPT ![p] = k]
  <2>0. /\ cpc[c] = "run" /\ cproc[c] = p /\ pc[p] = "user"
        /\ \E k \in Nat : arg' = [arg EXCEPT ![p] = k]
        /\ pc' = [pc EXCEPT ![p] = "kill"]
        /\ UNCHANGED <<state, chan, killed, pid, parent, plock, wait_lock, nextpid,
                       cproc, cpc, ci, back, i, j, kids>>
    BY <1>2, ProcAssumption, Zenon DEF At, On, Goto, procvars, cpuvars, Syscall
  <2>1. TypeOK' BY <2>0, LabelNames, Parts, SMTT(20), Z3T(60) DEF TypeOK
  <2>2. SchedInv' BY <2>0, Parts, SchedMoved, Zenon DEF Locked
  <2>3. WaitInv' BY <2>0, Parts, WaitMoved, Zenon DEF WaitLocked
  <2>4. ScanInv' BY <2>0, Parts, ScanMoved, Zenon DEF Scanning, Forking
  <2>5. TreeInv' BY <2>0, Parts, TreeMoved, Zenon DEF Exiting
  <2>6. WakeInv' BY <2>0, Parts, WakeMoved, Zenon DEF Watched
  <2> QED BY <2>1, <2>2, <2>3, <2>4, <2>5, <2>6, Whole
<1> QED BY <1>1, <1>2, Zenon DEF Syscall

\* fork() hangs its USED child below itself.
LEMMA ForkParentStep ==
  ASSUME IInv, NEW c \in CPUs, NEW p \in Procs, ForkParent(c, p)
  PROVE  IInv'
<1>p. i[p] \in Procs /\ i[p] # p /\ state[i[p]] = "USED" /\ parent[i[p]] = NoProc
  BY Parts, ForkChild, Zenon DEF Forking, ForkParent, At, On
<1>0. /\ cpc[c] = "run" /\ cproc[c] = p /\ pc[p] = "fork_parent" /\ wait_lock = NoCpu
      /\ pc' = [pc EXCEPT ![p] = "fork_run"]
      /\ parent' = [parent EXCEPT ![i[p]] = p]
      /\ UNCHANGED <<state, chan, killed, pid, plock, wait_lock, nextpid, cproc, cpc,
                     ci, back, i, j, kids, arg>>
  BY Zenon DEF At, On, Goto, cpuvars, locals, ForkParent
<1>1. TypeOK' BY <1>0, LabelNames, Parts, Zenon DEF TypeOK
<1>2. SchedInv' BY <1>0, Parts, SchedMoved, Zenon DEF Locked
<1>3. WaitInv' BY <1>0, Parts, WaitMoved, Zenon DEF WaitLocked
<1>r. state[p] = "RUNNING" BY <1>0, Parts, Zenon DEF SchedInv, CpuInv
<1>n. pc[i[p]] = "forkret" BY <1>p, Parts, Zenon DEF SchedInv, ThreadInv
<1>4. ScanInv' BY <1>0, Parts, ScanHung, Zenon
<1>5. TreeInv' BY <1>0, <1>p, <1>r, Parts, TreeHung, Zenon DEF Exiting
<1>6. WakeInv' BY <1>0, <1>p, <1>n, Parts, WakeHung, Zenon DEF Watched, Exiting
<1> QED BY <1>1, <1>2, <1>3, <1>4, <1>5, <1>6, Whole

\* fork() lets its child run, which now has a live parent.
LEMMA ForkRunStep ==
  ASSUME IInv, NEW c \in CPUs, NEW p \in Procs, ForkRun(c, p)
  PROVE  IInv'
<1>p. i[p] \in Procs /\ i[p] # p /\ state[i[p]] = "USED" /\ parent[i[p]] = p
  BY Parts, ForkChild, Zenon DEF Forking, ForkRun, At, On
<1>0. /\ cpc[c] = "run" /\ cproc[c] = p /\ pc[p] = "fork_run" /\ plock[i[p]] = NoCpu
      /\ pc' = [pc EXCEPT ![p] = "ret"]
      /\ i' = [i EXCEPT ![p] = 1]
      /\ state' = [state EXCEPT ![i[p]] = "RUNNABLE"]
      /\ UNCHANGED <<chan, killed, pid, parent, plock, wait_lock, nextpid, cproc, cpc,
                     ci, back, j, kids, arg>>
  BY Zenon DEF At, On, Goto, Return, Unlocked, cpuvars, ForkRun
<1>1. TypeOK' BY <1>0, ScanStart, StateNames, LabelNames, Parts, Zenon DEF TypeOK
<1>2. SchedInv' BY <1>0, <1>p, Parts, SchedReadied, Zenon DEF Locked
<1>3. WaitInv' BY <1>0, Parts, WaitMoved, Zenon DEF WaitLocked
<1>4. ScanInv' BY <1>0, Parts, SMTT(20), Z3T(60) DEF TypeOK, ScanInv, Loc, Forking
<1>n. \A q \in Procs : q # p => i'[q] = i[q] BY <1>0, Parts, Zenon DEF TypeOK
<1>5. TreeInv' BY <1>0, <1>p, <1>n, Parts, TreeForked, Zenon DEF Exiting
<1>6. WakeInv' BY <1>0, <1>p, <1>n, Parts, WakeReadied, Zenon DEF Watched
<1> QED BY <1>1, <1>2, <1>3, <1>4, <1>5, <1>6, Whole

\* fork() takes an UNUSED slot, which nobody is on and nobody else forks into.
LEMMA ForkAllocStep ==
  ASSUME IInv, NEW c \in CPUs, NEW p \in Procs, ForkAlloc(c, p)
  PROVE  IInv'
<1>s. /\ i[p] \in Nat /\ NPROC \in Nat
      /\ i[p] <= NPROC => i[p] \in Procs /\ i[p] + 1 \in ScanPos
      /\ i[p] > NPROC => \A q \in Procs : q < i[p]
  BY ScanNext, Parts, Zenon DEF TypeOK
<1>1. CASE i[p] > NPROC /\ Return(p) /\ UNCHANGED <<procvars, nextpid>>
  <2>0. /\ cpc[c] = "run" /\ cproc[c] = p /\ pc[p] = "fork"
        /\ pc' = [pc EXCEPT ![p] = "ret"]
        /\ i' = [i EXCEPT ![p] = 1]
        /\ UNCHANGED <<state, chan, killed, pid, parent, plock, wait_lock, nextpid,
                       cproc, cpc, ci, back, j, kids, arg>>
    BY <1>1, Zenon DEF At, On, Goto, Return, procvars, cpuvars, ForkAlloc
  <2>1. TypeOK' BY <2>0, ScanStart, LabelNames, Parts, Zenon DEF TypeOK
  <2>2. SchedInv' BY <2>0, Parts, SchedMoved, Zenon DEF Locked
  <2>3. WaitInv' BY <2>0, Parts, WaitMoved, Zenon DEF WaitLocked
  <2>4. ScanInv' BY <2>0, Parts, ScanLeft, Zenon DEF Forking
  <2>5. TreeInv' BY <2>0, Parts, TreeMoved, Zenon DEF TypeOK, Exiting
  <2>6. WakeInv' BY <2>0, Parts, WakeMoved, Zenon DEF TypeOK, Watched
  <2> QED BY <2>1, <2>2, <2>3, <2>4, <2>5, <2>6, Whole
<1>2. CASE i[p] <= NPROC /\ i' = [i EXCEPT ![p] = i[p] + 1] /\ UNCHANGED <<procvars, nextpid, pc>>
  <2>0. /\ cpc[c] = "run" /\ cproc[c] = p /\ pc[p] = "fork"
        /\ i' = [i EXCEPT ![p] = i[p] + 1]
        /\ UNCHANGED <<state, chan, killed, pid, parent, plock, wait_lock, nextpid,
                       cproc, cpc, ci, pc, back, j, kids, arg>>
    BY <1>2, Zenon DEF At, On, procvars, cpuvars, ForkAlloc
  <2>n. i[p] + 1 \in ScanPos BY <1>s, <1>2, Zenon
  <2>1. TypeOK' BY <2>0, <2>n, Parts, Zenon DEF TypeOK
  <2>2. SchedInv' BY <2>0, Parts, SchedSame, Zenon
  <2>3. WaitInv' BY <2>0, Parts, WaitSame, Zenon
  <2>4. ScanInv' BY <2>0, Parts, ScanAdvanced, Zenon
  <2>5. TreeInv' BY <2>0, Parts, TreeAdvanced, Zenon DEF Exiting
  <2>6. WakeInv' BY <2>0, Parts, WakeAdvanced, Zenon
  <2> QED BY <2>1, <2>2, <2>3, <2>4, <2>5, <2>6, Whole
<1>3. ASSUME NEW n \in Procs, n = i[p], Unlocked(n), state[n] = "UNUSED", allocpid, allocproc(n),
             pc' = [pc EXCEPT ![p] = "fork_parent", ![n] = "forkret"],
             UNCHANGED <<chan, killed, parent, i>>
      PROVE  IInv'
  <2>0. /\ cpc[c] = "run" /\ cproc[c] = p /\ pc[p] = "fork" /\ plock[n] = NoCpu
        /\ nextpid' = nextpid + 1
        /\ pid' = [pid EXCEPT ![n] = nextpid]
        /\ state' = [state EXCEPT ![n] = "USED"]
        /\ UNCHANGED <<plock, wait_lock, cproc, cpc, ci, back, j, kids, arg>>
    BY <1>3, Zenon DEF At, On, Unlocked, cpuvars, ForkAlloc, allocproc, allocpid
  <2>u. /\ n # p /\ parent[n] = NoProc /\ Loc(n) \in {"forkret", "dead"}
        /\ \A q \in Procs : Loc(q) \in Forking => i[q] # n /\ state[i[q]] = "USED"
    BY <1>3, <2>0, UnusedSlot, Parts, Zenon
  <2>m. \A q \in Procs : /\ q # p /\ q # n => pc'[q] = pc[q]
                         /\ q = p => pc'[q] = "fork_parent"
                         /\ q = n => pc'[q] = "forkret"
    BY <1>3, <2>u, Parts, Zenon DEF TypeOK
  <2>f. pc[n] # "wakeup_init" /\ pc[n] \notin WaitLocked
    BY <1>3, <2>u, Parts, Zenon DEF SchedInv, ThreadInv, WaitLocked
  <2>1. TypeOK'
    <3>1. /\ pc' \in [Procs -> Labels]
          /\ state' \in [Procs -> States]
      BY <1>3, <2>0, StateNames, LabelNames, Parts, Zenon DEF TypeOK
    <3>2. /\ pid' \in [Procs -> Nat] /\ nextpid' \in Nat
      BY <2>0, Parts DEF TypeOK
    <3> QED BY <1>3, <2>0, <3>1, <3>2, Parts, Zenon DEF TypeOK
  <2>2. SchedInv' BY <1>3, <2>0, <2>u, Parts, SchedAllocated, Zenon
  <2>3. WaitInv'
    <3>1. \A q \in Procs : pc'[q] \in WaitLocked <=> pc[q] \in WaitLocked
      BY <2>0, <2>m, <2>f, Zenon DEF WaitLocked
    <3> QED BY <2>0, <3>1, Parts, WaitKept, Zenon
  <2>4. ScanInv' BY <1>3, <2>0, <2>u, Parts, ScanAllocated, Zenon
  <2>5. TreeInv'
    <3>1. \A q \in Procs : pc'[q] = pc[q] \/ pc'[q] \notin Exiting
      BY <2>m, Zenon DEF Exiting
    <3>2. pc[p] \notin Exiting BY <2>0, Zenon DEF Exiting
    <3>3. \A q \in Procs : i'[q] = i[q] /\ parent'[q] = parent[q] BY <1>3, Zenon
    <3> QED BY <1>3, <2>0, <3>1, <3>2, <3>3, Parts, TreeAllocated, Zenon
  <2>6. WakeInv'
    <3>1. \A q \in Procs : pc'[q] = pc[q]
            \/ /\ pc[q] # "wakeup_init"
               /\ pc'[q] \notin Exiting \cup {"wait_scan", "wait_check", "sleep", "sleeping"}
      BY <2>0, <2>m, <2>f, Zenon DEF Exiting
    <3>2. pc'[p] # "wait_scan" BY <2>m, Zenon
    <3>3. \A q \in Procs : pc[q] \in Exiting => parent[q] # NoProc
      BY Parts, ExitingParent, Zenon
    <3> QED BY <1>3, <2>0, <3>1, <3>2, <3>3, Parts, WakeAllocated, Zenon
  <2> QED BY <2>1, <2>2, <2>3, <2>4, <2>5, <2>6, Whole
<1>4. ASSUME NEW n \in Procs, n = i[p], Unlocked(n), state[n] = "UNUSED", allocpid, freeproc(n),
             Return(p)
      PROVE  IInv'
  <2>0. /\ cpc[c] = "run" /\ cproc[c] = p /\ pc[p] = "fork" /\ plock[n] = NoCpu
        /\ pc' = [pc EXCEPT ![p] = "ret"]
        /\ i' = [i EXCEPT ![p] = 1]
        /\ state' = [state EXCEPT ![n] = "UNUSED"]
        /\ pid' = [pid EXCEPT ![n] = 0]
        /\ parent' = [parent EXCEPT ![n] = NoProc]
        /\ chan' = [chan EXCEPT ![n] = NoProc]
        /\ killed' = [killed EXCEPT ![n] = FALSE]
        /\ nextpid' = nextpid + 1
        /\ UNCHANGED <<plock, wait_lock, cproc, cpc, ci, back, j, kids, arg>>
    BY <1>4, Zenon DEF At, On, Goto, Return, Unlocked, cpuvars, ForkAlloc, freeproc, allocpid
  <2>u. n # p /\ parent[n] = NoProc
    BY <1>4, <2>0, UnusedSlot, Parts, Zenon
  <2>m. state' = state /\ \A q \in Procs : q # p => i'[q] = i[q]
    BY <1>4, <2>0, Parts, Zenon DEF TypeOK
  <2>1. TypeOK'
    <3>1. nextpid' \in Nat /\ 0 \in Nat BY <2>0, Parts DEF TypeOK
    <3> QED
      BY <1>4, <2>0, <2>m, <3>1, ScanStart, LabelNames, Parts, Zenon DEF TypeOK
  <2>2. SchedInv' BY <1>4, <2>0, <2>u, Parts, SchedFreed, Zenon DEF Locked
  <2>3. WaitInv' BY <2>0, Parts, WaitMoved, Zenon DEF WaitLocked
  <2>p. parent' = parent BY <2>0, <2>u, Parts, Zenon DEF TypeOK
  <2>4. ScanInv' BY <2>0, <2>m, <2>p, Parts, ScanLeft, Zenon DEF Forking
  <2>5. TreeInv' BY <2>0, <2>m, <2>p, Parts, TreeMoved, Zenon DEF Exiting
  <2>6. WakeInv' BY <2>0, <2>m, <2>p, Parts, WakeMoved, Zenon DEF Watched
  <2> QED BY <2>1, <2>2, <2>3, <2>4, <2>5, <2>6, Whole
<1> QED BY <1>s, <1>1, <1>2, <1>3, <1>4, Zenon DEF ForkAlloc

-----------------------------------------------------------------------------
(* What the steps of wait(), exit() and kill() do to one conjunct *)

\* One thread at a time is in a section of wait_lock.
LEMMA WaitExclusive ==
  ASSUME WaitInv
  PROVE  \A p, q \in Procs : pc[p] \in WaitLocked /\ pc[q] \in WaitLocked => p = q
  BY DEF WaitInv, On

\* A process whose lock is free and that is not asleep on itself is not about
\* to sleep either.
LEMMA NotDozing ==
  ASSUME TypeOK, SchedInv, NEW n \in Procs, plock[n] = NoCpu,
         ~(state[n] = "SLEEPING" /\ chan[n] = n)
  PROVE  ~Dozing(n)
  BY InitSlot DEF TypeOK, SchedInv, CpuInv, OffInv, ThreadInv, Locked, Dozing

\* A sleeper is in the scheduling code, asleep on itself.
LEMMA Sleeper ==
  ASSUME SchedInv, NEW n \in Procs, state[n] = "SLEEPING"
  PROVE  pc[n] # "sleeping" /\ chan[n] = n
  BY DEF SchedInv, ThreadInv

\* sleep() takes p->lock.
LEMMA SchedDozed ==
  ASSUME TypeOK, SchedInv, NEW c \in CPUs, NEW p \in Procs, cpc[c] = "run", cproc[c] = p,
         pc[p] \notin Locked, pc' = [pc EXCEPT ![p] = "sleeping"],
         plock' = [plock EXCEPT ![p] = c],
         state' = state, chan' = chan, cproc' = cproc, cpc' = cpc, ci' = ci, back' = back
  PROVE  SchedInv'
  BY InitSlot DEF TypeOK, SchedInv, OneCpu, CpuInv, LockInv, OffInv, ThreadInv, Locked

\* sleep() goes to sched() with p->lock held.
LEMMA SchedSlept ==
  ASSUME TypeOK, SchedInv, NEW c \in CPUs, NEW p \in Procs, cpc[c] = "run", cproc[c] = p,
         pc[p] = "sleeping", pc' = [pc EXCEPT ![p] = "sched"],
         state' = [state EXCEPT ![p] = "SLEEPING"], back' = [back EXCEPT ![p] = "sleep"],
         chan' = [chan EXCEPT ![p] = p],
         plock' = plock, cproc' = cproc, cpc' = cpc, ci' = ci
  PROVE  SchedInv'
  BY DEF TypeOK, SchedInv, OneCpu, CpuInv, LockInv, OffInv, ThreadInv, Locked

\* exit() goes to sched() with p->lock held.
LEMMA SchedDied ==
  ASSUME TypeOK, SchedInv, NEW c \in CPUs, NEW p \in Procs, cpc[c] = "run", cproc[c] = p,
         pc[p] = "zombie", pc' = [pc EXCEPT ![p] = "sched"],
         state' = [state EXCEPT ![p] = "ZOMBIE"], back' = [back EXCEPT ![p] = "dead"],
         plock' = [plock EXCEPT ![p] = c],
         chan' = chan, cproc' = cproc, cpc' = cpc, ci' = ci
  PROVE  SchedInv'
  BY InitSlot DEF TypeOK, SchedInv, OneCpu, CpuInv, LockInv, OffInv, ThreadInv, Locked

\* A thread that scans nothing goes into the scheduling code.
LEMMA ScanAsleep ==
  ASSUME TypeOK, ScanInv, NEW p \in Procs, pc[p] \in {"sleeping", "zombie"},
         pc' = [pc EXCEPT ![p] = "sched"], NEW b \in {"sleep", "dead"},
         back' = [back EXCEPT ![p] = b], state[p] # "USED",
         NEW s, state' = [state EXCEPT ![p] = s],
         parent' = parent, i' = i, j' = j
  PROVE  ScanInv'
  BY DEF TypeOK, ScanInv, Loc, Forking

\* A thread leaves a scan, and a slot that no fork() uses changes.
LEMMA ScanLeftSlot ==
  ASSUME TypeOK, ScanInv, NEW p \in Procs, pc[p] \in {"wait_scan", "kill"},
         pc' = [pc EXCEPT ![p] = "ret"], i' = [i EXCEPT ![p] = 1],
         NEW n \in Procs, state[n] \in {"ZOMBIE", "SLEEPING"},
         \A q \in Procs : q # n => state'[q] = state[q] /\ parent'[q] = parent[q],
         back' = back, j' = j
  PROVE  ScanInv'
  BY DEF TypeOK, ScanInv, Loc, Forking

\* reparent() changes no fork()'s child.
LEMMA ScanGiven ==
  ASSUME TypeOK, ScanInv, NEW p \in Procs, pc[p] = "reparent", parent[i[p]] = p,
         pc' = [pc EXCEPT ![p] = "wakeup_init"],
         parent' = [parent EXCEPT ![i[p]] = initproc],
         state' = state, back' = back, i' = i, j' = j
  PROVE  ScanInv'
  BY InitSlot DEF TypeOK, ScanInv, Loc, Forking

\* A wakeup() goes on.
LEMMA ScanWaking ==
  ASSUME TypeOK, ScanInv, NEW p \in Procs, pc[p] \in {"wakeup_init", "wakeup_parent"},
         \A q \in Procs : state[q] = "USED" => state'[q] = "USED",
         \A q \in Procs : q # p => j'[q] = j[q],
         pc' = pc, parent' = parent, back' = back, i' = i
  PROVE  ScanInv'
  BY DEF TypeOK, ScanInv, Loc, Forking

\* A wakeup() ends.
LEMMA ScanWoken ==
  ASSUME TypeOK, ScanInv, NEW p \in Procs, pc[p] \in {"wakeup_init", "wakeup_parent"},
         NEW l \in {"reparent", "zombie"}, pc' = [pc EXCEPT ![p] = l],
         j' = [j EXCEPT ![p] = 1], \A q \in Procs : q # p => i'[q] = i[q],
         l = "zombie" => i'[p] = 1,
         state' = state, parent' = parent, back' = back
  PROVE  ScanInv'
  BY DEF TypeOK, ScanInv, Loc, Forking

\* A zombie leaves the tree.
LEMMA TreeReaped ==
  ASSUME TypeOK, TreeInv, NEW p \in Procs, NEW l, l \notin Exiting,
         pc' = [pc EXCEPT ![p] = l], \A q \in Procs : q # p => i'[q] = i[q],
         NEW n \in Procs, state[n] = "ZOMBIE", state' = [state EXCEPT ![n] = "UNUSED"],
         parent' = [parent EXCEPT ![n] = NoProc]
  PROVE  TreeInv'
  BY InitSlot DEF TypeOK, TreeInv, Exiting, Live

\* A sleeper stays in the tree when it wakes up.
LEMMA TreeWoken ==
  ASSUME TypeOK, TreeInv, NEW n \in Procs, state[n] = "SLEEPING",
         state' = [state EXCEPT ![n] = "RUNNABLE"],
         \A q \in Procs : /\ pc'[q] = pc[q] \/ pc'[q] \notin Exiting
                          /\ pc[q] \in Exiting => i'[q] = i[q],
         parent' = parent
  PROVE  TreeInv'
  BY InitSlot DEF TypeOK, TreeInv, Exiting, Live

\* exit() starts to walk the tree.
LEMMA TreeExits ==
  ASSUME TypeOK, TreeInv, NEW p \in Procs, p # initproc, i[p] = 1,
         pc' = [pc EXCEPT ![p] = "reparent"],
         state' = state, parent' = parent, i' = i
  PROVE  TreeInv'
  BY SlotNat DEF TypeOK, TreeInv

\* reparent() ends: the process has no children.
LEMMA TreeChildless ==
  ASSUME TypeOK, TreeInv, NEW p \in Procs,
         (pc[p] = "reparent" /\ \A q \in Procs : q < i[p]) \/ pc[p] = "wakeup_parent",
         NEW l \in {"wakeup_parent", "zombie"}, pc' = [pc EXCEPT ![p] = l],
         \A q \in Procs : q # p => i'[q] = i[q],
         state' = state, parent' = parent
  PROVE  TreeInv'
  BY DEF TypeOK, TreeInv

\* reparent() gives a child to init.
LEMMA TreeGiven ==
  ASSUME TypeOK, TreeInv, NEW p \in Procs, pc[p] = "reparent", i[p] \in Procs,
         parent[i[p]] = p, pc' = [pc EXCEPT ![p] = "wakeup_init"],
         parent' = [parent EXCEPT ![i[p]] = initproc], state' = state, i' = i
  PROVE  TreeInv'
<1>1. \A q \in Procs : q <= i[p] => q < i[p] \/ q = i[p] BY SlotNat
<1> QED BY <1>1, InitSlot DEF TypeOK, TreeInv, Live

\* reparent() goes on past a slot that is not, or no longer, a child.
LEMMA TreePassed ==
  ASSUME TypeOK, TreeInv, NEW p \in Procs, i[p] \in Procs,
         (pc[p] = "reparent" /\ parent[i[p]] # p) \/ pc[p] = "wakeup_init",
         pc' = [pc EXCEPT ![p] = "reparent"], i' = [i EXCEPT ![p] = i[p] + 1],
         state' = state, parent' = parent
  PROVE  TreeInv'
<1>1. \A q \in Procs : q < i[p] + 1 => q <= i[p] /\ (q < i[p] \/ q = i[p]) BY SlotNat
<1> QED BY <1>1 DEF TypeOK, TreeInv

\* A wakeup() changes nothing in the tree but who sleeps.
LEMMA TreeSame ==
  ASSUME TreeInv, state' = state, pc' = pc, i' = i, parent' = parent
  PROVE  TreeInv'
  BY DEF TreeInv

\* exit() leaves a process without children.
LEMMA TreeDied ==
  ASSUME TypeOK, TreeInv, NEW p \in Procs, pc[p] = "zombie", state[p] \in Live,
         pc' = [pc EXCEPT ![p] = "sched"], state' = [state EXCEPT ![p] = "ZOMBIE"],
         parent' = parent, i' = i
  PROVE  TreeInv'
  BY InitSlot DEF TypeOK, TreeInv, Live

\* wait() starts a scan at the first slot.
LEMMA WakeScanStart ==
  ASSUME TypeOK, WakeInv, NEW p \in Procs, i[p] = 1, pc[p] = "wait",
         pc' = [pc EXCEPT ![p] = "wait_scan"],
         state' = state, parent' = parent, i' = i, j' = j
  PROVE  WakeInv'
  BY SlotNat DEF TypeOK, WakeInv, Dozing

\* wait() goes on past a slot that is no zombie child.
LEMMA WakeScanNext ==
  ASSUME TypeOK, WakeInv, NEW p \in Procs, i[p] \in Procs, pc[p] = "wait_scan",
         parent[i[p]] = p => state[i[p]] # "ZOMBIE",
         i' = [i EXCEPT ![p] = i[p] + 1],
         state' = state, parent' = parent, pc' = pc, j' = j
  PROVE  WakeInv'
<1>1. \A q \in Procs : q >= i[p] => q = i[p] \/ q >= i[p] + 1 BY SlotNat
<1> QED BY <1>1 DEF TypeOK, WakeInv, Dozing

\* wait() has scanned the whole table.
LEMMA WakeScanEnd ==
  ASSUME TypeOK, WakeInv, NEW p \in Procs, \A q \in Procs : q < i[p], i[p] \in Nat,
         pc[p] = "wait_scan", pc' = [pc EXCEPT ![p] = "wait_check"],
         \A q \in Procs : q # p => i'[q] = i[q],
         state' = state, parent' = parent, j' = j
  PROVE  WakeInv'
<1>1. \A q \in Procs : ~(q >= i[p]) BY SlotNat
<1> QED BY <1>1 DEF TypeOK, WakeInv, Dozing

\* A process without zombie children goes to sleep().
LEMMA WakeSleep ==
  ASSUME TypeOK, WakeInv, NEW p \in Procs, pc[p] = "wait_check",
         pc' = [pc EXCEPT ![p] = "sleep"],
         state' = state, parent' = parent, i' = i, j' = j
  PROVE  WakeInv'
  BY DEF TypeOK, WakeInv, Dozing

\* It gives up wait_lock; nobody exits while it holds it.
LEMMA WakeDozed ==
  ASSUME TypeOK, WakeInv, NEW p \in Procs, pc[p] = "sleep",
         \A q \in Procs : pc[q] \in {"wakeup_parent", "zombie"} => q = p,
         pc' = [pc EXCEPT ![p] = "sleeping"],
         state' = state, parent' = parent, i' = i, j' = j
  PROVE  WakeInv'
  BY DEF TypeOK, WakeInv, Dozing

\* It was about to sleep, and now sleeps.
LEMMA WakeSlept ==
  ASSUME TypeOK, WakeInv, NEW p \in Procs, pc[p] = "sleeping",
         pc' = [pc EXCEPT ![p] = "sched"], state' = [state EXCEPT ![p] = "SLEEPING"],
         parent' = parent, i' = i, j' = j
  PROVE  WakeInv'
  BY DEF TypeOK, WakeInv, Dozing

\* A zombie is freed.
LEMMA WakeReaped ==
  ASSUME TypeOK, WakeInv, NEW p \in Procs, pc[p] = "wait_scan",
         pc' = [pc EXCEPT ![p] = "ret"], \A q \in Procs : q # p => i'[q] = i[q],
         NEW n \in Procs, n # p, state[n] = "ZOMBIE", pc[n] \notin Watched,
         state' = [state EXCEPT ![n] = "UNUSED"],
         parent' = [parent EXCEPT ![n] = NoProc], j' = j
  PROVE  WakeInv'
  BY DEF TypeOK, WakeInv, Dozing, Watched

\* exit() starts its wakeup() of the parent.
LEMMA WakeToParent ==
  ASSUME TypeOK, WakeInv, NEW p \in Procs, pc[p] = "reparent", j[p] = 1, parent[p] \in Procs,
         pc' = [pc EXCEPT ![p] = "wakeup_parent"],
         \A q \in Procs : q # p => i'[q] = i[q],
         state' = state, parent' = parent, j' = j
  PROVE  WakeInv'
<1>1. ~(j[p] > parent[p]) BY SlotNat
<1> QED BY <1>1 DEF TypeOK, WakeInv, Dozing

\* init gets a child, and its wakeup() starts; it is not in wait()'s scan.
LEMMA WakeGiven ==
  ASSUME TypeOK, WakeInv, NEW p \in Procs, pc[p] = "reparent", j[p] = 1,
         \A q \in Procs : pc[q] \in WaitLocked => q = p,
         pc' = [pc EXCEPT ![p] = "wakeup_init"],
         parent' = [parent EXCEPT ![i[p]] = initproc],
         state' = state, i' = i, j' = j
  PROVE  WakeInv'
  BY InitSlot DEF TypeOK, WakeInv, WaitLocked, Dozing

\* A wakeup() goes past a slot that is not asleep on its channel.
LEMMA WakePassed ==
  ASSUME TypeOK, WakeInv, NEW p \in Procs, pc[p] \in {"wakeup_init", "wakeup_parent"},
         pc[p] = "wakeup_init" /\ j[p] = 1 => ~Dozing(initproc),
         pc[p] = "wakeup_parent" /\ j'[p] > parent[p] => ~Dozing(parent[p]),
         \A q \in Procs : q # p => j'[q] = j[q],
         pc' = pc, state' = state, parent' = parent, i' = i
  PROVE  WakeInv'
<1>0. \A q : Dozing(q)' <=> Dozing(q) BY Zenon DEF Dozing
<1>1. ASSUME NEW q \in Procs, NEW r \in Procs, parent[r] = q, state[r] = "ZOMBIE"
      PROVE  /\ (pc[q] = "wait_scan" => r >= i[q])
             /\ pc[q] \notin {"wait_check", "sleep"}
             /\ (Dozing(q) => q = initproc /\ \E x \in Procs : pc[x] = "wakeup_init" /\ j'[x] = 1)
  BY <1>1, Zenon DEF WakeInv
<1>2. ASSUME NEW q \in Procs, pc[q] = "zombie" \/ (pc[q] = "wakeup_parent" /\ j'[q] > parent[q])
      PROVE  ~Dozing(parent[q])
  <2>1. CASE q = p BY <1>2, <2>1, Zenon
  <2>2. CASE q # p BY <1>2, <2>2, Zenon DEF WakeInv
  <2> QED BY <2>1, <2>2, Zenon
<1> QED BY <1>0, <1>1, <1>2, Zenon DEF WakeInv

\* A wakeup() wakes the process it is for.
LEMMA WakeWoken ==
  ASSUME TypeOK, WakeInv, \A q \in Procs : pc[q] \in Exiting => parent[q] # NoProc,
         NEW p \in Procs, pc[p] \in {"wakeup_init", "wakeup_parent"},
         NEW n \in Procs, n = IF pc[p] = "wakeup_init" THEN initproc ELSE parent[p],
         pc[n] # "sleeping", state' = [state EXCEPT ![n] = "RUNNABLE"],
         \A q \in Procs : q # p => j'[q] = j[q],
         pc' = pc, parent' = parent, i' = i
  PROVE  WakeInv'
<1>0. \A q \in Procs : (Dozing(q)' <=> Dozing(q) /\ q # n) /\ (state'[q] = "ZOMBIE" => state[q] = "ZOMBIE")
  BY Zenon DEF Dozing, TypeOK
<1>1. ASSUME NEW q \in Procs, NEW r \in Procs, parent[r] = q, state[r] = "ZOMBIE"
      PROVE  /\ (pc[q] = "wait_scan" => r >= i[q])
             /\ pc[q] \notin {"wait_check", "sleep"}
             /\ (Dozing(q) /\ q # n => q = initproc /\ \E x \in Procs : pc[x] = "wakeup_init" /\ j'[x] = 1)
  BY <1>1, Zenon DEF WakeInv
<1>2. ASSUME NEW q \in Procs, pc[q] = "zombie" \/ (pc[q] = "wakeup_parent" /\ j'[q] > parent[q])
      PROVE  parent[q] \in Procs /\ ~(Dozing(parent[q]) /\ parent[q] # n)
  <2>0. parent[q] \in Procs BY <1>2, Zenon DEF TypeOK, Exiting
  <2>1. CASE q = p
    <3>1. n = parent[p] BY <1>2, <2>1
    <3> QED BY <2>0, <2>1, <3>1, Zenon
  <2>2. CASE q # p BY <1>2, <2>0, <2>2, Zenon DEF WakeInv
  <2> QED BY <2>1, <2>2, Zenon
<1>3. \A q \in Procs : pc[q] = "zombie" \/ (pc[q] = "wakeup_parent" /\ j'[q] > parent[q])
        => ~Dozing(parent[q])'
  BY <1>0, <1>2, Zenon DEF Dozing
<1>4. ASSUME NEW q \in Procs, NEW r \in Procs, parent'[r] = q, state'[r] = "ZOMBIE"
      PROVE  /\ (pc'[q] = "wait_scan" => r >= i'[q])
             /\ pc'[q] \notin {"wait_check", "sleep"}
             /\ (Dozing(q)' => q = initproc /\ \E x \in Procs : pc'[x] = "wakeup_init" /\ j'[x] = 1)
  BY <1>0, <1>1, <1>4, Zenon
<1> QED BY <1>3, <1>4, Zenon DEF WakeInv

\* The wakeup() of init has passed init when it ends.
LEMMA WakeInitDone ==
  ASSUME TypeOK, WakeInv, NEW p \in Procs, pc[p] = "wakeup_init", j[p] # 1,
         pc' = [pc EXCEPT ![p] = "reparent"],
         \A q \in Procs : q # p => i'[q] = i[q] /\ j'[q] = j[q],
         state' = state, parent' = parent
  PROVE  WakeInv'
  BY DEF TypeOK, WakeInv, Dozing

\* The wakeup() of the parent has passed the parent when it ends.
LEMMA WakeParentDone ==
  ASSUME TypeOK, WakeInv, NEW p \in Procs, pc[p] = "wakeup_parent", j[p] > parent[p],
         pc' = [pc EXCEPT ![p] = "zombie"], \A q \in Procs : q # p => j'[q] = j[q],
         state' = state, parent' = parent, i' = i
  PROVE  WakeInv'
  BY DEF TypeOK, WakeInv, Dozing

\* A process becomes a ZOMBIE; its parent is awake and not in wait()'s scan.
LEMMA WakeDied ==
  ASSUME TypeOK, WakeInv, NEW p \in Procs, pc[p] = "zombie",
         \A q \in Procs : pc[q] \in WaitLocked => q = p,
         pc' = [pc EXCEPT ![p] = "sched"], state' = [state EXCEPT ![p] = "ZOMBIE"],
         parent' = parent, i' = i, j' = j
  PROVE  WakeInv'
  BY DEF TypeOK, WakeInv, WaitLocked, Dozing

-----------------------------------------------------------------------------
(* wait() and sleep() *)

\* A thread on a CPU, outside of sched(), is RUNNING.
LEMMA ActiveIsRunning ==
  ASSUME IInv, NEW c \in CPUs, NEW p \in Procs, On(c, p), pc[p] # "sched"
  PROVE  state[p] = "RUNNING"
  BY Parts DEF SchedInv, CpuInv, On

\* wait() begins a scan with wait_lock held.
LEMMA WaitLockStep ==
  ASSUME IInv, NEW c \in CPUs, NEW p \in Procs, WaitLock(c, p)
  PROVE  IInv'
<1>0. /\ cpc[c] = "run" /\ cproc[c] = p /\ pc[p] = "wait" /\ wait_lock = NoCpu
      /\ pc' = [pc EXCEPT ![p] = "wait_scan"]
      /\ wait_lock' = c
      /\ kids' = [kids EXCEPT ![p] = FALSE]
      /\ UNCHANGED <<state, chan, killed, pid, parent, plock, nextpid, cproc, cpc, ci,
                     back, i, j, arg>>
  BY Zenon DEF At, On, Goto, procvars, cpuvars, WaitLock
<1>1. TypeOK' BY <1>0, LabelNames, Parts, Zenon DEF TypeOK
<1>2. SchedInv' BY <1>0, Parts, SchedMoved, Zenon DEF Locked
<1>3. WaitInv' BY <1>0, Parts, WaitTaken, Zenon DEF WaitLocked
<1>4. ScanInv' BY <1>0, Parts, ScanMoved, Zenon DEF Scanning, Forking
<1>5. TreeInv' BY <1>0, Parts, TreeMoved, Zenon DEF Exiting
<1>wa0. i[p] = 1 BY <1>0, Parts, Zenon DEF ScanInv, Loc, Forking
<1>6. WakeInv' BY <1>0, <1>wa0, Parts, WakeScanStart, Zenon
<1> QED BY <1>1, <1>2, <1>3, <1>4, <1>5, <1>6, Whole

\* wait() frees a zombie child that has left its stack, or goes on.
LEMMA WaitScanStep ==
  ASSUME IInv, NEW c \in CPUs, NEW p \in Procs, WaitScan(c, p)
  PROVE  IInv'
<1>s. /\ i[p] \in Nat /\ NPROC \in Nat
      /\ i[p] <= NPROC => i[p] \in Procs /\ i[p] + 1 \in ScanPos
      /\ i[p] > NPROC => \A q \in Procs : q < i[p]
  BY ScanNext, Parts, Zenon DEF TypeOK
<1>1. CASE /\ i[p] > NPROC /\ Goto(p, "wait_check") /\ i' = [i EXCEPT ![p] = 1]
           /\ UNCHANGED <<procvars, wait_lock, kids>>
  <2>0. /\ cpc[c] = "run" /\ cproc[c] = p /\ pc[p] = "wait_scan"
        /\ pc' = [pc EXCEPT ![p] = "wait_check"]
        /\ i' = [i EXCEPT ![p] = 1]
        /\ UNCHANGED <<state, chan, killed, pid, parent, plock, wait_lock, nextpid,
                       cproc, cpc, ci, back, j, kids, arg>>
    BY <1>1, Zenon DEF At, On, Goto, procvars, cpuvars, WaitScan
  <2>1. TypeOK' BY <2>0, ScanStart, LabelNames, Parts, Zenon DEF TypeOK
  <2>2. SchedInv' BY <2>0, Parts, SchedMoved, Zenon DEF Locked
  <2>3. WaitInv' BY <2>0, Parts, WaitMoved, Zenon DEF WaitLocked
  <2>4. ScanInv' BY <2>0, Parts, ScanLeft, Zenon DEF Forking
  <2>5. TreeInv' BY <2>0, Parts, TreeMoved, Zenon DEF TypeOK, Exiting
  <2>6. WakeInv'
    <3>1. \A q \in Procs : q < i[p] BY <1>s, <1>1, Zenon
    <3>2. \A q \in Procs : q # p => i'[q] = i[q] BY <2>0, Parts, Zenon DEF TypeOK
    <3> QED BY <1>s, <2>0, <3>1, <3>2, Parts, WakeScanEnd, Zenon
  <2> QED BY <2>1, <2>2, <2>3, <2>4, <2>5, <2>6, Whole
<1>2. CASE /\ i[p] <= NPROC /\ parent[i[p]] # p /\ i' = [i EXCEPT ![p] = i[p] + 1]
           /\ UNCHANGED <<procvars, wait_lock, kids, pc>>
  <2>0. /\ cpc[c] = "run" /\ cproc[c] = p /\ pc[p] = "wait_scan"
        /\ i' = [i EXCEPT ![p] = i[p] + 1]
        /\ UNCHANGED <<state, chan, killed, pid, parent, plock, wait_lock, nextpid,
                       cproc, cpc, ci, pc, back, j, kids, arg>>
    BY <1>2, Zenon DEF At, On, procvars, cpuvars, WaitScan
  <2>n. i[p] \in Procs /\ i[p] + 1 \in ScanPos BY <1>s, <1>2, Zenon
  <2>1. TypeOK' BY <2>0, <2>n, Parts, Zenon DEF TypeOK
  <2>2. SchedInv' BY <2>0, Parts, SchedSame, Zenon
  <2>3. WaitInv' BY <2>0, Parts, WaitSame, Zenon
  <2>4. ScanInv' BY <2>0, Parts, ScanAdvanced, Zenon
  <2>5. TreeInv' BY <2>0, Parts, TreeAdvanced, Zenon DEF Exiting
  <2>6. WakeInv' BY <1>2, <2>0, <2>n, Parts, WakeScanNext, Zenon
  <2> QED BY <2>1, <2>2, <2>3, <2>4, <2>5, <2>6, Whole
<1>3. CASE /\ i[p] <= NPROC /\ parent[i[p]] = p /\ state[i[p]] # "ZOMBIE"
           /\ i' = [i EXCEPT ![p] = i[p] + 1] /\ kids' = [kids EXCEPT ![p] = TRUE]
           /\ UNCHANGED <<procvars, wait_lock, pc>>
  <2>0. /\ cpc[c] = "run" /\ cproc[c] = p /\ pc[p] = "wait_scan"
        /\ i' = [i EXCEPT ![p] = i[p] + 1]
        /\ kids' = [kids EXCEPT ![p] = TRUE]
        /\ UNCHANGED <<state, chan, killed, pid, parent, plock, wait_lock, nextpid,
                       cproc, cpc, ci, pc, back, j, arg>>
    BY <1>3, Zenon DEF At, On, procvars, cpuvars, WaitScan
  <2>n. i[p] \in Procs /\ i[p] + 1 \in ScanPos BY <1>s, <1>3, Zenon
  <2>1. TypeOK' BY <2>0, <2>n, Parts, Zenon DEF TypeOK
  <2>2. SchedInv' BY <2>0, Parts, SchedSame, Zenon
  <2>3. WaitInv' BY <2>0, Parts, WaitSame, Zenon
  <2>4. ScanInv' BY <2>0, Parts, ScanAdvanced, Zenon
  <2>5. TreeInv' BY <2>0, Parts, TreeAdvanced, Zenon DEF Exiting
  <2>6. WakeInv' BY <1>3, <2>0, <2>n, Parts, WakeScanNext, Zenon
  <2> QED BY <2>1, <2>2, <2>3, <2>4, <2>5, <2>6, Whole
<1>4. CASE /\ wait_lock' = NoCpu /\ kids' = [kids EXCEPT ![p] = FALSE] /\ Return(p)
           /\ UNCHANGED procvars
  <2>0. /\ cpc[c] = "run" /\ cproc[c] = p /\ pc[p] = "wait_scan"
        /\ pc' = [pc EXCEPT ![p] = "ret"]
        /\ i' = [i EXCEPT ![p] = 1]
        /\ wait_lock' = NoCpu
        /\ kids' = [kids EXCEPT ![p] = FALSE]
        /\ UNCHANGED <<state, chan, killed, pid, parent, plock, nextpid, cproc, cpc,
                       ci, back, j, arg>>
    BY <1>4, Zenon DEF At, On, Goto, Return, procvars, cpuvars, WaitScan
  <2>1. TypeOK' BY <2>0, ScanStart, LabelNames, Parts, Zenon DEF TypeOK
  <2>2. SchedInv' BY <2>0, Parts, SchedMoved, Zenon DEF Locked
  <2>3. WaitInv' BY <2>0, Parts, WaitGiven, Zenon DEF WaitLocked
  <2>4. ScanInv' BY <2>0, Parts, ScanLeft, Zenon DEF Forking
  <2>5. TreeInv' BY <2>0, Parts, TreeMoved, Zenon DEF TypeOK, Exiting
  <2>6. WakeInv' BY <2>0, Parts, WakeMoved, Zenon DEF TypeOK, Watched
  <2> QED BY <2>1, <2>2, <2>3, <2>4, <2>5, <2>6, Whole
<1>5. ASSUME NEW n \in Procs, n = i[p], parent[n] = p, Unlocked(n), state[n] = "ZOMBIE",
             wait_lock' = NoCpu, kids' = [kids EXCEPT ![p] = FALSE], Return(p), freeproc(n)
      PROVE  IInv'
  <2>0. /\ cpc[c] = "run" /\ cproc[c] = p /\ pc[p] = "wait_scan" /\ plock[n] = NoCpu
        /\ pc' = [pc EXCEPT ![p] = "ret"]
        /\ i' = [i EXCEPT ![p] = 1]
        /\ state' = [state EXCEPT ![n] = "UNUSED"]
        /\ pid' = [pid EXCEPT ![n] = 0]
        /\ parent' = [parent EXCEPT ![n] = NoProc]
        /\ chan' = [chan EXCEPT ![n] = NoProc]
        /\ killed' = [killed EXCEPT ![n] = FALSE]
        /\ wait_lock' = NoCpu
        /\ kids' = [kids EXCEPT ![p] = FALSE]
        /\ UNCHANGED <<plock, nextpid, cproc, cpc, ci, back, j, arg>>
    BY <1>5, Zenon DEF At, On, Goto, Return, Unlocked, cpuvars, WaitScan, freeproc
  <2>r. state[p] = "RUNNING" BY <2>0, Parts, ActiveIsRunning, Zenon DEF On
  <2>z. n # p /\ pc[n] \notin Watched
    BY <1>5, <2>r, Parts, Zenon DEF SchedInv, ThreadInv, Watched
  <2>m. /\ \A q \in Procs : q # p => i'[q] = i[q]
        /\ \A q \in Procs : q # n => state'[q] = state[q] /\ parent'[q] = parent[q]
    BY <1>5, <2>0, Parts, Zenon DEF TypeOK
  <2>1. TypeOK'
    <3>1. 0 \in Nat OBVIOUS
    <3> QED BY <1>5, <2>0, <3>1, ScanStart, StateNames, LabelNames, Parts, Zenon DEF TypeOK
  <2>2. SchedInv' BY <1>5, <2>0, <2>z, Parts, SchedFreed, Zenon DEF Locked
  <2>3. WaitInv' BY <2>0, Parts, WaitGiven, Zenon DEF WaitLocked
  <2>4. ScanInv' BY <1>5, <2>0, <2>m, Parts, ScanLeftSlot, Zenon
  <2>5. TreeInv' BY <1>5, <2>0, <2>m, Parts, TreeReaped, Zenon DEF Exiting
  <2>6. WakeInv' BY <1>5, <2>0, <2>m, <2>z, Parts, WakeReaped, Zenon
  <2> QED BY <2>1, <2>2, <2>3, <2>4, <2>5, <2>6, Whole
<1> QED BY <1>s, <1>1, <1>2, <1>3, <1>4, <1>5, Zenon DEF WaitScan, IsChild, ChildLocked

\* wait() has seen every child alive when it decides to sleep.
LEMMA WaitCheckStep ==
  ASSUME IInv, NEW c \in CPUs, NEW p \in Procs, WaitCheck(c, p)
  PROVE  IInv'
<1>1. CASE ~kids[p] \/ killed[p]
  <2>0. /\ cpc[c] = "run" /\ cproc[c] = p /\ pc[p] = "wait_check"
        /\ pc' = [pc EXCEPT ![p] = "ret"]
        /\ wait_lock' = NoCpu
        /\ kids' = [kids EXCEPT ![p] = FALSE]
        /\ UNCHANGED <<state, chan, killed, pid, parent, plock, nextpid, cproc, cpc,
                       ci, back, i, j, arg>>
    BY <1>1, Zenon DEF At, On, Goto, procvars, cpuvars, WaitCheck
  <2>1. TypeOK' BY <2>0, LabelNames, Parts, Zenon DEF TypeOK
  <2>2. SchedInv' BY <2>0, Parts, SchedMoved, Zenon DEF Locked
  <2>3. WaitInv' BY <2>0, Parts, WaitGiven, Zenon DEF WaitLocked
  <2>4. ScanInv' BY <2>0, Parts, ScanMoved, Zenon DEF Scanning, Forking
  <2>5. TreeInv' BY <2>0, Parts, TreeMoved, Zenon DEF Exiting
  <2>6. WakeInv' BY <2>0, Parts, WakeMoved, Zenon DEF Watched
  <2> QED BY <2>1, <2>2, <2>3, <2>4, <2>5, <2>6, Whole
<1>2. CASE ~(~kids[p] \/ killed[p])
  <2>0. /\ cpc[c] = "run" /\ cproc[c] = p /\ pc[p] = "wait_check"
        /\ pc' = [pc EXCEPT ![p] = "sleep"]
        /\ kids' = [kids EXCEPT ![p] = FALSE]
        /\ UNCHANGED <<state, chan, killed, pid, parent, plock, wait_lock, nextpid,
                       cproc, cpc, ci, back, i, j, arg>>
    BY <1>2, Zenon DEF At, On, Goto, procvars, cpuvars, WaitCheck
  <2>1. TypeOK' BY <2>0, LabelNames, Parts, Zenon DEF TypeOK
  <2>2. SchedInv' BY <2>0, Parts, SchedMoved, Zenon DEF Locked
  <2>3. WaitInv' BY <2>0, Parts, WaitMoved, Zenon DEF WaitLocked
  <2>4. ScanInv' BY <2>0, Parts, ScanMoved, Zenon DEF Scanning, Forking
  <2>5. TreeInv' BY <2>0, Parts, TreeMoved, Zenon DEF Exiting
  <2>6. WakeInv' BY <2>0, Parts, WakeSleep, Zenon
  <2> QED BY <2>1, <2>2, <2>3, <2>4, <2>5, <2>6, Whole
<1> QED BY <1>1, <1>2, Zenon

\* sleep() takes p->lock before it releases wait_lock.
LEMMA SleepLockStep ==
  ASSUME IInv, NEW c \in CPUs, NEW p \in Procs, SleepLock(c, p)
  PROVE  IInv'
<1>0. /\ cpc[c] = "run" /\ cproc[c] = p /\ pc[p] = "sleep" /\ plock[p] = NoCpu
      /\ pc' = [pc EXCEPT ![p] = "sleeping"]
      /\ plock' = [plock EXCEPT ![p] = c]
      /\ wait_lock' = NoCpu
      /\ UNCHANGED <<state, chan, killed, pid, parent, nextpid, cproc, cpc, ci, back,
                     i, j, kids, arg>>
  BY Zenon DEF At, On, Goto, Unlocked, Acquire, procvars, cpuvars, locals, SleepLock
<1>1. TypeOK' BY <1>0, LabelNames, Parts, Zenon DEF TypeOK
<1>2. SchedInv' BY <1>0, Parts, SchedDozed, Zenon DEF Locked
<1>3. WaitInv' BY <1>0, Parts, WaitGiven, Zenon DEF WaitLocked
<1>4. ScanInv' BY <1>0, Parts, ScanMoved, Zenon DEF Scanning, Forking
<1>5. TreeInv' BY <1>0, Parts, TreeMoved, Zenon DEF Exiting
<1>6. WakeInv'
  <2>1. \A q \in Procs : pc[q] \in {"wakeup_parent", "zombie"} => q = p
    BY <1>0, Parts, WaitExclusive, Zenon DEF WaitLocked
  <2> QED BY <1>0, <2>1, Parts, WakeDozed, Zenon
<1> QED BY <1>1, <1>2, <1>3, <1>4, <1>5, <1>6, Whole

\* sleep() marks the process SLEEPING under p->lock.
LEMMA SleepStep ==
  ASSUME IInv, NEW c \in CPUs, NEW p \in Procs, Sleep(c, p)
  PROVE  IInv'
<1>0. /\ cpc[c] = "run" /\ cproc[c] = p /\ pc[p] = "sleeping"
      /\ pc' = [pc EXCEPT ![p] = "sched"]
      /\ chan' = [chan EXCEPT ![p] = p]
      /\ state' = [state EXCEPT ![p] = "SLEEPING"]
      /\ back' = [back EXCEPT ![p] = "sleep"]
      /\ UNCHANGED <<killed, pid, parent, plock, wait_lock, nextpid, cproc, cpc, ci, i,
                     j, kids, arg>>
  BY Zenon DEF At, On, Goto, cpuvars, Sleep
<1>1. TypeOK' BY <1>0, StateNames, LabelNames, Parts, Zenon DEF TypeOK
<1>r. state[p] = "RUNNING" BY <1>0, Parts, Zenon DEF SchedInv, CpuInv
<1>2. SchedInv' BY <1>0, Parts, SchedSlept, Zenon
<1>3. WaitInv' BY <1>0, Parts, WaitMoved, Zenon DEF WaitLocked
<1>4. ScanInv' BY <1>0, <1>r, Parts, ScanAsleep, Zenon
<1>5. TreeInv' BY <1>0, <1>r, TreeKept, LabelNames, Parts, Zenon DEF Live
<1>6. WakeInv' BY <1>0, Parts, WakeSlept, Zenon
<1> QED BY <1>1, <1>2, <1>3, <1>4, <1>5, <1>6, Whole

=============================================================================
