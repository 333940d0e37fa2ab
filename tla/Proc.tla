-------------------------------- MODULE Proc --------------------------------
(***************************************************************************)
(* The process table of kernel/proc.c and the threads that use it: the    *)
(* per-CPU scheduler, the hand-over of p->lock across swtch(), yield(),    *)
(* sleep()/wakeup() as wait() uses them, fork(), exit(), wait(), kill(),   *)
(* and the checks of p->killed that usertrap() (kernel/trap.c) makes.      *)
(*                                                                         *)
(* A step is one critical section, or one iteration of a table scan.  A    *)
(* lock that is held from one step to the next (p->lock across swtch(),    *)
(* wait_lock in exit() and wait()) is a variable that names its CPU, as    *)
(* lk->cpu does; a lock taken and released inside a step (pid_lock, the    *)
(* p->lock of a scan) is only a guard: it must be free.                    *)
(***************************************************************************)
EXTENDS Integers

CONSTANTS
  NPROC,      \* size of the process table
  CPUs,       \* the harts that run scheduler()
  NoCpu,      \* the owner of a free lock
  KillPids,   \* the pids user programs pass to kill()
  MaxPid      \* bound: user programs do not fork once nextpid exceeds it

ASSUME ProcAssumption ==
  /\ NPROC \in Nat \ {0}
  /\ NoCpu \notin CPUs
  /\ KillPids \subseteq Nat
  /\ MaxPid \in Nat

Procs    == 1 .. NPROC
ScanPos  == 1 .. NPROC + 1   \* of a loop over the table
NoProc   == 0
initproc == 1          \* userinit() runs first and gets the first slot

VARIABLES
  state, chan, killed, pid, parent,  \* fields of struct proc
  plock,      \* owner of p->lock
  wait_lock,  \* owner of wait_lock
  nextpid,
  cproc,      \* c->proc
  cpc,        \* "scan": in scheduler(); "run": in c->proc; "back": swtch()ed back
  ci,         \* scheduler()'s scan position
  pc,         \* where p's kernel thread stands
  back,       \* where the thread goes on after sched() returns
  i, j,       \* the thread's scan positions (j: the one inside wakeup())
  kids,       \* wait()'s havekids
  arg         \* kill()'s pid

procvars == <<state, chan, killed, pid, parent>>
cpuvars  == <<cproc, cpc, ci>>
locals   == <<back, i, j, kids, arg>>
vars == <<state, chan, killed, pid, parent, plock, wait_lock, nextpid,
          cproc, cpc, ci, pc, back, i, j, kids, arg>>

States == {"UNUSED", "USED", "SLEEPING", "RUNNABLE", "RUNNING", "ZOMBIE"}

\* Kernel code that holds no spinlock, where kerneltrap() may yield().
Preemptible == {"fork", "fork_parent", "fork_run", "wait", "kill", "exit", "ret"}

Labels == Preemptible \cup
  {"forkret", "user", "tick", "sched", "resume", "dead", "panic", "init_exiting",
   "wait_scan", "wait_check", "sleep", "sleeping",
   "reparent", "wakeup_init", "wakeup_parent", "zombie"}

-----------------------------------------------------------------------------
(* Helpers *)

\* p's thread executes on c.
On(c, p) == cpc[c] = "run" /\ cproc[c] = p
At(c, p, l) == On(c, p) /\ pc[p] = l
Goto(p, l) == pc' = [pc EXCEPT ![p] = l]

Unlocked(p) == plock[p] = NoCpu
Acquire(c, p) == Unlocked(p) /\ plock' = [plock EXCEPT ![p] = c]
Release(p) == plock' = [plock EXCEPT ![p] = NoCpu]

NextSlot_short(p) == IF p >= NPROC - 1 THEN 1 ELSE p + 1

NextSlot(p) == IF p = NPROC THEN 1 ELSE p + 1

freeproc(q) ==
  /\ state'  = [state  EXCEPT ![q] = "UNUSED"]
  /\ pid'    = [pid    EXCEPT ![q] = 0]
  /\ parent' = [parent EXCEPT ![q] = NoProc]
  /\ chan'   = [chan   EXCEPT ![q] = NoProc]
  /\ killed' = [killed EXCEPT ![q] = FALSE]

\* A system call returns to usertrap(); its locals are gone.
Return(p) == Goto(p, "ret") /\ i' = [i EXCEPT ![p] = 1]

-----------------------------------------------------------------------------
(* Boot: userinit() has made the first process, every CPU enters scheduler(). *)

Init ==
  /\ state  = [p \in Procs |-> IF p = initproc THEN "RUNNABLE" ELSE "UNUSED"]
  /\ pid    = [p \in Procs |-> IF p = initproc THEN 1 ELSE 0]
  /\ nextpid = 2
  /\ chan   = [p \in Procs |-> NoProc]
  /\ killed = [p \in Procs |-> FALSE]
  /\ parent = [p \in Procs |-> NoProc]
  /\ plock  = [p \in Procs |-> NoCpu]
  /\ wait_lock = NoCpu
  /\ cproc = [c \in CPUs |-> NoProc]
  /\ cpc   = [c \in CPUs |-> "scan"]
  /\ ci    = [c \in CPUs |-> 1]
  /\ pc    = [p \in Procs |-> "forkret"]
  /\ back  = [p \in Procs |-> "user"]
  /\ i     = [p \in Procs |-> 1]
  /\ j     = [p \in Procs |-> 1]
  /\ kids  = [p \in Procs |-> FALSE]
  /\ arg   = [p \in Procs |-> 0]

-----------------------------------------------------------------------------
(* scheduler(), sched() and the threads' way through swtch() *)

\* scheduler() looks at one slot; a RUNNABLE process is switched to with its
\* lock held.
Scheduler(c) ==
  /\ cpc[c] = "scan"
  /\ Unlocked(ci[c])
  /\ \/ /\ state[ci[c]] = "RUNNABLE"
        /\ state' = [state EXCEPT ![ci[c]] = "RUNNING"]
        /\ cproc' = [cproc EXCEPT ![c] = ci[c]]
        /\ cpc' = [cpc EXCEPT ![c] = "run"]
        /\ Acquire(c, ci[c])
        /\ UNCHANGED ci
     \/ /\ state[ci[c]] # "RUNNABLE"
        /\ ci' = [ci EXCEPT ![c] = NextSlot(ci[c])]
        /\ UNCHANGED <<state, cproc, cpc, plock>>
  /\ UNCHANGED <<chan, killed, pid, parent, wait_lock, nextpid, pc, locals>>

\* swtch() came back: c->proc = 0, release(&p->lock), next slot.
SchedulerBack(c) ==
  /\ cpc[c] = "back"
  /\ cproc' = [cproc EXCEPT ![c] = NoProc]
  /\ cpc' = [cpc EXCEPT ![c] = "scan"]
  /\ ci' = [ci EXCEPT ![c] = NextSlot(ci[c])]
  /\ Release(ci[c])
  /\ UNCHANGED <<procvars, wait_lock, nextpid, pc, locals>>

\* sched(): its four checks (interrupts are off while a lock is held), swtch().
sched(c, p) ==
  /\ At(c, p, "sched")
  /\ LET ok == /\ plock[p] = c
               /\ \A q \in Procs \ {p} : plock[q] # c
               /\ wait_lock # c
               /\ state[p] # "RUNNING"
     IN IF ok THEN Goto(p, "resume") /\ cpc' = [cpc EXCEPT ![c] = "back"]
              ELSE Goto(p, "panic") /\ UNCHANGED cpc
  /\ UNCHANGED <<procvars, plock, wait_lock, nextpid, cproc, ci, locals>>

Resume_keep(c, p) ==
  /\ At(c, p, "resume")
  /\ Goto(p, IF back[p] = "sleep" THEN "wait" ELSE back[p])
  /\ UNCHANGED <<procvars, plock, wait_lock, nextpid, cpuvars, locals>>

\* sched() returns into yield(), sleep() or exit() ("zombie exit").
Resume(c, p) ==
  /\ At(c, p, "resume")
  /\ IF back[p] = "dead"
     THEN Goto(p, "panic") /\ UNCHANGED <<plock, chan>>
     ELSE /\ Goto(p, IF back[p] = "sleep" THEN "wait" ELSE back[p])
          /\ chan' = IF back[p] = "sleep" THEN [chan EXCEPT ![p] = NoProc] ELSE chan
          /\ Release(p)
  /\ back' = [back EXCEPT ![p] = "user"]
  /\ UNCHANGED <<state, killed, pid, parent, wait_lock, nextpid, cpuvars, i, j, kids, arg>>

\* The first time a forked process runs: release the lock scheduler() took.
forkret(c, p) ==
  /\ At(c, p, "forkret")
  /\ Release(p)
  /\ Goto(p, "user")
  /\ UNCHANGED <<procvars, wait_lock, nextpid, cpuvars, locals>>

yield_unlocked(c, p, l) ==
  /\ state' = [state EXCEPT ![p] = "RUNNABLE"]
  /\ back' = [back EXCEPT ![p] = l]
  /\ Goto(p, "sched")
  /\ UNCHANGED <<chan, killed, pid, parent, plock, wait_lock, nextpid, cpuvars, i, j, kids, arg>>

\* yield() up to its call of sched(); l is where the caller goes on.
yield(c, p, l) ==
  /\ Acquire(c, p)
  /\ state' = [state EXCEPT ![p] = "RUNNABLE"]
  /\ back' = [back EXCEPT ![p] = l]
  /\ Goto(p, "sched")
  /\ UNCHANGED <<chan, killed, pid, parent, wait_lock, nextpid, cpuvars, i, j, kids, arg>>

\* kerneltrap(): a timer interrupt while the thread is in the kernel.
kerneltrap(c, p) ==
  /\ On(c, p)
  /\ pc[p] \in Preemptible
  /\ state[p] = "RUNNING"
  /\ yield(c, p, pc[p])

-----------------------------------------------------------------------------
(* usertrap() *)

\* usertrap() for a system call: a killed process exits before the call.
\* The system calls that leave the process table alone are "ret".  init makes
\* no kill(), and no exit() but when fork() or wait() fails it (user/init.c).
Syscall(c, p) ==
  /\ At(c, p, "user")
  /\ Unlocked(p)
  /\ IF killed[p]
     THEN Goto(p, "exit") /\ UNCHANGED arg
     ELSE \/ Goto(p, "fork") /\ nextpid <= MaxPid /\ UNCHANGED arg
          \/ Goto(p, "wait") /\ UNCHANGED arg
          \/ Goto(p, "ret") /\ UNCHANGED arg
          \/ Goto(p, "exit") /\ p # initproc /\ UNCHANGED arg
          \/ /\ Goto(p, "kill")
             /\ p # initproc
             /\ \E k \in KillPids : arg' = [arg EXCEPT ![p] = k]
  /\ UNCHANGED <<procvars, plock, wait_lock, nextpid, cpuvars, back, i, j, kids>>

\* usertrap() for an unexpected scause: setkilled(p).
Fault(c, p) ==
  /\ At(c, p, "user")
  /\ p # initproc
  /\ Unlocked(p)
  /\ killed' = [killed EXCEPT ![p] = TRUE]
  /\ Goto(p, "ret")
  /\ UNCHANGED <<state, chan, pid, parent, plock, wait_lock, nextpid, cpuvars, locals>>

\* A timer interrupt in user mode.
Timer(c, p) ==
  /\ At(c, p, "user")
  /\ Goto(p, "tick")
  /\ UNCHANGED <<procvars, plock, wait_lock, nextpid, cpuvars, locals>>

\* The end of usertrap(): exit if killed, yield if it was a timer interrupt.
UserRet(c, p) ==
  /\ At(c, p, "ret") \/ At(c, p, "tick")
  /\ Unlocked(p)
  /\ \/ /\ killed[p]
        /\ Goto(p, "exit")
        /\ UNCHANGED <<procvars, plock, wait_lock, nextpid, cpuvars, locals>>
     \/ /\ ~killed[p]
        /\ pc[p] = "ret"
        /\ Goto(p, "user")
        /\ UNCHANGED <<procvars, plock, wait_lock, nextpid, cpuvars, locals>>
     \/ /\ ~killed[p]
        /\ pc[p] = "tick"
        /\ yield(c, p, "user")

-----------------------------------------------------------------------------
(* fork() *)

allocpid == nextpid' = nextpid + 1

\* What allocproc() makes of a free slot.
allocproc(q) ==
  /\ pid' = [pid EXCEPT ![q] = nextpid]
  /\ state' = [state EXCEPT ![q] = "USED"]

\* allocproc()'s scan; in the slot it finds, allocproc() and fork() up to
\* release(&np->lock).  kalloc(), proc_pagetable() and uvmcopy() may fail.
ForkAlloc(c, p) ==
  /\ At(c, p, "fork")
  /\ \/ /\ i[p] > NPROC
        /\ Return(p)
        /\ UNCHANGED <<procvars, nextpid>>
     \/ /\ i[p] <= NPROC
        /\ Unlocked(i[p])
        /\ state[i[p]] # "UNUSED"
        /\ i' = [i EXCEPT ![p] = i[p] + 1]
        /\ UNCHANGED <<procvars, nextpid, pc>>
     \/ /\ i[p] <= NPROC
        /\ Unlocked(i[p])
        /\ state[i[p]] = "UNUSED"
        /\ allocpid
        /\ \/ /\ allocproc(i[p])
              /\ pc' = [pc EXCEPT ![p] = "fork_parent", ![i[p]] = "forkret"]
              /\ UNCHANGED <<chan, killed, parent, i>>
           \/ freeproc(i[p]) /\ Return(p)
  /\ UNCHANGED <<plock, wait_lock, cpuvars, back, j, kids, arg>>

\* np->parent = p under wait_lock.
ForkParent(c, p) ==
  /\ At(c, p, "fork_parent")
  /\ wait_lock = NoCpu
  /\ parent' = [parent EXCEPT ![i[p]] = p]
  /\ Goto(p, "fork_run")
  /\ UNCHANGED <<state, chan, killed, pid, plock, wait_lock, nextpid, cpuvars, locals>>

\* np->state = RUNNABLE under np->lock.
ForkRun(c, p) ==
  /\ At(c, p, "fork_run")
  /\ Unlocked(i[p])
  /\ state' = [state EXCEPT ![i[p]] = "RUNNABLE"]
  /\ Return(p)
  /\ UNCHANGED <<chan, killed, pid, parent, plock, wait_lock, nextpid, cpuvars, back, j, kids, arg>>

-----------------------------------------------------------------------------
(* wait() and sleep() *)

\* acquire(&wait_lock), on entry and again when sleep() returns; a new scan.
WaitLock(c, p) ==
  /\ At(c, p, "wait")
  /\ wait_lock = NoCpu
  /\ wait_lock' = c
  /\ kids' = [kids EXCEPT ![p] = FALSE]
  /\ Goto(p, "wait_scan")
  /\ UNCHANGED <<procvars, plock, nextpid, cpuvars, back, i, j, arg>>

ChildLocked_skip(q) == TRUE

\* acquire(&pp->lock): the child isn't still in exit() or swtch().
ChildLocked(q) == Unlocked(q)

IsChild_any(p, q) == q # p

IsChild(p, q) == parent[q] = p

\* One slot of wait()'s scan; copyout() of the status may fail (user/init.c
\* passes no address, so not for init).
WaitScan(c, p) ==
  /\ At(c, p, "wait_scan")
  /\ \/ /\ i[p] > NPROC
        /\ Goto(p, "wait_check")
        /\ i' = [i EXCEPT ![p] = 1]
        /\ UNCHANGED <<procvars, wait_lock, kids>>
     \/ /\ i[p] <= NPROC
        /\ ~IsChild(p, i[p])
        /\ i' = [i EXCEPT ![p] = i[p] + 1]
        /\ UNCHANGED <<procvars, wait_lock, kids, pc>>
     \/ /\ i[p] <= NPROC
        /\ IsChild(p, i[p])
        /\ ChildLocked(i[p])
        /\ state[i[p]] # "ZOMBIE"
        /\ kids' = [kids EXCEPT ![p] = TRUE]
        /\ i' = [i EXCEPT ![p] = i[p] + 1]
        /\ UNCHANGED <<procvars, wait_lock, pc>>
     \/ /\ i[p] <= NPROC
        /\ IsChild(p, i[p])
        /\ ChildLocked(i[p])
        /\ state[i[p]] = "ZOMBIE"
        /\ wait_lock' = NoCpu
        /\ kids' = [kids EXCEPT ![p] = FALSE]
        /\ Return(p)
        /\ \/ freeproc(i[p])
           \/ p # initproc /\ UNCHANGED procvars
  /\ UNCHANGED <<plock, nextpid, cpuvars, back, j, arg>>

WaitCheck_early(c, p) ==
  /\ At(c, p, "wait_check")
  /\ kids[p] => Unlocked(p)
  /\ wait_lock' = NoCpu
  /\ Goto(p, IF ~kids[p] \/ killed[p] THEN "ret" ELSE "sleep")
  /\ kids' = [kids EXCEPT ![p] = FALSE]
  /\ UNCHANGED <<procvars, plock, nextpid, cpuvars, back, i, j, arg>>

\* if(!havekids || killed(p)) return -1.
WaitCheck(c, p) ==
  /\ At(c, p, "wait_check")
  /\ kids[p] => Unlocked(p)
  /\ IF ~kids[p] \/ killed[p]
     THEN wait_lock' = NoCpu /\ Goto(p, "ret")
     ELSE Goto(p, "sleep") /\ UNCHANGED wait_lock
  /\ kids' = [kids EXCEPT ![p] = FALSE]
  /\ UNCHANGED <<procvars, plock, nextpid, cpuvars, back, i, j, arg>>

\* sleep(p, &wait_lock): acquire(&p->lock), release(lk).
SleepLock(c, p) ==
  /\ At(c, p, "sleep")
  /\ Acquire(c, p)
  /\ wait_lock' = NoCpu
  /\ Goto(p, "sleeping")
  /\ UNCHANGED <<procvars, nextpid, cpuvars, locals>>

\* ... p->chan = chan, p->state = SLEEPING, on to sched().
Sleep(c, p) ==
  /\ At(c, p, "sleeping")
  /\ chan' = [chan EXCEPT ![p] = p]
  /\ state' = [state EXCEPT ![p] = "SLEEPING"]
  /\ back' = [back EXCEPT ![p] = "sleep"]
  /\ Goto(p, "sched")
  /\ UNCHANGED <<killed, pid, parent, plock, wait_lock, nextpid, cpuvars, i, j, kids, arg>>

-----------------------------------------------------------------------------
(* exit() *)

\* exit() up to acquire(&wait_lock); init must not exit (panic("init exiting")).
Exit(c, p) ==
  /\ At(c, p, "exit")
  /\ IF p = initproc
     THEN Goto(p, "init_exiting") /\ UNCHANGED wait_lock
     ELSE wait_lock = NoCpu /\ wait_lock' = c /\ Goto(p, "reparent")
  /\ UNCHANGED <<procvars, plock, nextpid, cpuvars, locals>>

Abandoned_live(p, q) == parent[q] = p /\ state[q] # "ZOMBIE"

Abandoned(p, q) == parent[q] = p

\* One slot of reparent(): a child is given to init, then wakeup(initproc).
Reparent(c, p) ==
  /\ At(c, p, "reparent")
  /\ \/ /\ i[p] > NPROC
        /\ Goto(p, "wakeup_parent")
        /\ i' = [i EXCEPT ![p] = 1]
        /\ UNCHANGED parent
     \/ /\ i[p] <= NPROC
        /\ Abandoned(p, i[p])
        /\ parent' = [parent EXCEPT ![i[p]] = initproc]
        /\ Goto(p, "wakeup_init")
        /\ UNCHANGED i
     \/ /\ i[p] <= NPROC
        /\ ~Abandoned(p, i[p])
        /\ i' = [i EXCEPT ![p] = i[p] + 1]
        /\ UNCHANGED <<parent, pc>>
  /\ UNCHANGED <<state, chan, killed, pid, plock, wait_lock, nextpid, cpuvars, back, j, kids, arg>>

\* One slot of wakeup(ch), called by p's thread.
wakeup(p, ch) ==
  /\ j[p] <= NPROC
  /\ j[p] # p => Unlocked(j[p])
  /\ state' = IF j[p] # p /\ state[j[p]] = "SLEEPING" /\ chan[j[p]] = ch
              THEN [state EXCEPT ![j[p]] = "RUNNABLE"] ELSE state
  /\ j' = [j EXCEPT ![p] = j[p] + 1]
  /\ UNCHANGED <<pc, i>>

WakeupInit(c, p) ==
  /\ At(c, p, "wakeup_init")
  /\ \/ wakeup(p, initproc)
     \/ /\ j[p] > NPROC
        /\ Goto(p, "reparent")
        /\ i' = [i EXCEPT ![p] = i[p] + 1]
        /\ j' = [j EXCEPT ![p] = 1]
        /\ UNCHANGED state
  /\ UNCHANGED <<chan, killed, pid, parent, plock, wait_lock, nextpid, cpuvars, back, kids, arg>>

WakeupParent_none(c, p) ==
  /\ At(c, p, "wakeup_parent")
  /\ Goto(p, "zombie")
  /\ UNCHANGED <<procvars, plock, wait_lock, nextpid, cpuvars, locals>>

WakeupParent(c, p) ==
  /\ At(c, p, "wakeup_parent")
  /\ \/ wakeup(p, parent[p])
     \/ /\ j[p] > NPROC
        /\ Goto(p, "zombie")
        /\ j' = [j EXCEPT ![p] = 1]
        /\ UNCHANGED <<state, i>>
  /\ UNCHANGED <<chan, killed, pid, parent, plock, wait_lock, nextpid, cpuvars, back, kids, arg>>

Zombie_keep(c, p) ==
  /\ At(c, p, "zombie")
  /\ Acquire(c, p)
  /\ state' = [state EXCEPT ![p] = "ZOMBIE"]
  /\ back' = [back EXCEPT ![p] = "dead"]
  /\ Goto(p, "sched")
  /\ UNCHANGED <<chan, killed, pid, parent, wait_lock, nextpid, cpuvars, i, j, kids, arg>>

\* acquire(&p->lock), ZOMBIE, release(&wait_lock), on to sched().
Zombie(c, p) ==
  /\ At(c, p, "zombie")
  /\ Acquire(c, p)
  /\ state' = [state EXCEPT ![p] = "ZOMBIE"]
  /\ wait_lock' = NoCpu
  /\ back' = [back EXCEPT ![p] = "dead"]
  /\ Goto(p, "sched")
  /\ UNCHANGED <<chan, killed, pid, parent, nextpid, cpuvars, i, j, kids, arg>>

-----------------------------------------------------------------------------
(* kill() *)

\* One slot of kill()'s scan.
Kill(c, p) ==
  /\ At(c, p, "kill")
  /\ \/ /\ i[p] > NPROC
        /\ Return(p)
        /\ arg' = [arg EXCEPT ![p] = 0]
        /\ UNCHANGED <<state, killed>>
     \/ /\ i[p] <= NPROC
        /\ Unlocked(i[p])
        /\ pid[i[p]] # arg[p]
        /\ i' = [i EXCEPT ![p] = i[p] + 1]
        /\ UNCHANGED <<state, killed, pc, arg>>
     \/ /\ i[p] <= NPROC
        /\ Unlocked(i[p])
        /\ pid[i[p]] = arg[p]
        /\ killed' = [killed EXCEPT ![i[p]] = TRUE]
        /\ state' = IF state[i[p]] = "SLEEPING"
                    THEN [state EXCEPT ![i[p]] = "RUNNABLE"] ELSE state
        /\ Return(p)
        /\ arg' = [arg EXCEPT ![p] = 0]
  /\ UNCHANGED <<chan, pid, parent, plock, wait_lock, nextpid, cpuvars, back, j, kids>>

-----------------------------------------------------------------------------
\* The steps of p's system call on c.
SyscallStep(c, p) ==
  \/ ForkAlloc(c, p) \/ ForkParent(c, p) \/ ForkRun(c, p)
  \/ WaitLock(c, p) \/ WaitScan(c, p) \/ WaitCheck(c, p)
  \/ SleepLock(c, p) \/ Sleep(c, p)
  \/ Exit(c, p) \/ Reparent(c, p) \/ WakeupInit(c, p)
  \/ WakeupParent(c, p) \/ Zombie(c, p) \/ Kill(c, p)

Next ==
  \E c \in CPUs :
    \/ Scheduler(c) \/ SchedulerBack(c)
    \/ \E p \in Procs :
         \/ sched(c, p) \/ Resume(c, p) \/ forkret(c, p) \/ kerneltrap(c, p)
         \/ Syscall(c, p) \/ Fault(c, p) \/ Timer(c, p) \/ UserRet(c, p)
         \/ SyscallStep(c, p)

Spec == Init /\ [][Next]_vars
-----------------------------------------------------------------------------
(* Fairness.  A hart never stops: it finishes the scheduling code it is in.  *)
(* The timer keeps interrupting user code.  A thread that is scheduled again *)
(* and again gets on with its system call, and a spinlock that is free again *)
(* and again is eventually won.  user/init.c keeps calling wait().           *)

CpuStep(c) ==
  \/ Scheduler(c) \/ SchedulerBack(c)
  \/ \E p \in Procs : sched(c, p) \/ Resume(c, p) \/ forkret(c, p)

ThreadStep(p) == \E c \in CPUs : SyscallStep(c, p) \/ UserRet(c, p)

Fairness ==
  /\ \A c \in CPUs : WF_vars(CpuStep(c)) /\ SF_vars(\E p \in Procs : Timer(c, p))
  /\ \A p \in Procs : SF_vars(ThreadStep(p))
  /\ SF_vars(\E c \in CPUs : Syscall(c, initproc) /\ pc'[initproc] = "wait")

FairSpec == Spec /\ Fairness

-----------------------------------------------------------------------------
(* Properties *)

\* Every field of the table, the CPUs and the threads keeps its type.
TypeOK ==
  /\ state  \in [Procs -> States]
  /\ chan   \in [Procs -> Procs \cup {NoProc}]
  /\ killed \in [Procs -> BOOLEAN]
  /\ pid    \in [Procs -> Nat]
  /\ parent \in [Procs -> Procs \cup {NoProc}]
  /\ plock  \in [Procs -> CPUs \cup {NoCpu}]
  /\ wait_lock \in CPUs \cup {NoCpu}
  /\ nextpid \in Nat
  /\ cproc \in [CPUs -> Procs \cup {NoProc}]
  /\ cpc   \in [CPUs -> {"scan", "run", "back"}]
  /\ ci    \in [CPUs -> Procs]
  /\ pc    \in [Procs -> Labels]
  /\ back  \in [Procs -> Labels]
  /\ i \in [Procs -> ScanPos]
  /\ j \in [Procs -> ScanPos]
  /\ kids \in [Procs -> BOOLEAN]
  /\ arg  \in [Procs -> Nat]

\* No process runs, or is still on its kernel stack, on two CPUs: yield() and
\* sleep() make it RUNNABLE or SLEEPING under p->lock, and scheduler() gives
\* that lock back only after swtch() has left the stack.
OneCpu ==
  \A c, d \in CPUs : c # d /\ cproc[c] # NoProc => cproc[c] # cproc[d]

\* The panics of sched() ("sched p->lock", "sched locks", "sched running") and
\* of exit() ("zombie exit") are unreachable, for init too. The panic "init exiting"
\* is a label of its own: any process may kill(1), so that one is reachable.
NoPanic == \A p \in Procs : pc[p] # "panic"

\* wait() frees a child, and allocproc() reuses its slot, only when no CPU is
\* executing on the child's kernel stack any more (in exit() or swtch()).
FreedOffStack ==
  \A c \in CPUs : cproc[c] # NoProc => state[cproc[c]] \notin {"UNUSED", "USED"}

\* Between fork() and wait(), every process but init has a parent that is
\* neither free nor a zombie, so that exit()'s wakeup(p->parent) finds someone
\* who can still call wait(): reparent() misses no child of an exiting process.
ParentAlive ==
  \A q \in Procs \ {initproc} :
    state[q] \in {"SLEEPING", "RUNNABLE", "RUNNING", "ZOMBIE"} =>
      /\ parent[q] # NoProc
      /\ state[parent[q]] \in {"SLEEPING", "RUNNABLE", "RUNNING"}

\* Outside the critical sections of wait_lock, nobody sleeps in wait() with a
\* zombie child: no wakeup() of exit() or reparent() falls into the gap between
\* wait()'s scan and sleep().
NoLostWakeup ==
  wait_lock = NoCpu =>
    \A p, q \in Procs : state[p] = "SLEEPING" /\ parent[q] = p => state[q] # "ZOMBIE"

\* "must be acquired before any p->lock" (wait_lock): a CPU about to acquire
\* wait_lock in fork(), wait(), exit() or when sleep() returns holds no p->lock.
LockOrder ==
  \A c \in CPUs, p \in Procs :
    On(c, p) /\ pc[p] \in {"fork_parent", "wait", "exit"} =>
      \A q \in Procs : plock[q] # c

\* A zombie leaves the table only through its parent's wait(), which holds
\* wait_lock: nobody else frees it and its exit status is not lost.
ReapedByParent ==
  [][\A q \in Procs : state[q] = "ZOMBIE" /\ state'[q] # "ZOMBIE" =>
       /\ state'[q] = "UNUSED"
       /\ \E c \in CPUs : wait_lock = c /\ On(c, parent[q])]_vars

\* Round robin starves nobody: scheduler() gets to every RUNNABLE process.
RunnableRuns ==
  \A p \in Procs : state[p] = "RUNNABLE" ~> state[p] = "RUNNING"

\* A zombie that is init's, by fork() or by reparent(), is eventually freed.
OrphanReaped ==
  \A q \in Procs \ {initproc} : state[q] = "ZOMBIE" /\ parent[q] = initproc ~> state[q] = "UNUSED"

\* kill() must "Wake process from sleep()": a killed process is not left asleep
\* in wait(), where it would stay as long as its children run.
KilledAwake == \A p \in Procs : killed[p] => state[p] # "SLEEPING"

\* "Kill the process with the given pid": a process that fork() is creating has
\* been killed only if its own pid was passed to kill().
FreshUnkilled ==
  \A p \in Procs : state[p] = "USED" /\ killed[p] => pid[p] \in KillPids
=============================================================================
