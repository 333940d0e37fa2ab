----------------------------- MODULE ProcProofs -----------------------------
(***************************************************************************)
(* The steps of exit(), wakeup() and kill() keep the invariant of          *)
(* ProcSteps; the invariant therefore holds in every state the kernel      *)
(* reaches, and the properties that TLC checks follow from it.             *)
(***************************************************************************)
EXTENDS ProcSteps

-----------------------------------------------------------------------------
(* Boot, and a step that changes nothing *)

\* Boot: userinit() has made the first process and no CPU runs anything.
LEMMA InitInv ==
  ASSUME Init
  PROVE  IInv
<1>1. TypeOK
  BY InitSlot, ScanStart, StateNames, LabelNames, SMTT(20), Z3T(60) DEF Init, TypeOK, initproc
<1>2. SchedInv
  BY InitSlot DEF Init, SchedInv, OneCpu, CpuInv, LockInv, OffInv, ThreadInv
<1>3. WaitInv BY InitSlot DEF Init, WaitInv, WaitLocked
<1>4. ScanInv BY DEF Init, ScanInv, Loc, Forking
<1>5. TreeInv BY InitSlot DEF Init, TreeInv, Live
<1>6. WakeInv BY InitSlot DEF Init, WakeInv, Dozing
<1> QED BY <1>1, <1>2, <1>3, <1>4, <1>5, <1>6 DEF IInv

\* A step that changes nothing keeps the invariant.
LEMMA StutterInv ==
  ASSUME IInv, UNCHANGED vars
  PROVE  IInv'
<1>1. TypeOK' BY Parts DEF TypeOK, vars
<1>2. SchedInv'
  BY Parts DEF SchedInv, OneCpu, CpuInv, LockInv, OffInv, ThreadInv, vars
<1>3. WaitInv' BY Parts DEF WaitInv, On, vars
<1>4. ScanInv' BY Parts DEF ScanInv, Loc, vars
<1>5. TreeInv' BY Parts DEF TreeInv, vars
<1>6. WakeInv' BY Parts DEF WakeInv, Dozing, vars
<1> QED BY <1>1, <1>2, <1>3, <1>4, <1>5, <1>6, Whole

-----------------------------------------------------------------------------
(* What a step may do to a zombie *)

\* Scheduler, interrupts and returns from the kernel leave a zombie alone.
LEMMA ZombieLeftAlone ==
  ASSUME IInv, NEW c \in CPUs, NEW p \in Procs, NEW q \in Procs, state[q] = "ZOMBIE",
         \/ Scheduler(c) \/ SchedulerBack(c)
         \/ sched(c, p) \/ Resume(c, p) \/ forkret(c, p) \/ kerneltrap(c, p)
         \/ Syscall(c, p) \/ Fault(c, p) \/ Timer(c, p) \/ UserRet(c, p)
  PROVE  state'[q] = "ZOMBIE"
<1>0. state \in [Procs -> States] BY Parts DEF TypeOK
<1>1. CASE Scheduler(c)
  <2>1. CASE state' = state BY <2>1
  <2>2. CASE state[ci[c]] = "RUNNABLE" /\ state' = [state EXCEPT ![ci[c]] = "RUNNING"]
    BY <1>0, <2>2
  <2> QED BY <1>1, <2>1, <2>2 DEF Scheduler
<1>2. CASE \/ SchedulerBack(c) \/ sched(c, p) \/ Resume(c, p) \/ forkret(c, p)
           \/ Syscall(c, p) \/ Fault(c, p) \/ Timer(c, p)
  BY <1>2, Zenon DEF SchedulerBack, sched, Resume, forkret, Syscall, Fault, Timer, procvars
<1>3. ASSUME state[p] = "RUNNING", state' = [state EXCEPT ![p] = "RUNNABLE"]
      PROVE  state'[q] = "ZOMBIE"
  BY <1>0, <1>3
<1>4. CASE kerneltrap(c, p) BY <1>3, <1>4, Zenon DEF kerneltrap, yield
<1>5. CASE UserRet(c, p)
  <2>1. state[p] = "RUNNING" BY <1>5, ActiveIsRunning DEF UserRet, At
  <2>2. state' = state \/ state' = [state EXCEPT ![p] = "RUNNABLE"]
    BY <1>5 DEF UserRet, yield, procvars
  <2> QED BY <1>3, <2>1, <2>2
<1> QED BY <1>1, <1>2, <1>4, <1>5

\* Of the system calls only the parent's wait() removes a zombie.
LEMMA ZombieGoesByWait ==
  ASSUME IInv, NEW c \in CPUs, NEW p \in Procs, NEW q \in Procs, state[q] = "ZOMBIE",
         SyscallStep(c, p), state'[q] # "ZOMBIE"
  PROVE  /\ state'[q] = "UNUSED"
         /\ wait_lock = c /\ On(c, parent[q])
<1>0. state \in [Procs -> States] BY Parts DEF TypeOK
<1>1. CASE \/ ForkParent(c, p) \/ WaitLock(c, p) \/ WaitCheck(c, p) \/ SleepLock(c, p)
           \/ Exit(c, p) \/ Reparent(c, p)
  BY <1>1 DEF ForkParent, WaitLock, WaitCheck, SleepLock, Exit, Reparent, procvars
<1>2. CASE ForkAlloc(c, p)
  <2>1. \/ state' = state
        \/ /\ state[i[p]] = "UNUSED"
           /\ \/ state' = [state EXCEPT ![i[p]] = "USED"]
              \/ state' = [state EXCEPT ![i[p]] = "UNUSED"]
    BY <1>2 DEF ForkAlloc, allocproc, freeproc, procvars
  <2> QED BY <1>0, <2>1
<1>3. CASE ForkRun(c, p)
  <2>1. state[i[p]] = "USED" BY <1>3, Parts DEF ScanInv, Loc, Forking, ForkRun, At
  <2> QED BY <1>0, <1>3, <2>1 DEF ForkRun
<1>4. CASE WaitScan(c, p)
  <2>1. parent[i[p]] = p /\ state' = [state EXCEPT ![i[p]] = "UNUSED"]
    BY <1>4 DEF WaitScan, IsChild, freeproc, procvars
  <2>2. q = i[p] BY <1>0, <2>1
  <2>3. On(c, p) /\ pc[p] = "wait_scan" BY <1>4 DEF WaitScan, At
  <2>4. PICK d \in CPUs : wait_lock = d /\ On(d, p) BY <2>3, Parts DEF WaitInv, WaitLocked
  <2>5. wait_lock = c
    <3>1. cproc[c] = p /\ cproc[d] = p BY <2>3, <2>4 DEF On
    <3>2. p # NoProc BY InitSlot
    <3>3. OneCpu BY Parts DEF SchedInv
    <3> QED BY <2>4, <3>1, <3>2, <3>3 DEF OneCpu
  <2> QED BY <1>0, <2>1, <2>2, <2>3, <2>5
<1>5. CASE Sleep(c, p)
  <2>1. state[p] = "RUNNING" BY <1>5, ActiveIsRunning DEF Sleep, At
  <2> QED BY <1>0, <1>5, <2>1 DEF Sleep
<1>6. CASE WakeupInit(c, p) \/ WakeupParent(c, p)
  <2>1. \/ state' = state
        \/ state[j[p]] = "SLEEPING" /\ state' = [state EXCEPT ![j[p]] = "RUNNABLE"]
    BY <1>6 DEF WakeupInit, WakeupParent, wakeup
  <2> QED BY <1>0, <2>1
<1>7. CASE Zombie(c, p) BY <1>0, <1>7 DEF Zombie
<1>8. CASE Kill(c, p)
  <2>1. \/ state' = state
        \/ state[i[p]] = "SLEEPING" /\ state' = [state EXCEPT ![i[p]] = "RUNNABLE"]
    BY <1>8 DEF Kill
  <2> QED BY <1>0, <2>1
<1> QED BY <1>1, <1>2, <1>3, <1>4, <1>5, <1>6, <1>7, <1>8 DEF SyscallStep

-----------------------------------------------------------------------------
(* exit(), up to the end of reparent() *)

\* exit() takes wait_lock.
LEMMA ExitStep ==
  ASSUME IInv, NEW c \in CPUs, NEW p \in Procs, Exit(c, p)
  PROVE  IInv'
<1>1. CASE p = initproc
  <2>0. /\ cpc[c] = "run" /\ cproc[c] = p /\ pc[p] = "exit"
        /\ pc' = [pc EXCEPT ![p] = "init_exiting"]
        /\ UNCHANGED <<state, chan, killed, pid, parent, plock, wait_lock, nextpid,
                       cproc, cpc, ci, back, i, j, kids, arg>>
    BY <1>1, Zenon DEF At, On, Goto, procvars, cpuvars, locals, Exit
  <2>1. TypeOK' BY <2>0, LabelNames, Parts, Zenon DEF TypeOK
  <2>2. SchedInv' BY <2>0, <1>1, Parts, SchedMoved, Zenon DEF Locked
  <2>3. WaitInv' BY <2>0, Parts, WaitMoved, Zenon DEF WaitLocked
  <2>4. ScanInv' BY <2>0, Parts, ScanMoved, Zenon DEF Scanning, Forking
  <2>5. TreeInv' BY <2>0, Parts, TreeMoved, Zenon DEF Exiting
  <2>6. WakeInv' BY <2>0, Parts, WakeMoved, Zenon DEF Watched
  <2> QED BY <2>1, <2>2, <2>3, <2>4, <2>5, <2>6, Whole
<1>2. CASE p # initproc
  <2>0. /\ cpc[c] = "run" /\ cproc[c] = p /\ pc[p] = "exit" /\ wait_lock = NoCpu
        /\ pc' = [pc EXCEPT ![p] = "reparent"]
        /\ wait_lock' = c
        /\ UNCHANGED <<state, chan, killed, pid, parent, plock, nextpid, cproc, cpc,
                       ci, back, i, j, kids, arg>>
    BY <1>2, Zenon DEF At, On, Goto, procvars, cpuvars, locals, Exit
  <2>1. TypeOK' BY <2>0, LabelNames, Parts, Zenon DEF TypeOK
  <2>2. SchedInv' BY <2>0, Parts, SchedMoved, Zenon DEF Locked
  <2>3. WaitInv' BY <2>0, Parts, WaitTaken, Zenon DEF WaitLocked
  <2>4. ScanInv' BY <2>0, Parts, ScanMoved, Zenon DEF Scanning, Forking
  <2>i. i[p] = 1 BY <2>0, Parts, Zenon DEF ScanInv, Loc, Forking
  <2>5. TreeInv' BY <1>2, <2>0, <2>i, Parts, TreeExits, Zenon
  <2>6. WakeInv' BY <2>0, Parts, WakeMoved, Zenon DEF Watched
  <2> QED BY <2>1, <2>2, <2>3, <2>4, <2>5, <2>6, Whole
<1> QED BY <1>1, <1>2, Zenon

\* reparent() has given away the children below its scan position.
LEMMA ReparentStep ==
  ASSUME IInv, NEW c \in CPUs, NEW p \in Procs, Reparent(c, p)
  PROVE  IInv'
<1>s. /\ i[p] \in Nat /\ NPROC \in Nat
      /\ i[p] <= NPROC => i[p] \in Procs /\ i[p] + 1 \in ScanPos
      /\ i[p] > NPROC => \A q \in Procs : q < i[p]
  BY ScanNext, Parts, Zenon DEF TypeOK
<1>1. CASE /\ i[p] > NPROC /\ Goto(p, "wakeup_parent") /\ i' = [i EXCEPT ![p] = 1]
           /\ UNCHANGED parent
  <2>0. /\ cpc[c] = "run" /\ cproc[c] = p /\ pc[p] = "reparent"
        /\ pc' = [pc EXCEPT ![p] = "wakeup_parent"]
        /\ i' = [i EXCEPT ![p] = 1]
        /\ UNCHANGED <<state, chan, killed, pid, parent, plock, wait_lock, nextpid,
                       cproc, cpc, ci, back, j, kids, arg>>
    BY <1>1, Zenon DEF At, On, Goto, cpuvars, Reparent
  <2>1. TypeOK' BY <2>0, ScanStart, LabelNames, Parts, Zenon DEF TypeOK
  <2>2. SchedInv' BY <2>0, Parts, SchedMoved, Zenon DEF Locked
  <2>3. WaitInv' BY <2>0, Parts, WaitMoved, Zenon DEF WaitLocked
  <2>4. ScanInv' BY <2>0, Parts, ScanLeft, Zenon DEF Forking
  <2>m. \A q \in Procs : q # p => i'[q] = i[q] BY <2>0, Parts, Zenon DEF TypeOK
  <2>a. \A q \in Procs : q < i[p] BY <1>s, <1>1, Zenon
  <2>5. TreeInv' BY <2>0, <2>m, <2>a, Parts, TreeChildless, Zenon
  <2>6. WakeInv'
    <3>1. parent[p] \in Procs
      BY <2>0, Parts, ExitingParent, Zenon DEF TypeOK, Exiting
    <3>2. j[p] = 1 BY <2>0, Parts, Zenon DEF ScanInv, Loc
    <3> QED BY <2>0, <2>m, <3>1, <3>2, Parts, WakeToParent, Zenon
  <2> QED BY <2>1, <2>2, <2>3, <2>4, <2>5, <2>6, Whole
<1>2. CASE /\ i[p] <= NPROC /\ parent[i[p]] = p /\ Goto(p, "wakeup_init")
           /\ parent' = [parent EXCEPT ![i[p]] = initproc] /\ UNCHANGED i
  <2>0. /\ cpc[c] = "run" /\ cproc[c] = p /\ pc[p] = "reparent"
        /\ pc' = [pc EXCEPT ![p] = "wakeup_init"]
        /\ parent' = [parent EXCEPT ![i[p]] = initproc]
        /\ UNCHANGED <<state, chan, killed, pid, plock, wait_lock, nextpid, cproc, cpc,
                       ci, back, i, j, kids, arg>>
    BY <1>2, Zenon DEF At, On, Goto, cpuvars, Reparent
  <2>1. TypeOK' BY <2>0, InitSlot, LabelNames, Parts, Zenon DEF TypeOK
  <2>2. SchedInv' BY <2>0, Parts, SchedMoved, Zenon DEF Locked
  <2>3. WaitInv' BY <2>0, Parts, WaitMoved, Zenon DEF WaitLocked
  <2>4. ScanInv' BY <1>2, <2>0, Parts, ScanGiven, Zenon
  <2>n. i[p] \in Procs BY <1>s, <1>2, Zenon
  <2>5. TreeInv' BY <1>2, <2>0, <2>n, Parts, TreeGiven, Zenon
  <2>6. WakeInv'
    <3>1. \A q \in Procs : pc[q] \in WaitLocked => q = p
      BY <2>0, Parts, WaitExclusive, Zenon DEF WaitLocked
    <3>2. j[p] = 1 BY <2>0, Parts, Zenon DEF ScanInv, Loc
    <3> QED BY <2>0, <3>1, <3>2, Parts, WakeGiven, Zenon
  <2> QED BY <2>1, <2>2, <2>3, <2>4, <2>5, <2>6, Whole
<1>3. CASE /\ i[p] <= NPROC /\ parent[i[p]] # p /\ i' = [i EXCEPT ![p] = i[p] + 1]
           /\ UNCHANGED <<parent, pc>>
  <2>0. /\ cpc[c] = "run" /\ cproc[c] = p /\ pc[p] = "reparent"
        /\ i' = [i EXCEPT ![p] = i[p] + 1]
        /\ UNCHANGED <<state, chan, killed, pid, parent, plock, wait_lock, nextpid,
                       cproc, cpc, ci, pc, back, j, kids, arg>>
    BY <1>3, Zenon DEF At, On, cpuvars, Reparent
  <2>n. i[p] \in Procs /\ i[p] + 1 \in ScanPos BY <1>s, <1>3, Zenon
  <2>1. TypeOK' BY <2>0, <2>n, Parts, Zenon DEF TypeOK
  <2>2. SchedInv' BY <2>0, Parts, SchedSame, Zenon
  <2>3. WaitInv' BY <2>0, Parts, WaitSame, Zenon
  <2>4. ScanInv' BY <2>0, Parts, ScanAdvanced, Zenon
  <2>l. pc' = [pc EXCEPT ![p] = "reparent"] BY <2>0, Parts, Zenon DEF TypeOK
  <2>5. TreeInv' BY <1>3, <2>0, <2>n, <2>l, Parts, TreePassed, Zenon
  <2>6. WakeInv' BY <2>0, Parts, WakeAdvanced, Zenon
  <2> QED BY <2>1, <2>2, <2>3, <2>4, <2>5, <2>6, Whole
<1> QED BY <1>1, <1>2, <1>3, Zenon DEF Reparent, Abandoned

\* reparent()'s wakeup(initproc), slot by slot.
LEMMA WakeupInitStep ==
  ASSUME IInv, NEW c \in CPUs, NEW p \in Procs, WakeupInit(c, p)
  PROVE  IInv'
<1>p. j[p] \in Nat /\ (j[p] <= NPROC => j[p] \in Procs /\ j[p] + 1 \in ScanPos)
      /\ (j[p] > NPROC => \A q \in Procs : q < j[p])
  BY ScanNext, Parts, Zenon DEF TypeOK
<1>x. pc[p] = "wakeup_init" /\ cpc[c] = "run" /\ cproc[c] = p
  BY Zenon DEF WakeupInit, At, On
<1>i. i[p] \in Procs /\ p # initproc
  BY <1>x, Parts, Zenon DEF TreeInv
<1>1. CASE wakeup(p, initproc) /\ ~(j[p] # p /\ state[j[p]] = "SLEEPING" /\ chan[j[p]] = initproc)
  <2>0. /\ j[p] <= NPROC
        /\ (j[p] # p => plock[j[p]] = NoCpu)
        /\ j' = [j EXCEPT ![p] = j[p] + 1]
        /\ UNCHANGED <<state, chan, killed, pid, parent, plock, wait_lock, nextpid,
                       cproc, cpc, ci, pc, back, i, kids, arg>>
    BY <1>1, Zenon DEF Unlocked, cpuvars, WakeupInit, wakeup, Goto
  <2>1. TypeOK' BY <2>0, <1>p, Parts, Zenon DEF TypeOK
  <2>2. SchedInv' BY <2>0, Parts, SchedSame, Zenon
  <2>3. WaitInv' BY <2>0, Parts, WaitSame, Zenon
  <2>m. \A q \in Procs : q # p => j'[q] = j[q] BY <2>0, Parts, Zenon DEF TypeOK
  <2>4. ScanInv' BY <1>x, <2>0, <2>m, Parts, ScanWaking, Zenon
  <2>5. TreeInv' BY <2>0, Parts, TreeSame, Zenon
  <2>6. WakeInv'
    <3>1. ASSUME j[p] = 1 PROVE ~Dozing(initproc)
      <4>1. j[p] = initproc BY <3>1, Zenon DEF initproc
      <4> QED BY <1>1, <1>i, <2>0, <4>1, InitSlot, Parts, NotDozing, Zenon
    <3> QED BY <1>x, <2>0, <2>m, <3>1, Parts, WakePassed, Zenon
  <2> QED BY <2>1, <2>2, <2>3, <2>4, <2>5, <2>6, Whole
<1>2. ASSUME wakeup(p, initproc), j[p] # p, state[j[p]] = "SLEEPING", chan[j[p]] = initproc
      PROVE  IInv'
  <2>0. /\ j[p] <= NPROC /\ plock[j[p]] = NoCpu
        /\ j' = [j EXCEPT ![p] = j[p] + 1]
        /\ state' = [state EXCEPT ![j[p]] = "RUNNABLE"]
        /\ UNCHANGED <<chan, killed, pid, parent, plock, wait_lock, nextpid, cproc,
                       cpc, ci, pc, back, i, kids, arg>>
    BY <1>2, Zenon DEF Unlocked, cpuvars, WakeupInit, wakeup, Goto
  <2>n. j[p] \in Procs /\ j[p] + 1 \in ScanPos BY <1>p, <2>0, Zenon
  <2>s. pc[j[p]] # "sleeping" /\ j[p] = initproc
    BY <1>2, <2>n, Parts, Sleeper, Zenon
  <2>1. TypeOK' BY <2>0, <2>n, StateNames, Parts, Zenon DEF TypeOK
  <2>2. SchedInv' BY <1>2, <2>0, <2>n, Parts, SchedWoken, Zenon
  <2>3. WaitInv' BY <2>0, Parts, WaitSame, Zenon
  <2>m. /\ \A q \in Procs : q # p => j'[q] = j[q]
        /\ \A q \in Procs : state[q] = "USED" => state'[q] = "USED"
    BY <1>2, <2>0, Parts, Zenon DEF TypeOK
  <2>4. ScanInv' BY <1>x, <2>0, <2>m, Parts, ScanWaking, Zenon
  <2>5. TreeInv' BY <1>2, <2>0, <2>n, Parts, TreeWoken, Zenon
  <2>6. WakeInv'
    <3>1. \A q \in Procs : pc[q] \in Exiting => parent[q] # NoProc
      BY Parts, ExitingParent, Zenon
    <3> QED BY <1>x, <2>0, <2>n, <2>s, <2>m, <3>1, Parts, WakeWoken, Zenon
  <2> QED BY <2>1, <2>2, <2>3, <2>4, <2>5, <2>6, Whole
<1>3. CASE /\ j[p] > NPROC /\ Goto(p, "reparent") /\ i' = [i EXCEPT ![p] = i[p] + 1]
           /\ j' = [j EXCEPT ![p] = 1] /\ UNCHANGED state
  <2>0. /\ pc' = [pc EXCEPT ![p] = "reparent"]
        /\ i' = [i EXCEPT ![p] = i[p] + 1]
        /\ j' = [j EXCEPT ![p] = 1]
        /\ UNCHANGED <<state, chan, killed, pid, parent, plock, wait_lock, nextpid,
                       cproc, cpc, ci, back, kids, arg>>
    BY <1>3, Zenon DEF Goto, cpuvars, WakeupInit
  <2>n. i[p] + 1 \in ScanPos /\ j[p] # 1
    BY <1>3, <1>p, <1>i, ProcAssumption DEF Procs, ScanPos
  <2>m. \A q \in Procs : q # p => i'[q] = i[q] /\ j'[q] = j[q]
    BY <2>0, Parts, Zenon DEF TypeOK
  <2>1. TypeOK' BY <2>0, <2>n, ScanStart, LabelNames, Parts, Zenon DEF TypeOK
  <2>2. SchedInv' BY <1>x, <2>0, Parts, SchedMoved, Zenon DEF Locked
  <2>3. WaitInv' BY <1>x, <2>0, Parts, WaitMoved, Zenon DEF WaitLocked
  <2>4. ScanInv' BY <1>x, <2>0, <2>m, Parts, ScanWoken, Zenon
  <2>5. TreeInv' BY <1>x, <1>i, <2>0, Parts, TreePassed, Zenon
  <2>6. WakeInv' BY <1>x, <2>0, <2>n, <2>m, Parts, WakeInitDone, Zenon
  <2> QED BY <2>1, <2>2, <2>3, <2>4, <2>5, <2>6, Whole
<1> QED BY <1>1, <1>2, <1>3, Zenon DEF WakeupInit

-----------------------------------------------------------------------------
(* wakeup(), the end of exit(), and kill() *)

\* exit()'s wakeup(p->parent) has passed the parent when it ends.
LEMMA WakeupParentStep ==
  ASSUME IInv, NEW c \in CPUs, NEW p \in Procs, WakeupParent(c, p)
  PROVE  IInv'
<1>p. j[p] \in Nat /\ (j[p] <= NPROC => j[p] \in Procs /\ j[p] + 1 \in ScanPos)
      /\ (j[p] > NPROC => \A q \in Procs : q < j[p])
  BY ScanNext, Parts, Zenon DEF TypeOK
<1>x. pc[p] = "wakeup_parent" /\ cpc[c] = "run" /\ cproc[c] = p
  BY Zenon DEF WakeupParent, At, On
<1>e. \A q \in Procs : pc[q] \in Exiting => parent[q] # NoProc
  BY Parts, ExitingParent, Zenon
<1>r. parent[p] \in Procs /\ parent[p] # p
  <2>1. parent[p] # NoProc BY <1>x, <1>e, Zenon DEF Exiting
  <2>2. parent[p] \in Procs BY <2>1, Parts, Zenon DEF TypeOK
  <2> QED BY <2>1, <2>2, Parts, Zenon DEF TreeInv
<1>1. CASE wakeup(p, parent[p]) /\ ~(j[p] # p /\ state[j[p]] = "SLEEPING" /\ chan[j[p]] = parent[p])
  <2>0. /\ j[p] <= NPROC
        /\ (j[p] # p => plock[j[p]] = NoCpu)
        /\ j' = [j EXCEPT ![p] = j[p] + 1]
        /\ UNCHANGED <<state, chan, killed, pid, parent, plock, wait_lock, nextpid,
                       cproc, cpc, ci, pc, back, i, kids, arg>>
    BY <1>1, Zenon DEF Unlocked, cpuvars, WakeupParent, wakeup, Goto
  <2>1. TypeOK' BY <2>0, <1>p, Parts, Zenon DEF TypeOK
  <2>2. SchedInv' BY <2>0, Parts, SchedSame, Zenon
  <2>3. WaitInv' BY <2>0, Parts, WaitSame, Zenon
  <2>m. (\A q \in Procs : q # p => j'[q] = j[q]) /\ j'[p] = j[p] + 1
    BY <2>0, Parts, Zenon DEF TypeOK
  <2>4. ScanInv' BY <1>x, <2>0, <2>m, Parts, ScanWaking, Zenon
  <2>5. TreeInv' BY <2>0, Parts, TreeSame, Zenon
  <2>6. WakeInv'
    <3>1. ASSUME j'[p] > parent[p] PROVE ~Dozing(parent[p])
      <4>1. j[p] > parent[p] \/ j[p] = parent[p] BY <3>1, <2>m, <1>p, <1>r, SlotNat
      <4>2. CASE j[p] > parent[p] BY <4>2, <1>x, Parts, Zenon DEF WakeInv
      <4>3. CASE j[p] = parent[p] BY <1>1, <1>r, <2>0, <4>3, Parts, NotDozing, Zenon
      <4> QED BY <4>1, <4>2, <4>3, Zenon
    <3> QED BY <1>x, <2>0, <2>m, <3>1, Parts, WakePassed, Zenon
  <2> QED BY <2>1, <2>2, <2>3, <2>4, <2>5, <2>6, Whole
<1>2. ASSUME wakeup(p, parent[p]), j[p] # p, state[j[p]] = "SLEEPING", chan[j[p]] = parent[p]
      PROVE  IInv'
  <2>0. /\ j[p] <= NPROC /\ plock[j[p]] = NoCpu
        /\ j' = [j EXCEPT ![p] = j[p] + 1]
        /\ state' = [state EXCEPT ![j[p]] = "RUNNABLE"]
        /\ UNCHANGED <<chan, killed, pid, parent, plock, wait_lock, nextpid, cproc,
                       cpc, ci, pc, back, i, kids, arg>>
    BY <1>2, Zenon DEF Unlocked, cpuvars, WakeupParent, wakeup, Goto
  <2>n. j[p] \in Procs /\ j[p] + 1 \in ScanPos BY <1>p, <2>0, Zenon
  <2>s. pc[j[p]] # "sleeping" /\ j[p] = parent[p]
    BY <1>2, <2>n, Parts, Sleeper, Zenon
  <2>1. TypeOK' BY <2>0, <2>n, StateNames, Parts, Zenon DEF TypeOK
  <2>2. SchedInv' BY <1>2, <2>0, <2>n, Parts, SchedWoken, Zenon
  <2>3. WaitInv' BY <2>0, Parts, WaitSame, Zenon
  <2>m. /\ \A q \in Procs : q # p => j'[q] = j[q]
        /\ \A q \in Procs : state[q] = "USED" => state'[q] = "USED"
    BY <1>2, <2>0, Parts, Zenon DEF TypeOK
  <2>4. ScanInv' BY <1>x, <2>0, <2>m, Parts, ScanWaking, Zenon
  <2>5. TreeInv' BY <1>2, <2>0, <2>n, Parts, TreeWoken, Zenon
  <2>6. WakeInv'
    <3>1. j[p] = IF pc[p] = "wakeup_init" THEN initproc ELSE parent[p] BY <1>x, <2>s
    <3>2. state' = [state EXCEPT ![j[p]] = "RUNNABLE"] /\ pc' = pc /\ parent' = parent /\ i' = i
      BY <2>0, Zenon
    <3> QED BY <1>x, <1>e, <2>n, <2>s, <2>m, <3>1, <3>2, Parts, WakeWoken, Zenon
  <2> QED BY <2>1, <2>2, <2>3, <2>4, <2>5, <2>6, Whole
<1>3. CASE /\ j[p] > NPROC /\ Goto(p, "zombie") /\ j' = [j EXCEPT ![p] = 1]
           /\ UNCHANGED <<state, i>>
  <2>0. /\ pc' = [pc EXCEPT ![p] = "zombie"]
        /\ j' = [j EXCEPT ![p] = 1]
        /\ UNCHANGED <<state, chan, killed, pid, parent, plock, wait_lock, nextpid,
                       cproc, cpc, ci, back, i, kids, arg>>
    BY <1>3, Zenon DEF Goto, cpuvars, WakeupParent
  <2>n. j[p] > parent[p] BY <1>3, <1>p, <1>r, SlotNat
  <2>m. \A q \in Procs : q # p => j'[q] = j[q] BY <2>0, Parts, Zenon DEF TypeOK
  <2>i. i'[p] = 1 BY <1>x, <2>0, Parts, Zenon DEF ScanInv, Loc, Forking
  <2>1. TypeOK' BY <2>0, ScanStart, LabelNames, Parts, Zenon DEF TypeOK
  <2>2. SchedInv' BY <1>x, <2>0, Parts, SchedMoved, Zenon DEF Locked
  <2>3. WaitInv' BY <1>x, <2>0, Parts, WaitMoved, Zenon DEF WaitLocked
  <2>4. ScanInv' BY <1>x, <2>0, <2>i, Parts, ScanWoken, Zenon
  <2>5. TreeInv' BY <1>x, <2>0, Parts, TreeChildless, Zenon
  <2>6. WakeInv' BY <1>x, <2>0, <2>n, <2>m, Parts, WakeParentDone, Zenon
  <2> QED BY <2>1, <2>2, <2>3, <2>4, <2>5, <2>6, Whole
<1> QED BY <1>1, <1>2, <1>3, Zenon DEF WakeupParent

\* exit() becomes a ZOMBIE without children, its parent awake.
LEMMA ZombieStep ==
  ASSUME IInv, NEW c \in CPUs, NEW p \in Procs, Zombie(c, p)
  PROVE  IInv'
<1>0. /\ cpc[c] = "run" /\ cproc[c] = p /\ pc[p] = "zombie" /\ plock[p] = NoCpu
      /\ pc' = [pc EXCEPT ![p] = "sched"]
      /\ plock' = [plock EXCEPT ![p] = c]
      /\ wait_lock' = NoCpu
      /\ state' = [state EXCEPT ![p] = "ZOMBIE"]
      /\ back' = [back EXCEPT ![p] = "dead"]
      /\ UNCHANGED <<chan, killed, pid, parent, nextpid, cproc, cpc, ci, i, j, kids, arg>>
  BY Zenon DEF At, On, Goto, Unlocked, Acquire, cpuvars, Zombie
<1>1. TypeOK' BY <1>0, StateNames, LabelNames, Parts, Zenon DEF TypeOK
<1>r. state[p] = "RUNNING" BY <1>0, Parts, Zenon DEF SchedInv, CpuInv
<1>2. SchedInv' BY <1>0, Parts, SchedDied, Zenon
<1>3. WaitInv' BY <1>0, Parts, WaitGiven, Zenon DEF WaitLocked
<1>4. ScanInv' BY <1>0, <1>r, Parts, ScanAsleep, Zenon
<1>5. TreeInv' BY <1>0, <1>r, Parts, TreeDied, Zenon DEF Live
<1>6. WakeInv'
  <2>1. \A q \in Procs : pc[q] \in WaitLocked => q = p
    BY <1>0, Parts, WaitExclusive, Zenon DEF WaitLocked
  <2> QED BY <1>0, <2>1, Parts, WakeDied, Zenon
<1> QED BY <1>1, <1>2, <1>3, <1>4, <1>5, <1>6, Whole

\* kill() sets a flag and makes a sleeper RUNNABLE.
LEMMA KillStep ==
  ASSUME IInv, NEW c \in CPUs, NEW p \in Procs, Kill(c, p)
  PROVE  IInv'
<1>s. /\ i[p] \in Nat /\ NPROC \in Nat
      /\ i[p] <= NPROC => i[p] \in Procs /\ i[p] + 1 \in ScanPos
      /\ i[p] > NPROC => \A q \in Procs : q < i[p]
  BY ScanNext, Parts, Zenon DEF TypeOK
<1>1. CASE Return(p) /\ arg' = [arg EXCEPT ![p] = 0] /\ UNCHANGED <<state, killed>>
  <2>0. /\ cpc[c] = "run" /\ cproc[c] = p /\ pc[p] = "kill"
        /\ pc' = [pc EXCEPT ![p] = "ret"]
        /\ i' = [i EXCEPT ![p] = 1]
        /\ arg' = [arg EXCEPT ![p] = 0]
        /\ UNCHANGED <<state, chan, killed, pid, parent, plock, wait_lock, nextpid,
                       cproc, cpc, ci, back, j, kids>>
    BY <1>1, Zenon DEF At, On, Goto, Return, cpuvars, Kill
  <2>1. TypeOK' BY <2>0, ScanStart, LabelNames, Parts, Zenon DEF TypeOK
  <2>2. SchedInv' BY <2>0, Parts, SchedMoved, Zenon DEF Locked
  <2>3. WaitInv' BY <2>0, Parts, WaitMoved, Zenon DEF WaitLocked
  <2>4. ScanInv' BY <2>0, Parts, ScanLeft, Zenon DEF Forking
  <2>5. TreeInv' BY <2>0, Parts, TreeMoved, Zenon DEF TypeOK, Exiting
  <2>6. WakeInv' BY <2>0, Parts, WakeMoved, Zenon DEF TypeOK, Watched
  <2> QED BY <2>1, <2>2, <2>3, <2>4, <2>5, <2>6, Whole
<1>2. CASE /\ i[p] <= NPROC /\ i' = [i EXCEPT ![p] = i[p] + 1]
           /\ UNCHANGED <<state, killed, pc, arg>>
  <2>0. /\ cpc[c] = "run" /\ cproc[c] = p /\ pc[p] = "kill"
        /\ i' = [i EXCEPT ![p] = i[p] + 1]
        /\ UNCHANGED <<state, chan, killed, pid, parent, plock, wait_lock, nextpid,
                       cproc, cpc, ci, pc, back, j, kids, arg>>
    BY <1>2, Zenon DEF At, On, cpuvars, Kill
  <2>n. i[p] + 1 \in ScanPos BY <1>s, <1>2, Zenon
  <2>1. TypeOK' BY <2>0, <2>n, Parts, Zenon DEF TypeOK
  <2>2. SchedInv' BY <2>0, Parts, SchedSame, Zenon
  <2>3. WaitInv' BY <2>0, Parts, WaitSame, Zenon
  <2>4. ScanInv' BY <2>0, Parts, ScanAdvanced, Zenon
  <2>5. TreeInv' BY <2>0, Parts, TreeAdvanced, Zenon DEF Exiting
  <2>6. WakeInv' BY <2>0, Parts, WakeAdvanced, Zenon
  <2> QED BY <2>1, <2>2, <2>3, <2>4, <2>5, <2>6, Whole
<1>3. CASE /\ killed' = [killed EXCEPT ![i[p]] = TRUE] /\ UNCHANGED state
           /\ Return(p) /\ arg' = [arg EXCEPT ![p] = 0]
  <2>0. /\ cpc[c] = "run" /\ cproc[c] = p /\ pc[p] = "kill"
        /\ pc' = [pc EXCEPT ![p] = "ret"]
        /\ i' = [i EXCEPT ![p] = 1]
        /\ arg' = [arg EXCEPT ![p] = 0]
        /\ killed' = [killed EXCEPT ![i[p]] = TRUE]
        /\ UNCHANGED <<state, chan, pid, parent, plock, wait_lock, nextpid, cproc, cpc,
                       ci, back, j, kids>>
    BY <1>3, Zenon DEF At, On, Goto, Return, cpuvars, Kill
  <2>1. TypeOK' BY <2>0, ScanStart, LabelNames, Parts, Zenon DEF TypeOK
  <2>2. SchedInv' BY <2>0, Parts, SchedMoved, Zenon DEF Locked
  <2>3. WaitInv' BY <2>0, Parts, WaitMoved, Zenon DEF WaitLocked
  <2>4. ScanInv' BY <2>0, Parts, ScanLeft, Zenon DEF Forking
  <2>5. TreeInv' BY <2>0, Parts, TreeMoved, Zenon DEF TypeOK, Exiting
  <2>6. WakeInv' BY <2>0, Parts, WakeMoved, Zenon DEF TypeOK, Watched
  <2> QED BY <2>1, <2>2, <2>3, <2>4, <2>5, <2>6, Whole
<1>4. ASSUME NEW n \in Procs, n = i[p], Unlocked(n), state[n] = "SLEEPING",
             killed' = [killed EXCEPT ![n] = TRUE], state' = [state EXCEPT ![n] = "RUNNABLE"],
             Return(p), arg' = [arg EXCEPT ![p] = 0]
      PROVE  IInv'
  <2>0. /\ cpc[c] = "run" /\ cproc[c] = p /\ pc[p] = "kill" /\ plock[n] = NoCpu
        /\ pc' = [pc EXCEPT ![p] = "ret"]
        /\ i' = [i EXCEPT ![p] = 1]
        /\ UNCHANGED <<chan, pid, parent, plock, wait_lock, nextpid, cproc, cpc, ci,
                       back, j, kids>>
    BY <1>4, Zenon DEF At, On, Goto, Return, Unlocked, cpuvars, Kill
  <2>r. state[p] = "RUNNING" BY <2>0, Parts, Zenon DEF SchedInv, CpuInv
  <2>m. /\ \A q \in Procs : q # p => i'[q] = i[q] /\ pc'[q] = pc[q]
        /\ \A q \in Procs : q # n => state'[q] = state[q]
        /\ pc'[p] = "ret" /\ n # p
    BY <1>4, <2>0, <2>r, Parts, Zenon DEF TypeOK
  <2>1. TypeOK'
    <3>1. 0 \in Nat OBVIOUS
    <3> QED BY <1>4, <2>0, <3>1, ScanStart, StateNames, LabelNames, Parts, Zenon DEF TypeOK
  <2>2. SchedInv' BY <1>4, <2>0, <2>m, Parts, SchedReadied, Zenon DEF Locked
  <2>3. WaitInv' BY <2>0, Parts, WaitMoved, Zenon DEF WaitLocked
  <2>4. ScanInv' BY <1>4, <2>0, <2>m, Parts, ScanLeftSlot, Zenon
  <2>5. TreeInv' BY <1>4, <2>0, <2>m, Parts, TreeWoken, Zenon DEF Exiting
  <2>6. WakeInv' BY <1>4, <2>0, <2>m, Parts, WakeReadied, Zenon DEF Watched
  <2> QED BY <2>1, <2>2, <2>3, <2>4, <2>5, <2>6, Whole
<1> QED BY <1>s, <1>1, <1>2, <1>3, <1>4, Zenon DEF Kill

-----------------------------------------------------------------------------
(* From the steps to every behaviour *)

\* Every step of a CPU or of a thread keeps the invariant.
LEMMA NextInv ==
  ASSUME IInv, [Next]_vars
  PROVE  IInv'
<1>1. CASE UNCHANGED vars BY <1>1, StutterInv
<1>2. ASSUME NEW c \in CPUs, Scheduler(c) \/ SchedulerBack(c)
      PROVE  IInv'
  BY <1>2, SchedulerStep, SchedulerBackStep
<1>3. ASSUME NEW c \in CPUs, NEW p \in Procs,
             \/ sched(c, p) \/ Resume(c, p) \/ forkret(c, p) \/ kerneltrap(c, p)
             \/ Syscall(c, p) \/ Fault(c, p) \/ Timer(c, p) \/ UserRet(c, p)
      PROVE  IInv'
  BY <1>3, SchedStep, ResumeStep, ForkretStep, KerneltrapStep, SyscallEntryStep,
     FaultStep, TimerStep, UserRetStep
<1>4. ASSUME NEW c \in CPUs, NEW p \in Procs, SyscallStep(c, p)
      PROVE  IInv'
  BY <1>4, ForkAllocStep, ForkParentStep, ForkRunStep, WaitLockStep, WaitScanStep,
     WaitCheckStep, SleepLockStep, SleepStep, ExitStep, ReparentStep, WakeupInitStep,
     WakeupParentStep, ZombieStep, KillStep DEF SyscallStep
<1> QED BY <1>1, <1>2, <1>3, <1>4 DEF Next

\* The inductive invariant holds in every state the kernel reaches.
THEOREM Invariance == Spec => []IInv
<1>1. Init => IInv BY InitInv
<1>2. IInv /\ [Next]_vars => IInv' BY NextInv
<1> QED BY <1>1, <1>2, PTL DEF Spec

-----------------------------------------------------------------------------
(* What follows for the kernel *)

\* Every field of the process table and every local stays in its type.
THEOREM TypeCorrect == Spec => []TypeOK
<1>1. IInv => TypeOK BY Parts
<1> QED BY <1>1, Invariance, PTL

\* swtch() never leaves two CPUs on one kernel stack.
THEOREM OneCpuPerProcess == Spec => []OneCpu
<1>1. IInv => OneCpu BY Parts DEF SchedInv
<1> QED BY <1>1, Invariance, PTL

\* The panics of sched() and of exit()'s end are unreachable.
THEOREM PanicFree == Spec => []NoPanic
<1>1. IInv => NoPanic BY Parts DEF SchedInv, ThreadInv, NoPanic
<1> QED BY <1>1, Invariance, PTL

\* wait() and allocproc() never touch a slot whose kernel stack is in use.
THEOREM FreedSlotsAreIdle == Spec => []FreedOffStack
<1>1. ASSUME IInv
      PROVE  FreedOffStack
  BY <1>1, Parts DEF TypeOK, SchedInv, CpuInv, FreedOffStack
<1> QED BY <1>1, Invariance, PTL

\* fork(), exit() and reparent() keep every process below a live parent.
THEOREM TreeIsKept == Spec => []ParentAlive
<1>1. IInv => ParentAlive BY Parts DEF TreeInv, Live, ParentAlive
<1> QED BY <1>1, Invariance, PTL

\* The wakeup() of exit() and reparent() reaches the parent in wait().
THEOREM WakeupNotLost == Spec => []NoLostWakeup
<1>1. ASSUME IInv, wait_lock = NoCpu
      PROVE  \A x \in Procs : pc[x] # "wakeup_init"
  BY <1>1, InitSlot, Parts DEF WaitInv, WaitLocked
<1>2. ASSUME IInv
      PROVE  NoLostWakeup
  BY <1>1, <1>2, Parts DEF WakeInv, Dozing, NoLostWakeup
<1> QED BY <1>2, Invariance, PTL

\* wait_lock is acquired before any p->lock.
THEOREM LocksInOrder == Spec => []LockOrder
<1>1. ASSUME IInv
      PROVE  LockOrder
  BY <1>1, InitSlot, Parts DEF TypeOK, SchedInv, OneCpu, CpuInv, LockInv, Locked, On, LockOrder
<1> QED BY <1>1, Invariance, PTL

\* A zombie leaves the table only through its parent's wait(), under wait_lock.
THEOREM ZombiesReaped == Spec => ReapedByParent
<1>1. ASSUME IInv, [Next]_vars
      PROVE  [\A q \in Procs : state[q] = "ZOMBIE" /\ state'[q] # "ZOMBIE" =>
                /\ state'[q] = "UNUSED"
                /\ \E c \in CPUs : wait_lock = c /\ On(c, parent[q])]_vars
  <2>1. CASE UNCHANGED vars BY <2>1
  <2>2. ASSUME NEW q \in Procs, state[q] = "ZOMBIE", state'[q] # "ZOMBIE", Next
        PROVE  /\ state'[q] = "UNUSED"
               /\ \E c \in CPUs : wait_lock = c /\ On(c, parent[q])
    <3>1. PICK c \in CPUs, p \in Procs : SyscallStep(c, p)
      BY <1>1, <2>2, ZombieLeftAlone, InitSlot, Zenon DEF Next
    <3> QED BY <1>1, <2>2, <3>1, ZombieGoesByWait
  <2> QED BY <1>1, <2>1, <2>2
<1> QED BY <1>1, Invariance, PTL DEF Spec, ReapedByParent

=============================================================================
