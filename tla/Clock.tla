------------------------------- MODULE Clock --------------------------------
(***************************************************************************)
(* The clock and the locks under it: clockintr() and devintr() in trap.c,  *)
(* sys_sleep() and sys_uptime() in sysproc.c, acquire(), release(),        *)
(* push_off() and pop_off() in spinlock.c.  Each CPU runs a thread; while  *)
(* its interrupts are enabled the timer may interrupt the thread anywhere, *)
(* and the handler runs on top of it.  Thread and handler take tickslock   *)
(* and inside it p->lock, for killed(), sleep() and wakeup(): both are the *)
(* same sequence of steps, run by a thread "thr" or by a handler "irq".    *)
(* One p->lock stands for those of all processes, and a CPU keeps its      *)
(* thread: swtch(), the scheduler, sched()'s saving of intena and the      *)
(* yield() of kerneltrap() are left to Proc.                               *)
(***************************************************************************)
EXTENDS Integers, FiniteSets

CONSTANTS
  CPUs,
  cpu0,   \* the CPU that counts ticks
  NoCpu,
  Uint,   \* 2^32, the range of ticks
  Sleeps  \* the arguments of sys_sleep(); int, so possibly negative

VARIABLES
  sie,           \* of a CPU: interrupts are enabled
  noff, intena,  \* mycpu()->noff, mycpu()->intena
  old,           \* push_off()'s local, of a thread and of a handler
  pc,            \* pc[c][k]: where its thread and its handler are
  tickslock, plock,  \* the CPU that holds the lock
  ticks,
  asleep, killed,    \* of a thread
  n, ticks0,         \* sys_sleep()'s, n = 0 in sys_uptime()
  elapsed            \* the ticks since ticks0 was read, up to Uint, to state the properties

locals == <<asleep, killed, n, ticks0, elapsed>>
cpuvars == <<sie, noff, intena, old>>
vars == <<cpuvars, pc, tickslock, plock, ticks, locals>>

Diff(x, y) == (x - y) % Uint

Init ==
  /\ sie = [c \in CPUs |-> TRUE]
  /\ noff = [c \in CPUs |-> 0]
  /\ intena = [c \in CPUs |-> FALSE]
  /\ old = [c \in CPUs |-> [thr |-> FALSE, irq |-> FALSE]]
  /\ pc = [c \in CPUs |-> [thr |-> "out", irq |-> "out"]]
  /\ tickslock = NoCpu /\ plock = NoCpu
  /\ ticks = Uint - 1
  /\ asleep = [c \in CPUs |-> FALSE]
  /\ killed = [c \in CPUs |-> FALSE]
  /\ n = [c \in CPUs |-> 0]
  /\ ticks0 = [c \in CPUs |-> 0]
  /\ elapsed = [c \in CPUs |-> 0]

\* What runs on CPU c is at l.
Active(c) == IF pc[c].irq = "out" THEN "thr" ELSE "irq"
At(c, k, l) == k = Active(c) /\ pc[c][k] = l /\ ~(k = "thr" /\ asleep[c])
Goto(c, k, l) == pc' = [pc EXCEPT ![c][k] = l]

-----------------------------------------------------------------------------
(* spinlock.c *)

intr_off_late(c, o) ==
  /\ intena' = IF noff[c] = 0 THEN [intena EXCEPT ![c] = o] ELSE intena
  /\ noff' = [noff EXCEPT ![c] = @ + 1]
  /\ UNCHANGED sie

\* push_off() from intr_off() on, with o the value of old: no interrupt comes
\* once they are off, and nobody else writes this CPU's noff and intena.
intr_off(c, o) ==
  /\ sie' = [sie EXCEPT ![c] = FALSE]
  /\ intena' = IF noff[c] = 0 THEN [intena EXCEPT ![c] = o] ELSE intena
  /\ noff' = [noff EXCEPT ![c] = @ + 1]

pop_off(c) ==
  /\ noff' = [noff EXCEPT ![c] = @ - 1]
  /\ sie' = [sie EXCEPT ![c] = @ \/ (noff[c] = 1 /\ intena[c])]
  /\ UNCHANGED <<intena, old>>

\* acquire(): push_off(), which an interrupt may still part in two, then the
\* test-and-set of tickslock.
push_off(c, k) ==
  \/ /\ At(c, k, "push")
     /\ old' = [old EXCEPT ![c][k] = sie[c]]
     /\ Goto(c, k, "off")
     /\ UNCHANGED <<sie, noff, intena>>
  \/ /\ At(c, k, "off")
     /\ intr_off(c, old[c][k])
     /\ old' = [old EXCEPT ![c][k] = FALSE]
     /\ Goto(c, k, "spin")

Push(c, k) == push_off(c, k) /\ UNCHANGED <<tickslock, plock, ticks, locals>>

Spin(c, k) ==
  /\ At(c, k, "spin") /\ tickslock = NoCpu
  /\ tickslock' = c
  /\ Goto(c, k, "in")
  /\ UNCHANGED <<cpuvars, plock, ticks, locals>>

\* The store of release(&tickslock), before its pop_off().
Release(c, k) ==
  /\ At(c, k, "release")
  /\ tickslock' = NoCpu
  /\ Goto(c, k, "pop")
  /\ UNCHANGED <<cpuvars, plock, ticks, locals>>

Pop(c, k) ==
  /\ At(c, k, "pop")
  /\ pop_off(c)
  /\ Goto(c, k, IF k = "irq" THEN "iret" ELSE "out")
  /\ n' = IF k = "irq" THEN n ELSE [n EXCEPT ![c] = 0]
  /\ ticks0' = IF k = "irq" THEN ticks0 ELSE [ticks0 EXCEPT ![c] = 0]
  /\ elapsed' = IF k = "irq" THEN elapsed ELSE [elapsed EXCEPT ![c] = 0]
  /\ UNCHANGED <<tickslock, plock, ticks, asleep, killed>>

-----------------------------------------------------------------------------
(* The timer interrupt, which the hardware may raise at any time *)

\* The trap turns interrupts off; devintr() calls clockintr() on CPU 0 only,
\* and the timer interrupt of another CPU changes nothing here.
Interrupt(c) ==
  /\ c = cpu0 /\ sie[c] /\ Active(c) = "thr"
  /\ sie' = [sie EXCEPT ![c] = FALSE]
  /\ Goto(c, "irq", "push")
  /\ UNCHANGED <<noff, intena, old, tickslock, plock, ticks, locals>>

Iret(c) ==
  /\ At(c, "irq", "iret")
  /\ sie' = [sie EXCEPT ![c] = TRUE]
  /\ Goto(c, "irq", "out")
  /\ UNCHANGED <<noff, intena, old, tickslock, plock, ticks, locals>>

\* clockintr() with tickslock.
clockintr(c) ==
  /\ At(c, "irq", "in")
  /\ ticks' = (ticks + 1) % Uint
  /\ elapsed' = [d \in CPUs |-> IF pc[d].thr = "out" \/ ticks0[d] = Uint THEN 0
                              ELSE IF elapsed[d] < Uint THEN elapsed[d] + 1 ELSE Uint]
  /\ Goto(c, "irq", "wakeup")
  /\ UNCHANGED <<cpuvars, tickslock, plock, asleep, killed, n, ticks0>>

\* wakeup(&ticks).  Its section with p->lock, as killed()'s, is one step, after
\* which noff is what it was.
wakeup(c) == asleep' = [d \in CPUs |-> FALSE]

Wakeup(c) ==
  /\ At(c, "irq", "wakeup") /\ plock = NoCpu
  /\ wakeup(c)
  /\ Goto(c, "irq", "release")
  /\ UNCHANGED <<cpuvars, tickslock, plock, ticks, killed, n, ticks0, elapsed>>

-----------------------------------------------------------------------------
(* sys_sleep(), and sys_uptime() as sys_sleep(0) *)

Call(c) ==
  /\ At(c, "thr", "out") /\ ~killed[c]
  /\ \E k \in Sleeps : n' = [n EXCEPT ![c] = k]
  /\ ticks0' = [ticks0 EXCEPT ![c] = Uint]  \* not read yet
  /\ Goto(c, "thr", "push")
  /\ UNCHANGED <<cpuvars, tickslock, plock, ticks, asleep, killed, elapsed>>

Early_last(d, k) == d <= k % Uint

\* ticks - ticks0 < n, with n converted to unsigned.
Early(d, k) == d < k % Uint

\* With tickslock: ticks0 = ticks the first time, then the loop's test.
sys_sleep(c) ==
  LET t0 == IF ticks0[c] = Uint THEN ticks ELSE ticks0[c] IN
  /\ At(c, "thr", "in")
  /\ ticks0' = [ticks0 EXCEPT ![c] = t0]
  /\ Goto(c, "thr", IF Early(Diff(ticks, t0), n[c]) THEN "killed" ELSE "release")
  /\ UNCHANGED <<cpuvars, tickslock, plock, ticks, asleep, killed, n, elapsed>>

\* killed(p)
Killed(c) ==
  /\ At(c, "thr", "killed") /\ plock = NoCpu
  /\ Goto(c, "thr", IF killed[c] THEN "release" ELSE "sleep")
  /\ UNCHANGED <<cpuvars, tickslock, plock, ticks, locals>>

\* sleep(&ticks, &tickslock): the thread takes p->lock, gives up tickslock, then
\* it is SLEEPING and sched() lets the scheduler release p->lock and enable
\* interrupts.  Once awake it is back at acquire(&tickslock).
Sleep(c) ==
  \/ /\ At(c, "thr", "sleep") /\ plock = NoCpu
     /\ plock' = c
     /\ intr_off(c, sie[c])
     /\ Goto(c, "thr", "sleep2")
     /\ UNCHANGED <<old, tickslock, ticks, locals>>
  \/ /\ At(c, "thr", "sleep2")
     /\ tickslock' = NoCpu
     /\ pop_off(c)
     /\ Goto(c, "thr", "sched")
     /\ UNCHANGED <<plock, ticks, locals>>
  \/ /\ At(c, "thr", "sched")
     /\ asleep' = [asleep EXCEPT ![c] = TRUE]
     /\ plock' = NoCpu
     /\ noff' = [noff EXCEPT ![c] = 0]
     /\ sie' = [sie EXCEPT ![c] = TRUE]
     /\ Goto(c, "thr", "push")
     /\ UNCHANGED <<intena, old, tickslock, ticks, killed, n, ticks0, elapsed>>

\* kill() from elsewhere.
Kill(c) ==
  /\ ~killed[c] /\ plock = NoCpu
  /\ killed' = [killed EXCEPT ![c] = TRUE]
  /\ asleep' = [asleep EXCEPT ![c] = FALSE]
  /\ UNCHANGED <<cpuvars, pc, tickslock, plock, ticks, n, ticks0, elapsed>>

Next ==
  \E c \in CPUs :
    \/ \E k \in {"thr", "irq"} :
         Push(c, k) \/ Spin(c, k) \/ Release(c, k) \/ Pop(c, k)
    \/ Interrupt(c) \/ Iret(c) \/ clockintr(c) \/ Wakeup(c)
    \/ Call(c) \/ sys_sleep(c) \/ Killed(c) \/ Sleep(c) \/ Kill(c)

Spec == Init /\ [][Next]_vars

-----------------------------------------------------------------------------
(* Properties *)

\* The push_off()s of a context that is past them and before its pop_off().
Depth(l) == CASE l \in {"out", "push", "off", "iret"} -> 0
              [] l = "sleep2" -> 2
              [] OTHER -> 1

\* push_off() and pop_off() match, also when an interrupt comes between the
\* intr_get() and the intr_off() of a push_off(): noff counts the locks of
\* thread and handler, interrupts are off while it is not 0 and on again after
\* the last pop_off(), and so no handler finds a lock that its own CPU holds,
\* for which it would spin for ever (panic("acquire")).
InterruptSafe ==
  \A c \in CPUs :
    /\ noff[c] = Depth(pc[c].irq) + Depth(pc[c].thr)
    /\ noff[c] > 0 => ~sie[c]
    /\ pc[c].irq = "out" /\ noff[c] = 0 => sie[c]
    /\ pc[c][Active(c)] = "spin" => tickslock # c
    /\ pc[c][Active(c)] \in {"wakeup", "killed", "sleep"} => plock # c

\* sys_sleep(n) is over only when n ticks, taken as unsigned, have gone by since
\* it began, or when killed; and whoever is left asleep after a tick has not
\* had its n ticks.  The one exception is a thread that was so late for
\* tickslock that ticks went all the way round from its ticks0: it cannot tell,
\* and sleeps on.
SleepExact ==
  \A c \in CPUs :
    /\ pc[c].thr \in {"release", "pop"} => elapsed[c] >= n[c] % Uint \/ killed[c]
    /\ asleep[c] /\ tickslock = NoCpu => elapsed[c] < n[c] % Uint \/ elapsed[c] = Uint
=============================================================================
