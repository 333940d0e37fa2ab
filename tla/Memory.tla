------------------------------- MODULE Memory -------------------------------
(***************************************************************************)
(* User memory: kalloc.c, the page tables of vm.c, and what fork(),        *)
(* exec(), sbrk() and wait() do with them. Calls of several processes      *)
(* interleave at every kalloc(), any of which may find no page left, after *)
(* which the call undoes what it did.                                      *)
(*                                                                         *)
(* A page table is a function from the places of its three-level tree to   *)
(* physical pages: <<0, 0>> is the root, <<1, i>> and <<2, i>> are the     *)
(* page-table pages below it, <<3, va>> is the leaf of the virtual page va.*)
(***************************************************************************)
EXTENDS Integers, FiniteSets, FiniteSetsExt, Functions, Sequences, TLC

CONSTANTS
  Procs,       \* process slots; slot 1 is init
  Frames,      \* physical pages, 1 .. n; fewer than the user virtual pages
  PTES,        \* entries of a page-table page: 512
  PGSIZE, MAXARG,
  Grows,       \* bound: arguments of sbrk()
  Programs,    \* bound: for exec(), the segments: bytes va .. file - 1, and
               \* zeroes up to end - 1
  Stores,      \* bound: the ranges <<address, length>> that are stored to
  MaxCalls     \* bound

VARIABLES
  free,        \* kmem.freelist
  data,        \* the bytes of a physical page
  proc,        \* of a process: t (its page table, empty if UNUSED), guards, sz, tf
  job,         \* the call that a process is in
  panic,       \* some check of the code failed
  calls        \* calls so far

vars == <<free, data, proc, job, panic, calls>>

TRAMPOLINE == PTES * PTES * PTES - 1
TRAPFRAME == TRAMPOLINE - 1
text == 0                                \* the trampoline's page, in the kernel

Root == <<0, 0>>
Leaf(va) == <<3, va>>
Leaves(vas) == {Leaf(va) : va \in vas}
Unused == [t |-> <<>>, guards |-> {}, sz |-> 0, tf |-> 0]

Fill(c) == [k \in 0 .. PGSIZE - 1 |-> c]
PGROUNDUP(a) == (a + PGSIZE - 1) \div PGSIZE          \* in pages

\* The locals of a call: the table it works on, the page it has not mapped yet
\* (mem), the loop of uvmalloc() or uvmcopy() from the page from, at va, to end.
Idle == [pc |-> "idle", kind |-> "none", t |-> <<>>, guards |-> {}, sz |-> 0, tf |-> 0,
         mem |-> 0, from |-> 0, va |-> 0, end |-> 0,
         np |-> 0, argv |-> {}, prog |-> <<>>, seg |-> 0]

\* Page tables of 1 + 4 pages and a leaf, as userinit() and uvmfirst() make.
Init ==
  LET t == (Root :> 1) @@ (<<1, TRAMPOLINE \div (PTES * PTES)>> :> 2) @@ (<<2, TRAMPOLINE \div PTES>> :> 3)
             @@ (Leaf(TRAMPOLINE) :> text) @@ (Leaf(TRAPFRAME) :> 4)
             @@ (Leaf(0) :> 5) @@ (<<1, 0>> :> 6) @@ (<<2, 0>> :> 7)
  IN /\ free = Frames \ (1 .. 7)
     /\ data = [f \in Frames |-> IF f = 5 THEN Fill(0) ELSE Fill(1)]
     /\ proc = [p \in Procs |-> IF p = 1 THEN [t |-> t, guards |-> {}, sz |-> PGSIZE, tf |-> 4]
                                ELSE Unused]
     /\ job = [p \in Procs |-> Idle]
     /\ panic = FALSE
     /\ calls = 0

Live(p) == proc[p] # Unused

-----------------------------------------------------------------------------
(* kalloc.c *)

\* The page that kalloc() returns. Which of the free pages it is does not matter.
Page == Min(free)

\* kalloc() by p, which puts these bytes in the page and goes on with j.
kalloc(p, bytes, j) ==
  /\ free' = free \ {Page}
  /\ data' = [data EXCEPT ![Page] = bytes]
  /\ job' = [job EXCEPT ![p] = j]
  /\ UNCHANGED <<proc, panic, calls>>

\* kfree() of the pages S, and a check of the code.
kfree(S, ok) ==
  /\ free' = free \cup S
  /\ data' = [f \in Frames |-> IF f \in S THEN Fill(1) ELSE data[f]]
  /\ panic' = (panic \/ ~ok \/ S \cap (free \cup {text}) # {})

-----------------------------------------------------------------------------
(* vm.c *)

\* uvmunmap(): the pages of t at vas, which must be mapped, and what is left of t.
Mapped(t, vas) == {t[x] : x \in Leaves(vas) \cap DOMAIN t}
AllMapped(t, vas) == Leaves(vas) \subseteq DOMAIN t
uvmunmap(t, vas) == Restrict(t, DOMAIN t \ Leaves(vas))

\* freewalk(): the page-table pages; no leaf may be left.
freewalk(t) == {t[x] : x \in {y \in DOMAIN t : y[1] # 3}}
NoLeaves(t) == \A x \in DOMAIN t : x[1] # 3

\* proc_freepagetable(t, sz): what it frees, and its checks.
Freed(t, sz) == Mapped(t, 0 .. PGROUNDUP(sz) - 1) \cup freewalk(t)
Fine(t, sz) ==
  LET vas == {TRAMPOLINE, TRAPFRAME} \cup (0 .. PGROUNDUP(sz) - 1)
  IN AllMapped(t, vas) /\ NoLeaves(uvmunmap(t, vas))

\* walk(): the page-table pages above va's leaf that do not exist, top first.
Missing(t, va) ==
  {x \in {<<1, va \div (PTES * PTES)>>, <<2, va \div PTES>>} : x \notin DOMAIN t}
Top(S) == CHOOSE x \in S : \A y \in S : x[1] <= y[1]

Undo_mem(j) == Mapped(j.t, j.from .. j.va - 1)

\* uvmalloc() and uvmcopy() undo: the pages that the loop mapped, and mem.
Undo(j) == Mapped(j.t, j.from .. j.va - 1) \cup ({j.mem} \ {0})

\* A kalloc() of p's call fails: sbrk() keeps the page-table pages; fork() calls
\* freeproc(), with sz still 0; exec() and sys_exec() free all they have.
Failed(p) ==
  LET j == job[p]
      t == uvmunmap(j.t, j.from .. j.va - 1)
  IN
  /\ job' = [job EXCEPT ![p] = Idle]
  /\ IF j.kind = "sbrk"
     THEN kfree(Undo(j), TRUE) /\ proc' = [proc EXCEPT ![p].t = t]
     ELSE /\ kfree(Undo(j) \cup Freed(t, j.sz) \cup j.argv \cup ({j.tf} \ {0}),
                   j.pc = "pages" => Fine(t, j.sz))
          /\ UNCHANGED proc
  /\ UNCHANGED calls

\* allocproc(): the trapframe's page.
Trapframe(p) ==
  /\ job[p].pc = "trapframe"
  /\ \/ free = {} /\ Failed(p)
     \/ free # {} /\ kalloc(p, Fill(5), [job[p] EXCEPT !.pc = "root", !.tf = Page])

\* A turn of sys_exec()'s loop: a page for the next argument, or no more of
\* them and on to exec().
Argument(p) ==
  LET j == job[p] IN
  /\ j.pc = "argv" /\ Cardinality(j.argv) < MAXARG
  /\ \/ free = {} /\ Failed(p)
     \/ free # {} /\ kalloc(p, Fill(5), [j EXCEPT !.argv = @ \cup {Page}])
     \/ job' = [job EXCEPT ![p].pc = "root"] /\ UNCHANGED <<free, data, proc, panic, calls>>

\* "goto bad" for another reason. In sys_exec(): too many arguments, fetchaddr()
\* or fetchstr() fails; exec() has no more to free when namei() or the ELF
\* header fails. With a page table: the first program header.
Bad(p) ==
  LET j == job[p] IN
  /\ \/ j.pc = "argv"
     \/ j.kind = "exec" /\ j.pc = "pages" /\ j.seg = 1 /\ j.va = 0 /\ j.mem = 0
  /\ Failed(p)

\* uvmcreate().
uvmcreate(p) ==
  /\ job[p].pc = "root"
  /\ \/ free = {} /\ Failed(p)
     \/ free # {} /\ kalloc(p, Fill(0),
          [job[p] EXCEPT !.pc = "trampoline", !.t = (Root :> Page), !.va = TRAMPOLINE, !.from = TRAMPOLINE])

\* A page-table page in walk(), for mappages().
walk(p) ==
  LET m == Missing(job[p].t, job[p].va) IN
  /\ job[p].pc = "trampoline" \/ (job[p].pc = "pages" /\ job[p].mem # 0)
  /\ m # {}
  /\ \/ free = {} /\ Failed(p)
     \/ free # {} /\ kalloc(p, Fill(0), [job[p] EXCEPT !.t = (Top(m) :> Page) @@ @])

\* proc_pagetable() maps the trampoline and, in the same page-table page, the
\* trapframe.
proc_pagetable(p) ==
  LET j == job[p]
      tf == IF j.kind = "fork" THEN j.tf ELSE proc[p].tf
  IN
  /\ j.pc = "trampoline" /\ Missing(j.t, j.va) = {}
  /\ job' = [job EXCEPT ![p] =
       [j EXCEPT !.pc = "pages", !.t = (Leaf(TRAMPOLINE) :> text) @@ (Leaf(TRAPFRAME) :> tf) @@ @,
                 !.from = 0, !.va = 0,
                 !.end = PGROUNDUP(IF j.kind = "fork" THEN proc[p].sz ELSE j.prog[1].end)]]
  /\ UNCHANGED <<free, data, proc, panic, calls>>

\* kalloc() of the next page of uvmalloc(), zeroed, or uvmcopy(), copied.
AddPage(p) ==
  LET j == job[p] IN
  /\ j.pc = "pages" /\ j.va < j.end /\ j.mem = 0
  /\ \/ free = {} /\ Failed(p)
     \/ free # {} /\ kalloc(p, IF j.kind = "fork" THEN data[proc[p].t[Leaf(j.va)]] ELSE Fill(0),
                            [j EXCEPT !.mem = Page])

\* mappages() sets the leaf.
mappages(p) ==
  LET j == job[p] IN
  /\ j.pc = "pages" /\ j.mem # 0 /\ Missing(j.t, j.va) = {}
  /\ job' = [job EXCEPT ![p] = [j EXCEPT !.t = (Leaf(j.va) :> j.mem) @@ @, !.mem = 0, !.va = @ + 1]]
  /\ panic' = (panic \/ Leaf(j.va) \in DOMAIN j.t)
  /\ UNCHANGED <<free, data, proc, calls>>

\* copyout() of len bytes c to the address a: page by page, as far as walkaddr()
\* finds pages that the user may access.
Reached(q, a, len) ==
  {b \in a .. a + len - 1 : \A d \in a .. b :
     Leaf(d \div PGSIZE) \in DOMAIN q.t /\ d \div PGSIZE \notin q.guards}
copyout(q, a, len, c) ==
  LET to == {<<q.t[Leaf(b \div PGSIZE)], b % PGSIZE>> : b \in Reached(q, a, len)}
  IN data' = [f \in Frames |-> [k \in 0 .. PGSIZE - 1 |-> IF <<f, k>> \in to THEN c ELSE data[f][k]]]

-----------------------------------------------------------------------------
(* System calls *)

Enters(p) == Live(p) /\ job[p] = Idle /\ calls < MaxCalls /\ calls' = calls + 1

\* sbrk() with n > 0: growproc(), uvmalloc().
Grow(p) ==
  /\ Enters(p)
  /\ \E n \in Grows :
       LET from == PGROUNDUP(proc[p].sz) IN
       /\ n > 0
       /\ job' = [job EXCEPT ![p] =
            [Idle EXCEPT !.pc = "pages", !.kind = "sbrk", !.t = proc[p].t, !.sz = proc[p].sz + n,
                         !.from = from, !.va = from, !.end = PGROUNDUP(proc[p].sz + n)]]
  /\ UNCHANGED <<free, data, proc, panic>>

\* uvmdealloc()'s pages.
Shrunk(sz, newsz) == PGROUNDUP(newsz) .. PGROUNDUP(sz) - 1

\* sbrk() with n < 0: uvmdealloc(). Below 0 the size wraps around, and it returns.
Shrink(p) ==
  /\ Enters(p)
  /\ \E n \in Grows :
       LET vas == Shrunk(proc[p].sz, proc[p].sz + n) IN
       /\ n < 0 /\ proc[p].sz + n >= 0
       /\ kfree(Mapped(proc[p].t, vas), AllMapped(proc[p].t, vas))
       /\ proc' = [proc EXCEPT ![p].t = uvmunmap(@, vas), ![p].guards = @ \ vas, ![p].sz = @ + n]
  /\ UNCHANGED job

\* fork() into a slot np that allocproc() found UNUSED.
fork(p) ==
  /\ Enters(p)
  /\ \E np \in Procs :
       /\ ~Live(np) /\ \A q \in Procs : job[q].np # np
       /\ job' = [job EXCEPT ![p] = [Idle EXCEPT !.pc = "trapframe", !.kind = "fork", !.np = np]]
  /\ UNCHANGED <<free, data, proc, panic>>

\* exec(), of prog if the path and the file are good.
sys_exec(p) ==
  /\ Enters(p)
  /\ \E prog \in Programs :
       job' = [job EXCEPT ![p] = [Idle EXCEPT !.pc = "argv", !.kind = "exec", !.prog = prog, !.seg = 1]]
  /\ UNCHANGED <<free, data, proc, panic>>

\* exit(), and freeproc() by the parent's wait(). init stays.
freeproc(p) ==
  /\ p # 1 /\ Enters(p)
  /\ kfree(Freed(proc[p].t, proc[p].sz) \cup {proc[p].tf}, Fine(proc[p].t, proc[p].sz))
  /\ proc' = [proc EXCEPT ![p] = Unused]
  /\ UNCHANGED job

\* copyout() by read(), wait() or pipe().
Store(p) ==
  /\ Enters(p)
  /\ \E x \in Stores : copyout(proc[p], x[1], x[2], 2)
  /\ UNCHANGED <<free, proc, job, panic>>

-----------------------------------------------------------------------------
(* The end of a loop over pages *)

Looped(p, kind) == job[p].pc = "pages" /\ job[p].kind = kind /\ job[p].va >= job[p].end /\ job[p].mem = 0

GrowEnd(p) ==
  /\ Looped(p, "sbrk")
  /\ proc' = [proc EXCEPT ![p].t = job[p].t, ![p].sz = job[p].sz]
  /\ job' = [job EXCEPT ![p] = Idle]
  /\ UNCHANGED <<free, data, panic, calls>>

ForkEnd_flags(p) ==
  /\ Looped(p, "fork")
  /\ proc' = [proc EXCEPT ![job[p].np] =
                [t |-> job[p].t, guards |-> {}, sz |-> proc[p].sz, tf |-> job[p].tf]]
  /\ data' = [data EXCEPT ![job[p].tf] = data[proc[p].tf]]
  /\ job' = [job EXCEPT ![p] = Idle]
  /\ UNCHANGED <<free, panic, calls>>

\* fork(): the child has the size, the PTE flags and the trapframe too.
ForkEnd(p) ==
  /\ Looped(p, "fork")
  /\ proc' = [proc EXCEPT ![job[p].np] =
                [t |-> job[p].t, guards |-> proc[p].guards, sz |-> proc[p].sz, tf |-> job[p].tf]]
  /\ data' = [data EXCEPT ![job[p].tf] = data[proc[p].tf]]
  /\ job' = [job EXCEPT ![p] = Idle]
  /\ UNCHANGED <<free, panic, calls>>

\* The bytes of the segment s, which must be in the pages of j.
loadseg(j, s) ==
  /\ copyout(j, s.va, s.file - s.va, 3)
  /\ panic' = (panic \/ Cardinality(Reached(j, s.va, s.file - s.va)) # s.file - s.va)

\* exec() at bad, with a page table.
Unload(p, j) ==
  /\ kfree(Freed(j.t, j.sz) \cup j.argv, Fine(j.t, j.sz))
  /\ job' = [job EXCEPT ![p] = Idle]

\* exec() has the pages of a segment: sz is updated, and loadseg() or the next
\* header fails; or the segment is read, and the pages of the next one are
\* next, or those of guard and stack.
Segment(p) ==
  LET j == [job[p] EXCEPT !.sz = Max({@, job[p].prog[job[p].seg].end}), !.from = job[p].end]
      s == j.prog[j.seg]
      end == IF j.seg = Len(j.prog) THEN j.end + 2 ELSE Max({j.end, PGROUNDUP(j.prog[j.seg + 1].end)})
  IN
  /\ Looped(p, "exec") /\ job[p].seg <= Len(job[p].prog)
  /\ \/ Unload(p, j)
     \/ /\ loadseg(j, s)
        /\ job' = [job EXCEPT ![p] = [j EXCEPT !.seg = @ + 1, !.end = end]]
        /\ UNCHANGED free
  /\ UNCHANGED <<proc, calls>>

\* exec() has a stack: the guard, and the arguments do not fit, or they do, and
\* the old page table is freed for the new one.
Commit(p) ==
  LET j == [job[p] EXCEPT !.sz = job[p].end * PGSIZE, !.guards = {job[p].end - 2}]
      q == proc[p]
      S == Freed(q.t, q.sz) \cup j.argv
      sp == <<j.t[Leaf(j.end - 1)], PGSIZE - 1>>
  IN
  /\ Looped(p, "exec") /\ j.seg > Len(j.prog)
  /\ \/ Unload(p, j) /\ UNCHANGED proc
     \/ /\ free' = free \cup S
        /\ data' = [f \in Frames |-> IF f \in S THEN Fill(1)
                                     ELSE [k \in 0 .. PGSIZE - 1 |-> IF <<f, k>> = sp THEN 4 ELSE data[f][k]]]
        /\ panic' = (panic \/ ~Fine(q.t, q.sz))
        /\ proc' = [proc EXCEPT ![p] = [t |-> j.t, guards |-> j.guards, sz |-> j.sz, tf |-> q.tf]]
        /\ job' = [job EXCEPT ![p] = Idle]
  /\ UNCHANGED calls

Next == \E p \in Procs :
  \/ Trapframe(p) \/ Argument(p) \/ Bad(p) \/ uvmcreate(p) \/ walk(p) \/ proc_pagetable(p) \/ AddPage(p) \/ mappages(p)
  \/ Grow(p) \/ Shrink(p) \/ fork(p) \/ sys_exec(p) \/ freeproc(p) \/ Store(p)
  \/ GrowEnd(p) \/ ForkEnd(p) \/ Segment(p) \/ Commit(p)

Spec == Init /\ [][Next]_vars

-----------------------------------------------------------------------------
(* Properties *)

\* The places of p's pages: its page table (sbrk() is working on that one), the
\* new one of its fork() or exec(), and what the call has in hand.
Places(p) ==
  LET j == job[p]
      t == IF j.kind = "sbrk" THEN j.t ELSE proc[p].t
      new == IF j.kind = "sbrk" THEN <<>> ELSE j.t
  IN {<<p, "own", x, t[x]>> : x \in DOMAIN t \ {Leaf(TRAMPOLINE)}}
       \cup {<<p, "new", x, new[x]>> : x \in DOMAIN new \ Leaves({TRAMPOLINE, TRAPFRAME})}
       \cup {<<p, "argv", Root, f>> : f \in j.argv}
       \cup {<<p, k, Root, j[k]>> : k \in {l \in {"mem", "tf"} : j[l] # 0}}

\* Every page that is not free is in exactly one place of one process, also in
\* the middle of calls: no call, wherever it runs out of pages, loses a page,
\* frees one twice, or leaves one mapped that it has freed; and none of the
\* code's own checks (panic()) fails.
PagesOwned ==
  LET all == UNION {Places(p) : p \in Procs}
      used == {y[4] : y \in all}
  IN /\ ~panic
     /\ used = Frames \ free
     /\ Cardinality(all) = Cardinality(used)

\* The user's view: bytes, -1 where there is no access.
View(p) ==
  [a \in 0 .. PGROUNDUP(proc[p].sz) * PGSIZE - 1 |->
     IF a \div PGSIZE \in proc[p].guards THEN -1
     ELSE data[proc[p].t[Leaf(a \div PGSIZE)]][a % PGSIZE]]

\* What exec() shows a new program: segments, zeroes, a guard, a stack.
Image(prog) ==
  LET top == PGROUNDUP(Max({s.end : s \in Range(prog)})) * PGSIZE
  IN [a \in 0 .. top + 2 * PGSIZE - 1 |->
        CASE \E s \in Range(prog) : a \in s.va .. s.file - 1 -> 3
          [] a \in top .. top + PGSIZE - 1 -> -1
          [] a = top + 2 * PGSIZE - 1 -> 4
          [] OTHER -> 0]

\* old, with the range x stored to up to the first byte without access.
Stored(old, x) ==
  [a \in DOMAIN old |->
     IF a \in x[1] .. x[1] + x[2] - 1 /\ (\A b \in x[1] .. a : old[b] # -1) THEN 2 ELSE old[a]]

\* Memory as programs see it: no call changes another process's memory; fork()
\* gives the child the parent's, byte by byte and guard included; sbrk() keeps
\* what stays and adds zeroes; exec() gives the program's image or, on any
\* failure, leaves the old one; and a copy from the kernel stops at the guard.
UserStep ==
  \A p \in Procs :
    \/ View(p)' = View(p)
    \/ ~Live(p)'
    \/ ~Live(p) /\ \E q \in Procs : job[q].np = p /\ View(p)' = View(q)
    \/ /\ \A q \in Procs \ {p} : View(q)' = View(q)
       /\ \/ job[p].kind = "exec" /\ View(p)' = Image(job[p].prog)
          \/ \E x \in Stores : proc' = proc /\ View(p)' = Stored(View(p), x)
          \/ View(p)' = [a \in DOMAIN View(p)' |-> IF a \in DOMAIN View(p) THEN View(p)[a] ELSE 0]

UserMemory == [][UserStep]_vars
=============================================================================
