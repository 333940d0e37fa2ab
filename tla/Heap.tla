-------------------------------- MODULE Heap --------------------------------
(***************************************************************************)
(* user/umalloc.c: the memory allocator of user programs.  Addresses and   *)
(* sizes count Headers; base is at 0, below the memory that sbrk() gives.  *)
(* A request is the number of units with its header, and small enough that *)
(* its bytes fit into sbrk()'s int.                                        *)
(***************************************************************************)
EXTENDS Integers, FiniteSets

CONSTANTS
  Limit,     \* bound: where sbrk() fails
  Core,      \* morecore()'s least number of units
  Requests,  \* bound: sizes that are asked for
  MaxHeld    \* bound: blocks that the program has at a time

VARIABLES
  h,     \* ptr and size of the headers, freep (-1 for null), brk
  held,  \* the blocks of the program: address |-> units
  own    \* units that the program itself took with sbrk()

vars == <<h, held, own>>

Addrs == 0 .. Limit - 1
base == 0

Init ==
  /\ h = [ptr |-> [a \in Addrs |-> 0], size |-> [a \in Addrs |-> 0], freep |-> -1, brk |-> 1]
  /\ held = <<>>
  /\ own = {}

-----------------------------------------------------------------------------
\* The loop of free(), at p: the element after which bp belongs.
RECURSIVE Place(_, _, _)
Place(g, bp, p) ==
  LET q == g.ptr[p] IN
  IF (bp > p /\ bp < q) \/ (p >= q /\ (bp > p \/ bp < q)) THEN p ELSE Place(g, bp, q)

\* bp in front of q: one block if they meet. A header inside a block is not read
\* again, and is cleared.
Joined_never(g, bp, q) == [g EXCEPT !.ptr[bp] = q]
Joined(g, bp, q) ==
  IF bp + g.size[bp] = q
  THEN [g EXCEPT !.size[bp] = @ + g.size[q], !.ptr[bp] = g.ptr[q], !.size[q] = 0, !.ptr[q] = 0]
  ELSE [g EXCEPT !.ptr[bp] = q]

Freed(g, bp) ==
  LET p == Place(g, bp, g.freep)
  IN [Joined(Joined(g, bp, g.ptr[p]), p, bp) EXCEPT !.freep = p]

Fits(g, nu) == g.brk + nu <= Limit

\* morecore(), where sbrk() succeeds.
morecore(g, nunits) ==
  LET nu == IF nunits < Core THEN Core ELSE nunits
  IN Freed([g EXCEPT !.size[g.brk] = nu, !.brk = @ + nu], g.brk)

\* malloc()'s use of the block p, whole or its end.
Carved(g, prevp, p, nunits) ==
  LET rest == g.size[p] - nunits IN
  [addr |-> p + rest,
   h |-> IF rest = 0 THEN [g EXCEPT !.ptr[prevp] = g.ptr[p], !.ptr[p] = 0, !.freep = prevp]
         ELSE [g EXCEPT !.size[p] = rest, !.size[p + rest] = nunits, !.freep = prevp]]

\* The loop of malloc(), at p; address 0 is a failure.
RECURSIVE Search(_, _, _, _)
Search(g, prevp, p, nunits) ==
  IF g.size[p] >= nunits THEN Carved(g, prevp, p, nunits)
  ELSE IF p # g.freep THEN Search(g, p, g.ptr[p], nunits)
  ELSE IF ~Fits(g, IF nunits < Core THEN Core ELSE nunits) THEN [addr |-> 0, h |-> g]
  ELSE LET m == morecore(g, nunits) IN Search(m, m.freep, m.ptr[m.freep], nunits)

Started(g) == IF g.freep = -1 THEN [g EXCEPT !.ptr[base] = base, !.freep = base] ELSE g

malloc(nunits) ==
  LET g == Started(h)
      r == Search(g, g.freep, g.ptr[g.freep], nunits)
  IN
  /\ Cardinality(DOMAIN held) < MaxHeld
  /\ h' = r.h
  /\ held' = IF r.addr = 0 THEN held
             ELSE [a \in DOMAIN held \cup {r.addr} |-> IF a = r.addr THEN nunits ELSE held[a]]
  /\ UNCHANGED own

free(a) ==
  /\ h' = Freed(h, a)
  /\ held' = [b \in DOMAIN held \ {a} |-> held[b]]
  /\ UNCHANGED own

\* The program may also call sbrk() on its own, between two calls of morecore().
sbrk ==
  /\ own = {} /\ Fits(h, 1)
  /\ h' = [h EXCEPT !.brk = @ + 1]
  /\ own' = {h.brk}
  /\ UNCHANGED held

Next == (\E n \in Requests : malloc(n)) \/ (\E a \in DOMAIN held : free(a)) \/ sbrk

Spec == Init /\ [][Next]_vars

-----------------------------------------------------------------------------
(* Properties *)

\* The list from freep, as the set of its elements.
RECURSIVE Listed(_, _)
Listed(p, seen) == IF p \in seen THEN seen ELSE Listed(h.ptr[p], seen \cup {p})

Units(a, n) == a .. a + n - 1

\* malloc() and free(), in any order and however often morecore() is called: the
\* free list is one circle in the order of addresses, in which no two blocks
\* touch; its blocks, those of the program, which have the size they were asked
\* for, and the program's own memory are disjoint and together all that sbrk() gave.
HeapSound ==
  LET list == Listed(h.freep, {}) IN
  h.freep # -1 =>
    /\ base \in list
    /\ \A a \in list : LET later == {b \in list : b > a} IN
         /\ IF later = {} THEN h.ptr[a] = base ELSE h.ptr[a] \in later /\ \A b \in later : h.ptr[a] <= b
         /\ a # base => h.size[a] > 0 /\ a + h.size[a] \notin list
    /\ \A a \in DOMAIN held : h.size[a] = held[a]
    /\ \A u \in 1 .. h.brk - 1 :
         Cardinality({a \in list \cup DOMAIN held : u \in Units(a, h.size[a])}
                       \cup {-u : o \in own \cap {u}}) = 1
=============================================================================
