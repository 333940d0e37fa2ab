----------------------------- MODULE PipeProofs -----------------------------
(***************************************************************************)
(* The theorems about Pipe: for any processes, PIPESIZE and range of the   *)
(* counters, the pipe is a FIFO, and a process sleeps at it only while it  *)
(* has to.                                                                 *)
(***************************************************************************)
EXTENDS Pipe, TLAPS

-----------------------------------------------------------------------------
(* Remainders *)

LEMMA Quotient ==
  ASSUME NEW m \in Nat \ {0}, NEW x \in Int
  PROVE  \E q \in Int : x = m * q + (x % m)
<1>1. x = m * (x \div m) + (x % m) OBVIOUS
<1>2. x \div m \in Int OBVIOUS
<1> QED BY <1>1, <1>2, Zenon

LEMMA Remainder ==
  ASSUME NEW m \in Nat \ {0}, NEW x \in Int, NEW q \in Int, NEW r \in 0 .. m - 1, x = m * q + r
  PROVE  x % m = r
OBVIOUS

\* A multiple of m makes no difference.
LEMMA Shift ==
  ASSUME NEW m \in Nat \ {0}, NEW x \in Int, NEW k \in Int
  PROVE  (x + m * k) % m = x % m
<1> DEFINE r == x % m
           y == x + m * k
<1>1. PICK q \in Int : x = m * q + r BY Quotient, Zenon
<1>2. r \in 0 .. m - 1 OBVIOUS
<1>3. y = m * (q + k) + r BY <1>1, <1>2
<1>4. y \in Int /\ q + k \in Int OBVIOUS
<1> HIDE DEF r, y
<1>5. y % m = r BY <1>2, <1>3, <1>4, Remainder
<1> QED BY <1>5 DEF r, y

\* Numbers less than m apart differ.
LEMMA Apart ==
  ASSUME NEW m \in Nat \ {0}, NEW a \in Int, NEW b \in Int, a < b, b - a < m
  PROVE  a % m # b % m
<1> SUFFICES ASSUME a % m = b % m PROVE FALSE OBVIOUS
<1>1. PICK q \in Int : a = m * q + (a % m) BY Quotient, Zenon
<1>2. PICK s \in Int : b = m * s + (b % m) BY Quotient, Zenon
<1>3. b - a = m * (s - q) BY <1>1, <1>2
<1>4. ASSUME NEW d \in Int, m * d < m, m * d > 0 PROVE FALSE BY <1>4
<1> QED BY <1>3, <1>4

\* The counters run from 0 to Uint - 1.
Counter == 0 .. Uint - 1

\* A counter that comes to its end begins again.
LEMMA IncIs ==
  ASSUME NEW n \in Counter
  PROVE  Inc(n) \in Counter /\ (Inc(n) = n + 1 \/ Inc(n) = n + 1 - Uint)
<1>1. CASE n + 1 < Uint
  <2>1. (n + 1) % Uint = n + 1 BY <1>1, PipeAssumption DEF Counter
  <2> QED BY <1>1, <2>1, PipeAssumption DEF Counter, Inc
<1>2. CASE n + 1 = Uint
  <2>1. (n + 1) % Uint = 0 BY <1>2, PipeAssumption DEF Counter
  <2> QED BY <1>2, <2>1, PipeAssumption DEF Counter, Inc
<1> QED BY <1>1, <1>2, PipeAssumption DEF Counter

\* How far w is ahead of r.
Ahead(r, w) == (w - r) % Uint

LEMMA AheadIs ==
  ASSUME NEW r \in Counter, NEW w \in Counter
  PROVE  /\ Ahead(r, w) \in Counter
         /\ w = r + Ahead(r, w) \/ w = r + Ahead(r, w) - Uint
<1>1. CASE w >= r
  <2>1. w - r \in 0 .. Uint - 1 BY <1>1, PipeAssumption DEF Counter
  <2>2. Ahead(r, w) = w - r BY <2>1, PipeAssumption DEF Ahead
  <2> QED BY <2>1, <2>2, PipeAssumption DEF Counter
<1>2. CASE w < r
  <2>1. w - r + Uint \in 0 .. Uint - 1 BY <1>2, PipeAssumption DEF Counter
  <2>2. w - r = Uint * (-1) + (w - r + Uint) BY PipeAssumption DEF Counter
  <2>3. Ahead(r, w) = w - r + Uint
    BY <2>1, <2>2, Remainder, PipeAssumption DEF Ahead, Counter
  <2> QED BY <2>1, <2>3, PipeAssumption DEF Counter
<1> QED BY <1>1, <1>2, PipeAssumption DEF Counter

\* It is the only number that leads from r to w.
LEMMA AheadFrom ==
  ASSUME NEW r \in Counter, NEW w \in Counter, NEW c \in Counter, w = r + c \/ w = r + c - Uint
  PROVE  Ahead(r, w) = c
<1>1. /\ Ahead(r, w) \in Counter
      /\ w = r + Ahead(r, w) \/ w = r + Ahead(r, w) - Uint
  BY AheadIs
<1> QED BY <1>1, PipeAssumption DEF Counter

\* The kernel's tests for a full and for an empty pipe.
LEMMA FullIs ==
  ASSUME NEW r \in Counter, NEW w \in Counter
  PROVE  /\ w = (r + PIPESIZE) % Uint <=> Ahead(r, w) = PIPESIZE
         /\ r = w <=> Ahead(r, w) = 0
<1>0. /\ Ahead(r, w) \in Counter
      /\ w = r + Ahead(r, w) \/ w = r + Ahead(r, w) - Uint
  BY AheadIs
<1>1. CASE r + PIPESIZE < Uint
  <2>1. (r + PIPESIZE) % Uint = r + PIPESIZE BY <1>1, PipeAssumption DEF Counter
  <2> QED BY <1>0, <1>1, <2>1, PipeAssumption DEF Counter
<1>2. CASE r + PIPESIZE >= Uint
  <2>1. r + PIPESIZE - Uint \in 0 .. Uint - 1 BY <1>2, PipeAssumption DEF Counter
  <2>2. (r + PIPESIZE) % Uint = r + PIPESIZE - Uint
    BY <2>1, PipeAssumption DEF Counter
  <2> QED BY <1>0, <1>2, <2>1, <2>2, PipeAssumption DEF Counter
<1> QED BY <1>1, <1>2, PipeAssumption DEF Counter

\* data[] has a whole number of turns in the range of the counters.
LEMMA Turns ==
  ASSUME NEW x \in Int
  PROVE  (x - Uint) % PIPESIZE = x % PIPESIZE
<1>0. PIPESIZE \in Nat \ {0} /\ Uint \in Int /\ Uint % PIPESIZE = 0 BY PipeAssumption
<1>1. PICK q \in Int : Uint = PIPESIZE * q + (Uint % PIPESIZE) BY <1>0, Quotient, Zenon
<1>2. x - Uint = x + PIPESIZE * (-q) /\ -q \in Int BY <1>0, <1>1
<1>3. ASSUME NEW k \in Int PROVE (x + PIPESIZE * k) % PIPESIZE = x % PIPESIZE BY <1>0, Shift, Zenon
<1> QED BY <1>2, <1>3

-----------------------------------------------------------------------------
(* The inductive invariant *)

Places == {"user", "enter", "loop", "sleep", "asleep", "copy"}

TypeInv ==
  /\ data \in [0 .. PIPESIZE - 1 -> Bytes]
  /\ nread \in Counter /\ nwrite \in Counter
  /\ readopen \in BOOLEAN /\ writeopen \in BOOLEAN
  /\ lock \in Procs \cup {Nobody}
  /\ ends \in SUBSET Procs
  /\ pc \in [Procs -> Places]
  /\ left \in [Procs -> Nat]
  /\ killed \in [Procs -> BOOLEAN]
  /\ hushed \in BOOLEAN

\* The number of bytes in the pipe.
Count == Ahead(nread, nwrite)

\* nwrite does not overtake nread by more than PIPESIZE.
SizeInv == Count <= PIPESIZE

\* pi->lock is held by the process in a loop or on its way to sleep().
LockInv ==
  \A p \in Procs :
    /\ pc[p] \in {"loop", "sleep", "copy"} <=> lock = p
    /\ pc[p] = "copy" => p \in Readers

\* A writer may sleep at a pipe that is not full while a reader takes bytes: it
\* wakes the writers before it lets go of the lock.
WriterInv ==
  \A p \in Writers :
    /\ pc[p] = "sleep" => Full /\ readopen
    /\ pc[p] = "asleep" =>
         /\ readopen
         /\ Full \/ \E r \in Readers : lock = r /\ pc[r] = "copy"

\* A reader sleeps at an empty pipe, or at one whose bytes nobody announced.
ReaderInv ==
  \A p \in Readers :
    /\ pc[p] = "sleep" => Empty /\ writeopen
    /\ pc[p] = "asleep" => (Empty \/ hushed) /\ writeopen

PipeInv == TypeInv /\ SizeInv /\ LockInv /\ WriterInv /\ ReaderInv

\* Full, Empty and the number of bytes follow from the counters.
LEMMA SameCount ==
  ASSUME UNCHANGED <<nread, nwrite>>
  PROVE  Count' = Count /\ (Full' <=> Full) /\ (Empty' <=> Empty)
BY DEF Count, Ahead, Full, Empty

-----------------------------------------------------------------------------
(* Steps at both ends *)

\* A read() or write() begins.
LEMMA CallStep ==
  ASSUME PipeInv, NEW p \in Procs, Call(p)
  PROVE  PipeInv'
<1>0. /\ pc[p] = "user"
      /\ pc' = [q \in Procs |-> IF q = p THEN "enter" ELSE pc[q]]
      /\ left' \in [Procs -> Nat]
      /\ UNCHANGED <<data, nread, nwrite, readopen, writeopen, lock, ends, killed, hushed>>
  <2>1. PICK n \in 0 .. MaxN : left' = [left EXCEPT ![p] = n] BY Zenon DEF Call
  <2>2. left' \in [Procs -> Nat] BY <2>1, PipeAssumption DEF PipeInv, TypeInv
  <2> QED BY <2>2 DEF Call, Goto, Wake, pipe
<1>c. Count' = Count /\ (Full' <=> Full) /\ (Empty' <=> Empty) BY <1>0, SameCount
<1>1. TypeInv' BY <1>0 DEF PipeInv, TypeInv, Places
<1>2. SizeInv' BY <1>c DEF PipeInv, SizeInv
<1>3. LockInv' BY <1>0 DEF PipeInv, LockInv
<1>4. WriterInv' BY <1>0, <1>c DEF PipeInv, WriterInv, Procs
<1>5. ReaderInv' BY <1>0, <1>c DEF PipeInv, ReaderInv, Procs
<1> QED BY <1>1, <1>2, <1>3, <1>4, <1>5 DEF PipeInv

\* A process takes the lock.
LEMMA EnterStep ==
  ASSUME PipeInv, NEW p \in Procs, Enter(p)
  PROVE  PipeInv'
<1>0. /\ pc[p] = "enter" /\ lock = Nobody /\ lock' = p
      /\ pc' = [q \in Procs |-> IF q = p THEN "loop" ELSE pc[q]]
      /\ UNCHANGED <<data, nread, nwrite, readopen, writeopen, ends, left, killed, hushed>>
  BY DEF Enter, Goto, Wake, pipe
<1>c. Count' = Count /\ (Full' <=> Full) /\ (Empty' <=> Empty) BY <1>0, SameCount
<1>1. TypeInv' BY <1>0 DEF PipeInv, TypeInv, Places
<1>2. SizeInv' BY <1>c DEF PipeInv, SizeInv
<1>3. LockInv' BY <1>0, PipeAssumption DEF PipeInv, LockInv, Procs
<1>4. WriterInv' BY <1>0, <1>c, PipeAssumption DEF PipeInv, WriterInv, Procs
<1>5. ReaderInv' BY <1>0, <1>c DEF PipeInv, ReaderInv, Procs
<1> QED BY <1>1, <1>2, <1>3, <1>4, <1>5 DEF PipeInv

\* sleep() lets go of the lock.
LEMMA SleepStep ==
  ASSUME PipeInv, NEW p \in Procs, Sleep(p)
  PROVE  PipeInv'
<1>0. /\ pc[p] = "sleep" /\ lock' = Nobody
      /\ pc' = [q \in Procs |-> IF q = p THEN "asleep" ELSE pc[q]]
      /\ UNCHANGED <<data, nread, nwrite, readopen, writeopen, ends, left, killed, hushed>>
  BY DEF Sleep, Goto, Wake, pipe
<1>l. lock = p BY <1>0 DEF PipeInv, LockInv
<1>c. Count' = Count /\ (Full' <=> Full) /\ (Empty' <=> Empty) BY <1>0, SameCount
<1>1. TypeInv' BY <1>0 DEF PipeInv, TypeInv, Places
<1>2. SizeInv' BY <1>c DEF PipeInv, SizeInv
<1>3. LockInv' BY <1>0, <1>l, PipeAssumption DEF PipeInv, LockInv, Procs
<1>4. WriterInv' BY <1>0, <1>l, <1>c, PipeAssumption DEF PipeInv, WriterInv, LockInv, Procs
<1>5. ReaderInv' BY <1>0, <1>c DEF PipeInv, ReaderInv, Procs
<1> QED BY <1>1, <1>2, <1>3, <1>4, <1>5 DEF PipeInv

\* kill() wakes a sleeper.
LEMMA KillStep ==
  ASSUME PipeInv, NEW p \in Procs, Kill(p)
  PROVE  PipeInv'
<1>0. /\ killed' = [killed EXCEPT ![p] = TRUE]
      /\ pc' = [q \in Procs |-> IF q = p /\ pc[q] = "asleep" THEN "enter" ELSE pc[q]]
      /\ UNCHANGED <<data, nread, nwrite, readopen, writeopen, lock, ends, left, hushed>>
  BY Zenon DEF Kill, pipe, PipeInv, TypeInv
<1>c. Count' = Count /\ (Full' <=> Full) /\ (Empty' <=> Empty) BY <1>0, SameCount
<1>1. TypeInv' BY <1>0 DEF PipeInv, TypeInv, Places
<1>2. SizeInv' BY <1>c DEF PipeInv, SizeInv
<1>3. LockInv' BY <1>0 DEF PipeInv, LockInv
<1>4. WriterInv' BY <1>0, <1>c DEF PipeInv, WriterInv, Procs
<1>5. ReaderInv' BY <1>0, <1>c DEF PipeInv, ReaderInv, Procs
<1> QED BY <1>1, <1>2, <1>3, <1>4, <1>5 DEF PipeInv

\* close(), and the last close of the write end or of the read end.
LEMMA CloseStep ==
  ASSUME PipeInv, NEW p \in Procs, pipeclose(p)
  PROVE  PipeInv'
<1>0. /\ pc[p] = "user" /\ ends' = ends \ {p}
      /\ UNCHANGED <<data, nread, nwrite, lock, left, killed>>
  BY DEF pipeclose
<1>c. Count' = Count /\ (Full' <=> Full) /\ (Empty' <=> Empty) BY <1>0, SameCount
<1>2. SizeInv' BY <1>c DEF PipeInv, SizeInv
<1>3. CASE ends' \cap Writers = {} /\ p \in Writers
  <2>0. /\ lock = Nobody /\ writeopen' = FALSE /\ hushed' = FALSE /\ UNCHANGED readopen
        /\ pc' = [q \in Procs |-> IF q = p THEN "user"
                                  ELSE IF q \in Readers /\ pc[q] = "asleep" THEN "enter" ELSE pc[q]]
    BY <1>3 DEF pipeclose, Wake
  <2>1. TypeInv' BY <1>0, <2>0, Zenon DEF PipeInv, TypeInv, Places
  <2>3. LockInv' BY <1>0, <2>0 DEF PipeInv, LockInv
  <2>4. WriterInv' BY <1>0, <1>c, <2>0, PipeAssumption DEF PipeInv, WriterInv, Procs
  <2>5. ReaderInv' BY <1>0, <1>c, <1>3, <2>0, PipeAssumption DEF PipeInv, ReaderInv, LockInv, Procs
  <2> QED BY <1>2, <2>1, <2>3, <2>4, <2>5 DEF PipeInv
<1>4. CASE ~(ends' \cap Writers = {} /\ p \in Writers) /\ ends' \cap Readers = {} /\ p \in Readers
  <2>0. /\ lock = Nobody /\ readopen' = FALSE /\ UNCHANGED <<writeopen, hushed>>
        /\ pc' = [q \in Procs |-> IF q = p THEN "user"
                                  ELSE IF q \in Writers /\ pc[q] = "asleep" THEN "enter" ELSE pc[q]]
    BY <1>4 DEF pipeclose, Wake
  <2>1. TypeInv' BY <1>0, <2>0, Zenon DEF PipeInv, TypeInv, Places
  <2>3. LockInv' BY <1>0, <2>0 DEF PipeInv, LockInv
  <2>4. WriterInv' BY <1>0, <1>c, <1>4, <2>0, PipeAssumption DEF PipeInv, WriterInv, LockInv, Procs
  <2>5. ReaderInv' BY <1>0, <1>c, <2>0 DEF PipeInv, ReaderInv, Procs
  <2> QED BY <1>2, <2>1, <2>3, <2>4, <2>5 DEF PipeInv
<1>5. CASE /\ ~(ends' \cap Writers = {} /\ p \in Writers)
           /\ ~(ends' \cap Readers = {} /\ p \in Readers)
  <2>0. UNCHANGED <<readopen, writeopen, pc, hushed>> BY <1>5 DEF pipeclose
  <2>1. TypeInv' BY <1>0, <2>0 DEF PipeInv, TypeInv
  <2>3. LockInv' BY <1>0, <2>0 DEF PipeInv, LockInv
  <2>4. WriterInv' BY <1>0, <1>c, <2>0 DEF PipeInv, WriterInv
  <2>5. ReaderInv' BY <1>0, <1>c, <2>0 DEF PipeInv, ReaderInv
  <2> QED BY <1>2, <2>1, <2>3, <2>4, <2>5 DEF PipeInv
<1> QED BY <1>3, <1>4, <1>5

-----------------------------------------------------------------------------
(* Steps of pipewrite() and piperead() *)

\* A byte that is put makes Count one larger.
LEMMA PutCount ==
  ASSUME PipeInv, ~Full, nwrite' = Inc(nwrite), nread' = nread
  PROVE  nwrite' \in Counter /\ Count \in Nat /\ Count < PIPESIZE /\ Count' = Count + 1
<1>1. nread \in Counter /\ nwrite \in Counter BY DEF PipeInv, TypeInv
<1>2. /\ Count \in Counter /\ Count # PIPESIZE
      /\ nwrite = nread + Count \/ nwrite = nread + Count - Uint
  BY <1>1, AheadIs, FullIs DEF Count, Full
<1>3. Count \in Nat /\ Count < PIPESIZE
  BY <1>2, PipeAssumption DEF PipeInv, SizeInv, Counter
<1>4. nwrite' \in Counter /\ (nwrite' = nwrite + 1 \/ nwrite' = nwrite + 1 - Uint)
  BY <1>1, IncIs
<1>5. Count + 1 \in Counter BY <1>3, PipeAssumption DEF Counter
<1>6. nwrite' = nread + (Count + 1) \/ nwrite' = nread + (Count + 1) - Uint
  BY <1>1, <1>2, <1>3, <1>4, <1>5, PipeAssumption DEF Counter
<1>7. Ahead(nread, nwrite') = Count + 1 BY <1>1, <1>4, <1>5, <1>6, AheadFrom
<1> QED BY <1>3, <1>4, <1>7 DEF Count

\* A byte that is taken makes it one smaller.
LEMMA TakeCount ==
  ASSUME PipeInv, ~Empty, nread' = Inc(nread), nwrite' = nwrite
  PROVE  nread' \in Counter /\ Count \in Nat /\ Count > 0 /\ Count' = Count - 1
<1>1. nread \in Counter /\ nwrite \in Counter BY DEF PipeInv, TypeInv
<1>2. /\ Count \in Counter /\ Count # 0
      /\ nwrite = nread + Count \/ nwrite = nread + Count - Uint
  BY <1>1, AheadIs, FullIs DEF Count, Empty
<1>3. Count \in Nat /\ Count > 0 BY <1>2, PipeAssumption DEF Counter
<1>4. nread' \in Counter /\ (nread' = nread + 1 \/ nread' = nread + 1 - Uint)
  BY <1>1, IncIs
<1>5. Count - 1 \in Counter BY <1>2, <1>3, PipeAssumption DEF Counter
<1>6. nwrite = nread' + (Count - 1) \/ nwrite = nread' + (Count - 1) - Uint
  BY <1>1, <1>2, <1>3, <1>4, <1>5, PipeAssumption DEF Counter
<1>7. Ahead(nread', nwrite) = Count - 1 BY <1>1, <1>4, <1>5, <1>6, AheadFrom
<1> QED BY <1>3, <1>4, <1>7 DEF Count

\* pipewrite() wakes the readers when it returns, when it is killed or finds no
\* reader it does not, and it wakes them before it sleeps.
LEMMA WriteLeaveStep ==
  ASSUME PipeInv, NEW p \in Writers, pc[p] = "loop", NEW l \in {"user", "sleep"},
         NEW S \in {Readers, {}}, Wake(S, p, l),
         (S = Readers /\ hushed' = FALSE) \/ hushed' = hushed,
         (l = "user" /\ lock' = Nobody) \/ (l = "sleep" /\ Full /\ readopen /\ lock' = lock),
         left' \in [Procs -> Nat],
         UNCHANGED <<data, nread, nwrite, readopen, writeopen, ends, killed>>
  PROVE  PipeInv'
<1>0. /\ p \in Procs /\ lock = p
      /\ pc' = [q \in Procs |-> IF q = p THEN l
                                ELSE IF q \in S /\ pc[q] = "asleep" THEN "enter" ELSE pc[q]]
  BY DEF Wake, PipeInv, LockInv, Procs
<1>c. Count' = Count /\ (Full' <=> Full) /\ (Empty' <=> Empty) BY SameCount
<1>1. TypeInv' BY <1>0, Zenon DEF PipeInv, TypeInv, Places
<1>2. SizeInv' BY <1>c DEF PipeInv, SizeInv
<1>3. LockInv' BY <1>0, PipeAssumption DEF PipeInv, LockInv, Procs
<1>4. WriterInv'
  <2>1. \A q \in Writers : pc[q] = "asleep" => Full /\ readopen
    BY <1>0, PipeAssumption DEF PipeInv, WriterInv
  <2>2. \A q \in Writers : pc[q] = "sleep" => FALSE BY <1>0 DEF PipeInv, LockInv, Procs
  <2>3. \A q \in Writers : pc'[q] \in {"sleep", "asleep"} => Full /\ readopen
    BY <1>0, <2>1, <2>2, PipeAssumption DEF Procs
  <2> QED BY <1>c, <2>3 DEF WriterInv
<1>5. ReaderInv'
  <2>1. \A q \in Readers : q # p /\ pc[q] # "sleep"
    BY <1>0, PipeAssumption DEF PipeInv, LockInv, Procs
  <2>2. \A q \in Readers : pc'[q] # "sleep" /\ (pc'[q] = "asleep" => pc[q] = "asleep" /\ S = {})
    BY <1>0, <2>1 DEF Procs
  <2> QED BY <1>c, <2>2 DEF PipeInv, ReaderInv
<1> QED BY <1>1, <1>2, <1>3, <1>4, <1>5 DEF PipeInv

\* pipewrite() puts a byte. No writer sleeps then, as the pipe is not full.
LEMMA PutStep ==
  ASSUME PipeInv, NEW p \in Writers, pc[p] = "loop", left[p] > 0, ~Full,
         NEW b \in Bytes, data' = [data EXCEPT ![nwrite % PIPESIZE] = b],
         nwrite' = Inc(nwrite), left' = [left EXCEPT ![p] = @ - 1], hushed' = TRUE,
         UNCHANGED <<nread, readopen, writeopen, lock, ends, pc, killed>>
  PROVE  PipeInv'
<1>0. p \in Procs /\ lock = p BY DEF PipeInv, LockInv, Procs
<1>c. nwrite' \in Counter /\ Count \in Nat /\ Count < PIPESIZE /\ Count' = Count + 1
  BY PutCount
<1>1. TypeInv'
  <2>1. left' \in [Procs -> Nat] BY <1>0 DEF PipeInv, TypeInv
  <2> QED BY <1>c, <2>1, Zenon DEF PipeInv, TypeInv
<1>2. SizeInv' BY <1>c, PipeAssumption DEF SizeInv
<1>3. LockInv' BY DEF PipeInv, LockInv
<1>4. WriterInv'
  <2>1. \A q \in Writers : pc[q] \notin {"sleep", "asleep"}
    BY <1>0, PipeAssumption DEF PipeInv, WriterInv
  <2> QED BY <2>1 DEF WriterInv
<1>5. ReaderInv'
  <2>1. \A q \in Readers : pc[q] # "sleep" BY <1>0, PipeAssumption DEF PipeInv, LockInv, Procs
  <2> QED BY <2>1 DEF PipeInv, ReaderInv
<1> QED BY <1>1, <1>2, <1>3, <1>4, <1>5 DEF PipeInv

\* The steps of pipewrite().
LEMMA WriteStep ==
  ASSUME PipeInv, NEW p \in Procs, pipewrite(p)
  PROVE  PipeInv'
<1>0. /\ p \in Writers /\ pc[p] = "loop"
      /\ UNCHANGED <<nread, readopen, writeopen, ends, killed>>
  BY DEF pipewrite
<1>l. left \in [Procs -> Nat] /\ [left EXCEPT ![p] = 0] \in [Procs -> Nat]
  BY DEF PipeInv, TypeInv
<1>1. CASE WriteEnd(p) /\ hushed' = FALSE /\ UNCHANGED <<data, nwrite>>
  <2>1. Wake(Readers, p, "user") /\ lock' = Nobody /\ left' \in [Procs -> Nat]
    BY <1>l, <1>1 DEF WriteEnd, Leave
  <2> QED BY <1>0, <1>1, <2>1, WriteLeaveStep, Zenon
<1>2. CASE Leave({}, p) /\ UNCHANGED <<data, nwrite, hushed>>
  <2>1. Wake({}, p, "user") /\ lock' = Nobody /\ left' \in [Procs -> Nat]
    BY <1>l, <1>2 DEF Leave
  <2> QED BY <1>0, <1>2, <2>1, WriteLeaveStep
<1>3. CASE /\ readopen /\ Full /\ Wake(Readers, p, "sleep") /\ hushed' = FALSE
           /\ UNCHANGED <<data, nwrite, lock, left>>
  BY <1>0, <1>l, <1>3, WriteLeaveStep, Zenon
<1>4. CASE /\ left[p] > 0 /\ ~Full
           /\ \E b \in Bytes : data' = [data EXCEPT ![nwrite % PIPESIZE] = b]
           /\ nwrite' = Inc(nwrite) /\ left' = [left EXCEPT ![p] = @ - 1] /\ hushed' = TRUE
           /\ UNCHANGED <<pc, lock>>
  BY <1>0, <1>4, PutStep, Zenon
<1> QED BY <1>1, <1>2, <1>3, <1>4, Zenon DEF pipewrite

\* piperead() waits, or begins to copy.
LEMMA ReadWaitStep ==
  ASSUME PipeInv, NEW p \in Procs, ReadWait(p)
  PROVE  PipeInv'
<1>0. /\ p \in Readers /\ pc[p] = "loop" /\ lock = p
      /\ UNCHANGED <<data, nread, nwrite, readopen, writeopen, ends, killed, hushed>>
  BY DEF ReadWait, pipe, PipeInv, LockInv
<1>l. left \in [Procs -> Nat] /\ [left EXCEPT ![p] = 0] \in [Procs -> Nat]
  BY DEF PipeInv, TypeInv
<1>n. \E l \in {"user", "sleep", "copy"} :
        /\ pc' = [q \in Procs |-> IF q = p THEN l ELSE pc[q]]
        /\ l = "sleep" => Empty /\ writeopen
        /\ IF l = "user" THEN lock' = Nobody /\ left' = [left EXCEPT ![p] = 0]
                         ELSE UNCHANGED <<lock, left>>
  BY DEF ReadWait, Leave, Goto, Wake
<1>p. PICK l \in {"user", "sleep", "copy"} :
        /\ pc' = [q \in Procs |-> IF q = p THEN l ELSE pc[q]]
        /\ l = "sleep" => Empty /\ writeopen
        /\ IF l = "user" THEN lock' = Nobody /\ left' = [left EXCEPT ![p] = 0]
                         ELSE UNCHANGED <<lock, left>>
  BY <1>n
<1>c. Count' = Count /\ (Full' <=> Full) /\ (Empty' <=> Empty) BY <1>0, SameCount
<1>1. TypeInv' BY <1>0, <1>l, <1>p, Zenon DEF PipeInv, TypeInv, Places
<1>2. SizeInv' BY <1>c DEF PipeInv, SizeInv
<1>3. LockInv' BY <1>0, <1>p, PipeAssumption DEF PipeInv, LockInv, Procs
<1>4. WriterInv'
  <2>1. \A q \in Writers : q # p /\ pc'[q] = pc[q] /\ pc[q] # "sleep"
    BY <1>0, <1>p, PipeAssumption, Zenon DEF PipeInv, LockInv, Procs
  <2>2. \A q \in Writers : pc[q] = "asleep" => Full /\ readopen
    BY <1>0, PipeAssumption DEF PipeInv, WriterInv
  <2> QED BY <1>0, <1>c, <2>1, <2>2, Zenon DEF WriterInv
<1>5. ReaderInv' BY <1>0, <1>c, <1>p DEF PipeInv, ReaderInv, Procs
<1> QED BY <1>1, <1>2, <1>3, <1>4, <1>5 DEF PipeInv

\* piperead() copies a byte, and wakes the writers when it returns.
LEMMA ReadCopyStep ==
  ASSUME PipeInv, NEW p \in Procs, ReadCopy(p)
  PROVE  PipeInv'
<1>0. /\ p \in Readers /\ pc[p] = "copy" /\ lock = p
      /\ UNCHANGED <<data, nwrite, readopen, writeopen, ends, killed, hushed>>
  BY DEF ReadCopy, PipeInv, LockInv
<1>c. /\ nread' \in Counter /\ Count' \in Int /\ Count' <= PIPESIZE
      /\ Empty => UNCHANGED nread
  <2>1. CASE UNCHANGED nread
    <3>1. Count' = Count BY <1>0, <2>1, SameCount
    <3>2. Count \in Counter BY AheadIs DEF Count, PipeInv, TypeInv
    <3> QED BY <2>1, <3>1, <3>2, PipeAssumption DEF PipeInv, TypeInv, SizeInv, Counter
  <2>2. CASE ~Empty /\ nread' = Inc(nread)
    BY <1>0, <2>2, TakeCount, PipeAssumption DEF PipeInv, SizeInv
  <2> QED BY <2>1, <2>2 DEF ReadCopy
<1>n. \/ /\ pc' = pc /\ lock' = lock /\ left[p] > 0
         /\ left' = [left EXCEPT ![p] = @ - 1]
      \/ /\ pc' = [q \in Procs |-> IF q = p THEN "user"
                                   ELSE IF q \in Writers /\ pc[q] = "asleep" THEN "enter" ELSE pc[q]]
         /\ lock' = Nobody /\ left' = [left EXCEPT ![p] = 0]
  BY DEF ReadCopy, ReadEnd, Leave, Wake
<1>1. TypeInv'
  <2>1. left' \in [Procs -> Nat] BY <1>n DEF PipeInv, TypeInv
  <2> QED BY <1>0, <1>c, <1>n, <2>1 DEF PipeInv, TypeInv, Places
<1>2. SizeInv' BY <1>c DEF SizeInv
<1>3. LockInv' BY <1>0, <1>n, PipeAssumption DEF PipeInv, LockInv, Procs
<1>4. WriterInv'
  <2>1. \A q \in Writers : q # p /\ pc[q] # "sleep"
    BY <1>0, PipeAssumption DEF PipeInv, LockInv, Procs
  <2> QED BY <1>0, <1>n, <2>1 DEF PipeInv, WriterInv, Procs
<1>5. ReaderInv'
  <2>1. \A q \in Readers : pc[q] # "sleep" BY <1>0 DEF PipeInv, LockInv, Procs
  <2>2. \A q \in Readers : pc'[q] # "sleep" /\ (pc'[q] = "asleep" => pc[q] = "asleep")
    BY <1>n, <2>1 DEF Procs
  <2>3. Empty => Empty' BY <1>0, <1>c DEF Empty
  <2> QED BY <1>0, <2>2, <2>3 DEF PipeInv, ReaderInv
<1> QED BY <1>1, <1>2, <1>3, <1>4, <1>5 DEF PipeInv

-----------------------------------------------------------------------------
(* From the steps to every behaviour *)

\* pipealloc() makes an empty pipe.
LEMMA InitInv ==
  ASSUME Init
  PROVE  PipeInv
<1>c. nread \in Counter /\ nwrite \in Counter BY PipeAssumption DEF Init, Counter
<1>1. TypeInv BY <1>c, Zenon DEF Init, TypeInv, Places
<1>2. SizeInv
  <2>1. Count = 0 BY <1>c, FullIs DEF Init, Count
  <2> QED BY <2>1, PipeAssumption DEF SizeInv
<1>3. LockInv BY PipeAssumption DEF Init, LockInv, Procs
<1>4. WriterInv BY DEF Init, WriterInv, Procs
<1>5. ReaderInv BY DEF Init, ReaderInv, Procs
<1> QED BY <1>1, <1>2, <1>3, <1>4, <1>5 DEF PipeInv

LEMMA StutterInv ==
  ASSUME PipeInv, UNCHANGED vars
  PROVE  PipeInv'
<1>0. UNCHANGED <<data, nread, nwrite, readopen, writeopen, lock, ends, pc, left, killed, hushed>>
  BY DEF vars
<1>c. Count' = Count /\ (Full' <=> Full) /\ (Empty' <=> Empty) BY <1>0, SameCount
<1>1. TypeInv' BY <1>0 DEF PipeInv, TypeInv
<1>2. SizeInv' BY <1>c DEF PipeInv, SizeInv
<1>3. LockInv' BY <1>0 DEF PipeInv, LockInv
<1>4. WriterInv' BY <1>0, <1>c DEF PipeInv, WriterInv
<1>5. ReaderInv' BY <1>0, <1>c DEF PipeInv, ReaderInv
<1> QED BY <1>1, <1>2, <1>3, <1>4, <1>5 DEF PipeInv

\* Every step keeps the invariant.
LEMMA NextInv ==
  ASSUME PipeInv, [Next]_vars
  PROVE  PipeInv'
<1>1. CASE UNCHANGED vars BY <1>1, StutterInv
<1>2. ASSUME NEW p \in Procs,
             \/ Call(p) \/ Enter(p) \/ Sleep(p) \/ pipewrite(p) \/ ReadWait(p) \/ ReadCopy(p)
             \/ pipeclose(p) \/ Kill(p)
      PROVE  PipeInv'
  BY <1>2, CallStep, EnterStep, SleepStep, WriteStep, ReadWaitStep, ReadCopyStep, CloseStep, KillStep
<1> QED BY <1>1, <1>2 DEF Next

\* The inductive invariant holds in every state that the pipe reaches.
THEOREM PipeInvariance == Spec => []PipeInv
<1>1. Init => PipeInv BY InitInv
<1>2. PipeInv /\ [Next]_vars => PipeInv' BY NextInv
<1> QED BY <1>1, <1>2, PTL DEF Spec

-----------------------------------------------------------------------------
(* The page of the pipe *)

\* An end is open while a process has it, a process is at the pipe only with
\* its descriptor, and the page is freed when both ends are closed.
PageInv ==
  /\ writeopen <=> ends \cap Writers # {}
  /\ readopen <=> ends \cap Readers # {}
  /\ freed <=> ~readopen /\ ~writeopen
  /\ \A p \in Procs : pc[p] # "user" => p \in ends

\* A step that leaves the ends and the page alone, and moves nobody else from
\* or to user mode but process p, which has its descriptor.
LEMMA PageKept ==
  ASSUME TypeInv, PageInv, UNCHANGED <<readopen, writeopen, freed, ends>>,
         \A q \in Procs : pc'[q] # "user" => pc[q] # "user" \/ q \in ends
  PROVE  PageInv'
BY Zenon DEF PageInv

LEMMA PageClose ==
  ASSUME TypeInv, PageInv, NEW p \in Procs, pipeclose(p)
  PROVE  PageInv'
<1>0. pc[p] = "user" /\ p \in ends /\ ends' = ends \ {p} /\ freed' = (~readopen' /\ ~writeopen')
  BY DEF pipeclose
<1>1. \A q \in Procs : pc'[q] # "user" => pc[q] # "user" /\ q # p
  <2>1. \/ \E S \in {Readers, Writers} : Wake(S, p, "user")
        \/ UNCHANGED pc
    BY DEF pipeclose
  <2> QED BY <1>0, <2>1 DEF Wake
<1>2. \A q \in Procs : pc'[q] # "user" => q \in ends' BY <1>0, <1>1 DEF PageInv
<1>3. CASE ends' \cap Writers = {} /\ p \in Writers
  <2>1. writeopen' = FALSE /\ readopen' = readopen BY <1>3 DEF pipeclose
  <2>2. ends' \cap Readers = ends \cap Readers BY <1>0, <1>3, PipeAssumption
  <2> QED BY <1>0, <1>2, <1>3, <2>1, <2>2 DEF PageInv
<1>4. CASE ~(ends' \cap Writers = {} /\ p \in Writers) /\ ends' \cap Readers = {} /\ p \in Readers
  <2>1. readopen' = FALSE /\ writeopen' = writeopen BY <1>4 DEF pipeclose
  <2>2. ends' \cap Writers = ends \cap Writers BY <1>0, <1>4, PipeAssumption
  <2> QED BY <1>0, <1>2, <1>4, <2>1, <2>2 DEF PageInv
<1>5. CASE /\ ~(ends' \cap Writers = {} /\ p \in Writers)
           /\ ~(ends' \cap Readers = {} /\ p \in Readers)
  <2>1. readopen' = readopen /\ writeopen' = writeopen BY <1>5 DEF pipeclose
  <2>2. /\ ends' \cap Writers = {} <=> ends \cap Writers = {}
        /\ ends' \cap Readers = {} <=> ends \cap Readers = {}
    BY <1>0, <1>5
  <2> QED BY <1>0, <1>2, <2>1, <2>2 DEF PageInv
<1> QED BY <1>3, <1>4, <1>5

\* Every step keeps it.
LEMMA PageNext ==
  ASSUME PipeInv, PageInv, [Next]_vars
  PROVE  PageInv'
<1>t. TypeInv BY DEF PipeInv
<1>1. CASE UNCHANGED vars BY <1>1 DEF vars, PageInv
<1>2. ASSUME NEW p \in Procs, Call(p) \/ Enter(p) \/ Sleep(p) \/ Kill(p) PROVE PageInv'
  <2>1. UNCHANGED <<readopen, writeopen, freed, ends>>
    BY <1>2 DEF Call, Enter, Sleep, Kill, pipe
  <2>2. \A q \in Procs : pc'[q] # "user" => pc[q] # "user" \/ q \in ends
    BY <1>t, <1>2 DEF Call, Enter, Sleep, Kill, Goto, Wake, TypeInv
  <2> QED BY <1>t, <2>1, <2>2, PageKept
<1>3. ASSUME NEW p \in Procs, pipewrite(p) \/ ReadWait(p) \/ ReadCopy(p) PROVE PageInv'
  <2>1. UNCHANGED <<readopen, writeopen, freed, ends>>
    BY <1>3 DEF pipewrite, ReadWait, ReadCopy, pipe
  <2>2. pc[p] # "user" BY <1>3 DEF pipewrite, ReadWait, ReadCopy
  <2>3. \/ UNCHANGED pc
        \/ \E S \in SUBSET Procs : \E l \in Places : Wake(S, p, l)
    BY <1>3 DEF pipewrite, ReadWait, ReadCopy, WriteEnd, ReadEnd, Leave, Goto, Procs, Places
  <2>4. \A q \in Procs : pc'[q] # "user" => pc[q] # "user" BY <2>2, <2>3 DEF Wake
  <2> QED BY <1>t, <2>1, <2>4, PageKept
<1>4. ASSUME NEW p \in Procs, pipeclose(p) PROVE PageInv' BY <1>t, <1>4, PageClose
<1> QED BY <1>1, <1>2, <1>3, <1>4 DEF Next

\* pipeclose() frees the page with the last descriptor, when nobody is inside a
\* read() or write() of the pipe.
THEOREM PageInvariance == Spec => []PageInv
<1>1. Init => PageInv BY DEF Init, PageInv, Procs
<1>2. PipeInv /\ PageInv /\ [Next]_vars => PageInv' BY PageNext
<1> QED BY <1>1, <1>2, PipeInvariance, PTL DEF Spec

\* No wakeup of the pipe is lost but the one that a killed writer leaves out,
\* and pipeclose() frees the page once nobody can reach it.
THEOREM SleepersHaveToWait == Spec => []SleepersWait
<1>1. PipeInv /\ PageInv => SleepersWait
  <2>1. ASSUME PipeInv, PageInv PROVE SleepersWait
    <3>1. lock = Nobody =>
            /\ \A p \in Writers : pc[p] = "asleep" => Full /\ readopen
            /\ \A p \in Readers : pc[p] = "asleep" => (Empty \/ hushed) /\ writeopen
      BY <2>1, PipeAssumption DEF PipeInv, WriterInv, ReaderInv
    <3>2. freed <=> ends = {} BY <2>1 DEF PipeInv, TypeInv, PageInv, Procs
    <3>3. freed => \A p \in Procs : pc[p] = "user" BY <2>1, <3>2 DEF PageInv
    <3> QED BY <3>1, <3>2, <3>3 DEF SleepersWait
  <2> QED BY <2>1
<1> QED BY <1>1, PipeInvariance, PageInvariance, PTL

-----------------------------------------------------------------------------
(* Pipe implements Fifo *)

\* Queue has one place for each byte that nread has still to reach.
QueueInv ==
  /\ Queue \in Seq(Bytes) /\ Len(Queue) = Count /\ Count \in Nat
  /\ \A k \in 1 .. Count : Queue[k] = data[(nread + k - 1) % PIPESIZE]

LEMMA QueueIs ==
  ASSUME PipeInv
  PROVE  QueueInv
<1>1. nread \in Counter /\ nwrite \in Counter BY DEF PipeInv, TypeInv
<1>2. Count \in Nat BY <1>1, AheadIs, PipeAssumption DEF Count, Counter
<1>3. Queue = [k \in 1 .. Count |-> data[(nread + k - 1) % PIPESIZE]] BY DEF Queue, Count, Ahead
<1>4. ASSUME NEW k \in 1 .. Count PROVE data[(nread + k - 1) % PIPESIZE] \in Bytes
  <2>1. nread + k - 1 \in Int BY <1>1, <1>2, PipeAssumption DEF Counter
  <2>2. (nread + k - 1) % PIPESIZE \in 0 .. PIPESIZE - 1 BY <2>1, PipeAssumption
  <2> QED BY <2>2 DEF PipeInv, TypeInv
<1>5. Queue \in [1 .. Count -> Bytes] BY <1>3, <1>4
<1>6. Queue \in Seq(Bytes) /\ Len(Queue) = Count BY <1>2, <1>5
<1> QED BY <1>2, <1>3, <1>6 DEF QueueInv

\* pipealloc() makes the empty queue.
LEMMA FifoInit ==
  ASSUME Init
  PROVE  IsFifo!Init
<1>1. PipeInv BY InitInv
<1>2. nread \in Counter /\ nread = nwrite BY <1>1 DEF Init, PipeInv, TypeInv
<1>3. Count = 0 BY <1>2, FullIs DEF Count
<1>4. Queue \in Seq(Bytes) /\ Len(Queue) = 0 BY <1>1, <1>3, QueueIs DEF QueueInv
<1>5. Queue = <<>> BY <1>4
<1> QED BY <1>5 DEF IsFifo!Init

\* Two queues of one length with the same bytes are one queue.
LEMMA SameBytes ==
  ASSUME NEW s \in Seq(Bytes), NEW t \in Seq(Bytes), Len(s) = Len(t),
         \A k \in 1 .. Len(s) : s[k] = t[k]
  PROVE  s = t
OBVIOUS

\* data[nwrite % PIPESIZE] is the place behind the last byte, and no other
\* byte of the queue is there.
LEMMA PutPlace ==
  ASSUME PipeInv, ~Full
  PROVE  /\ (nread + Count) % PIPESIZE = nwrite % PIPESIZE
         /\ \A k \in 1 .. Count : (nread + k - 1) % PIPESIZE # nwrite % PIPESIZE
         /\ nwrite % PIPESIZE \in 0 .. PIPESIZE - 1
<1>1. nread \in Counter /\ nwrite \in Counter BY DEF PipeInv, TypeInv
<1>2. /\ Count \in Counter /\ Count # PIPESIZE
      /\ nwrite = nread + Count \/ nwrite = nread + Count - Uint
  BY <1>1, AheadIs, FullIs DEF Count, Full
<1>3. /\ nread \in Nat /\ nwrite \in Nat /\ Count \in Nat
      /\ nread + Count \in Int /\ Count < PIPESIZE /\ PIPESIZE \in Nat \ {0}
  BY <1>1, <1>2, PipeAssumption DEF Counter, PipeInv, SizeInv
<1>4. (nread + Count) % PIPESIZE = nwrite % PIPESIZE
  <2>1. ((nread + Count) - Uint) % PIPESIZE = (nread + Count) % PIPESIZE BY <1>3, Turns, Zenon
  <2>2. CASE nwrite = nread + Count BY <2>2
  <2>3. CASE nwrite = (nread + Count) - Uint BY <2>1, <2>3, Zenon
  <2>4. nwrite = nread + Count \/ nwrite = (nread + Count) - Uint BY <1>2, <1>3, PipeAssumption
  <2> QED BY <2>2, <2>3, <2>4
<1>5. ASSUME NEW k \in 1 .. Count PROVE (nread + k - 1) % PIPESIZE # (nread + Count) % PIPESIZE
  <2>1. /\ nread + k - 1 \in Int /\ nread + k - 1 < nread + Count
        /\ (nread + Count) - (nread + k - 1) < PIPESIZE
    BY <1>3
  <2> QED BY <1>3, <2>1, Apart, Zenon
<1>6. nwrite % PIPESIZE \in 0 .. PIPESIZE - 1 BY <1>3
<1> QED BY <1>4, <1>5, <1>6

\* pipewrite() puts its byte at the end of the queue.
LEMMA FifoPut ==
  ASSUME PipeInv, PipeInv', ~Full, NEW b \in Bytes,
         data' = [data EXCEPT ![nwrite % PIPESIZE] = b],
         nwrite' = Inc(nwrite), nread' = nread
  PROVE  IsFifo!Put(b)
<1>1. /\ Count \in Nat /\ Count < PIPESIZE /\ Count' = Count + 1 BY PutCount
<1>2. /\ Queue \in Seq(Bytes) /\ Len(Queue) = Count
      /\ \A k \in 1 .. Count : Queue[k] = data[(nread + k - 1) % PIPESIZE]
  BY QueueIs DEF QueueInv
<1>q. QueueInv' BY QueueIs, PTL
<1>3. /\ Queue' \in Seq(Bytes) /\ Len(Queue') = Count'
      /\ \A k \in 1 .. Count' : Queue'[k] = data'[(nread' + k - 1) % PIPESIZE]
  BY <1>q DEF QueueInv
<1>4. /\ (nread + Count) % PIPESIZE = nwrite % PIPESIZE
      /\ \A k \in 1 .. Count : (nread + k - 1) % PIPESIZE # nwrite % PIPESIZE
      /\ nwrite % PIPESIZE \in 0 .. PIPESIZE - 1
  BY PutPlace
<1>5. nread \in Int /\ data \in [0 .. PIPESIZE - 1 -> Bytes]
  BY PipeAssumption DEF PipeInv, TypeInv, Counter
<1>6. Append(Queue, b) \in Seq(Bytes) /\ Len(Append(Queue, b)) = Count + 1 BY <1>1, <1>2
<1>7. ASSUME NEW k \in 1 .. Count + 1 PROVE Queue'[k] = Append(Queue, b)[k]
  <2>1. CASE k = Count + 1
    <3>1. Append(Queue, b)[k] = b BY <1>2, <2>1
    <3>2. nread + k - 1 = nread + Count BY <1>1, <1>5, <2>1
    <3>3. Queue'[k] = data'[nwrite % PIPESIZE] BY <1>1, <1>3, <1>4, <3>2
    <3> QED BY <1>4, <1>5, <3>1, <3>3
  <2>2. CASE k # Count + 1
    <3>1. k \in 1 .. Count BY <1>1, <2>2
    <3>2. Append(Queue, b)[k] = Queue[k] BY <1>2, <3>1
    <3>3. Queue'[k] = data'[(nread + k - 1) % PIPESIZE] BY <1>1, <1>3
    <3>4. (nread + k - 1) % PIPESIZE # nwrite % PIPESIZE BY <1>4, <3>1
    <3>5. (nread + k - 1) % PIPESIZE \in 0 .. PIPESIZE - 1 BY <1>5, PipeAssumption
    <3> QED BY <1>2, <1>5, <3>1, <3>2, <3>3, <3>4, <3>5
  <2> QED BY <2>1, <2>2, Zenon
<1>l. Len(Queue') = Count + 1 BY <1>1, <1>3
<1>8. Queue' = Append(Queue, b) BY <1>3, <1>6, <1>7, <1>l, SameBytes, Zenon
<1> QED BY <1>1, <1>2, <1>8 DEF IsFifo!Put

\* piperead() takes its byte from the front.
LEMMA FifoTake ==
  ASSUME PipeInv, PipeInv', ~Empty, nread' = Inc(nread), UNCHANGED <<data, nwrite>>
  PROVE  IsFifo!Take
<1>1. Count \in Nat /\ Count > 0 /\ Count' = Count - 1 BY TakeCount
<1>2. /\ Queue \in Seq(Bytes) /\ Len(Queue) = Count
      /\ \A k \in 1 .. Count : Queue[k] = data[(nread + k - 1) % PIPESIZE]
  BY QueueIs DEF QueueInv
<1>q. QueueInv' BY QueueIs, PTL
<1>3. /\ Queue' \in Seq(Bytes) /\ Len(Queue') = Count'
      /\ \A k \in 1 .. Count' : Queue'[k] = data'[(nread' + k - 1) % PIPESIZE]
  BY <1>q DEF QueueInv
<1>4. Queue # <<>> BY <1>1, <1>2
<1>5. Tail(Queue) \in Seq(Bytes) /\ Len(Tail(Queue)) = Count - 1 BY <1>1, <1>2, <1>4
<1>6. nread \in Counter /\ nread \in Int BY PipeAssumption DEF PipeInv, TypeInv, Counter
<1>7. ASSUME NEW k \in 1 .. Count - 1 PROVE Queue'[k] = Tail(Queue)[k]
  <2>1. Tail(Queue)[k] = Queue[k + 1] BY <1>1, <1>2, <1>4
  <2>2. k + 1 \in 1 .. Count /\ nread + (k + 1) - 1 = nread + k /\ nread + k \in Int
    BY <1>1, <1>6
  <2>3. Tail(Queue)[k] = data[(nread + k) % PIPESIZE] BY <1>2, <2>1, <2>2
  <2>4. nread' + k - 1 = nread + k \/ nread' + k - 1 = (nread + k) - Uint
    <3>1. nread' = nread + 1 \/ nread' = nread + 1 - Uint BY <1>6, IncIs
    <3> QED BY <1>6, <2>2, <3>1, PipeAssumption
  <2>5. (nread' + k - 1) % PIPESIZE = (nread + k) % PIPESIZE
    <3>1. ((nread + k) - Uint) % PIPESIZE = (nread + k) % PIPESIZE BY <2>2, Turns, Zenon
    <3> QED BY <2>4, <3>1, Zenon
  <2>6. Queue'[k] = data[(nread' + k - 1) % PIPESIZE] BY <1>1, <1>3
  <2> QED BY <2>3, <2>5, <2>6, Zenon
<1>l. Len(Queue') = Count - 1 BY <1>1, <1>3
<1>8. Queue' = Tail(Queue) BY <1>3, <1>5, <1>7, <1>l, SameBytes, Zenon
<1> QED BY <1>4, <1>8 DEF IsFifo!Take

\* Every step of the pipe puts one byte, takes one or leaves the queue alone.
LEMMA FifoNext ==
  ASSUME PipeInv, PipeInv', [Next]_vars
  PROVE  [IsFifo!Next]_Queue
<1>1. CASE UNCHANGED <<data, nread, nwrite>> BY <1>1 DEF Queue
<1>2. ASSUME NEW p \in Procs, pipewrite(p) PROVE [IsFifo!Next]_Queue
  <2>1. CASE UNCHANGED <<data, nwrite>> BY <1>1, <1>2, <2>1 DEF pipewrite
  <2>2. ASSUME ~Full, NEW b \in Bytes, data' = [data EXCEPT ![nwrite % PIPESIZE] = b],
               nwrite' = Inc(nwrite)
        PROVE  IsFifo!Next
    BY <1>2, <2>2, FifoPut, Zenon DEF pipewrite, IsFifo!Next
  <2> QED BY <1>2, <2>1, <2>2 DEF pipewrite
<1>3. ASSUME NEW p \in Procs, ReadCopy(p) PROVE [IsFifo!Next]_Queue
  <2>1. CASE UNCHANGED nread BY <1>1, <1>3, <2>1 DEF ReadCopy
  <2>2. CASE ~Empty /\ nread' = Inc(nread)
    BY <1>3, <2>2, FifoTake DEF ReadCopy, IsFifo!Next
  <2> QED BY <1>3, <2>1, <2>2 DEF ReadCopy
<1>4. ASSUME NEW p \in Procs,
             Call(p) \/ Enter(p) \/ Sleep(p) \/ ReadWait(p) \/ pipeclose(p) \/ Kill(p)
      PROVE  UNCHANGED <<data, nread, nwrite>>
  BY <1>4 DEF Call, Enter, Sleep, ReadWait, pipeclose, Kill, pipe
<1>5. CASE UNCHANGED vars BY <1>1, <1>5 DEF vars
<1> QED BY <1>1, <1>2, <1>3, <1>4, <1>5 DEF Next

\* The pipe implements the FIFO of PIPESIZE bytes: piperead() returns the bytes
\* in the order in which pipewrite() put them, each once, whatever the
\* interleaving, also when nread and nwrite wrap around 2^32.
THEOREM PipeIsFifo == Spec => FifoOrder
<1>1. Init => IsFifo!Init BY FifoInit
<1>2. PipeInv /\ PipeInv' /\ [Next]_vars => [IsFifo!Next]_Queue BY FifoNext
<1> QED BY <1>1, <1>2, PipeInvariance, PTL DEF Spec, FifoOrder, IsFifo!Spec
=============================================================================
