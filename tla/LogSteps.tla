------------------------------ MODULE LogSteps ------------------------------
(***************************************************************************)
(* The inductive invariant of Log, for any threads, blocks, contents and   *)
(* sizes, and that every step keeps it.                                    *)
(***************************************************************************)
EXTENDS Log, FiniteSetTheorems, TLAPS

-----------------------------------------------------------------------------
(* The inductive invariant *)

Places == {"idle", "begin", "asleep", "active", "commit"}

Phases == {"idle", "write_log", "write_head", "install", "done", "boot", "recover"}

TypeInv ==
  /\ home \in [Blocks -> Contents]
  /\ logblock \in [LogPos -> Contents]
  /\ head \in Seq(Blocks)
  /\ cache \in [Blocks -> Contents]
  /\ pins \in [Blocks -> Int]
  /\ lh \in Seq(Blocks)
  /\ outstanding \in Nat
  /\ committing \in BOOLEAN
  /\ op \in [Threads -> Places]
  /\ wrote \in [Threads -> SUBSET Blocks]
  /\ phase \in Phases
  /\ tail \in Nat \ {0}
  /\ panicked \in BOOLEAN

\* A header lists a block once and has a log block for each.
Header(h) ==
  /\ Len(h) <= LogBlocks - 1
  /\ Len(h) <= LOGSIZE
  /\ \A m, n \in 1 .. Len(h) : h[m] = h[n] => m = n

\* log.outstanding counts the threads in an operation, there are none while
\* somebody commits or the log is recovered, and one thread commits.
OpInv ==
  /\ outstanding = Cardinality(Active)
  /\ committing <=> phase \in {"write_log", "write_head", "install", "done"}
  /\ phase # "idle" => Active = {}
  /\ panicked => phase = "idle" /\ Active # {}
  /\ Recovering => \A t \in Threads : op[t] = "idle"
  /\ \A t \in Threads : op[t] = "commit" => committing
  /\ \A t, u \in Threads : op[t] = "commit" /\ op[u] = "commit" => t = u

\* What an operation has written is in log.lh.
WroteInv ==
  \A t \in Threads :
    /\ t \notin Active => wrote[t] = {}
    /\ \A b \in wrote[t] : Absorbed(b)
    /\ IsFiniteSet(wrote[t])
    /\ Cardinality(wrote[t]) <= MAXOPBLOCKS

\* log.lh, the header on disk and the loops over them, phase by phase.
HeadInv ==
  /\ Header(lh) /\ Header(head)
  /\ phase = "idle" /\ Active = {} => lh = <<>>
  /\ phase \in {"done", "boot"} => lh = <<>>
  /\ phase \in {"write_log", "write_head", "install"} => lh # <<>>
  /\ phase \in {"install", "recover"} => head = lh
  /\ phase \in {"idle", "write_log", "write_head", "done"} => head = <<>>
  /\ phase = "write_log" => tail <= Len(lh)
  /\ phase \in {"install", "recover"} => tail <= Len(lh) + 1
  /\ phase = "boot" => tail = 1

\* bpin() and bunpin(): a block is pinned from log_write() to install_trans().
PinInv ==
  \A b \in Blocks :
    pins[b] = IF \E n \in DOMAIN lh : lh[n] = b /\ ~Recovering /\ (phase = "install" => n >= tail)
              THEN 1 ELSE 0

\* Where the content of a block is: the cache, its home location, the log.
ContentInv ==
  /\ Recovering => cache = home
  /\ ~panicked => \A b \in Blocks : ~Absorbed(b) => cache[b] = home[b]
  /\ \A n \in 1 .. Len(lh) :
       /\ phase = "write_log" /\ n < tail => logblock[n] = cache[lh[n]]
       /\ phase \in {"write_head", "install"} => logblock[n] = cache[lh[n]]
       /\ phase \in {"install", "recover"} /\ n < tail => home[lh[n]] = logblock[n]

LogInv ==
  /\ TypeInv /\ OpInv /\ WroteInv /\ HeadInv /\ PinInv /\ ContentInv
  /\ SpaceReserved /\ SleeperHasWaker

-----------------------------------------------------------------------------
(* Operators *)

\* The threads in an operation, and their log blocks, can be counted.
LEMMA ActiveFinite ==
  /\ IsFiniteSet(Active)
  /\ Cardinality(Active) \in Nat
  /\ Cardinality(Active) = 0 <=> Active = {}
<1>1. Active \subseteq Threads BY DEF Active
<1>2. IsFiniteSet(Active) BY <1>1, FS_Subset, LogAssumption
<1> QED BY <1>2, FS_CardinalityType, FS_EmptySet

UnusedBound ==
  /\ IsFiniteSet(Unused)
  /\ Cardinality(Unused) \in Nat
  /\ Cardinality(Unused) <= Cardinality(Active) * MAXOPBLOCKS

\* Nobody has more than MAXOPBLOCKS of them.
LEMMA UnusedFinite == UnusedBound
<1>1. IsFiniteSet(1 .. MAXOPBLOCKS) /\ Cardinality(1 .. MAXOPBLOCKS) = MAXOPBLOCKS
  BY FS_Interval, LogAssumption
<1>2. /\ IsFiniteSet(Active \X (1 .. MAXOPBLOCKS))
      /\ Cardinality(Active \X (1 .. MAXOPBLOCKS)) = Cardinality(Active) * MAXOPBLOCKS
  BY <1>1, ActiveFinite, FS_Product, Zenon
<1>3. Unused \subseteq Active \X (1 .. MAXOPBLOCKS) BY DEF Unused
<1>4. IsFiniteSet(Unused) /\ Cardinality(Unused) <= Cardinality(Active \X (1 .. MAXOPBLOCKS))
  BY <1>2, <1>3, FS_Subset, Zenon
<1> QED BY <1>2, <1>4, FS_CardinalityType, Zenon DEF UnusedBound

\* The space that is left follows from who is active, and what they wrote.
LEMMA SameSpace ==
  ASSUME SpaceReserved, lh' = lh, Active' = Active, wrote' = wrote
  PROVE  SpaceReserved'
<1>1. Unused' = Unused BY DEF Unused
<1> QED BY <1>1 DEF SpaceReserved

-----------------------------------------------------------------------------
(* The steps of begin_op() and end_op() *)

\* A system call begins.
LEMMA StartStep ==
  ASSUME LogInv, NEW t \in Threads, Start(t)
  PROVE  LogInv'
<1>0. /\ Up /\ op[t] = "idle" /\ op' = [op EXCEPT ![t] = "begin"]
      /\ UNCHANGED <<home, logblock, head, cache, pins, lh, outstanding, committing, wrote,
                     phase, tail, panicked>>
  BY DEF Start, disk
<1>a. Active' = Active BY <1>0 DEF LogInv, TypeInv, Active
<1>1. TypeInv' BY <1>0 DEF LogInv, TypeInv, Places
<1>2. OpInv' BY <1>0, <1>a DEF LogInv, TypeInv, OpInv, Up, Recovering
<1>3. WroteInv' BY <1>0, <1>a DEF LogInv, WroteInv, Absorbed
<1>4. HeadInv' BY <1>0, <1>a DEF LogInv, HeadInv, Header
<1>5. PinInv' BY <1>0 DEF LogInv, PinInv, Recovering
<1>6. ContentInv' BY <1>0 DEF LogInv, ContentInv, Recovering, Absorbed
<1>7. SpaceReserved' BY <1>0, <1>a, SameSpace DEF LogInv
<1>8. SleeperHasWaker' BY <1>0 DEF LogInv, TypeInv, SleeperHasWaker
<1> QED BY <1>1, <1>2, <1>3, <1>4, <1>5, <1>6, <1>7, <1>8 DEF LogInv

\* kill() sends a sleeper back to the loop.
LEMMA RouseStep ==
  ASSUME LogInv, NEW t \in Threads, Rouse(t)
  PROVE  LogInv'
<1>0. /\ Up /\ op[t] = "asleep" /\ op' = [op EXCEPT ![t] = "begin"]
      /\ UNCHANGED <<home, logblock, head, cache, pins, lh, outstanding, committing, wrote,
                     phase, tail, panicked>>
  BY DEF Rouse, disk
<1>a. Active' = Active BY <1>0 DEF LogInv, TypeInv, Active
<1>1. TypeInv' BY <1>0 DEF LogInv, TypeInv, Places
<1>2. OpInv' BY <1>0, <1>a DEF LogInv, TypeInv, OpInv, Up, Recovering
<1>3. WroteInv' BY <1>0, <1>a DEF LogInv, WroteInv, Absorbed
<1>4. HeadInv' BY <1>0, <1>a DEF LogInv, HeadInv, Header
<1>5. PinInv' BY <1>0 DEF LogInv, PinInv, Recovering
<1>6. ContentInv' BY <1>0 DEF LogInv, ContentInv, Recovering, Absorbed
<1>7. SpaceReserved' BY <1>0, <1>a, SameSpace DEF LogInv
<1>8. SleeperHasWaker' BY <1>0 DEF LogInv, TypeInv, SleeperHasWaker
<1> QED BY <1>1, <1>2, <1>3, <1>4, <1>5, <1>6, <1>7, <1>8 DEF LogInv

\* begin_op() goes to sleep for a commit that is on, or for lack of space. The
\* log is not short of space for the first operation.
LEMMA BeginWaitStep ==
  ASSUME LogInv, NEW t \in Threads, begin_op(t), committing \/ NoSpace
  PROVE  LogInv'
<1>0. /\ Up /\ op[t] = "begin" /\ op' = [op EXCEPT ![t] = "asleep"]
      /\ UNCHANGED <<home, logblock, head, cache, pins, lh, outstanding, committing, wrote,
                     phase, tail, panicked>>
  BY DEF begin_op, disk
<1>a. Active' = Active BY <1>0 DEF LogInv, TypeInv, Active
<1>1. TypeInv' BY <1>0 DEF LogInv, TypeInv, Places
<1>2. OpInv' BY <1>0, <1>a DEF LogInv, TypeInv, OpInv, Up, Recovering
<1>3. WroteInv' BY <1>0, <1>a DEF LogInv, WroteInv, Absorbed
<1>4. HeadInv' BY <1>0, <1>a DEF LogInv, HeadInv, Header
<1>5. PinInv' BY <1>0 DEF LogInv, PinInv, Recovering
<1>6. ContentInv' BY <1>0 DEF LogInv, ContentInv, Recovering, Absorbed
<1>7. SpaceReserved' BY <1>0, <1>a, SameSpace DEF LogInv
<1>8. SleeperHasWaker'
  <2>1. committing \/ outstanding > 0
    <3> SUFFICES ASSUME ~committing, outstanding = 0 PROVE FALSE BY DEF LogInv, TypeInv
    <3>1. phase = "idle" BY <1>0 DEF LogInv, TypeInv, Phases, OpInv, Up, Recovering
    <3>2. Len(lh) = 0 BY <3>1, ActiveFinite DEF LogInv, OpInv, HeadInv
    <3>3. NoSpace OBVIOUS
    <3> QED BY <3>2, <3>3, LogAssumption DEF NoSpace, LOGSIZE
  <2> QED BY <1>0, <2>1 DEF LogInv, TypeInv, SleeperHasWaker
<1> QED BY <1>1, <1>2, <1>3, <1>4, <1>5, <1>6, <1>7, <1>8 DEF LogInv

\* begin_op() admits an operation: the log has MAXOPBLOCKS blocks for it and
\* for each of the others.
LEMMA BeginStep ==
  ASSUME LogInv, NEW t \in Threads, begin_op(t), ~(committing \/ NoSpace)
  PROVE  LogInv'
<1>0. /\ Up /\ op[t] = "begin" /\ op' = [op EXCEPT ![t] = "active"]
      /\ outstanding' = outstanding + 1
      /\ UNCHANGED <<home, logblock, head, cache, pins, lh, committing, wrote, phase, tail, panicked>>
  BY DEF begin_op, disk
<1>i. phase = "idle" /\ ~panicked BY <1>0 DEF LogInv, TypeInv, Phases, OpInv, Up, Recovering
<1>a. Active' = Active \cup {t} /\ t \notin Active BY <1>0 DEF LogInv, TypeInv, Active
<1>c. Cardinality(Active') = Cardinality(Active) + 1
  BY <1>a, ActiveFinite, FS_AddElement, Zenon
<1>1. TypeInv' BY <1>0 DEF LogInv, TypeInv, Places
<1>2. OpInv' BY <1>0, <1>i, <1>a, <1>c DEF LogInv, TypeInv, OpInv, Recovering
<1>3. WroteInv' BY <1>0, <1>a DEF LogInv, WroteInv, Absorbed
<1>4. HeadInv' BY <1>0, <1>i, <1>a DEF LogInv, HeadInv, Header
<1>5. PinInv' BY <1>0 DEF LogInv, PinInv, Recovering
<1>6. ContentInv' BY <1>0 DEF LogInv, ContentInv, Recovering, Absorbed
<1>7. SpaceReserved'
  <2>1. UnusedBound' BY UnusedFinite, PTL
  <2>2. /\ Cardinality(Unused') \in Nat
        /\ Cardinality(Unused') <= Cardinality(Active') * MAXOPBLOCKS
    BY <2>1, Zenon DEF UnusedBound
  <2>3. Cardinality(Active') = outstanding + 1 BY <1>c DEF LogInv, OpInv
  <2>4. Len(lh) + (outstanding + 1) * MAXOPBLOCKS <= LOGSIZE
    BY LogAssumption DEF NoSpace, LOGSIZE, LogInv, TypeInv
  <2> QED BY <1>0, <2>2, <2>3, <2>4, LogAssumption DEF SpaceReserved, LOGSIZE, LogInv, TypeInv
<1>8. SleeperHasWaker' BY <1>0 DEF LogInv, TypeInv, SleeperHasWaker
<1> QED BY <1>1, <1>2, <1>3, <1>4, <1>5, <1>6, <1>7, <1>8 DEF LogInv

\* An operation that may write another block has a log block in reserve for it.
LEMMA UnusedLeft ==
  ASSUME LogInv, NEW t \in Threads, op[t] = "active", NEW b \in Blocks, b \notin wrote[t],
         Cardinality(wrote[t] \cup {b}) <= MAXOPBLOCKS
  PROVE  /\ Cardinality(wrote[t]) \in Nat
         /\ IsFiniteSet(wrote[t] \cup {b})
         /\ Cardinality(wrote[t] \cup {b}) = Cardinality(wrote[t]) + 1
         /\ <<t, Cardinality(wrote[t]) + 1>> \in Unused
<1> DEFINE c == Cardinality(wrote[t])
<1>1. IsFiniteSet(wrote[t]) BY DEF LogInv, WroteInv
<1>2. c \in Nat BY <1>1, FS_CardinalityType
<1>3. IsFiniteSet(wrote[t] \cup {b}) /\ Cardinality(wrote[t] \cup {b}) = c + 1
  BY <1>1, FS_AddElement
<1>4. c + 1 \in 1 .. MAXOPBLOCKS
  <2>1. c + 1 <= MAXOPBLOCKS BY <1>3
  <2> HIDE DEF c
  <2> QED BY <2>1, <1>2, LogAssumption
<1>5. <<t, c + 1>> \in Unused BY <1>2, <1>4 DEF Unused, Active
<1> QED BY <1>2, <1>3, <1>5

\* log_write() takes that block.
LEMMA UnusedTaken ==
  ASSUME LogInv, NEW t \in Threads, op[t] = "active", NEW b \in Blocks, b \notin wrote[t],
         Cardinality(wrote[t] \cup {b}) <= MAXOPBLOCKS,
         wrote' = [wrote EXCEPT ![t] = @ \cup {b}], op' = op
  PROVE  /\ Cardinality(Unused') = Cardinality(Unused) - 1
         /\ Cardinality(wrote'[t]) <= MAXOPBLOCKS
         /\ IsFiniteSet(wrote'[t])
<1> DEFINE c == Cardinality(wrote[t])
           s == <<t, c + 1>>
<1>1. /\ wrote'[t] = wrote[t] \cup {b}
      /\ \A u \in Threads : u # t => wrote'[u] = wrote[u]
  BY DEF LogInv, TypeInv
<1>2. /\ c \in Nat /\ s \in Unused
      /\ IsFiniteSet(wrote[t] \cup {b}) /\ Cardinality(wrote[t] \cup {b}) = c + 1
  BY UnusedLeft
<1>3. IsFiniteSet(wrote'[t]) /\ Cardinality(wrote'[t]) = c + 1 BY <1>1, <1>2, Zenon
<1>4. Unused' = Unused \ {s}
  <2>1. Active' = Active BY DEF Active
  <2>2. ASSUME NEW u \in Active, NEW n \in 1 .. MAXOPBLOCKS
        PROVE  <<u, n>> \in Unused' <=> <<u, n>> \in Unused /\ <<u, n>> # s
    <3>0. u \in Threads BY DEF Active
    <3>1. CASE u = t
      <4>1. <<u, n>> \in Unused' <=> n > c + 1 BY <2>1, <3>1, <1>3 DEF Unused
      <4>2. <<u, n>> \in Unused <=> n > c BY <3>1 DEF Unused
      <4>3. <<u, n>> # s <=> n # c + 1 BY <3>1
      <4>4. c \in Nat BY <1>2
      <4> HIDE DEF c, s
      <4> QED BY <4>1, <4>2, <4>3, <4>4, LogAssumption
    <3>2. CASE u # t BY <2>1, <3>0, <3>2, <1>1 DEF Unused
    <3> QED BY <3>1, <3>2
  <2>3. Unused \subseteq Active \X (1 .. MAXOPBLOCKS)
        /\ Unused' \subseteq Active \X (1 .. MAXOPBLOCKS)
    BY <2>1 DEF Unused
  <2> HIDE DEF s
  <2> QED BY <2>2, <2>3
<1>5. Cardinality(Unused') = Cardinality(Unused) - 1
  BY <1>2, <1>4, UnusedFinite, FS_RemoveElement, Zenon DEF UnusedBound
<1> QED BY <1>1, <1>3, <1>5

\* log_write() stops the machine when the log is full.
LEMMA WritePanicStep ==
  ASSUME LogInv, NEW t \in Threads, NEW b \in Blocks, NEW v \in Contents,
         log_write(t, b, v), LogFull \/ outstanding < 1
  PROVE  LogInv'
<1>0. /\ Up /\ op[t] = "active" /\ cache' = [cache EXCEPT ![b] = v] /\ panicked' = TRUE
      /\ UNCHANGED <<home, logblock, head, pins, lh, outstanding, committing, op, wrote,
                     phase, tail>>
  BY DEF log_write, disk
<1>i. phase = "idle" /\ t \in Active /\ Active' = Active
  BY <1>0 DEF LogInv, OpInv, Active
<1>1. TypeInv' BY <1>0 DEF LogInv, TypeInv
<1>2. OpInv' BY <1>0, <1>i DEF LogInv, OpInv, Recovering
<1>3. WroteInv' BY <1>0, <1>i DEF LogInv, WroteInv, Absorbed
<1>4. HeadInv' BY <1>0, <1>i DEF LogInv, HeadInv, Header
<1>5. PinInv' BY <1>0 DEF LogInv, PinInv, Recovering
<1>6. ContentInv' BY <1>0, <1>i DEF LogInv, ContentInv, Recovering, Absorbed
<1>7. SpaceReserved' BY <1>0, <1>i, SameSpace DEF LogInv
<1>8. SleeperHasWaker' BY <1>0 DEF LogInv, SleeperHasWaker
<1> QED BY <1>1, <1>2, <1>3, <1>4, <1>5, <1>6, <1>7, <1>8 DEF LogInv

\* A block that is in the log already is absorbed.
LEMMA AbsorbStep ==
  ASSUME LogInv, NEW t \in Threads, NEW b \in Blocks, NEW v \in Contents,
         log_write(t, b, v), ~(LogFull \/ outstanding < 1), Absorbed(b)
  PROVE  LogInv'
<1>0. /\ Up /\ op[t] = "active" /\ cache' = [cache EXCEPT ![b] = v]
      /\ wrote' = [wrote EXCEPT ![t] = @ \cup {b}]
      /\ Cardinality(wrote[t] \cup {b}) <= MAXOPBLOCKS
      /\ UNCHANGED <<home, logblock, head, pins, lh, outstanding, committing, op, phase, tail,
                     panicked>>
  BY DEF log_write, disk
<1>i. phase = "idle" /\ t \in Active /\ Active' = Active
  BY <1>0 DEF LogInv, OpInv, Active
<1>1. TypeInv' BY <1>0 DEF LogInv, TypeInv
<1>2. OpInv' BY <1>0, <1>i DEF LogInv, OpInv, Recovering
<1>4. HeadInv' BY <1>0, <1>i DEF LogInv, HeadInv, Header
<1>5. PinInv' BY <1>0 DEF LogInv, PinInv, Recovering
<1>6. ContentInv' BY <1>0, <1>i DEF LogInv, TypeInv, ContentInv, Recovering, Absorbed
<1>7. WroteInv' /\ SpaceReserved'
  <2>1. CASE b \in wrote[t]
    <3>1. wrote' = wrote BY <1>0, <2>1 DEF LogInv, TypeInv
    <3>2. SpaceReserved' BY <1>0, <1>i, <3>1, SameSpace DEF LogInv
    <3> QED BY <1>0, <1>i, <3>1, <3>2 DEF LogInv, WroteInv, Absorbed
  <2>2. CASE b \notin wrote[t]
    <3>1. /\ Cardinality(Unused') = Cardinality(Unused) - 1
          /\ Cardinality(wrote'[t]) <= MAXOPBLOCKS
          /\ IsFiniteSet(wrote'[t])
      BY <1>0, <2>2, UnusedTaken, Zenon
    <3>2. SpaceReserved' BY <1>0, <3>1, UnusedFinite, LogAssumption
      DEF LogInv, TypeInv, SpaceReserved, UnusedBound, LOGSIZE
    <3>3. WroteInv' BY <1>0, <1>i, <3>1 DEF LogInv, TypeInv, WroteInv, Absorbed
    <3> QED BY <3>2, <3>3
  <2> QED BY <2>1, <2>2
<1>8. SleeperHasWaker' BY <1>0 DEF LogInv, SleeperHasWaker
<1> QED BY <1>1, <1>2, <1>4, <1>5, <1>6, <1>7, <1>8 DEF LogInv

\* Another block is appended to log.lh and pinned.
LEMMA AppendStep ==
  ASSUME LogInv, NEW t \in Threads, NEW b \in Blocks, NEW v \in Contents,
         log_write(t, b, v), ~(LogFull \/ outstanding < 1), ~Absorbed(b)
  PROVE  LogInv'
<1>0. /\ Up /\ op[t] = "active" /\ cache' = [cache EXCEPT ![b] = v]
      /\ wrote' = [wrote EXCEPT ![t] = @ \cup {b}]
      /\ Cardinality(wrote[t] \cup {b}) <= MAXOPBLOCKS
      /\ lh' = Append(lh, b)
      /\ pins' = [pins EXCEPT ![b] = @ + 1]
      /\ UNCHANGED <<home, logblock, head, outstanding, committing, op, phase, tail, panicked>>
  BY DEF log_write, disk, bpin
<1>i. phase = "idle" /\ t \in Active /\ Active' = Active
  BY <1>0 DEF LogInv, OpInv, Active
<1>n. b \notin wrote[t] BY DEF LogInv, WroteInv
<1>s. /\ Len(lh) \in Nat /\ Len(lh') = Len(lh) + 1
      /\ lh'[Len(lh) + 1] = b
      /\ \A n \in 1 .. Len(lh) : lh'[n] = lh[n]
      /\ DOMAIN lh = 1 .. Len(lh) /\ DOMAIN lh' = 1 .. Len(lh) + 1
  BY <1>0 DEF LogInv, TypeInv
<1>f. Len(lh) < LOGSIZE /\ Len(lh) < LogBlocks - 1
  BY <1>s, LogAssumption DEF LogFull, LOGSIZE
<1>1. TypeInv' BY <1>0 DEF LogInv, TypeInv
<1>2. OpInv' BY <1>0, <1>i DEF LogInv, OpInv, Recovering
<1>3. \A c \in Blocks : Absorbed(c)' <=> Absorbed(c) \/ c = b
  BY <1>s DEF Absorbed
<1>4. HeadInv'
  <2>1. Header(lh)' BY <1>s, <1>f, LogAssumption DEF LogInv, HeadInv, Header, Absorbed, LOGSIZE
  <2> QED BY <1>0, <1>i, <2>1 DEF LogInv, HeadInv, Header
<1>5. PinInv'
  <2>1. ~Recovering /\ ~Recovering' BY <1>0, <1>i DEF Recovering
  <2>2. \A c \in Blocks : pins[c] = IF Absorbed(c) THEN 1 ELSE 0
    BY <1>i, <2>1 DEF LogInv, PinInv, Absorbed
  <2>3. \A c \in Blocks : pins'[c] = IF Absorbed(c)' THEN 1 ELSE 0
    BY <1>0, <1>3, <2>2 DEF LogInv, TypeInv
  <2> QED BY <1>0, <1>i, <2>1, <2>3 DEF PinInv, Absorbed
<1>6. ContentInv' BY <1>0, <1>i, <1>3 DEF LogInv, TypeInv, ContentInv, Recovering
<1>7. /\ Cardinality(Unused') = Cardinality(Unused) - 1
      /\ Cardinality(wrote'[t]) <= MAXOPBLOCKS
      /\ IsFiniteSet(wrote'[t])
  BY <1>0, <1>n, UnusedTaken, Zenon
<1>8. SpaceReserved' BY <1>s, <1>7, UnusedFinite, LogAssumption
  DEF LogInv, SpaceReserved, UnusedBound, LOGSIZE
<1>9. WroteInv' BY <1>0, <1>i, <1>3, <1>7 DEF LogInv, TypeInv, WroteInv
<1>10. SleeperHasWaker' BY <1>0 DEF LogInv, SleeperHasWaker
<1> QED BY <1>1, <1>2, <1>4, <1>5, <1>6, <1>8, <1>9, <1>10 DEF LogInv

\* end_op() takes its thread out of the operations. It does not meet a commit,
\* so that it does not panic.
LEMMA EndLeaves ==
  ASSUME LogInv, NEW t \in Threads, Up, op[t] = "active"
  PROVE  /\ phase = "idle" /\ ~committing /\ ~panicked
         /\ t \in Active
         /\ Cardinality(Active \ {t}) = outstanding - 1
         /\ outstanding = 1 <=> Active \ {t} = {}
<1>1. t \in Active /\ phase = "idle" /\ ~panicked BY DEF LogInv, OpInv, Up, Active
<1>2. ~committing BY <1>1 DEF LogInv, OpInv
<1>3. Cardinality(Active \ {t}) = outstanding - 1 /\ IsFiniteSet(Active \ {t})
  BY <1>1, ActiveFinite, FS_RemoveElement, Zenon DEF LogInv, OpInv
<1>4. Cardinality(Active \ {t}) = 0 <=> Active \ {t} = {} BY <1>3, FS_EmptySet, Zenon
<1> QED BY <1>1, <1>2, <1>3, <1>4 DEF LogInv, TypeInv

\* The last end_op() begins to commit.
LEMMA EndCommitStep ==
  ASSUME LogInv, NEW t \in Threads, end_op(t), outstanding = 1
  PROVE  LogInv'
<1>u. Up /\ op[t] = "active" BY DEF end_op
<1>l. /\ phase = "idle" /\ ~committing /\ ~panicked
      /\ t \in Active /\ Active \ {t} = {}
  BY <1>u, EndLeaves, Zenon
<1>0. /\ outstanding' = 0 /\ wrote' = [wrote EXCEPT ![t] = {}]
      /\ committing' = TRUE /\ op' = [op EXCEPT ![t] = "commit"]
      /\ phase' = CommitStart /\ tail' = 1
      /\ UNCHANGED <<home, logblock, head, cache, pins, lh, panicked>>
  BY <1>l DEF end_op, disk
<1>p. phase' = IF lh = <<>> THEN "done" ELSE "write_log" BY <1>0 DEF CommitStart
<1>a. Active' = {} BY <1>0, <1>l DEF LogInv, TypeInv, Active
<1>1. TypeInv' BY <1>0, <1>p DEF LogInv, TypeInv, Places, Phases
<1>2. OpInv' BY <1>0, <1>p, <1>a, <1>l, FS_EmptySet DEF LogInv, TypeInv, OpInv, Recovering
<1>3. WroteInv'
  <2>1. \A u \in Threads : u # t => u \notin Active BY <1>l
  <2>2. \A u \in Threads : wrote'[u] = {} BY <1>0, <2>1 DEF LogInv, TypeInv, WroteInv
  <2> QED BY <2>2, FS_EmptySet, LogAssumption DEF WroteInv
<1>4. HeadInv'
  <2>1. Len(lh) \in Nat /\ (lh # <<>> => Len(lh) >= 1) BY DEF LogInv, TypeInv
  <2> QED BY <1>0, <1>p, <1>l, <2>1 DEF LogInv, HeadInv, Header
<1>5. PinInv' BY <1>0, <1>p, <1>l DEF LogInv, PinInv, Recovering
<1>6. ContentInv'
  <2>1. \A n \in 1 .. Len(lh) : ~(n < tail') BY <1>0 DEF LogInv, TypeInv
  <2> QED BY <1>0, <1>p, <1>l, <2>1 DEF LogInv, ContentInv, Recovering, Absorbed
<1>7. SpaceReserved'
  <2>1. Unused' = {} BY <1>a DEF Unused
  <2> QED BY <1>0, <2>1, FS_EmptySet, LogAssumption
    DEF LogInv, TypeInv, HeadInv, Header, SpaceReserved, LOGSIZE
<1>8. SleeperHasWaker' BY <1>0 DEF SleeperHasWaker
<1> QED BY <1>1, <1>2, <1>3, <1>4, <1>5, <1>6, <1>7, <1>8 DEF LogInv

\* Another end_op() wakes those that wait for space.
LEMMA EndWakeStep ==
  ASSUME LogInv, NEW t \in Threads, end_op(t), outstanding # 1
  PROVE  LogInv'
<1>u. Up /\ op[t] = "active" BY DEF end_op
<1>l. /\ phase = "idle" /\ ~committing /\ ~panicked
      /\ t \in Active /\ Active \ {t} # {} /\ Cardinality(Active \ {t}) = outstanding - 1
  BY <1>u, EndLeaves
<1>0. /\ outstanding' = outstanding - 1 /\ wrote' = [wrote EXCEPT ![t] = {}]
      /\ op' = [u \in Threads |-> IF u = t THEN "idle"
                                  ELSE IF op[u] = "asleep" THEN "begin" ELSE op[u]]
      /\ UNCHANGED <<home, logblock, head, cache, pins, lh, committing, phase, tail, panicked>>
  BY <1>l DEF end_op, disk, WakeAll
<1>a. Active' = Active \ {t} BY <1>0 DEF Active
<1>o. outstanding' = Cardinality(Active') /\ outstanding' \in Nat
  BY <1>0, <1>a, <1>l, EndLeaves, ActiveFinite DEF LogInv, TypeInv, OpInv
<1>1. TypeInv' BY <1>0, <1>o DEF LogInv, TypeInv, Places
<1>2. OpInv' BY <1>0, <1>o, <1>a, <1>l DEF LogInv, TypeInv, OpInv, Recovering
<1>3. WroteInv' BY <1>0, <1>a, <1>l, FS_EmptySet, LogAssumption
  DEF LogInv, TypeInv, WroteInv, Absorbed
<1>4. HeadInv' BY <1>0, <1>a, <1>l DEF LogInv, HeadInv, Header
<1>5. PinInv' BY <1>0 DEF LogInv, PinInv, Recovering
<1>6. ContentInv' BY <1>0 DEF LogInv, ContentInv, Recovering, Absorbed
<1>7. SpaceReserved'
  <2>1. \A u \in Active' : wrote'[u] = wrote[u] BY <1>0, <1>a DEF LogInv, TypeInv, Active
  <2>2. Unused' \subseteq Unused BY <1>a, <2>1 DEF Unused
  <2>3. Cardinality(Unused') \in Nat /\ Cardinality(Unused') <= Cardinality(Unused)
    BY <2>2, UnusedFinite, FS_Subset, FS_CardinalityType DEF UnusedBound
  <2> QED BY <1>0, <2>3, UnusedFinite, LogAssumption
    DEF LogInv, TypeInv, SpaceReserved, LOGSIZE, UnusedBound
<1>8. SleeperHasWaker' BY <1>0 DEF SleeperHasWaker
<1> QED BY <1>1, <1>2, <1>3, <1>4, <1>5, <1>6, <1>7, <1>8 DEF LogInv

\* commit() is over: committing is cleared and everybody woken.
LEMMA EndStep ==
  ASSUME LogInv, NEW t \in Threads, end_commit(t)
  PROVE  LogInv'
<1>0. /\ phase = "done" /\ op[t] = "commit" /\ committing' = FALSE /\ phase' = "idle"
      /\ op' = [u \in Threads |-> IF u = t THEN "idle"
                                  ELSE IF op[u] = "asleep" THEN "begin" ELSE op[u]]
      /\ UNCHANGED <<home, logblock, head, cache, pins, lh, outstanding, wrote, tail, panicked>>
  BY DEF end_commit, disk, WakeAll
<1>a. Active' = Active /\ Active = {} BY <1>0 DEF LogInv, OpInv, Active
<1>1. TypeInv' BY <1>0, Zenon DEF LogInv, TypeInv, Places, Phases
<1>2. OpInv' BY <1>0, <1>a DEF LogInv, TypeInv, OpInv, Recovering
<1>3. WroteInv' BY <1>0, <1>a, Zenon DEF LogInv, WroteInv, Absorbed
<1>4. HeadInv' BY <1>0, <1>a DEF LogInv, HeadInv, Header
<1>5. PinInv' BY <1>0 DEF LogInv, PinInv, Recovering
<1>6. ContentInv' BY <1>0 DEF LogInv, ContentInv, Recovering, Absorbed
<1>7. SpaceReserved' BY <1>0, <1>a, SameSpace DEF LogInv
<1>8. SleeperHasWaker' BY <1>0 DEF SleeperHasWaker
<1> QED BY <1>1, <1>2, <1>3, <1>4, <1>5, <1>6, <1>7, <1>8 DEF LogInv

-----------------------------------------------------------------------------
(* The steps of commit() and recover_from_log() *)

\* Without operations under way the log has to hold what is in it.
LEMMA IdleSpace ==
  ASSUME Active' = {}, Header(lh)', lh' \in Seq(Blocks)
  PROVE  SpaceReserved'
<1>1. Unused' = {} BY DEF Unused
<1>2. Cardinality(Unused') = 0 BY <1>1, FS_EmptySet
<1> QED BY <1>2, LogAssumption DEF Header, SpaceReserved, LOGSIZE

\* write_log() copies a block from the cache to the log.
LEMMA WriteLogStep ==
  ASSUME LogInv, write_log
  PROVE  LogInv'
<1>0. /\ phase = "write_log" /\ logblock' = [logblock EXCEPT ![tail] = cache[lh[tail]]]
      /\ UNCHANGED <<home, head, cache, pins, lh, outstanding, committing, op, wrote, panicked>>
  BY DEF write_log
<1>k. tail' = tail + 1 BY DEF write_log
<1>p. /\ tail = Len(lh) => phase' = "write_head"
      /\ tail # Len(lh) => phase' = "write_log"
  BY <1>0 DEF write_log
<1>a. Active' = Active /\ Active = {} BY <1>0 DEF LogInv, OpInv, Active
<1>t. Len(lh) \in Nat /\ tail \in Nat /\ 1 <= tail /\ tail <= Len(lh)
  BY <1>0 DEF LogInv, TypeInv, HeadInv
<1>c. tail \in LogPos /\ cache[lh[tail]] \in Contents
  BY <1>t, LogAssumption DEF LogInv, TypeInv, HeadInv, Header, LogPos
<1>1. TypeInv'
  <2>1. tail' \in Nat \ {0} BY <1>k, <1>t
  <2>2. phase' \in Phases BY <1>p DEF Phases
  <2> QED BY <1>0, <1>c, <2>1, <2>2 DEF LogInv, TypeInv
<1>2. OpInv' BY <1>0, <1>p, <1>a DEF LogInv, OpInv, Recovering
<1>3. WroteInv' BY <1>0, <1>a DEF LogInv, WroteInv, Absorbed
<1>4. HeadInv'
  <2>1. phase' = "write_log" => tail' <= Len(lh) BY <1>k, <1>p, <1>t
  <2> QED BY <1>0, <1>p, <2>1 DEF LogInv, HeadInv, Header
<1>5. PinInv' BY <1>0, <1>p DEF LogInv, PinInv, Recovering
<1>6. ContentInv'
  <2>1. /\ logblock'[tail] = cache[lh[tail]]
        /\ \A n \in 1 .. Len(lh) : n # tail => logblock'[n] = logblock[n]
    <3>1. 1 .. Len(lh) \subseteq LogPos BY <1>t, LogAssumption DEF LogInv, HeadInv, Header, LogPos
    <3> QED BY <1>0, <1>c, <3>1 DEF LogInv, TypeInv
  <2>2. \A n \in 1 .. Len(lh) : n < tail' => n < tail \/ n = tail BY <1>k, <1>t
  <2>3. \A n \in 1 .. Len(lh) : phase' = "write_head" => n < tail \/ n = tail BY <1>p, <1>t
  <2> QED BY <1>0, <1>p, <2>1, <2>2, <2>3 DEF LogInv, ContentInv, Recovering, Absorbed
<1>7. SpaceReserved' BY <1>0, <1>a, SameSpace DEF LogInv
<1>8. SleeperHasWaker' BY <1>0 DEF LogInv, SleeperHasWaker
<1> QED BY <1>1, <1>2, <1>3, <1>4, <1>5, <1>6, <1>7, <1>8 DEF LogInv

\* write_head() commits.
LEMMA WriteHeadStep ==
  ASSUME LogInv, write_head
  PROVE  LogInv'
<1>0. /\ phase = "write_head" /\ head' = lh /\ phase' = "install" /\ tail' = 1
      /\ UNCHANGED <<home, logblock, cache, pins, lh, outstanding, committing, op, wrote, panicked>>
  BY DEF write_head
<1>a. Active' = Active /\ Active = {} BY <1>0 DEF LogInv, OpInv, Active
<1>t. Len(lh) \in Nat /\ DOMAIN lh = 1 .. Len(lh) BY DEF LogInv, TypeInv
<1>1. TypeInv' BY <1>0 DEF LogInv, TypeInv, Phases
<1>2. OpInv' BY <1>0, <1>a DEF LogInv, OpInv, Recovering
<1>3. WroteInv' BY <1>0, <1>a, Zenon DEF LogInv, WroteInv, Absorbed
<1>4. HeadInv' BY <1>0, <1>t DEF LogInv, HeadInv, Header
<1>5. PinInv'
  <2>1. \A n \in DOMAIN lh : n >= tail' BY <1>0, <1>t
  <2> QED BY <1>0, <2>1 DEF LogInv, PinInv, Recovering
<1>6. ContentInv'
  <2>1. \A n \in 1 .. Len(lh) : ~(n < tail') BY <1>0, <1>t
  <2> QED BY <1>0, <2>1 DEF LogInv, ContentInv, Recovering, Absorbed
<1>7. SpaceReserved' BY <1>0, <1>a, SameSpace DEF LogInv
<1>8. SleeperHasWaker' BY <1>0 DEF LogInv, SleeperHasWaker
<1> QED BY <1>1, <1>2, <1>3, <1>4, <1>5, <1>6, <1>7, <1>8 DEF LogInv

\* install_trans() copies a block from the log to its home location, and
\* unpins it unless it recovers.
LEMMA InstallStep ==
  ASSUME LogInv, install_trans
  PROVE  LogInv'
<1>0. /\ phase \in {"install", "recover"} /\ tail <= Len(lh)
      /\ home' = [home EXCEPT ![lh[tail]] = logblock[tail]]
      /\ cache' = [cache EXCEPT ![lh[tail]] = logblock[tail]]
      /\ tail' = tail + 1
      /\ UNCHANGED <<logblock, head, lh, outstanding, committing, op, wrote, phase, panicked>>
  BY DEF install_trans, Installing
<1>p. pins' = IF phase = "recover" THEN pins ELSE [pins EXCEPT ![lh[tail]] = @ - 1]
  BY <1>0 DEF install_trans, bunpin, Recovering
<1>a. Active' = Active /\ Active = {} BY <1>0 DEF LogInv, OpInv, Active
<1>t. /\ Len(lh) \in Nat /\ tail \in 1 .. Len(lh) /\ tail \in LogPos /\ lh[tail] \in Blocks
      /\ DOMAIN lh = 1 .. Len(lh) /\ logblock[tail] \in Contents
  BY <1>0, LogAssumption DEF LogInv, TypeInv, HeadInv, Header, LogPos
<1>d. \A n \in 1 .. Len(lh) : lh[n] \in Blocks /\ (n # tail => lh[n] # lh[tail])
  BY <1>t DEF LogInv, TypeInv, HeadInv, Header
<1>n. \A n \in 1 .. Len(lh) : /\ n < tail' <=> n < tail \/ n = tail
                              /\ n >= tail <=> n >= tail' \/ n = tail
                              /\ n >= tail' => n # tail
  BY <1>0, <1>t
<1>1. TypeInv' BY <1>0, <1>p, <1>t DEF LogInv, TypeInv
<1>2. OpInv' BY <1>0, <1>a DEF LogInv, OpInv, Recovering
<1>3. WroteInv' BY <1>0, <1>a DEF LogInv, WroteInv, Absorbed
<1>4. HeadInv' BY <1>0, <1>a, <1>t DEF LogInv, HeadInv, Header
<1>5. PinInv'
  <2>1. CASE phase = "recover" BY <1>0, <1>p, <2>1 DEF LogInv, PinInv, Recovering
  <2>2. CASE phase = "install"
    <3>1. \A b \in Blocks : pins[b] = IF \E n \in 1 .. Len(lh) : lh[n] = b /\ n >= tail
                                      THEN 1 ELSE 0
      BY <1>t, <2>2 DEF LogInv, PinInv, Recovering
    <3>2. pins[lh[tail]] = 1 BY <1>t, <1>n, <3>1
    <3>3. \A b \in Blocks : pins'[b] = IF b = lh[tail] THEN 0 ELSE pins[b]
      BY <1>p, <1>t, <2>2, <3>2 DEF LogInv, TypeInv
    <3>4. ASSUME NEW b \in Blocks
          PROVE  pins'[b] = IF \E n \in 1 .. Len(lh) : lh[n] = b /\ n >= tail' THEN 1 ELSE 0
      <4>1. CASE b = lh[tail] BY <4>1, <1>d, <1>n, <3>3
      <4>2. CASE b # lh[tail] BY <4>2, <1>n, <3>1, <3>3
      <4> QED BY <4>1, <4>2
    <3> QED BY <1>0, <1>t, <2>2, <3>4 DEF PinInv, Recovering
  <2> QED BY <1>0, <2>1, <2>2
<1>6. ContentInv'
  <2>1. /\ home'[lh[tail]] = logblock[tail] /\ cache'[lh[tail]] = logblock[tail]
        /\ \A b \in Blocks : b # lh[tail] => home'[b] = home[b] /\ cache'[b] = cache[b]
    BY <1>0, <1>t DEF LogInv, TypeInv
  <2>2. Recovering' => cache' = home'
    BY <1>0, <1>t, Zenon DEF LogInv, TypeInv, ContentInv, Recovering
  <2>3. ~panicked' => \A b \in Blocks : ~Absorbed(b)' => cache'[b] = home'[b]
    BY <1>0, <2>1 DEF LogInv, ContentInv, Absorbed
  <2>4. ASSUME NEW n \in 1 .. Len(lh)
        PROVE  /\ phase = "install" => logblock[n] = cache'[lh[n]]
               /\ n < tail' => home'[lh[n]] = logblock[n]
    <3>1. CASE n = tail BY <2>1, <3>1
    <3>2. CASE n # tail BY <1>0, <1>d, <1>n, <2>1, <3>2 DEF LogInv, ContentInv
    <3> QED BY <3>1, <3>2
  <2> QED BY <1>0, <2>2, <2>3, <2>4 DEF ContentInv
<1>7. SpaceReserved' BY <1>0, <1>a, SameSpace DEF LogInv
<1>8. SleeperHasWaker' BY <1>0 DEF LogInv, SleeperHasWaker
<1> QED BY <1>1, <1>2, <1>3, <1>4, <1>5, <1>6, <1>7, <1>8 DEF LogInv

\* The header is erased once every block is in its home location.
LEMMA ClearHeadStep ==
  ASSUME LogInv, clear_head
  PROVE  LogInv'
<1>0. /\ phase \in {"install", "recover"} /\ tail > Len(lh) /\ lh' = <<>> /\ head' = <<>> /\ tail' = 1
      /\ UNCHANGED <<home, logblock, cache, pins, outstanding, committing, op, wrote, panicked>>
  BY DEF clear_head
<1>p. /\ phase = "recover" => phase' = "idle"
      /\ phase = "install" => phase' = "done"
  BY DEF clear_head, Recovering
<1>a. Active' = Active /\ Active = {} BY <1>0 DEF LogInv, OpInv, Active
<1>t. Len(lh) \in Nat /\ DOMAIN lh = 1 .. Len(lh) /\ \A n \in 1 .. Len(lh) : n < tail
  BY <1>0 DEF LogInv, TypeInv
<1>1. TypeInv' BY <1>0, <1>p DEF LogInv, TypeInv, Phases
<1>2. OpInv' BY <1>0, <1>p, <1>a DEF LogInv, OpInv, Recovering
<1>3. WroteInv' BY <1>0, <1>a DEF LogInv, WroteInv
<1>h. Header(lh)' /\ Header(head)' BY <1>0, LogAssumption DEF Header, LOGSIZE
<1>4. HeadInv' BY <1>0, <1>p, <1>h DEF HeadInv
<1>5. PinInv'
  <2>1. \A b \in Blocks : pins[b] = 0 BY <1>0, <1>t DEF LogInv, TypeInv, PinInv, Recovering
  <2> QED BY <1>0, <2>1 DEF PinInv
<1>6. ContentInv'
  <2>1. ~panicked BY <1>0 DEF LogInv, OpInv
  <2>2. ASSUME NEW b \in Blocks PROVE cache[b] = home[b]
    <3>1. CASE phase = "recover" BY <3>1 DEF LogInv, ContentInv, Recovering
    <3>2. CASE phase = "install" /\ Absorbed(b)
      BY <1>t, <3>2 DEF LogInv, ContentInv, Absorbed
    <3>3. CASE ~Absorbed(b) BY <2>1, <3>3 DEF LogInv, ContentInv
    <3> QED BY <1>0, <3>1, <3>2, <3>3
  <2> QED BY <1>0, <1>p, <2>2 DEF ContentInv, Recovering
<1>7. SpaceReserved' BY <1>0, <1>a, <1>h, IdleSpace
<1>8. SleeperHasWaker' BY <1>0 DEF LogInv, SleeperHasWaker
<1> QED BY <1>1, <1>2, <1>3, <1>4, <1>5, <1>6, <1>7, <1>8 DEF LogInv

\* What a crash leaves of the home locations and of the log.
LEMMA TornBlocks ==
  ASSUME LogInv, Torn
  PROVE  home' \in [Blocks -> Contents] /\ logblock' \in [LogPos -> Contents]
<1>1. CASE UNCHANGED <<home, logblock>> BY <1>1 DEF LogInv, TypeInv
<1>2. ASSUME NEW v \in Contents, logblock' = [logblock EXCEPT ![tail] = v], UNCHANGED home
      PROVE  home' \in [Blocks -> Contents] /\ logblock' \in [LogPos -> Contents]
  BY <1>2, Zenon DEF LogInv, TypeInv
<1>3. ASSUME NEW v \in Contents, home' = [home EXCEPT ![lh[tail]] = v], UNCHANGED logblock
      PROVE  home' \in [Blocks -> Contents] /\ logblock' \in [LogPos -> Contents]
  BY <1>3, Zenon DEF LogInv, TypeInv
<1> QED BY <1>1, <1>2, <1>3 DEF Torn

\* A crash loses everything but the disk.
LEMMA CrashStep ==
  ASSUME LogInv, Crash
  PROVE  LogInv'
<1>0. /\ cache' = home' /\ pins' = [b \in Blocks |-> 0] /\ lh' = <<>> /\ outstanding' = 0
      /\ committing' = FALSE /\ op' = [t \in Threads |-> "idle"]
      /\ wrote' = [t \in Threads |-> {}] /\ phase' = "boot" /\ tail' = 1 /\ panicked' = FALSE
      /\ UNCHANGED head
  BY DEF Crash
<1>b. home' \in [Blocks -> Contents] /\ logblock' \in [LogPos -> Contents]
  BY TornBlocks DEF Crash
<1>a. Active' = {} BY <1>0 DEF Active
<1>1. TypeInv'
  <2>1. lh' \in Seq(Blocks) /\ tail' \in Nat \ {0} /\ outstanding' \in Nat /\ pins' \in [Blocks -> Int]
    BY <1>0
  <2> QED BY <1>0, <1>b, <2>1, Zenon DEF LogInv, TypeInv, Places, Phases
<1>2. OpInv' BY <1>0, <1>a, FS_EmptySet DEF OpInv, Recovering
<1>3. WroteInv' BY <1>0, FS_EmptySet, LogAssumption DEF WroteInv
<1>h. Header(lh)' BY <1>0, LogAssumption DEF Header, LOGSIZE
<1>4. HeadInv' BY <1>0, <1>h DEF LogInv, HeadInv, Header
<1>5. PinInv' BY <1>0 DEF PinInv
<1>6. ContentInv' BY <1>0 DEF ContentInv
<1>7. SpaceReserved' BY <1>0, <1>a, <1>h, IdleSpace
<1>8. SleeperHasWaker' BY <1>0 DEF SleeperHasWaker
<1> QED BY <1>1, <1>2, <1>3, <1>4, <1>5, <1>6, <1>7, <1>8 DEF LogInv

\* Recovery reads the header.
LEMMA ReadHeadStep ==
  ASSUME LogInv, read_head
  PROVE  LogInv'
<1>0. /\ phase = "boot" /\ lh' = head /\ phase' = "recover"
      /\ UNCHANGED <<home, logblock, head, cache, pins, outstanding, committing, op, wrote, tail,
                     panicked>>
  BY DEF read_head, disk
<1>a. Active' = Active /\ Active = {} BY <1>0 DEF LogInv, OpInv, Active
<1>h. Header(lh)' BY <1>0 DEF LogInv, HeadInv, Header
<1>t. tail = 1 /\ Len(head) \in Nat /\ lh = <<>> BY <1>0 DEF LogInv, TypeInv, HeadInv
<1>1. TypeInv' BY <1>0 DEF LogInv, TypeInv, Phases
<1>2. OpInv' BY <1>0, <1>a DEF LogInv, OpInv, Recovering
<1>3. WroteInv' BY <1>0, <1>a DEF LogInv, WroteInv
<1>4. HeadInv' BY <1>0, <1>h, <1>t DEF LogInv, HeadInv, Header
<1>5. PinInv' BY <1>0, <1>t DEF LogInv, PinInv, Recovering
<1>6. ContentInv'
  <2>1. \A n \in 1 .. Len(head) : ~(n < tail') BY <1>0, <1>t
  <2> QED BY <1>0, <2>1 DEF LogInv, ContentInv, Recovering
<1>7. SpaceReserved' BY <1>0, <1>a, <1>h, IdleSpace DEF LogInv, TypeInv
<1>8. SleeperHasWaker' BY <1>0 DEF LogInv, SleeperHasWaker
<1> QED BY <1>1, <1>2, <1>3, <1>4, <1>5, <1>6, <1>7, <1>8 DEF LogInv

-----------------------------------------------------------------------------
(* From the steps to every behaviour *)

\* mkfs makes an empty log.
LEMMA InitInv ==
  ASSUME Init
  PROVE  LogInv
<1>a. Active = {} BY DEF Init, Active
<1>h. Header(lh) /\ Header(head) BY LogAssumption DEF Init, Header, LOGSIZE
<1>1. TypeInv
  <2>1. head \in Seq(Blocks) /\ lh \in Seq(Blocks) /\ tail \in Nat \ {0} /\ outstanding \in Nat
        /\ pins \in [Blocks -> Int]
    BY DEF Init
  <2> QED BY <2>1, Zenon DEF Init, TypeInv, Places, Phases
<1>2. OpInv BY <1>a, FS_EmptySet DEF Init, OpInv, Recovering
<1>3. WroteInv BY FS_EmptySet, LogAssumption DEF Init, WroteInv
<1>4. HeadInv BY <1>h DEF Init, HeadInv
<1>5. PinInv BY DEF Init, PinInv
<1>6. ContentInv BY DEF Init, ContentInv
<1>7. SpaceReserved
  <2>1. Cardinality(Unused) = 0 BY <1>a, FS_EmptySet DEF Unused
  <2> QED BY <1>h, <2>1, LogAssumption DEF Init, Header, SpaceReserved, LOGSIZE
<1>8. SleeperHasWaker BY DEF Init, SleeperHasWaker
<1> QED BY <1>1, <1>2, <1>3, <1>4, <1>5, <1>6, <1>7, <1>8 DEF LogInv

LEMMA StutterInv ==
  ASSUME LogInv, UNCHANGED vars
  PROVE  LogInv'
<1>0. UNCHANGED <<home, logblock, head, cache, pins, lh, outstanding, committing, op, wrote,
                  phase, tail, panicked>>
  BY DEF vars
<1>a. Active' = Active BY <1>0 DEF Active
<1>1. TypeInv' BY <1>0 DEF LogInv, TypeInv
<1>2. OpInv' BY <1>0, <1>a DEF LogInv, OpInv, Recovering
<1>3. WroteInv' BY <1>0, <1>a DEF LogInv, WroteInv, Absorbed
<1>4. HeadInv' BY <1>0, <1>a DEF LogInv, HeadInv, Header
<1>5. PinInv' BY <1>0 DEF LogInv, PinInv, Recovering
<1>6. ContentInv' BY <1>0 DEF LogInv, ContentInv, Recovering, Absorbed
<1>7. SpaceReserved' BY <1>0, <1>a, SameSpace DEF LogInv
<1>8. SleeperHasWaker' BY <1>0 DEF LogInv, SleeperHasWaker
<1> QED BY <1>1, <1>2, <1>3, <1>4, <1>5, <1>6, <1>7, <1>8 DEF LogInv

\* Every step keeps the invariant.
LEMMA NextInv ==
  ASSUME LogInv, [Next]_vars
  PROVE  LogInv'
<1>1. CASE UNCHANGED vars BY <1>1, StutterInv
<1>2. CASE Commit \/ Crash \/ read_head
  BY <1>2, WriteLogStep, WriteHeadStep, InstallStep, ClearHeadStep, CrashStep, ReadHeadStep DEF Commit
<1>3. ASSUME NEW t \in Threads, Start(t) \/ begin_op(t) \/ Rouse(t) \/ end_op(t) \/ end_commit(t)
      PROVE  LogInv'
  BY <1>3, StartStep, BeginWaitStep, BeginStep, RouseStep, EndCommitStep, EndWakeStep, EndStep
<1>4. ASSUME NEW t \in Threads, NEW b \in Blocks, NEW v \in Contents, log_write(t, b, v)
      PROVE  LogInv'
  BY <1>4, WritePanicStep, AbsorbStep, AppendStep
<1> QED BY <1>1, <1>2, <1>3, <1>4 DEF Next
=============================================================================
