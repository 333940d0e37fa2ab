----------------------------- MODULE LogProofs ------------------------------
(***************************************************************************)
(* The theorems about Log: for any threads, blocks, contents and sizes,    *)
(* the write-ahead log implements AtomicDisk, loses no content of the      *)
(* cache, keeps the space it has promised, and leaves nobody asleep in     *)
(* begin_op() without a waker.                                             *)
(***************************************************************************)
EXTENDS LogSteps

\* The inductive invariant holds in every state that the log reaches.
THEOREM LogInvariance == Spec => []LogInv
<1>1. Init => LogInv BY InitInv
<1>2. LogInv /\ [Next]_vars => LogInv' BY NextInv
<1> QED BY <1>1, <1>2, PTL DEF Spec

\* A buffer that nobody pins can be recycled: log_write() pins what it changes
\* and install_trans() unpins it once it is in its home location; recovery
\* changes buffers only together with their home locations.
THEOREM CacheIsClean == Spec => []CacheClean
<1>1. LogInv => CacheClean
  <2> SUFFICES ASSUME LogInv, ~panicked, NEW b \in Blocks, pins[b] = 0
               PROVE  cache[b] = home[b]
    BY DEF CacheClean
  <2>1. CASE Recovering BY <2>1 DEF LogInv, ContentInv
  <2>2. CASE ~Absorbed(b) BY <2>2 DEF LogInv, ContentInv
  <2>3. ASSUME ~Recovering, NEW n \in DOMAIN lh, lh[n] = b PROVE cache[b] = home[b]
    <3>1. phase = "install" /\ ~(n >= tail) BY <2>3 DEF LogInv, PinInv
    <3>2. n \in 1 .. Len(lh) /\ n < tail BY <2>3, <3>1 DEF LogInv, TypeInv
    <3> QED BY <2>3, <3>1, <3>2 DEF LogInv, ContentInv
  <2> QED BY <2>1, <2>2, <2>3 DEF Absorbed
<1> QED BY <1>1, LogInvariance, PTL

\* When the last end_op() has returned nothing is left in the log.
THEOREM QuiescentIsDurable == Spec => []QuiescentDurable
<1>1. LogInv => QuiescentDurable
  <2> SUFFICES ASSUME LogInv, Up, outstanding = 0, ~committing
               PROVE  /\ head = <<>> /\ lh = <<>> /\ cache = home
                      /\ \A b \in Blocks : pins[b] = 0
    BY DEF QuiescentDurable
  <2>1. phase = "idle" /\ ~panicked /\ Active = {}
    BY ActiveFinite DEF LogInv, TypeInv, OpInv, Phases, Up, Recovering
  <2>2. head = <<>> /\ lh = <<>> BY <2>1 DEF LogInv, HeadInv
  <2>3. \A b \in Blocks : ~Absorbed(b) BY <2>2 DEF Absorbed
  <2>4. cache = home BY <2>1, <2>3 DEF LogInv, TypeInv, ContentInv
  <2>5. \A b \in Blocks : pins[b] = 0 BY <2>2 DEF LogInv, PinInv
  <2> QED BY <2>2, <2>4, <2>5
<1> QED BY <1>1, LogInvariance, PTL

\* The operations that begin_op() has admitted do not run out of LOGSIZE.
THEOREM SpaceIsReserved == Spec => []SpaceReserved
<1>1. LogInv => SpaceReserved BY DEF LogInv
<1> QED BY <1>1, LogInvariance, PTL

\* A log_write() by an operation that stays two blocks short of MAXOPBLOCKS finds
\* room, be the block new to the log or not.
WritesFit ==
  [][\A t \in Threads, b \in Blocks, v \in Contents :
       log_write(t, b, v) /\ Cardinality(wrote[t]) + 2 <= MAXOPBLOCKS => ~panicked']_vars

\* Such an operation has two more log blocks in reserve.
LEMMA TwoUnused ==
  ASSUME LogInv, NEW t \in Threads, op[t] = "active", Cardinality(wrote[t]) + 2 <= MAXOPBLOCKS
  PROVE  Cardinality(Unused) \in Nat /\ Cardinality(Unused) >= 2
<1> DEFINE c == Cardinality(wrote[t])
           s == <<t, c + 1>>
           u == <<t, c + 2>>
<1>1. c \in Nat BY FS_CardinalityType DEF LogInv, WroteInv
<1>2. c + 2 <= MAXOPBLOCKS OBVIOUS
<1>3. s \in Unused /\ u \in Unused
  <2>1. t \in Active BY DEF Active
  <2>2. /\ c + 1 \in 1 .. MAXOPBLOCKS /\ c + 1 > c
        /\ c + 2 \in 1 .. MAXOPBLOCKS /\ c + 2 > c
    <3> HIDE DEF c
    <3> QED BY <1>1, <1>2, LogAssumption
  <2> QED BY <2>1, <2>2 DEF Unused
<1>4. u # s
  <2> HIDE DEF c
  <2> QED BY <1>1
<1> HIDE DEF s, u
<1>5. IsFiniteSet(Unused) /\ Cardinality(Unused) \in Nat BY UnusedFinite DEF UnusedBound
<1>6. IsFiniteSet(Unused \ {s}) /\ Cardinality(Unused \ {s}) = Cardinality(Unused) - 1
  BY <1>3, <1>5, FS_RemoveElement
<1>7. Unused \ {s} # {} BY <1>3, <1>4
<1>8. Cardinality(Unused \ {s}) \in Nat /\ Cardinality(Unused \ {s}) # 0
  BY <1>6, <1>7, FS_EmptySet, FS_CardinalityType
<1> QED BY <1>5, <1>6, <1>8

\* begin_op()'s reservation against the log that mkfs makes, of nlog = LOGSIZE
\* blocks with the header among them: it is one block short, and only the last
\* two blocks of an operation's MAXOPBLOCKS can meet log_write()'s panic.
THEOREM AdmittedWritesFit ==
  ASSUME LogBlocks >= LOGSIZE
  PROVE  Spec => WritesFit
<1>1. ASSUME LogInv, NEW t \in Threads, NEW b \in Blocks, NEW v \in Contents,
             log_write(t, b, v), Cardinality(wrote[t]) + 2 <= MAXOPBLOCKS
      PROVE  ~panicked'
  <2>1. Up /\ op[t] = "active" BY <1>1 DEF log_write
  <2>2. Cardinality(Unused) \in Nat /\ Cardinality(Unused) >= 2 BY <1>1, <2>1, TwoUnused
  <2>3. Len(lh) \in Nat /\ Len(lh) + 2 <= LOGSIZE
    BY <1>1, <2>2, LogAssumption DEF LogInv, TypeInv, SpaceReserved, LOGSIZE
  <2>4. ~LogFull BY <2>3, LogAssumption DEF LogFull, LOGSIZE
  <2>5. t \in Active BY <2>1 DEF Active
  <2>6. ~(outstanding < 1)
    BY <1>1, <2>5, ActiveFinite DEF LogInv, OpInv
  <2> QED BY <1>1, <2>1, <2>4, <2>6 DEF log_write, Up
<1>2. LogInv /\ [Next]_vars =>
        [\A t \in Threads, b \in Blocks, v \in Contents :
           log_write(t, b, v) /\ Cardinality(wrote[t]) + 2 <= MAXOPBLOCKS => ~panicked']_vars
  BY <1>1
<1> QED BY <1>2, LogInvariance, PTL DEF Spec, WritesFit

\* No thread sleeps in begin_op() with nobody left to wake it.
THEOREM SleepersHaveWakers == Spec => []SleeperHasWaker
<1>1. LogInv => SleeperHasWaker BY DEF LogInv
<1> QED BY <1>1, LogInvariance, PTL

-----------------------------------------------------------------------------
(* The log implements AtomicDisk *)

\* What recover_from_log() would make of a block: the log's copy if the header
\* lists the block, and its home location otherwise.
DurableInv ==
  /\ \A n \in 1 .. Len(head) : head[n] \in Blocks /\ Durable[head[n]] = logblock[n]
  /\ \A b \in Blocks : (\A n \in 1 .. Len(head) : head[n] # b) => Durable[b] = home[b]

\* It is that copy because the header lists a block once.
LEMMA DurableIs == LogInv => DurableInv
<1> SUFFICES ASSUME LogInv PROVE DurableInv OBVIOUS
<1>1. DOMAIN head = 1 .. Len(head) /\ \A n \in 1 .. Len(head) : head[n] \in Blocks
  BY DEF LogInv, TypeInv
<1>2. ASSUME NEW n \in 1 .. Len(head) PROVE Durable[head[n]] = logblock[n]
  <2> DEFINE c == CHOOSE m \in DOMAIN head : head[m] = head[n]
  <2>1. c \in 1 .. Len(head) /\ head[c] = head[n] BY <1>1
  <2>2. c = n BY <2>1 DEF LogInv, HeadInv, Header
  <2>3. Durable[head[n]] = logblock[c] BY <1>1 DEF Durable
  <2> QED BY <2>2, <2>3, Zenon
<1>3. ASSUME NEW b \in Blocks, \A n \in 1 .. Len(head) : head[n] # b
      PROVE  Durable[b] = home[b]
  BY <1>1, <1>3 DEF Durable
<1> QED BY <1>1, <1>2, <1>3 DEF DurableInv

\* A disk write keeps what recovery would make of the disk if it leaves the
\* header, the log blocks it lists, and the home locations it does not list.
LEMMA DurableKept ==
  ASSUME LogInv, LogInv', head' = head,
         \A n \in 1 .. Len(head) : logblock'[n] = logblock[n],
         \A b \in Blocks : (\A n \in 1 .. Len(head) : head[n] # b) => home'[b] = home[b]
  PROVE  Durable' = Durable
<1>1. DurableInv BY DurableIs
<1>2. DurableInv' BY DurableIs, PTL
<1>3. ASSUME NEW b \in Blocks PROVE Durable'[b] = Durable[b]
  <2>1. ASSUME NEW n \in 1 .. Len(head), head[n] = b PROVE Durable'[b] = Durable[b]
    BY <1>1, <1>2, <2>1 DEF DurableInv
  <2>2. CASE \A n \in 1 .. Len(head) : head[n] # b BY <1>1, <1>2, <2>2 DEF DurableInv
  <2> QED BY <2>1, <2>2
<1> QED BY <1>3 DEF Durable

\* The two values agree if they agree on every block.
LEMMA DurableIsFunction ==
  ASSUME NEW f \in [Blocks -> Contents], \A b \in Blocks : Durable[b] = f[b]
  PROVE  Durable = f
BY DEF Durable

\* A new file system holds what mkfs wrote.
LEMMA RefineInit ==
  ASSUME Init
  PROVE  Disk!Init
<1>1. LogInv BY InitInv
<1>2. DurableInv BY <1>1, DurableIs
<1>3. Durable = home
  <2>1. \A b \in Blocks : Durable[b] = home[b] BY <1>2 DEF Init, DurableInv
  <2> QED BY <2>1, DurableIsFunction DEF Init
<1>4. ~Recovering /\ Active = {} BY DEF Init, Recovering, Active
<1> QED BY <1>3, <1>4 DEF Init, Disk!Init

\* Steps in memory do not touch what is durable.
LEMMA MemoryStep ==
  ASSUME UNCHANGED disk
  PROVE  Durable' = Durable
BY DEF Durable, disk

\* The steps of system calls: begin_op(), log_write() and end_op() are the
\* abstract Begin, Write and End, also when log_write() panics.
LEMMA RefineCall ==
  ASSUME LogInv, NEW t \in Threads,
         Start(t) \/ begin_op(t) \/ Rouse(t) \/ end_op(t) \/ end_commit(t)
  PROVE  Disk!Begin(t) \/ Disk!End(t) \/ UNCHANGED Disk!vars
<1>1. Durable' = Durable BY MemoryStep DEF Start, begin_op, Rouse, end_op, end_commit
<1>2. ASSUME op[t] \in {"idle", "begin", "asleep"}, op'[t] \in {"begin", "asleep"},
             \A u \in Threads \ {t} : op'[u] = op[u], ~Recovering, ~Recovering', cache' = cache
      PROVE  UNCHANGED Disk!vars
  <2>1. Active' = Active BY <1>2 DEF Active
  <2> QED BY <1>1, <1>2, <2>1 DEF Disk!vars
<1>3. CASE Start(t) \/ Rouse(t)
  BY <1>2, <1>3 DEF Start, Rouse, Up, Recovering, LogInv, TypeInv
<1>4. CASE begin_op(t) /\ (committing \/ NoSpace)
  BY <1>2, <1>4 DEF begin_op, Up, Recovering, LogInv, TypeInv
<1>5. CASE begin_op(t) /\ ~(committing \/ NoSpace)
  <2>1. t \notin Active /\ Active' = Active \cup {t}
    BY <1>5 DEF begin_op, Active, LogInv, TypeInv
  <2>2. ~Recovering /\ ~Recovering' /\ cache' = cache BY <1>5 DEF begin_op, Up, Recovering
  <2> QED BY <1>1, <2>1, <2>2 DEF Disk!Begin
<1>6. CASE end_op(t)
  <2>0. Up /\ op[t] = "active" BY <1>6 DEF end_op
  <2>l. ~committing BY <2>0, EndLeaves, Zenon
  <2>1. t \in Active /\ Active' = Active \ {t}
    <3>1. CASE outstanding = 1 BY <1>6, <2>l, <3>1 DEF end_op, Active, LogInv, TypeInv
    <3>2. CASE outstanding # 1 BY <1>6, <2>l, <3>2 DEF end_op, WakeAll, Active
    <3> QED BY <3>1, <3>2
  <2>2. ~Recovering /\ ~Recovering' /\ cache' = cache
    BY <1>6, <2>l DEF end_op, Up, Recovering, CommitStart
  <2> QED BY <1>1, <2>1, <2>2 DEF Disk!End
<1>7. CASE end_commit(t)
  <2>1. Active' = Active BY <1>7 DEF end_commit, WakeAll, Active
  <2>2. ~Recovering /\ ~Recovering' /\ cache' = cache BY <1>7 DEF end_commit, Recovering
  <2> QED BY <1>1, <2>1, <2>2 DEF Disk!vars
<1> QED BY <1>3, <1>4, <1>5, <1>6, <1>7

LEMMA RefineWrite ==
  ASSUME LogInv, NEW t \in Threads, NEW b \in Blocks, NEW v \in Contents, log_write(t, b, v)
  PROVE  Disk!Write(t, b, v)
<1>1. Durable' = Durable BY MemoryStep DEF log_write
<1>2. /\ Up /\ t \in Active /\ op' = op /\ phase' = phase
      /\ cache' = [cache EXCEPT ![b] = v]
  BY DEF log_write, Active
<1>3. ~Recovering /\ ~Recovering' /\ Active' = Active BY <1>2 DEF Up, Recovering, Active
<1> QED BY <1>1, <1>2, <1>3 DEF Disk!Write

\* write_log() writes blocks that no header lists: nobody sees it.
LEMMA RefineWriteLog ==
  ASSUME LogInv, LogInv', write_log
  PROVE  UNCHANGED Disk!vars
<1>1. head = <<>> /\ head' = head /\ home' = home BY DEF write_log, LogInv, HeadInv
<1>2. Durable' = Durable BY <1>1, DurableKept
<1>3. ~Recovering /\ ~Recovering' /\ cache' = cache /\ Active' = Active
  BY Zenon DEF write_log, Recovering, Active
<1> QED BY <1>2, <1>3 DEF Disk!vars

\* write_head() makes all that bread() returns durable, in one step and while
\* nobody is in an operation: the abstract Commit.
LEMMA RefineWriteHead ==
  ASSUME LogInv, LogInv', write_head
  PROVE  Disk!Commit
<1>0. /\ phase = "write_head" /\ phase' = "install" /\ head' = lh
      /\ UNCHANGED <<home, logblock, cache, op>>
  BY DEF write_head
<1>1. DurableInv' BY DurableIs, PTL
<1>2. DOMAIN lh = 1 .. Len(lh) BY DEF LogInv, TypeInv
<1>3. ~panicked BY <1>0 DEF LogInv, OpInv
<1>4. ASSUME NEW b \in Blocks PROVE Durable'[b] = cache[b]
  <2>1. ASSUME NEW n \in 1 .. Len(lh), lh[n] = b PROVE Durable'[b] = cache[b]
    BY <1>0, <1>1, <2>1 DEF DurableInv, LogInv, ContentInv
  <2>2. CASE \A n \in 1 .. Len(lh) : lh[n] # b
    BY <1>0, <1>1, <1>2, <1>3, <2>2, Zenon DEF DurableInv, LogInv, ContentInv, Absorbed
  <2> QED BY <2>1, <2>2
<1>5. Durable' = cache BY <1>4, Zenon DEF Durable, LogInv, TypeInv
<1>6. ~Recovering /\ ~Recovering' /\ Active = {} /\ Active' = Active
  BY <1>0 DEF Recovering, Active, LogInv, OpInv
<1> QED BY <1>0, <1>5, <1>6 DEF Disk!Commit

\* install_trans() writes home locations that the header lists: recovery would
\* write them again.
LEMMA RefineInstall ==
  ASSUME LogInv, LogInv', install_trans
  PROVE  UNCHANGED Disk!vars
<1>0. /\ phase \in {"install", "recover"} /\ tail <= Len(lh) /\ phase' = phase
      /\ home' = [home EXCEPT ![lh[tail]] = logblock[tail]]
      /\ cache' = [cache EXCEPT ![lh[tail]] = logblock[tail]]
      /\ UNCHANGED <<logblock, head, op>>
  BY DEF install_trans, Installing
<1>1. head = lh /\ tail \in 1 .. Len(lh) BY <1>0 DEF LogInv, TypeInv, HeadInv
<1>2. \A b \in Blocks : (\A n \in 1 .. Len(head) : head[n] # b) => home'[b] = home[b]
  BY <1>0, <1>1 DEF LogInv, TypeInv
<1>3. Durable' = Durable BY <1>0, <1>2, DurableKept, Zenon
<1>4. Active' = Active BY <1>0 DEF Active
<1>5. CASE phase = "install"
  <2>1. cache[lh[tail]] = logblock[tail] BY <1>1, <1>5 DEF LogInv, ContentInv
  <2>2. cache' = cache BY <1>0, <2>1 DEF LogInv, TypeInv
  <2> QED BY <1>0, <1>3, <1>4, <1>5, <2>2 DEF Disk!vars, Recovering
<1>6. CASE phase = "recover" BY <1>0, <1>3, <1>4, <1>6 DEF Disk!vars, Recovering
<1> QED BY <1>0, <1>5, <1>6

\* The header is erased when nothing depends on it any more, and the recovered
\* system starts from what was durable.
LEMMA RefineClearHead ==
  ASSUME LogInv, LogInv', clear_head
  PROVE  UNCHANGED Disk!vars
<1>0. /\ phase \in {"install", "recover"} /\ phase' \in {"idle", "done"} /\ tail > Len(lh)
      /\ head' = <<>> /\ UNCHANGED <<home, logblock, cache, op>>
  BY DEF clear_head, Recovering
<1>1. head = lh /\ \A n \in 1 .. Len(lh) : n < tail BY <1>0 DEF LogInv, TypeInv, HeadInv
<1>2. DurableInv BY DurableIs
<1>3. DurableInv' BY DurableIs, PTL
<1>4. ASSUME NEW b \in Blocks PROVE Durable[b] = home[b] /\ Durable'[b] = home[b]
  <2>1. Durable'[b] = home[b] BY <1>0, <1>3 DEF DurableInv
  <2>2. ASSUME NEW n \in 1 .. Len(head), head[n] = b PROVE Durable[b] = home[b]
    BY <1>0, <1>1, <1>2, <2>2 DEF DurableInv, LogInv, ContentInv
  <2>3. CASE \A n \in 1 .. Len(head) : head[n] # b BY <1>2, <2>1, <2>3, Zenon DEF DurableInv
  <2> QED BY <2>1, <2>2, <2>3
<1>5. Durable = home /\ Durable' = home
  <2>1. home \in [Blocks -> Contents] BY DEF LogInv, TypeInv
  <2>2. Durable = home BY <1>4, <2>1, DurableIsFunction
  <2>3. Durable' = home BY <1>4, <2>1 DEF Durable
  <2> QED BY <2>2, <2>3
<1>6. ~Recovering' /\ Active' = Active BY <1>0 DEF Recovering, Active
<1>7. CASE phase = "recover"
  <2>1. Recovering /\ cache = home BY <1>7 DEF Recovering, LogInv, ContentInv
  <2> QED BY <1>0, <1>5, <1>6, <2>1 DEF Disk!vars
<1>8. CASE phase = "install" BY <1>0, <1>5, <1>6, <1>8 DEF Disk!vars, Recovering
<1> QED BY <1>0, <1>7, <1>8

\* A crash, in the middle of a block write or not, is the abstract Crash.
LEMMA RefineCrash ==
  ASSUME LogInv, LogInv', Crash
  PROVE  Disk!Crash
<1>1. head' = head /\ Recovering' /\ Active' = {} BY DEF Crash, Recovering, Active
<1>2. Durable' = Durable
  <2>1. CASE UNCHANGED <<home, logblock>> BY <1>1, <2>1, DurableKept
  <2>2. CASE phase = "write_log" /\ UNCHANGED home
    <3>1. head = <<>> BY <2>2 DEF LogInv, HeadInv
    <3> QED BY <1>1, <2>2, <3>1, DurableKept
  <2>3. ASSUME NEW v \in Contents, Installing, home' = [home EXCEPT ![lh[tail]] = v],
               UNCHANGED logblock
        PROVE  Durable' = Durable
    <3>1. head = lh /\ tail \in 1 .. Len(lh) BY <2>3 DEF LogInv, TypeInv, HeadInv, Installing
    <3>2. \A b \in Blocks : (\A n \in 1 .. Len(head) : head[n] # b) => home'[b] = home[b]
      BY <2>3, <3>1 DEF LogInv, TypeInv
    <3> QED BY <1>1, <2>3, <3>2, DurableKept
  <2> QED BY <2>1, <2>2, <2>3 DEF Crash, Torn
<1> QED BY <1>1, <1>2 DEF Disk!Crash

LEMMA RefineReadHead ==
  ASSUME LogInv, read_head
  PROVE  UNCHANGED Disk!vars
<1>1. Durable' = Durable BY MemoryStep DEF read_head
<1>2. Recovering /\ Recovering' /\ Active' = Active BY DEF read_head, Recovering, Active
<1> QED BY <1>1, <1>2 DEF Disk!vars

\* Every step of the log is a step of the abstract disk, or none.
LEMMA RefineNext ==
  ASSUME LogInv, LogInv', [Next]_vars
  PROVE  [Disk!Next]_(Disk!vars)
<1>1. CASE UNCHANGED vars
  <2>1. Durable' = Durable BY <1>1, MemoryStep DEF vars, disk
  <2>2. phase' = phase /\ cache' = cache /\ Active' = Active BY <1>1 DEF vars, Active
  <2> QED BY <2>1, <2>2 DEF Disk!vars, Recovering
<1>2. CASE Commit
  BY <1>2, RefineWriteLog, RefineWriteHead, RefineInstall, RefineClearHead, Zenon
  DEF Commit, Disk!Next
<1>3. CASE Crash \/ read_head BY <1>3, RefineCrash, RefineReadHead DEF Disk!Next
<1>4. ASSUME NEW t \in Threads, Start(t) \/ begin_op(t) \/ Rouse(t) \/ end_op(t) \/ end_commit(t)
      PROVE  [Disk!Next]_(Disk!vars)
  BY <1>4, RefineCall DEF Disk!Next
<1>5. ASSUME NEW t \in Threads, NEW b \in Blocks, NEW v \in Contents, log_write(t, b, v)
      PROVE  [Disk!Next]_(Disk!vars)
  BY <1>5, RefineWrite DEF Disk!Next
<1> QED BY <1>1, <1>2, <1>3, <1>4, <1>5 DEF Next

\* Crash atomicity, for any threads, blocks, contents and log sizes and with a
\* crash at any moment: kernel/log.c implements AtomicDisk.
THEOREM LogIsAtomic == Spec => Atomic
<1>1. Init => Disk!Init BY RefineInit
<1>2. LogInv /\ LogInv' /\ [Next]_vars => [Disk!Next]_(Disk!vars) BY RefineNext
<1> QED BY <1>1, <1>2, LogInvariance, PTL DEF Spec, Atomic, Disk!Spec
=============================================================================
