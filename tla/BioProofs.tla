----------------------------- MODULE BioProofs ------------------------------
(***************************************************************************)
(* The theorems about Bio: for any threads, buffers and blocks the buffer  *)
(* cache keeps one buffer per block, with one holder, and loses no content.*)
(***************************************************************************)
EXTENDS Bio, FiniteSetTheorems, TLAPS

-----------------------------------------------------------------------------
(* The inductive invariant *)

Places == {"idle", "lock", "asleep", "read", "have", "write", "put"}

\* Where a thread has its buffer's sleep lock.
Holding == {"read", "have", "write"}

Users(b) == {t \in Threads : buf[t] = b}

TypeInv ==
  /\ blockno \in [Bufs -> Blocks \cup {None}]
  /\ refcnt \in [Bufs -> Int]
  /\ valid \in [Bufs -> BOOLEAN]
  /\ data \in [Bufs -> Contents]
  /\ locked \in [Bufs -> Threads \cup {None}]
  /\ pins \in [Bufs -> {0, 1}]
  /\ platter \in [Blocks -> Contents]
  /\ pc \in [Threads -> Places]
  /\ buf \in [Threads -> Bufs \cup {None}]

\* No two buffers of a block.
OneBuffer == \A b, c \in Bufs : blockno[b] = blockno[c] /\ blockno[b] # None => b = c

\* A thread between bget() and the end of brelse() has a buffer, of some block.
UserInv ==
  \A t \in Threads :
    /\ pc[t] = "idle" <=> buf[t] = None
    /\ pc[t] # "idle" => blockno[buf[t]] # None

\* A sleep lock is held by the thread that is between acquiresleep() and
\* releasesleep(), and by nobody else.
LockInv ==
  /\ \A t \in Threads :
       /\ pc[t] \in Holding => locked[buf[t]] = t
       /\ pc[t] = "asleep" => locked[buf[t]] \notin {None, t}
  /\ \A b \in Bufs : locked[b] # None => pc[locked[b]] \in Holding /\ buf[locked[b]] = b

\* References are the threads that have the buffer, and the log's pin.
RefInv == \A b \in Bufs : refcnt[b] = pins[b] + Cardinality(Users(b))

\* valid is set once the content has been read. An unpinned buffer that nobody
\* is about to write is as on disk, so that it can be recycled.
ContentInv ==
  /\ \A t \in Threads :
       /\ pc[t] = "read" => ~valid[buf[t]]
       /\ pc[t] \in {"have", "write"} => valid[buf[t]]
  /\ \A b \in Bufs :
       /\ valid[b] => blockno[b] # None
       /\ pins[b] = 1 => valid[b]
       /\ valid[b] /\ pins[b] = 0 /\ (\A t \in Threads : pc[t] = "write" => buf[t] # b) =>
            data[b] = platter[blockno[b]]

BioInv == TypeInv /\ OneBuffer /\ UserInv /\ LockInv /\ RefInv /\ ContentInv

-----------------------------------------------------------------------------
(* Users of a buffer *)

\* There are finitely many threads.
LEMMA UsersFinite ==
  ASSUME NEW b
  PROVE  IsFiniteSet(Users(b)) /\ Cardinality(Users(b)) \in Nat
<1>1. Users(b) \in SUBSET Threads BY DEF Users
<1> QED BY <1>1, BioAssumption, FS_Subset, FS_CardinalityType

\* bget() adds its thread to the users of one buffer.
LEMMA UserAdded ==
  ASSUME TypeInv, NEW t \in Threads, NEW b \in Bufs, buf[t] = None,
         buf' = [buf EXCEPT ![t] = b]
  PROVE  /\ Cardinality(Users(b)') = Cardinality(Users(b)) + 1
         /\ \A c \in Bufs \ {b} : Users(c)' = Users(c)
<1>1. Users(b)' = Users(b) \cup {t} /\ t \notin Users(b)
  BY BioAssumption DEF TypeInv, Users
<1>2. \A c \in Bufs \ {b} : Users(c)' = Users(c)
  BY BioAssumption DEF TypeInv, Users
<1>3. Cardinality(Users(b) \cup {t}) = Cardinality(Users(b)) + 1
  BY <1>1, UsersFinite, FS_AddElement, Zenon
<1> QED BY <1>1, <1>2, <1>3

\* brelse() takes its thread away.
LEMMA UserGone ==
  ASSUME TypeInv, NEW t \in Threads, NEW b \in Bufs, buf[t] = b,
         buf' = [buf EXCEPT ![t] = None]
  PROVE  /\ Cardinality(Users(b)') = Cardinality(Users(b)) - 1
         /\ \A c \in Bufs \ {b} : Users(c)' = Users(c)
<1>1. Users(b)' = Users(b) \ {t} /\ t \in Users(b)
  BY BioAssumption DEF TypeInv, Users
<1>2. \A c \in Bufs \ {b} : Users(c)' = Users(c)
  BY BioAssumption DEF TypeInv, Users
<1>3. Cardinality(Users(b) \ {t}) = Cardinality(Users(b)) - 1
  BY <1>1, UsersFinite, FS_RemoveElement, Zenon
<1> QED BY <1>1, <1>2, <1>3

\* A buffer without references is nobody's and not pinned.
LEMMA Unreferenced ==
  ASSUME BioInv, NEW b \in Bufs, refcnt[b] = 0
  PROVE  pins[b] = 0 /\ Cardinality(Users(b)) = 0 /\ \A t \in Threads : buf[t] # b
<1>1. pins[b] = 0 /\ Cardinality(Users(b)) = 0
  BY UsersFinite DEF BioInv, TypeInv, RefInv
<1>2. Users(b) = {} BY <1>1, UsersFinite, FS_EmptySet
<1> QED BY <1>1, <1>2 DEF Users

\* From bget() to the end of brelse() a thread has a buffer that has a block.
LEMMA HasBuffer ==
  ASSUME BioInv, NEW t \in Threads, pc[t] # "idle"
  PROVE  buf[t] \in Bufs /\ blockno[buf[t]] \in Blocks
BY BioAssumption DEF BioInv, TypeInv, UserInv

\* A step that leaves buf alone leaves the users alone.
LEMMA UsersKept ==
  ASSUME UNCHANGED buf
  PROVE  \A b \in Bufs :
           /\ Cardinality(Users(b)') = Cardinality(Users(b))
           /\ Cardinality(Users(b)) \in Nat
BY UsersFinite DEF Users

-----------------------------------------------------------------------------
(* The steps *)

\* bget() finds the block in the cache.
LEMMA HitStep ==
  ASSUME BioInv, NEW t \in Threads, NEW k \in Blocks, pc[t] = "idle", Hit(t, k),
         UNCHANGED <<data, locked, mru, pins, platter>>
  PROVE  BioInv'
<1>b. PICK b \in Bufs :
        /\ blockno[b] = k /\ k # None /\ buf[t] = None
        /\ refcnt' = [refcnt EXCEPT ![b] = @ + 1]
        /\ buf' = [buf EXCEPT ![t] = b]
        /\ pc' = [pc EXCEPT ![t] = "lock"]
        /\ UNCHANGED <<blockno, valid, data, locked, mru, pins, platter>>
  BY BioAssumption, Zenon DEF Hit, Cached, Goto, BioInv, UserInv
<1>1. TypeInv' BY <1>b, BioAssumption DEF BioInv, TypeInv, Places
<1>2. OneBuffer' BY <1>b, BioAssumption DEF BioInv, TypeInv, OneBuffer
<1>3. UserInv' BY <1>b, BioAssumption DEF BioInv, TypeInv, UserInv
<1>4. LockInv' BY <1>b, BioAssumption DEF BioInv, TypeInv, UserInv, LockInv, Holding
<1>5. RefInv'
  <2>1. /\ Cardinality(Users(b)') = Cardinality(Users(b)) + 1
        /\ \A c \in Bufs \ {b} : Users(c)' = Users(c)
    BY <1>b, UserAdded, Zenon DEF BioInv
  <2> QED BY <1>b, <2>1, UsersFinite DEF BioInv, TypeInv, RefInv
<1>6. ContentInv' BY <1>b, BioAssumption
  DEF BioInv, TypeInv, OneBuffer, UserInv, LockInv, Holding, ContentInv
<1> QED BY <1>1, <1>2, <1>3, <1>4, <1>5, <1>6 DEF BioInv

\* bget() gives the block a buffer that nobody refers to.
LEMMA RecycleStep ==
  ASSUME BioInv, NEW t \in Threads, NEW k \in Blocks, pc[t] = "idle", Recycle(t, k),
         UNCHANGED <<data, locked, mru, pins, platter>>
  PROVE  BioInv'
<1>b. PICK b \in Bufs :
        /\ (\A c \in Bufs : blockno[c] # k) /\ k # None /\ buf[t] = None /\ refcnt[b] = 0
        /\ blockno' = [blockno EXCEPT ![b] = k]
        /\ valid' = [valid EXCEPT ![b] = FALSE]
        /\ refcnt' = [refcnt EXCEPT ![b] = 1]
        /\ buf' = [buf EXCEPT ![t] = b]
        /\ pc' = [pc EXCEPT ![t] = "lock"]
        /\ UNCHANGED <<data, locked, mru, pins, platter>>
  BY BioAssumption, Zenon DEF Recycle, Recyclable, Cached, Goto, BioInv, UserInv
<1>u. pins[b] = 0 /\ Cardinality(Users(b)) = 0 /\ \A u \in Threads : buf[u] # b
  BY <1>b, Unreferenced
<1>1. TypeInv' BY <1>b, <1>u, BioAssumption DEF BioInv, TypeInv, Places
<1>2. OneBuffer' BY <1>b, <1>u, BioAssumption DEF BioInv, TypeInv, OneBuffer
<1>3. UserInv' BY <1>b, <1>u, BioAssumption DEF BioInv, TypeInv, UserInv
<1>4. LockInv' BY <1>b, <1>u, BioAssumption DEF BioInv, TypeInv, UserInv, LockInv, Holding
<1>5. RefInv'
  <2>1. /\ Cardinality(Users(b)') = Cardinality(Users(b)) + 1
        /\ \A c \in Bufs \ {b} : Users(c)' = Users(c)
    BY <1>b, UserAdded, Zenon DEF BioInv
  <2> QED BY <1>b, <1>u, <2>1, UsersFinite DEF BioInv, TypeInv, RefInv
<1>6. ContentInv' BY <1>b, <1>u, BioAssumption
  DEF BioInv, TypeInv, OneBuffer, UserInv, LockInv, Holding, ContentInv
<1> QED BY <1>1, <1>2, <1>3, <1>4, <1>5, <1>6 DEF BioInv

\* acquiresleep() takes a free lock, and sleeps for one that is held.
LEMMA AcquireStep ==
  ASSUME BioInv, NEW t \in Threads, acquiresleep(t)
  PROVE  BioInv'
<1>1. TypeInv' BY BioAssumption DEF BioInv, TypeInv, Places, acquiresleep, Goto
<1>2. OneBuffer' BY BioAssumption DEF BioInv, TypeInv, OneBuffer, acquiresleep, Goto
<1>3. UserInv' BY BioAssumption DEF BioInv, TypeInv, UserInv, acquiresleep, Goto
<1>4. LockInv' BY BioAssumption DEF BioInv, TypeInv, UserInv, LockInv, Holding, acquiresleep, Goto
<1>5. RefInv' BY UsersFinite, BioAssumption DEF BioInv, TypeInv, RefInv, Users, acquiresleep, Goto
<1>6. ContentInv' BY BioAssumption
  DEF BioInv, TypeInv, OneBuffer, UserInv, LockInv, Holding, ContentInv, acquiresleep, Goto
<1> QED BY <1>1, <1>2, <1>3, <1>4, <1>5, <1>6 DEF BioInv

\* A thread that is woken tests the lock again.
LEMMA RouseStep ==
  ASSUME BioInv, NEW t \in Threads, Rouse(t)
  PROVE  BioInv'
<1>1. TypeInv' BY BioAssumption DEF BioInv, TypeInv, Places, Rouse, Goto
<1>2. OneBuffer' BY BioAssumption DEF BioInv, TypeInv, OneBuffer, Rouse, Goto
<1>3. UserInv' BY BioAssumption DEF BioInv, TypeInv, UserInv, Rouse, Goto
<1>4. LockInv' BY BioAssumption DEF BioInv, TypeInv, UserInv, LockInv, Holding, Rouse, Goto
<1>5. RefInv' BY UsersFinite, BioAssumption DEF BioInv, TypeInv, RefInv, Users, Rouse, Goto
<1>6. ContentInv' BY BioAssumption
  DEF BioInv, TypeInv, OneBuffer, UserInv, LockInv, Holding, ContentInv, Rouse, Goto
<1> QED BY <1>1, <1>2, <1>3, <1>4, <1>5, <1>6 DEF BioInv

\* bread() fills the buffer.
LEMMA BreadStep ==
  ASSUME BioInv, NEW t \in Threads, bread(t)
  PROVE  BioInv'
<1>b. buf[t] \in Bufs /\ blockno[buf[t]] \in Blocks BY HasBuffer DEF bread
<1>1. TypeInv' BY <1>b, BioAssumption DEF BioInv, TypeInv, Places, bread, Goto
<1>2. OneBuffer' BY <1>b, BioAssumption DEF BioInv, TypeInv, OneBuffer, bread, Goto
<1>3. UserInv' BY <1>b, BioAssumption DEF BioInv, TypeInv, UserInv, bread, Goto
<1>4. LockInv' BY <1>b, BioAssumption DEF BioInv, TypeInv, UserInv, LockInv, Holding, bread, Goto
<1>5. RefInv' BY <1>b, UsersFinite, BioAssumption DEF BioInv, TypeInv, RefInv, Users, bread, Goto
<1>6. ContentInv' BY <1>b, BioAssumption
  DEF BioInv, TypeInv, OneBuffer, UserInv, LockInv, Holding, ContentInv, bread, Goto
<1> QED BY <1>1, <1>2, <1>3, <1>4, <1>5, <1>6 DEF BioInv

\* The holder changes the buffer, to write it.
LEMMA ChangeStep ==
  ASSUME BioInv, NEW t \in Threads, NEW v \in Contents, Change(t, v)
  PROVE  BioInv'
<1>1. TypeInv' BY BioAssumption, Zenon DEF BioInv, TypeInv, Places, Change, Goto
<1>2. OneBuffer' BY BioAssumption DEF BioInv, TypeInv, OneBuffer, Change, Goto
<1>3. UserInv' BY BioAssumption DEF BioInv, TypeInv, UserInv, Change, Goto
<1>4. LockInv' BY BioAssumption DEF BioInv, TypeInv, UserInv, LockInv, Holding, Change, Goto
<1>5. RefInv' BY UsersFinite, BioAssumption DEF BioInv, TypeInv, RefInv, Users, Change, Goto
<1>6. ContentInv' BY BioAssumption
  DEF BioInv, TypeInv, OneBuffer, UserInv, LockInv, Holding, ContentInv, Change, Goto
<1> QED BY <1>1, <1>2, <1>3, <1>4, <1>5, <1>6 DEF BioInv

\* bwrite() makes the disk the same as the buffer.
LEMMA BwriteStep ==
  ASSUME BioInv, NEW t \in Threads, bwrite(t)
  PROVE  BioInv'
<1>b. buf[t] \in Bufs /\ blockno[buf[t]] \in Blocks BY HasBuffer DEF bwrite
<1>1. TypeInv' BY <1>b, BioAssumption DEF BioInv, TypeInv, Places, bwrite, Goto
<1>2. OneBuffer' BY <1>b, BioAssumption DEF BioInv, TypeInv, OneBuffer, bwrite, Goto
<1>3. UserInv' BY <1>b, BioAssumption DEF BioInv, TypeInv, UserInv, bwrite, Goto
<1>4. LockInv' BY <1>b, BioAssumption DEF BioInv, TypeInv, UserInv, LockInv, Holding, bwrite, Goto
<1>5. RefInv' BY <1>b, UsersFinite, BioAssumption DEF BioInv, TypeInv, RefInv, Users, bwrite, Goto
<1>6. ContentInv' BY <1>b, BioAssumption
  DEF BioInv, TypeInv, OneBuffer, UserInv, LockInv, Holding, ContentInv, bwrite, Goto
<1> QED BY <1>1, <1>2, <1>3, <1>4, <1>5, <1>6 DEF BioInv

\* log_write() pins what it changes.
LEMMA LogWriteStep ==
  ASSUME BioInv, NEW t \in Threads, NEW v \in Contents, log_write(t, v)
  PROVE  BioInv'
<1>b. buf[t] \in Bufs /\ blockno[buf[t]] \in Blocks BY HasBuffer DEF log_write
<1>1. TypeInv' BY <1>b, BioAssumption DEF BioInv, TypeInv, Places, log_write, bpin
<1>2. OneBuffer' BY <1>b, BioAssumption DEF BioInv, TypeInv, OneBuffer, log_write, bpin
<1>3. UserInv' BY <1>b, BioAssumption DEF BioInv, TypeInv, UserInv, log_write, bpin
<1>4. LockInv' BY <1>b, BioAssumption
  DEF BioInv, TypeInv, UserInv, LockInv, Holding, log_write, bpin
<1>5. RefInv'
  <2>1. \A b \in Bufs :
          /\ Cardinality(Users(b)') = Cardinality(Users(b))
          /\ Cardinality(Users(b)) \in Nat
    BY UsersKept DEF log_write
  <2> QED BY <1>b, <2>1 DEF BioInv, TypeInv, RefInv, log_write, bpin
<1>6. ContentInv' BY <1>b, BioAssumption
  DEF BioInv, TypeInv, OneBuffer, UserInv, LockInv, Holding, ContentInv, log_write, bpin
<1> QED BY <1>1, <1>2, <1>3, <1>4, <1>5, <1>6 DEF BioInv

\* install_trans() writes a pinned buffer and lets it go.
LEMMA InstallStep ==
  ASSUME BioInv, NEW t \in Threads, install(t)
  PROVE  BioInv'
<1>b. buf[t] \in Bufs /\ blockno[buf[t]] \in Blocks BY HasBuffer DEF install
<1>1. TypeInv' BY <1>b, BioAssumption DEF BioInv, TypeInv, Places, install
<1>2. OneBuffer' BY <1>b, BioAssumption DEF BioInv, TypeInv, OneBuffer, install
<1>3. UserInv' BY <1>b, BioAssumption DEF BioInv, TypeInv, UserInv, install
<1>4. LockInv' BY <1>b, BioAssumption DEF BioInv, TypeInv, UserInv, LockInv, Holding, install
<1>5. RefInv'
  <2>1. \A b \in Bufs :
          /\ Cardinality(Users(b)') = Cardinality(Users(b))
          /\ Cardinality(Users(b)) \in Nat
    BY UsersKept DEF install
  <2> QED BY <1>b, <2>1 DEF BioInv, TypeInv, RefInv, install
<1>6. ContentInv' BY <1>b, BioAssumption
  DEF BioInv, TypeInv, OneBuffer, UserInv, LockInv, Holding, ContentInv, install
<1> QED BY <1>1, <1>2, <1>3, <1>4, <1>5, <1>6 DEF BioInv

\* releasesleep() in brelse() wakes those who sleep for the lock.
LEMMA BrelseStep ==
  ASSUME BioInv, NEW t \in Threads, brelse(t)
  PROVE  BioInv'
<1>1. TypeInv' BY BioAssumption, Zenon DEF BioInv, TypeInv, Places, brelse, releasesleep
<1>2. OneBuffer' BY BioAssumption DEF BioInv, TypeInv, OneBuffer, brelse, releasesleep
<1>3. UserInv' BY BioAssumption DEF BioInv, TypeInv, UserInv, brelse, releasesleep
<1>4. LockInv' BY BioAssumption DEF BioInv, TypeInv, UserInv, LockInv, Holding, brelse, releasesleep
<1>5. RefInv' BY UsersFinite, BioAssumption DEF BioInv, TypeInv, RefInv, Users, brelse, releasesleep
<1>6. ContentInv' BY BioAssumption
  DEF BioInv, TypeInv, OneBuffer, UserInv, LockInv, Holding, ContentInv, brelse, releasesleep
<1> QED BY <1>1, <1>2, <1>3, <1>4, <1>5, <1>6 DEF BioInv

\* brelse() gives its reference back.
LEMMA PutStep ==
  ASSUME BioInv, NEW t \in Threads, brelse_put(t)
  PROVE  BioInv'
<1>0. /\ pc[t] = "put"
      /\ refcnt' = [refcnt EXCEPT ![buf[t]] = @ - 1]
      /\ buf' = [buf EXCEPT ![t] = None]
      /\ pc' = [pc EXCEPT ![t] = "idle"]
      /\ UNCHANGED <<blockno, valid, data, locked, pins, platter>>
  BY Zenon DEF brelse_put, Goto
<1>b. PICK b \in Bufs : b = buf[t] BY <1>0, HasBuffer
<1>1. TypeInv' BY <1>0, <1>b, BioAssumption DEF BioInv, TypeInv, Places
<1>2. OneBuffer' BY <1>0, <1>b, BioAssumption DEF BioInv, TypeInv, OneBuffer
<1>3. UserInv' BY <1>0, <1>b, BioAssumption DEF BioInv, TypeInv, UserInv
<1>4. LockInv' BY <1>0, <1>b, BioAssumption DEF BioInv, TypeInv, UserInv, LockInv, Holding
<1>5. RefInv'
  <2>1. /\ Cardinality(Users(b)') = Cardinality(Users(b)) - 1
        /\ \A c \in Bufs \ {b} : Users(c)' = Users(c)
    BY <1>0, <1>b, UserGone, Zenon DEF BioInv
  <2> QED BY <1>0, <1>b, <2>1, UsersFinite DEF BioInv, TypeInv, RefInv
<1>6. ContentInv' BY <1>0, <1>b, BioAssumption
  DEF BioInv, TypeInv, OneBuffer, UserInv, LockInv, Holding, ContentInv
<1> QED BY <1>1, <1>2, <1>3, <1>4, <1>5, <1>6 DEF BioInv

-----------------------------------------------------------------------------
(* From the steps to every behaviour *)

\* binit() leaves buffers without a block.
LEMMA InitInv ==
  ASSUME Init
  PROVE  BioInv
<1>1. TypeInv BY DEF Init, TypeInv, Places
<1>2. OneBuffer BY DEF Init, OneBuffer
<1>3. UserInv BY DEF Init, UserInv
<1>4. LockInv BY DEF Init, LockInv, Holding
<1>5. RefInv
  <2>1. \A b \in Bufs : Users(b) = {} BY BioAssumption DEF Init, Users
  <2> QED BY <2>1, FS_EmptySet DEF Init, RefInv
<1>6. ContentInv BY DEF Init, ContentInv
<1> QED BY <1>1, <1>2, <1>3, <1>4, <1>5, <1>6 DEF BioInv

\* Nothing in the invariant is about panicked and mru.
LEMMA StutterInv ==
  ASSUME BioInv, UNCHANGED <<blockno, refcnt, valid, data, locked, pins, platter, pc, buf>>
  PROVE  BioInv'
<1>1. TypeInv' BY DEF BioInv, TypeInv
<1>2. OneBuffer' BY DEF BioInv, OneBuffer
<1>3. UserInv' BY DEF BioInv, UserInv
<1>4. LockInv' BY DEF BioInv, LockInv, Holding
<1>5. RefInv'
  <2>1. ASSUME NEW b PROVE Users(b)' = Users(b) BY DEF Users
  <2> QED BY <2>1 DEF BioInv, RefInv
<1>6. ContentInv' BY DEF BioInv, ContentInv
<1> QED BY <1>1, <1>2, <1>3, <1>4, <1>5, <1>6 DEF BioInv

\* Every step keeps the invariant.
LEMMA NextInv ==
  ASSUME BioInv, [Next]_vars
  PROVE  BioInv'
<1>1. CASE UNCHANGED vars BY <1>1, StutterInv DEF vars
<1>2. ASSUME NEW t \in Threads, NEW k \in Blocks, bget(t, k) PROVE BioInv'
  <2>1. CASE NoBuffers(t, k) BY <1>2, <2>1, StutterInv DEF bget, NoBuffers
  <2> QED BY <1>2, <2>1, HitStep, RecycleStep DEF bget
<1>3. ASSUME NEW t \in Threads, acquiresleep(t) \/ Rouse(t) \/ bread(t) \/ bwrite(t) \/ install(t)
      PROVE  BioInv'
  BY <1>3, AcquireStep, RouseStep, BreadStep, BwriteStep, InstallStep
<1>4. ASSUME NEW t \in Threads, NEW v \in Contents, Change(t, v) \/ log_write(t, v) PROVE BioInv'
  BY <1>4, ChangeStep, LogWriteStep
<1>5. ASSUME NEW t \in Threads, brelse(t) \/ brelse_put(t) PROVE BioInv'
  BY <1>5, BrelseStep, PutStep
<1> QED BY <1>1, <1>2, <1>3, <1>4, <1>5 DEF Next, Halted

\* The inductive invariant holds in every state that the cache reaches.
THEOREM CacheInvariance == Spec => []BioInv
<1>1. Init => BioInv BY InitInv
<1>2. BioInv /\ [Next]_vars => BioInv' BY NextInv
<1> QED BY <1>1, <1>2, PTL DEF Spec

\* A block has one buffer, which has one holder, and whose references are
\* counted, for any number of threads and buffers: bget() and brelse() with the
\* sleep locks between them.
THEOREM BuffersAreHeld == Spec => []BufferHeld
<1>1. BioInv => BufferHeld
  <2> SUFFICES ASSUME BioInv PROVE BufferHeld OBVIOUS
  <2>1. ASSUME NEW k \in Blocks PROVE Cardinality(Cached(k)) <= 1
    <3>1. CASE Cached(k) = {} BY <3>1, FS_EmptySet
    <3>2. CASE Cached(k) # {}
      <4>1. PICK b \in Cached(k) : TRUE BY <3>2
      <4>2. Cached(k) = {b} BY <4>1, BioAssumption DEF Cached, BioInv, OneBuffer
      <4>3. Cardinality(Cached(k)) = 1 BY <4>2, FS_Singleton, Zenon
      <4> QED BY <4>3
    <3> QED BY <3>1, <3>2
  <2> QED BY <2>1 DEF BufferHeld, BioInv, LockInv, Holding, RefInv, Users
<1> QED BY <1>1, CacheInvariance, PTL

-----------------------------------------------------------------------------
(* Contents *)

\* What bread() finds is in the block's valid buffer, if it has one.
CurrentInv ==
  \A k \in Blocks :
    /\ \A b \in Bufs : blockno[b] = k /\ valid[b] => Current(k) = data[b]
    /\ (\A b \in Bufs : blockno[b] # k \/ ~valid[b]) => Current(k) = platter[k]

\* It is that buffer because a block has no other.
LEMMA CurrentIs == BioInv => CurrentInv
<1> SUFFICES ASSUME BioInv PROVE CurrentInv OBVIOUS
<1>1. ASSUME NEW k \in Blocks, NEW b \in Bufs, blockno[b] = k, valid[b]
      PROVE  Current(k) = data[b]
  <2>1. {c \in Cached(k) : valid[c]} = {b}
    BY <1>1, BioAssumption DEF BioInv, OneBuffer, Cached
  <2> QED BY <2>1, Zenon DEF Current
<1>2. ASSUME NEW k \in Blocks, \A b \in Bufs : blockno[b] # k \/ ~valid[b]
      PROVE  Current(k) = platter[k]
  <2>1. {c \in Cached(k) : valid[c]} = {} BY <1>2 DEF Cached
  <2> QED BY <2>1, Zenon DEF Current
<1> QED BY <1>1, <1>2 DEF CurrentInv

\* The same after a step.
LEMMA CurrentIsNext == BioInv' => CurrentInv'
BY CurrentIs, PTL

\* bget() recycles only what is as on disk.
LEMMA RecycleKeeps ==
  ASSUME BioInv, CurrentInv, CurrentInv', NEW k \in Blocks,
         NEW t \in Threads, NEW l \in Blocks, Recycle(t, l), UNCHANGED <<data, platter>>
  PROVE  Current(k)' = Current(k)
<1>1. PICK b \in Bufs :
        /\ \A c \in Bufs : blockno[c] # l
        /\ refcnt[b] = 0
        /\ blockno' = [blockno EXCEPT ![b] = l]
        /\ valid' = [valid EXCEPT ![b] = FALSE]
  BY Zenon DEF Recycle, Recyclable, Cached
<1>2. valid[b] => data[b] = platter[blockno[b]]
  BY <1>1, Unreferenced DEF BioInv, ContentInv
<1>3. CASE \E c \in Bufs \ {b} : blockno[c] = k /\ valid[c]
  BY <1>1, <1>3 DEF BioInv, TypeInv, CurrentInv
<1>4. CASE \A c \in Bufs \ {b} : blockno[c] # k \/ ~valid[c]
  <2>1. Current(k)' = platter[k] BY <1>1, <1>4 DEF BioInv, TypeInv, CurrentInv
  <2>2. Current(k) = platter[k] BY <1>2, <1>4 DEF BioInv, TypeInv, CurrentInv
  <2> QED BY <2>1, <2>2
<1> QED BY <1>3, <1>4

\* bread() brings what is on disk, bwrite() and install_trans() write what is in
\* the buffer.
LEMMA TransferKeeps ==
  ASSUME BioInv, CurrentInv, CurrentInv', NEW k \in Blocks,
         NEW t \in Threads, bread(t) \/ bwrite(t) \/ install(t)
  PROVE  Current(k)' = Current(k)
<1>b. PICK b \in Bufs : b = buf[t] /\ blockno[b] \in Blocks
  BY HasBuffer DEF bread, bwrite, install
<1>1. CASE bread(t)
  <2>1. /\ ~valid[b] /\ UNCHANGED <<blockno, platter>>
        /\ valid' = [valid EXCEPT ![b] = TRUE]
        /\ data' = [data EXCEPT ![b] = platter[blockno[b]]]
    BY <1>1, <1>b DEF bread, BioInv, ContentInv
  <2>2. CASE blockno[b] = k
    <3>1. \A c \in Bufs : blockno[c] = k => c = b
      BY <2>2, BioAssumption DEF BioInv, OneBuffer
    <3> QED BY <2>1, <2>2, <3>1 DEF BioInv, TypeInv, CurrentInv
  <2>3. CASE blockno[b] # k BY <2>1, <2>3 DEF BioInv, TypeInv, CurrentInv
  <2> QED BY <2>2, <2>3
<1>2. CASE bwrite(t) \/ install(t)
  <2>1. /\ valid[b] /\ UNCHANGED <<blockno, valid, data>>
        /\ platter' = [platter EXCEPT ![blockno[b]] = data[b]]
    BY <1>2, <1>b DEF bwrite, install, BioInv, ContentInv
  <2> QED BY <1>b, <2>1 DEF BioInv, TypeInv, CurrentInv
<1> QED BY <1>1, <1>2

\* Only the holder changes a block, and no other one.
LEMMA ChangeIsOwn ==
  ASSUME BioInv, CurrentInv, CurrentInv', NEW k \in Blocks,
         NEW t \in Threads, NEW v \in Contents, Change(t, v) \/ log_write(t, v)
  PROVE  \/ Current(k)' = Current(k)
         \/ pc[t] = "have" /\ blockno[buf[t]] = k /\ locked[buf[t]] = t
<1>1. /\ pc[t] = "have" /\ locked[buf[t]] = t
      /\ data' = [data EXCEPT ![buf[t]] = v]
      /\ UNCHANGED <<blockno, valid, platter>>
  BY DEF Change, log_write, BioInv, LockInv, Holding
<1> QED BY <1>1 DEF BioInv, TypeInv, CurrentInv

\* The other steps touch no content.
LEMMA OthersKeep ==
  ASSUME CurrentInv, CurrentInv', UNCHANGED <<blockno, valid, data, platter>>, NEW k \in Blocks
  PROVE  Current(k)' = Current(k)
BY DEF CurrentInv

\* Contents of a block change only by a thread that holds its buffer: no
\* bread(), bwrite(), bget() or brelse() of anybody loses or revives a version.
THEOREM ContentsAreKept == Spec => CacheCoherent
<1> DEFINE Step == \A k \in Blocks :
       Current(k)' # Current(k) =>
         \E t \in Threads : pc[t] = "have" /\ blockno[buf[t]] = k /\ locked[buf[t]] = t
<1>1. ASSUME BioInv, BioInv', Next PROVE Step
  <2> SUFFICES ASSUME NEW k \in Blocks, Current(k)' # Current(k)
               PROVE  \E t \in Threads : pc[t] = "have" /\ blockno[buf[t]] = k /\ locked[buf[t]] = t
    OBVIOUS
  <2>1. CurrentInv /\ CurrentInv' BY <1>1, CurrentIs, CurrentIsNext
  <2>2. ASSUME NEW t \in Threads, NEW l \in Blocks, bget(t, l) PROVE FALSE
    <3>1. CASE Recycle(t, l) BY <1>1, <2>1, <2>2, <3>1, RecycleKeeps DEF bget
    <3>2. CASE Hit(t, l) \/ NoBuffers(t, l)
      BY <2>1, <2>2, <3>2, OthersKeep DEF bget, Hit, NoBuffers
    <3> QED BY <2>2, <3>1, <3>2 DEF bget
  <2>3. ASSUME NEW t \in Threads, bread(t) \/ bwrite(t) \/ install(t) PROVE FALSE
    BY <1>1, <2>1, <2>3, TransferKeeps
  <2>4. ASSUME NEW t \in Threads, NEW v \in Contents, Change(t, v) \/ log_write(t, v)
        PROVE  pc[t] = "have" /\ blockno[buf[t]] = k /\ locked[buf[t]] = t
    BY <1>1, <2>1, <2>4, ChangeIsOwn
  <2>5. ASSUME NEW t \in Threads, acquiresleep(t) \/ Rouse(t) \/ brelse(t) \/ brelse_put(t)
        PROVE  FALSE
    BY <2>1, <2>5, OthersKeep DEF acquiresleep, Rouse, brelse, brelse_put
  <2>6. CASE Halted BY <2>1, <2>6, OthersKeep DEF Halted, vars
  <2> QED BY <1>1, <2>2, <2>3, <2>4, <2>5, <2>6 DEF Next
<1>2. BioInv /\ BioInv' /\ [Next]_vars => [Step]_vars BY <1>1
<1> QED BY <1>2, CacheInvariance, PTL DEF Spec, CacheCoherent
=============================================================================
