------------------------------ MODULE FsProofs ------------------------------
(***************************************************************************)
(* Theorems about Fs: every step keeps the invariant of FsSteps, so every  *)
(* reference to an inode or to an open file is counted, and iput() never   *)
(* waits for the lock of an inode that it frees.                           *)
(***************************************************************************)
EXTENDS FsSteps, FiniteSetTheorems

-----------------------------------------------------------------------------
(* Counting *)

\* How often x is in S.
Has(S, x) == IF x \in S THEN 1 ELSE 0

\* A set that gains or loses one element.
LEMMA SetMove ==
  ASSUME NEW U, IsFiniteSet(U), NEW A \in SUBSET U, NEW B \in SUBSET U, NEW u \in U,
         \A x \in U : x # u => (x \in A <=> x \in B)
  PROVE  /\ Cardinality(A) \in Nat /\ Cardinality(B) \in Nat
         /\ Cardinality(B) = Cardinality(A) + Has(B, u) - Has(A, u)
<1> DEFINE C == A \ {u}
<1>1. IsFiniteSet(A) /\ IsFiniteSet(B) /\ IsFiniteSet(C) BY FS_Subset, Zenon
<1>2. Cardinality(A) \in Nat /\ Cardinality(B) \in Nat /\ Cardinality(C) \in Nat
  BY <1>1, FS_CardinalityType, Zenon
<1>3. Cardinality(C) = IF u \in A THEN Cardinality(A) - 1 ELSE Cardinality(A)
  BY <1>1, FS_RemoveElement, Zenon
<1>4. Cardinality(C \cup {u}) = Cardinality(C) + 1
  <2>1. u \notin C BY Zenon
  <2> HIDE DEF C
  <2> QED BY <1>1, <2>1, FS_AddElement, Zenon
<1>5. CASE u \in B
  <2>1. B = C \cup {u} BY <1>5, Zenon
  <2> QED BY <1>2, <1>3, <1>4, <1>5, <2>1 DEF Has
<1>6. CASE u \notin B
  <2>1. B = C BY <1>6, Zenon
  <2> QED BY <1>2, <1>3, <1>6, <2>1 DEF Has
<1> QED BY <1>5, <1>6, Zenon

\* How many processes have i in a register.
Count(f, i) == Cardinality({q \in Procs : f[q] = i})

\* Only p's changes.
LEMMA CountMove ==
  \A f, g, i : \A p \in Procs :
    (\A q \in Procs : q # p => g[q] = f[q])
      => /\ Count(f, i) \in Nat /\ Count(g, i) \in Nat
         /\ Count(g, i) = Count(f, i) + Is(g[p], i) - Is(f[p], i)
<1> SUFFICES ASSUME NEW f, NEW g, NEW i, NEW p \in Procs, \A q \in Procs : q # p => g[q] = f[q]
             PROVE  /\ Count(f, i) \in Nat /\ Count(g, i) \in Nat
                    /\ Count(g, i) = Count(f, i) + Is(g[p], i) - Is(f[p], i)
  BY Zenon
<1> DEFINE A == {q \in Procs : f[q] = i}
           B == {q \in Procs : g[q] = i}
<1>0. IsFiniteSet(Procs) BY FsAssumption, Zenon
<1>1. /\ A \in SUBSET Procs /\ B \in SUBSET Procs
      /\ \A q \in Procs : q # p => (q \in A <=> q \in B)
  BY Zenon
<1>2. (p \in A <=> f[p] = i) /\ (p \in B <=> g[p] = i) BY Zenon
<1>c. Count(f, i) = Cardinality(A) /\ Count(g, i) = Cardinality(B) BY Zenon DEF Count
<1> HIDE DEF A, B
<1>3. /\ Cardinality(A) \in Nat /\ Cardinality(B) \in Nat
      /\ Cardinality(B) = Cardinality(A) + Has(B, p) - Has(A, p)
  BY <1>0, <1>1, SetMove, Zenon
<1>4. Has(B, p) = Is(g[p], i) /\ Has(A, p) = Is(f[p], i) BY <1>2, Zenon DEF Has, Is
<1> QED BY <1>3, <1>4, <1>c, Zenon

\* The places of i in all the lists.
InLists(f, i) == {x \in Procs \X {1, 2} : x[2] <= Len(f[x[1]]) /\ f[x[1]][x[2]] = i}

LEMMA ListMove ==
  \A f, g, i : \A p \in Procs :
    (\A q \in Procs : q # p => g[q] = f[q])
      => /\ Cardinality(InLists(f, i)) \in Nat /\ Cardinality(InLists(g, i)) \in Nat
         /\ Cardinality(InLists(g, i))
              = Cardinality(InLists(f, i)) + Listed(g[p], i) - Listed(f[p], i)
<1> SUFFICES ASSUME NEW f, NEW g, NEW i, NEW p \in Procs, \A q \in Procs : q # p => g[q] = f[q]
             PROVE  /\ Cardinality(InLists(f, i)) \in Nat /\ Cardinality(InLists(g, i)) \in Nat
                    /\ Cardinality(InLists(g, i))
                         = Cardinality(InLists(f, i)) + Listed(g[p], i) - Listed(f[p], i)
  BY Zenon
<1> DEFINE U == Procs \X {1, 2}
           A == InLists(f, i)
           B == InLists(g, i)
           M == {x \in U : IF x = <<p, 1>> THEN x \in B ELSE x \in A}
<1>0. IsFiniteSet(U)
  <2>1. IsFiniteSet({1, 2})
    <3>1. IsFiniteSet({1}) BY FS_Singleton, Zenon
    <3>2. IsFiniteSet({1} \cup {2}) BY <3>1, FS_AddElement, Zenon
    <3>3. {1} \cup {2} = {1, 2} BY Zenon
    <3> QED BY <3>2, <3>3, Zenon
  <2>2. IsFiniteSet(Procs) BY FsAssumption, Zenon
  <2> QED BY <2>1, <2>2, FS_Product, Zenon
<1>1. /\ A \in SUBSET U /\ B \in SUBSET U /\ M \in SUBSET U /\ <<p, 1>> \in U /\ <<p, 2>> \in U
      /\ \A x \in U : x # <<p, 1>> => (x \in A <=> x \in M)
  BY Zenon DEF InLists
<1>2. \A x \in U : x # <<p, 2>> => (x \in M <=> x \in B) BY DEF InLists
<1>3. /\ <<p, 1>> \in A <=> 1 <= Len(f[p]) /\ f[p][1] = i
      /\ <<p, 1>> \in M <=> 1 <= Len(g[p]) /\ g[p][1] = i
      /\ <<p, 2>> \in M <=> 2 <= Len(f[p]) /\ f[p][2] = i
      /\ <<p, 2>> \in B <=> 2 <= Len(g[p]) /\ g[p][2] = i
  BY DEF InLists
<1> HIDE DEF A, B, M, U
<1>4. /\ Cardinality(A) \in Nat /\ Cardinality(M) \in Nat
      /\ Cardinality(M) = Cardinality(A) + Has(M, <<p, 1>>) - Has(A, <<p, 1>>)
  BY <1>0, <1>1, SetMove, Zenon
<1>5. /\ Cardinality(B) \in Nat
      /\ Cardinality(B) = Cardinality(M) + Has(B, <<p, 2>>) - Has(M, <<p, 2>>)
  BY <1>0, <1>1, <1>2, SetMove, Zenon
<1>6. Cardinality(B) = Cardinality(A) + Listed(g[p], i) - Listed(f[p], i)
  BY <1>3, <1>4, <1>5 DEF Listed, Has
<1> QED BY <1>4, <1>5, <1>6, Zenon DEF A, B

-----------------------------------------------------------------------------
(* A step keeps the invariant *)

FilesOf(i) == Cardinality({f \in Files : file[f].ref > 0 /\ file[f].ip = i})

LEMMA FilesNat == \A i : FilesOf(i) \in Nat /\ FilesOf(i)' \in Nat
<1> TAKE i
<1>1. /\ {f \in Files : file[f].ref > 0 /\ file[f].ip = i} \in SUBSET Files
      /\ {f \in Files : file'[f].ref > 0 /\ file'[f].ip = i} \in SUBSET Files
  BY Zenon
<1>2. \A S \in SUBSET Files : Cardinality(S) \in Nat
  BY FsAssumption, FS_Subset, FS_CardinalityType, Zenon
<1> QED BY <1>1, <1>2, Zenon DEF FilesOf

LEMMA RefMove ==
  ASSUME NEW p \in Procs, Others(p)
  PROVE  \A i : /\ References(i) \in Nat /\ References(i)' \in Nat
                /\ References(i)' = References(i) + ((Mine(p, i)' - Mine(p, i))
                                                    + (FilesOf(i)' - FilesOf(i)))
<1> TAKE i
<1>f. FilesOf(i) \in Nat /\ FilesOf(i)' \in Nat BY FilesNat, Zenon
<1>1. /\ Count(cwd, i) \in Nat /\ Count(cwd', i) \in Nat
      /\ Count(cwd', i) = Count(cwd, i) + Is(cwd'[p], i) - Is(cwd[p], i)
  <2>1. \A q \in Procs : q # p => cwd'[q] = cwd[q] BY Zenon DEF Others, Same
  <2> QED BY <2>1, CountMove, Zenon
<1>2. /\ Count(cur, i) \in Nat /\ Count(cur', i) \in Nat
      /\ Count(cur', i) = Count(cur, i) + Is(cur'[p], i) - Is(cur[p], i)
  <2>1. \A q \in Procs : q # p => cur'[q] = cur[q] BY Zenon DEF Others, Same
  <2> QED BY <2>1, CountMove, Zenon
<1>3. /\ Count(ip, i) \in Nat /\ Count(ip', i) \in Nat
      /\ Count(ip', i) = Count(ip, i) + Is(ip'[p], i) - Is(ip[p], i)
  <2>1. \A q \in Procs : q # p => ip'[q] = ip[q] BY Zenon DEF Others, Same
  <2> QED BY <2>1, CountMove, Zenon
<1>4. /\ Count(dp, i) \in Nat /\ Count(dp', i) \in Nat
      /\ Count(dp', i) = Count(dp, i) + Is(dp'[p], i) - Is(dp[p], i)
  <2>1. \A q \in Procs : q # p => dp'[q] = dp[q] BY Zenon DEF Others, Same
  <2> QED BY <2>1, CountMove, Zenon
<1> DEFINE L(f) == Cardinality(InLists(f, i))
<1>5. /\ L(puts) \in Nat /\ L(puts') \in Nat
      /\ L(puts') = L(puts) + Listed(puts'[p], i) - Listed(puts[p], i)
  <2>1. \A q \in Procs : q # p => puts'[q] = puts[q] BY Zenon DEF Others, Same
  <2> QED BY <2>1, ListMove, Zenon
<1>6. References(i) = FilesOf(i) + Count(cwd, i) + Count(cur, i) + Count(ip, i) + Count(dp, i)
                      + L(puts)
  BY Zenon DEF References, FilesOf, InLists, Count
<1>p. References(i)' = FilesOf(i)' + Count(cwd', i) + Count(cur', i) + Count(ip', i)
                       + Count(dp', i) + L(puts')
  BY Zenon DEF References, FilesOf, InLists, Count
<1>7. /\ Mine(p, i) = Is(cwd[p], i) + Is(cur[p], i) + Is(ip[p], i) + Is(dp[p], i)
                      + Listed(puts[p], i)
      /\ Mine(p, i)' = Is(cwd'[p], i) + Is(cur'[p], i) + Is(ip'[p], i) + Is(dp'[p], i)
                       + Listed(puts'[p], i)
  BY Zenon DEF Mine, InRegs
<1>8. /\ Listed(puts[p], i) \in Nat /\ Listed(puts'[p], i) \in Nat
      /\ Is(cwd[p], i) \in Nat /\ Is(cur[p], i) \in Nat
      /\ Is(ip[p], i) \in Nat /\ Is(dp[p], i) \in Nat
      /\ Is(cwd'[p], i) \in Nat /\ Is(cur'[p], i) \in Nat
      /\ Is(ip'[p], i) \in Nat /\ Is(dp'[p], i) \in Nat
  BY DEF Listed, Is
<1> HIDE DEF L
<1> QED BY <1>f, <1>1, <1>2, <1>3, <1>4, <1>5, <1>6, <1>p, <1>7, <1>8

\* What p's step does to the reference counts, and to the locks.
Moved(p) ==
  \A i \in Inums :
    ref'[i] = ref[i] + ((Mine(p, i)' - Mine(p, i)) + (FilesOf(i)' - FilesOf(i)))

FileShapes ==
  /\ file \in [Files -> [ref : Nat, ip : Inums \cup {Nil}]]
  /\ ofile \in [Procs -> [Fds -> Files \cup {Nil}]]

LEMMA StepInv ==
  ASSUME FsInv, NEW p \in Procs, Registers', Others(p), Shapes', FileShapes', FileInv',
         CallInv(p)', Moved(p), LockMoved(p)
  PROVE  FsInv'
<1>1. RefInv' /\ ref' \in [Inums -> Nat]
  <2>1. \A i \in Inums : ref'[i] = References(i)' /\ ref'[i] \in Nat
    <3> TAKE i \in Inums
    <3>1. ref[i] = References(i) BY FsParts, Zenon DEF RefInv
    <3>2. ref'[i] = ref[i] + ((Mine(p, i)' - Mine(p, i)) + (FilesOf(i)' - FilesOf(i)))
      BY Zenon DEF Moved
    <3>3. /\ References(i)' \in Nat
          /\ References(i)' = References(i) + ((Mine(p, i)' - Mine(p, i))
                                               + (FilesOf(i)' - FilesOf(i)))
      BY RefMove, Zenon
    <3> QED BY <3>1, <3>2, <3>3, Zenon
  <2>2. ref' = [i \in Inums |-> ref'[i]] BY Zenon DEF Shapes
  <2>3. ref' \in [Inums -> Nat] BY <2>1, <2>2, Zenon
  <2> QED BY <2>1, <2>3, Zenon DEF RefInv
<1>2. TypeInv' BY <1>1, Zenon DEF TypeInv, Shapes, FileShapes
<1>3. \A q \in Procs : CallInv(q)'
  <2> SUFFICES ASSUME NEW q \in Procs, q # p PROVE CallInv(q)' BY Zenon
  <2>1. CallInv(q) BY FsParts, Zenon
  <2>2. Same(q) BY Zenon DEF Others
  <2> QED BY <2>1, <2>2, Zenon DEF Same, CallInv, Place, HasCur, HasIp, HasDp
<1>4. LockInv'
  <2> SUFFICES ASSUME NEW i \in Inums, NEW h, h = holder'[i], h # None
               PROVE  h \in Procs /\ Holds(h, i)'
    BY Zenon DEF LockInv
  <2>1. CASE h = p /\ Holds(p, i)' BY <2>1, Zenon
  <2>2. CASE h = holder[i] /\ h # p
    <3>1. h \in Procs /\ Holds(h, i) BY <2>2, FsParts, Zenon DEF LockInv
    <3>2. Same(h) BY <2>2, <3>1, Zenon DEF Others
    <3> QED BY <3>1, <3>2, Zenon DEF Same, Holds, Place
  <2> QED BY <2>1, <2>2, Zenon DEF LockMoved
<1> QED BY <1>1, <1>2, <1>3, <1>4, FsWhole, Zenon

\* When no file or descriptor changes.
LEMMA QuietInv ==
  ASSUME FsInv, NEW p \in Procs, Quiet(p)
  PROVE  FsInv'
<1>1. FileInv' /\ FileShapes' BY FsParts, Zenon DEF Quiet, TypeInv, FileInv, FileShapes
<1>2. Moved(p)
  <2> SUFFICES ASSUME NEW i \in Inums
               PROVE  ref'[i] = ref[i] + ((Mine(p, i)' - Mine(p, i)) + (FilesOf(i)' - FilesOf(i)))
    BY Zenon DEF Moved
  <2>1. FilesOf(i)' = FilesOf(i) BY Zenon DEF Quiet, FilesOf
  <2>2. FilesOf(i) \in Nat BY FilesNat, Zenon
  <2>3. Mine(p, i) \in Nat /\ Mine(p, i)' \in Nat BY DEF Mine, InRegs, Listed, Is
  <2>4. ref'[i] = ref[i] + (Mine(p, i)' - Mine(p, i)) BY Zenon DEF Quiet
  <2> QED BY <2>1, <2>2, <2>3, <2>4
<1> QED BY <1>1, <1>2, StepInv, Zenon DEF Quiet

-----------------------------------------------------------------------------
(* Files and descriptors *)

LEMMA MinIn == \A S \in SUBSET Nat : S # {} => Min(S) \in S
<1> SUFFICES ASSUME NEW S \in SUBSET Nat, S # {} PROVE Min(S) \in S BY Zenon
<1> DEFINE R == OpToRel(<, Nat)
<1>1. \E x \in S : \A y \in S : ~(<<y, x>> \in R)
  <2>1. IsWellFoundedOn(R, Nat) BY NatLessThanWellFounded, Zenon
  <2> HIDE DEF R
  <2> QED BY <2>1, WFMin, Zenon
<1>2. R = {ss \in Nat \X Nat : ss[1] < ss[2]} BY Zenon DEF OpToRel
<1> HIDE DEF R
<1>3. PICK x \in S : \A y \in S : x <= y
  <2>1. PICK x \in S : \A y \in S : ~(<<y, x>> \in R) BY <1>1, Zenon
  <2>2. \A y \in S : x <= y
    <3> TAKE y \in S
    <3>1. ~(y < x) BY <1>2, <2>1, Zenon
    <3> QED BY <3>1
  <2> QED BY <2>2, Zenon
<1> QED BY <1>3, Zenon DEF Min

\* The descriptors of f.
Fof(o, f) == Cardinality({x \in Procs \X Fds : o[x[1]][x[2]] = f})

LEMMA FdMove ==
  ASSUME FsInv, NEW p \in Procs, NEW d \in Fds, NEW v, ofile' = [ofile EXCEPT ![p][d] = v]
  PROVE  \A f \in Files : /\ Fof(ofile, f) \in Nat /\ Fof(ofile', f) \in Nat
                          /\ Fof(ofile', f) = Fof(ofile, f) + Is(v, f) - Is(ofile[p][d], f)
<1> TAKE f \in Files
<1> DEFINE U == Procs \X Fds
           A == {x \in Procs \X Fds : ofile[x[1]][x[2]] = f}
           B == {x \in Procs \X Fds : ofile'[x[1]][x[2]] = f}
<1>0. IsFiniteSet(U)
  <2>1. IsFiniteSet(Fds)
    <3>1. 1 \in Int /\ NOFILE \in Int BY FsAssumption
    <3> QED BY <3>1, FS_Interval, Zenon DEF Fds
  <2>2. IsFiniteSet(Procs) BY FsAssumption, Zenon
  <2> QED BY <2>1, <2>2, FS_Product, Zenon
<1>t. ofile \in [Procs -> [Fds -> Files \cup {Nil}]] BY FsParts, Zenon DEF TypeInv
<1>1. /\ A \in SUBSET U /\ B \in SUBSET U /\ <<p, d>> \in U
      /\ <<p, d>> \in A <=> ofile[p][d] = f
      /\ <<p, d>> \in B <=> v = f
  BY <1>t, Zenon
<1>2. \A x \in U : x # <<p, d>> => (x \in A <=> x \in B)
  <2>1. \A q \in Procs, e \in Fds : q # p \/ e # d => ofile'[q][e] = ofile[q][e] BY <1>t, Zenon
  <2> QED BY <2>1
<1>3. Fof(ofile, f) = Cardinality(A) /\ Fof(ofile', f) = Cardinality(B) BY Zenon DEF Fof
<1> HIDE DEF A, B, U
<1>4. /\ Cardinality(A) \in Nat /\ Cardinality(B) \in Nat
      /\ Cardinality(B) = Cardinality(A) + Has(B, <<p, d>>) - Has(A, <<p, d>>)
  BY <1>0, <1>1, <1>2, SetMove, Zenon
<1>5. Has(B, <<p, d>>) = Is(v, f) /\ Has(A, <<p, d>>) = Is(ofile[p][d], f) BY <1>1, Zenon DEF Has, Is
<1> QED BY <1>3, <1>4, <1>5, Zenon

Open(r, i) == IF r.ref > 0 /\ r.ip = i THEN 1 ELSE 0

LEMMA FilesMove ==
  ASSUME NEW f \in Files, \A g \in Files : g # f => file'[g] = file[g]
  PROVE  \A i : FilesOf(i)' = FilesOf(i) + Open(file'[f], i) - Open(file[f], i)
<1> TAKE i
<1> DEFINE A == {g \in Files : file[g].ref > 0 /\ file[g].ip = i}
           B == {g \in Files : file'[g].ref > 0 /\ file'[g].ip = i}
<1>1. /\ A \in SUBSET Files /\ B \in SUBSET Files
      /\ \A g \in Files : g # f => (g \in A <=> g \in B)
      /\ f \in A <=> (file[f].ref > 0 /\ file[f].ip = i)
      /\ f \in B <=> (file'[f].ref > 0 /\ file'[f].ip = i)
  BY Zenon
<1>2. FilesOf(i) = Cardinality(A) /\ FilesOf(i)' = Cardinality(B) BY Zenon DEF FilesOf
<1>0. IsFiniteSet(Files) BY FsAssumption, Zenon
<1> HIDE DEF A, B
<1>3. Cardinality(B) = Cardinality(A) + Has(B, f) - Has(A, f) BY <1>0, <1>1, SetMove, Zenon
<1>4. Has(B, f) = Open(file'[f], i) /\ Has(A, f) = Open(file[f], i) BY <1>1, Zenon DEF Has, Open
<1> QED BY <1>2, <1>3, <1>4, Zenon

LEMMA FileStep ==
  ASSUME FsInv, NEW p \in Procs, NEW f \in Files, NEW d \in Fds, NEW v, {v, ofile[p][d]} \subseteq {f, Nil},
         ofile' = [ofile EXCEPT ![p][d] = v],
         file' \in [Files -> [ref : Nat, ip : Inums \cup {Nil}]],
         \A g \in Files : g # f => file'[g] = file[g],
         file'[f].ref = file[f].ref + Is(v, f) - Is(ofile[p][d], f),
         file'[f].ref > 0 => file'[f].ip \in Inums
  PROVE  FileInv' /\ FileShapes'
<1>t. ofile \in [Procs -> [Fds -> Files \cup {Nil}]] BY FsParts, Zenon DEF TypeInv
<1>1. FileShapes'
  <2>1. v \in Files \cup {Nil} BY Zenon
  <2>2. [ofile[p] EXCEPT ![d] = v] \in [Fds -> Files \cup {Nil}] BY <1>t, <2>1, Zenon
  <2>3. ofile' \in [Procs -> [Fds -> Files \cup {Nil}]] BY <1>t, <2>2, Zenon
  <2> QED BY <2>3, Zenon DEF FileShapes
<1>2. ASSUME NEW g \in Files
      PROVE  (file'[g].ref > 0 => file'[g].ip \in Inums) /\ file'[g].ref = Fof(ofile', g)
  <2>1. (file[g].ref > 0 => file[g].ip \in Inums) /\ file[g].ref = Fof(ofile, g)
    BY FsParts, Zenon DEF FileInv, Fof
  <2>2. /\ Fof(ofile, g) \in Nat
        /\ Fof(ofile', g) = Fof(ofile, g) + Is(v, g) - Is(ofile[p][d], g)
    BY FdMove, Zenon
  <2>3. CASE g = f BY <2>1, <2>2, <2>3, Zenon
  <2>4. CASE g # f
    <3>1. Is(v, g) = 0 /\ Is(ofile[p][d], g) = 0 BY <2>4, FsAssumption, Zenon DEF Is
    <3> QED BY <2>1, <2>2, <2>4, <3>1
  <2> QED BY <2>3, <2>4, Zenon
<1> QED BY <1>1, <1>2, Zenon DEF FileInv, Fof

\* A descriptor's file is open.
LEMMA IsOpen ==
  ASSUME FsInv, NEW p \in Procs, NEW d \in Fds, ofile[p][d] # Nil
  PROVE  LET f == ofile[p][d] IN
         /\ f \in Files /\ file[f].ref \in Nat /\ file[f].ref > 0 /\ file[f].ip \in Inums
<1>f. PICK f : f = ofile[p][d] BY Zenon
<1>1. f \in Files /\ ofile \in [Procs -> [Fds -> Files \cup {Nil}]] BY <1>f, FsParts DEF TypeInv
<1>2. file[f].ref = Fof(ofile, f) /\ file[f].ref \in Nat BY <1>1, FsParts, Zenon DEF FileInv,
    Fof, TypeInv
<1>3. file[f].ref # 0
  <2> DEFINE A == {x \in Procs \X Fds : ofile[x[1]][x[2]] = f}
  <2>1. <<p, d>> \in A BY <1>f, Zenon
  <2>2. IsFiniteSet(A)
    <3>1. 1 \in Int /\ NOFILE \in Int BY FsAssumption
    <3>2. IsFiniteSet(Fds) BY <3>1, FS_Interval, Zenon DEF Fds
    <3>3. IsFiniteSet(Procs \X Fds) BY <3>2, FS_Product, FsAssumption, Zenon
    <3>4. A \subseteq Procs \X Fds BY Zenon
    <3> QED BY <3>3, <3>4, FS_Subset, Zenon
  <2>3. Fof(ofile, f) = Cardinality(A) BY Zenon DEF Fof
  <2> HIDE DEF A
  <2> QED BY <1>2, <2>1, <2>2, <2>3, FS_EmptySet, Zenon
<1>4. file[f].ref > 0 BY <1>2, <1>3
<1> QED BY <1>f, <1>1, <1>2, <1>4, FsParts, Zenon DEF FileInv

\* Nothing changes but f->ref and a descriptor.
LEMMA FilesOnly ==
  ASSUME FsInv, NEW p \in Procs, UNCHANGED <<inodes, cwd, pc, regs>>, FileInv', FileShapes',
         \A i \in Inums : FilesOf(i)' = FilesOf(i)
  PROVE  FsInv'
<1>1. /\ Registers' /\ Others(p) /\ Shapes' /\ CallInv(p)' /\ LockMoved(p) /\ ref' = ref
      /\ \A i \in Inums : Mine(p, i)' = Mine(p, i) /\ ref[i] \in Nat
  BY FilesFrame, Zenon
<1>2. Moved(p)
  <2> SUFFICES ASSUME NEW i \in Inums
               PROVE  ref'[i] = ref[i] + ((Mine(p, i)' - Mine(p, i)) + (FilesOf(i)' - FilesOf(i)))
    BY Zenon DEF Moved
  <2>1. FilesOf(i) \in Nat /\ Mine(p, i) \in Nat BY FilesNat, MineNat, Zenon
  <2> QED BY <1>1, <2>1
<1> QED BY <1>1, <1>2, StepInv, Zenon

LEMMA DupInv == ASSUME FsInv, NEW p \in Procs, sys_dup(p) PROVE FsInv'
<1>1. PICK d \in Fds \ fdalloc(p) :
        /\ ofile' = [ofile EXCEPT ![p][Min(fdalloc(p))] = ofile[p][d]]
        /\ filedup(ofile[p][d])
  BY Zenon DEF sys_dup
<1>f. PICK f : f = ofile[p][d] BY Zenon
<1>e. PICK e : e = Min(fdalloc(p)) BY Zenon
<1>2. e \in Fds /\ ofile[p][e] = Nil
  <2>1. fdalloc(p) \in SUBSET Nat /\ fdalloc(p) # {} BY FsAssumption DEF sys_dup, fdalloc, Fds
  <2>2. e \in fdalloc(p) BY <1>e, <2>1, MinIn, Zenon
  <2> QED BY <2>2, Zenon DEF fdalloc
<1>3. f \in Files /\ file[f].ref \in Nat /\ file[f].ref > 0 /\ file[f].ip \in Inums
  <2>1. d \in Fds /\ ofile[p][d] # Nil BY <1>1, Zenon DEF fdalloc
  <2> QED BY <1>f, <2>1, IsOpen, Zenon
<1>t. file \in [Files -> [ref : Nat, ip : Inums \cup {Nil}]] BY FsParts, Zenon DEF TypeInv
<1>4. /\ file' \in [Files -> [ref : Nat, ip : Inums \cup {Nil}]]
      /\ \A g \in Files : g # f => file'[g] = file[g]
      /\ file'[f].ref = file[f].ref + 1 /\ file'[f].ip = file[f].ip
  BY <1>1, <1>f, <1>3, <1>t DEF filedup
<1>5. FileInv' /\ FileShapes'
  <2>1. ofile' = [ofile EXCEPT ![p][e] = f] BY <1>1, <1>e, <1>f, Zenon
  <2>2. {f, ofile[p][e]} \subseteq {f, Nil} BY <1>2, Zenon
  <2>3. Is(f, f) = 1 /\ Is(ofile[p][e], f) = 0 BY <1>2, <1>3, FsAssumption, Zenon DEF Is
  <2>4. file'[f].ref = file[f].ref + Is(f, f) - Is(ofile[p][e], f) BY <1>3, <1>4, <2>3
  <2>5. file'[f].ref > 0 => file'[f].ip \in Inums BY <1>3, <1>4, Zenon
  <2> QED BY <1>2, <1>3, <1>4, <2>1, <2>2, <2>4, <2>5, FileStep, Zenon
<1>6. UNCHANGED <<inodes, cwd, pc, regs>> BY Zenon DEF sys_dup
<1>7. ASSUME NEW i \in Inums PROVE FilesOf(i)' = FilesOf(i)
  <2>1. FilesOf(i)' = FilesOf(i) + Open(file'[f], i) - Open(file[f], i) BY <1>3, <1>4, FilesMove, Zenon
  <2>2. Open(file'[f], i) = Open(file[f], i) /\ Open(file[f], i) \in Nat BY <1>3, <1>4 DEF Open
  <2>3. FilesOf(i) \in Nat BY FilesNat, Zenon
  <2> QED BY <2>1, <2>2, <2>3
<1> QED BY <1>5, <1>6, <1>7, FilesOnly, Zenon

LEMMA CloseInv == ASSUME FsInv, NEW p \in Procs, sys_close(p) PROVE FsInv'
<1>1. PICK d \in Fds \ fdalloc(p) :
        ofile' = [ofile EXCEPT ![p][d] = Nil] /\ fileclose(p, ofile[p][d])
  BY Zenon DEF sys_close
<1>f. PICK f : f = ofile[p][d] BY Zenon
<1>d. d \in Fds /\ ofile[p][d] # Nil BY <1>1, Zenon DEF fdalloc
<1>3. f \in Files /\ file[f].ref \in Nat /\ file[f].ref > 0 /\ file[f].ip \in Inums
  BY <1>f, <1>d, IsOpen, Zenon
<1>t. file \in [Files -> [ref : Nat, ip : Inums \cup {Nil}]] BY FsParts, Zenon DEF TypeInv
<1>5. ASSUME /\ file' \in [Files -> [ref : Nat, ip : Inums \cup {Nil}]]
             /\ \A g \in Files : g # f => file'[g] = file[g]
             /\ file'[f].ref = file[f].ref - 1 /\ (file'[f].ref > 0 => file'[f].ip \in Inums)
      PROVE  FileInv' /\ FileShapes'
  <2>1. {Nil, ofile[p][d]} \subseteq {f, Nil} BY <1>f, Zenon
  <2>2. Is(Nil, f) = 0 /\ Is(ofile[p][d], f) = 1 BY <1>f, <1>3, FsAssumption, Zenon DEF Is
  <2>3. file'[f].ref = file[f].ref + Is(Nil, f) - Is(ofile[p][d], f) BY <1>3, <1>5, <2>2
  <2> QED BY <1>1, <1>d, <1>3, <1>5, <2>1, <2>3, FileStep, Zenon
<1>6. pc[p] = "user" /\ UNCHANGED <<inodes, cwd, op, path, rest, cont, cur, ip, dp>> BY Zenon DEF sys_close
<1>7. CASE file[f].ref > 1
  <2>1. file' = [file EXCEPT ![f].ref = @ - 1] /\ UNCHANGED <<pc, puts, after>>
    BY <1>1, <1>f, <1>7, Zenon DEF fileclose
  <2>2. /\ file' \in [Files -> [ref : Nat, ip : Inums \cup {Nil}]]
        /\ \A g \in Files : g # f => file'[g] = file[g]
        /\ file'[f].ref = file[f].ref - 1 /\ file'[f].ip = file[f].ip
    BY <1>3, <1>7, <1>t, <2>1
  <2>3. FileInv' /\ FileShapes' BY <1>3, <1>5, <2>2, Zenon
  <2>4. ASSUME NEW i \in Inums PROVE FilesOf(i)' = FilesOf(i)
    <3>1. FilesOf(i)' = FilesOf(i) + Open(file'[f], i) - Open(file[f], i) BY <1>3, <2>2, FilesMove, Zenon
    <3>2. Open(file'[f], i) = Open(file[f], i) /\ Open(file[f], i) \in Nat BY <1>3, <1>7, <2>2 DEF Open
    <3>3. FilesOf(i) \in Nat BY FilesNat, Zenon
    <3> QED BY <3>1, <3>2, <3>3
  <2>5. UNCHANGED <<inodes, cwd, pc, regs>> BY <1>6, <2>1, Zenon DEF regs
  <2> QED BY <2>3, <2>4, <2>5, FilesOnly, Zenon
<1>8. CASE ~(file[f].ref > 1)
  <2>x. PICK x : x = file[f].ip BY Zenon
  <2>1. file' = [file EXCEPT ![f] = [ref |-> 0, ip |-> Nil]] /\ Put(p, <<x>>, "user")
    BY <1>1, <1>f, <1>8, <2>x, Zenon DEF fileclose
  <2>2. /\ file' \in [Files -> [ref : Nat, ip : Inums \cup {Nil}]]
        /\ \A g \in Files : g # f => file'[g] = file[g]
        /\ file'[f] = [ref |-> 0, ip |-> Nil] /\ file[f].ref = 1
    BY <1>3, <1>8, <1>t, <2>1
  <2>3. FileInv' /\ FileShapes'
    <3>1. file'[f].ref = file[f].ref - 1 /\ ~(file'[f].ref > 0) BY <2>2
    <3> QED BY <1>5, <2>2, <3>1, Zenon
  <2>4. /\ Registers' /\ Others(p) /\ Shapes' /\ CallInv(p)' /\ LockMoved(p) /\ ref' = ref
        /\ \A i \in Inums : /\ Mine(p, i)' = Mine(p, i) + Is(x, i)
                            /\ ref[i] \in Nat /\ Mine(p, i) \in Nat /\ Is(x, i) \in Nat
    BY <1>3, <1>6, <2>x, <2>1, LastClose, Zenon
  <2>5. Moved(p)
    <3> SUFFICES ASSUME NEW i \in Inums
                 PROVE  ref'[i] = ref[i] + ((Mine(p, i)' - Mine(p, i)) + (FilesOf(i)' - FilesOf(i)))
      BY Zenon DEF Moved
    <3>1. FilesOf(i)' = FilesOf(i) + Open(file'[f], i) - Open(file[f], i) BY <1>3, <2>2, FilesMove, Zenon
    <3>2. Open(file'[f], i) = 0 /\ Open(file[f], i) = Is(x, i) BY <2>x, <2>2 DEF Open, Is
    <3>3. FilesOf(i) \in Nat BY FilesNat, Zenon
    <3> QED BY <2>4, <3>1, <3>2, <3>3
  <2> QED BY <2>3, <2>4, <2>5, StepInv, Zenon
<1> QED BY <1>7, <1>8, Zenon

LEMMA TakeFileInv ==
  ASSUME FsInv, NEW p \in Procs, Takes(p)
  PROVE  FsInv'
<1>u. /\ pc[p] \in {"open", "create_found", "created"} /\ TakesFile(p)
      /\ ref' = ref /\ Shapes' /\ LockMoved(p)
  BY Zenon DEF Takes
<1>f. PICK f : f = Min(filealloc) BY Zenon
<1>d. PICK d : d = Min(fdalloc(p)) BY Zenon
<1>i. PICK i : i = ip[p] BY Zenon
<1>t. file \in [Files -> [ref : Nat, ip : Inums \cup {Nil}]] BY FsParts, Zenon DEF TypeInv
<1>1. d \in Fds /\ ofile[p][d] = Nil
  <2>1. fdalloc(p) \in SUBSET Nat /\ fdalloc(p) # {}
    BY <1>u, FsAssumption DEF TakesFile, fdalloc, Fds
  <2>2. d \in fdalloc(p) BY <1>d, <2>1, MinIn, Zenon
  <2> QED BY <2>2, Zenon DEF fdalloc
<1>2. f \in Files /\ file[f].ref = 0
  <2>1. filealloc \in SUBSET Nat /\ filealloc # {} BY <1>u, FsAssumption DEF TakesFile, filealloc
  <2>2. f \in filealloc BY <1>f, <2>1, MinIn, Zenon
  <2> QED BY <2>2, Zenon DEF filealloc
<1>3. /\ Registers' /\ Others(p) /\ CallInv(p)' /\ i \in Inums
      /\ \A j \in Inums : /\ Mine(p, j) = Mine(p, j)' + Is(i, j)
                          /\ ref[j] \in Nat /\ Mine(p, j)' \in Nat /\ Is(i, j) \in Nat
  BY <1>i, TakesIp, Zenon
<1>4. /\ file' \in [Files -> [ref : Nat, ip : Inums \cup {Nil}]]
      /\ \A g \in Files : g # f => file'[g] = file[g]
      /\ file'[f] = [ref |-> 1, ip |-> i]
  BY <1>u, <1>t, <1>f, <1>i, <1>2, <1>3 DEF TakesFile
<1>5. FileInv' /\ FileShapes'
  <2>1. ofile' = [ofile EXCEPT ![p][d] = f] BY <1>u, <1>f, <1>d, Zenon DEF TakesFile
  <2>2. {f, ofile[p][d]} \subseteq {f, Nil} BY <1>1, Zenon
  <2>3. Is(f, f) = 1 /\ Is(ofile[p][d], f) = 0 BY <1>1, <1>2, FsAssumption, Zenon DEF Is
  <2>4. file'[f].ref = file[f].ref + Is(f, f) - Is(ofile[p][d], f) BY <1>2, <1>4, <2>3
  <2>5. file'[f].ref > 0 => file'[f].ip \in Inums BY <1>3, <1>4
  <2> QED BY <1>1, <1>2, <1>4, <2>1, <2>2, <2>4, <2>5, FileStep, Zenon
<1>6. Moved(p)
  <2> SUFFICES ASSUME NEW j \in Inums
               PROVE  ref'[j] = ref[j] + ((Mine(p, j)' - Mine(p, j)) + (FilesOf(j)' - FilesOf(j)))
    BY Zenon DEF Moved
  <2>1. FilesOf(j)' = FilesOf(j) + Open(file'[f], j) - Open(file[f], j) BY <1>2, <1>4, FilesMove, Zenon
  <2>2. Open(file'[f], j) = Is(i, j) /\ Open(file[f], j) = 0 BY <1>2, <1>4 DEF Open, Is
  <2>3. FilesOf(j) \in Nat BY FilesNat, Zenon
  <2> QED BY <1>u, <1>3, <2>1, <2>2, <2>3
<1> QED BY <1>u, <1>3, <1>5, <1>6, StepInv, Zenon

-----------------------------------------------------------------------------
(* The theorems *)

LEMMA InitInv == Init => FsInv
<1> SUFFICES ASSUME Init PROVE FsInv BY Zenon
<1>f. IsFiniteSet(Procs) /\ IsFiniteSet(Files) BY FsAssumption, Zenon
<1>c. Cardinality(Procs) \in Nat BY <1>f, FS_CardinalityType, Zenon
<1>e. \A S : S = {} => Cardinality(S) = 0 BY FS_EmptySet, Zenon
<1>1. TypeInv BY <1>c, InitShapes, Zenon
<1>2. ASSUME NEW p \in Procs PROVE CallInv(p) BY InitCalls, Zenon
<1>3. FileInv
  <2> SUFFICES ASSUME NEW f \in Files
               PROVE  /\ ~(file[f].ref > 0)
                      /\ file[f].ref = Cardinality({x \in Procs \X Fds : ofile[x[1]][x[2]] = f})
    BY Zenon DEF FileInv
  <2>1. file[f].ref = 0 BY Zenon DEF Init
  <2>2. {x \in Procs \X Fds : ofile[x[1]][x[2]] = f} = {} BY FsAssumption, Zenon DEF Init
  <2> QED BY <1>e, <2>1, <2>2
<1>4. LockInv BY Zenon DEF Init, LockInv
<1>5. RefInv
  <2> SUFFICES ASSUME NEW i \in Inums PROVE ref[i] = References(i) BY Zenon DEF RefInv
  <2>1. /\ {f \in Files : file[f].ref > 0 /\ file[f].ip = i} = {}
        /\ {p \in Procs : cur[p] = i} = {} /\ {p \in Procs : ip[p] = i} = {}
        /\ {p \in Procs : dp[p] = i} = {}
    BY FsAssumption, Zenon DEF Init
  <2>2. {x \in Procs \X {1, 2} : x[2] <= Len(puts[x[1]]) /\ puts[x[1]][x[2]] = i} = {}
    BY DEF Init
  <2>3. {p \in Procs : cwd[p] = i} = IF i = ROOTINO THEN Procs ELSE {} BY Zenon DEF Init
  <2>4. Cardinality({p \in Procs : cwd[p] = i}) = IF i = ROOTINO THEN Cardinality(Procs) ELSE 0
    BY <1>e, <2>3, Zenon
  <2>5. ref[i] = IF i = ROOTINO THEN Cardinality(Procs) ELSE 0 BY Zenon DEF Init
  <2>6. References(i) = 0 + Cardinality({p \in Procs : cwd[p] = i}) + 0 + 0 + 0 + 0
    BY <1>e, <2>1, <2>2, Zenon DEF References
  <2> QED BY <1>c, <2>4, <2>5, <2>6
<1> QED BY <1>1, <1>2, <1>3, <1>4, <1>5, Zenon DEF FsInv

LEMMA NextInv == FsInv /\ [Next]_vars => FsInv'
<1> SUFFICES ASSUME FsInv, [Next]_vars PROVE FsInv' BY Zenon
<1>1. CASE UNCHANGED vars BY <1>1, StutterInv, Zenon
<1>2. ASSUME NEW p \in Procs,
             \/ iput(p) \/ itrunc(p) \/ invalidate(p) \/ drop(p)
             \/ namex(p) \/ Call(p) \/ sys_dup(p) \/ sys_close(p)
             \/ sys_open(p) \/ Created(p) \/ create(p) \/ CreateFound(p) \/ CreateNew(p)
             \/ CreateFail(p) \/ UnlockDp(p)
             \/ sys_link(p) \/ LinkDp(p) \/ LinkFound(p) \/ LinkBad(p)
             \/ sys_unlink(p) \/ UnlinkRefuse(p) \/ UnlinkIp(p) \/ UnlinkEnd(p)
             \/ sys_chdir(p)
      PROVE  FsInv'
  <2>1. Allocatable # {} => Min(Allocatable) \in Allocatable
    <3>1. Allocatable \in SUBSET Nat BY FsAssumption, Zenon DEF Allocatable
    <3> QED BY <3>1, MinIn, Zenon
  <2>2. CASE sys_dup(p) \/ sys_close(p) BY <2>2, DupInv, CloseInv, Zenon
  <2>3. CASE ~(sys_dup(p) \/ sys_close(p))
    <3>1. Quiet(p) \/ Takes(p) BY <1>2, <2>1, <2>3, QuietOrTakes, Zenon
    <3> QED BY <3>1, QuietInv, TakeFileInv, Zenon
  <2> QED BY <2>2, <2>3, Zenon
<1> QED BY <1>1, <1>2, Zenon DEF Next, Done

\* The inductive invariant holds in every state that the calls reach.
THEOREM FsInvariance == Spec => []FsInv
BY InitInv, NextInv, PTL DEF Spec

\* iget(), idup() and filedup() count every reference that a call, a process or
\* an open file has, iput() and fileclose() take back each of them once, also
\* where open(), create(), link() or unlink() fails half way.
THEOREM RefsAreCounted == Spec => []RefsCounted
<1>1. FsInv => RefsCounted BY FsParts, Zenon DEF RefInv, FileInv, RefsCounted
<1> QED BY <1>1, FsInvariance, PTL

-----------------------------------------------------------------------------
(* iput() and locks *)

\* What one or two processes have is counted.
LEMMA TwoCount ==
  \A f, i : \A p, q \in Procs :
    i # Nil => /\ Count(f, i) \in Nat /\ Count(f, i) >= Is(f[p], i)
               /\ p # q => Count(f, i) >= Is(f[p], i) + Is(f[q], i)
<1> SUFFICES ASSUME NEW f, NEW i, NEW p \in Procs, NEW q \in Procs, i # Nil
             PROVE  /\ Count(f, i) \in Nat /\ Count(f, i) >= Is(f[p], i)
                    /\ p # q => Count(f, i) >= Is(f[p], i) + Is(f[q], i)
  BY Zenon
<1>g. PICK g : g = [r \in Procs |-> IF r = p THEN Nil ELSE f[r]] BY Zenon
<1>h. PICK h : h = [r \in Procs |-> IF r = p \/ r = q THEN Nil ELSE f[r]] BY Zenon
<1>a. \A r \in Procs : r # p => g[r] = f[r] BY <1>g, Zenon
<1>b. \A r \in Procs : r # q => h[r] = g[r] BY <1>g, <1>h, Zenon
<1>1. /\ g[p] = Nil /\ h[q] = Nil /\ (p # q => g[q] = f[q])
  BY <1>g, <1>h, Zenon
<1>2. Count(f, i) \in Nat /\ Count(g, i) \in Nat /\ Count(g, i) = Count(f, i) + Is(g[p], i) - Is(f[p], i)
  BY <1>a, CountMove
<1>3. Count(h, i) \in Nat /\ Count(h, i) = Count(g, i) + Is(h[q], i) - Is(g[q], i)
  BY <1>b, CountMove
<1>4. Is(g[p], i) = 0 /\ Is(h[q], i) = 0 /\ Is(f[p], i) \in Nat /\ Is(g[q], i) \in Nat BY <1>1, Zenon DEF Is
<1> QED BY <1>1, <1>2, <1>3, <1>4

LEMMA TwoListed ==
  \A f, i : \A p, q \in Procs :
    /\ Cardinality(InLists(f, i)) \in Nat /\ Cardinality(InLists(f, i)) >= Listed(f[p], i)
    /\ p # q => Cardinality(InLists(f, i)) >= Listed(f[p], i) + Listed(f[q], i)
<1> SUFFICES ASSUME NEW f, NEW i, NEW p \in Procs, NEW q \in Procs
             PROVE  /\ Cardinality(InLists(f, i)) \in Nat
                    /\ Cardinality(InLists(f, i)) >= Listed(f[p], i)
                    /\ p # q => Cardinality(InLists(f, i)) >= Listed(f[p], i) + Listed(f[q], i)
  BY Zenon
<1>g. PICK g : g = [r \in Procs |-> IF r = p THEN <<>> ELSE f[r]] BY Zenon
<1>h. PICK h : h = [r \in Procs |-> IF r = p \/ r = q THEN <<>> ELSE f[r]] BY Zenon
<1> DEFINE L(l) == Cardinality(InLists(l, i))
<1>a. \A r \in Procs : r # p => g[r] = f[r] BY <1>g, Zenon
<1>b. \A r \in Procs : r # q => h[r] = g[r] BY <1>g, <1>h, Zenon
<1>1. /\ g[p] = <<>> /\ h[q] = <<>> /\ (p # q => g[q] = f[q])
  BY <1>g, <1>h, Zenon
<1>2. L(f) \in Nat /\ L(g) \in Nat /\ L(g) = L(f) + Listed(g[p], i) - Listed(f[p], i)
  BY <1>a, ListMove
<1>3. L(h) \in Nat /\ L(h) = L(g) + Listed(h[q], i) - Listed(g[q], i)
  BY <1>b, ListMove
<1>4. Listed(g[p], i) = 0 /\ Listed(h[q], i) = 0 BY <1>1, ListedIs, Zenon
<1>5. Listed(f[p], i) \in Nat /\ Listed(g[q], i) \in Nat BY DEF Listed
<1> HIDE DEF L
<1>6. /\ L(f) \in Nat /\ L(f) >= Listed(f[p], i)
      /\ p # q => L(f) >= Listed(f[p], i) + Listed(f[q], i)
  BY <1>1, <1>2, <1>3, <1>4, <1>5
<1> QED BY <1>6, Zenon DEF L

LEMMA TwoHave ==
  ASSUME NEW i \in Inums, NEW p \in Procs, NEW q \in Procs
  PROVE  /\ References(i) >= Mine(p, i)
         /\ p # q => References(i) >= Mine(p, i) + Mine(q, i)
<1>0. i # Nil BY FsAssumption, Zenon
<1> DEFINE L(f) == Cardinality(InLists(f, i))
<1>1. References(i) = FilesOf(i) + Count(cwd, i) + Count(cur, i) + Count(ip, i) + Count(dp, i)
                      + L(puts)
  BY Zenon DEF References, FilesOf, InLists, Count
<1>2. FilesOf(i) \in Nat BY FilesNat, Zenon
<1>3. /\ Count(cwd, i) \in Nat /\ Count(cur, i) \in Nat /\ Count(ip, i) \in Nat /\ Count(dp, i) \in Nat
      /\ Count(cwd, i) >= Is(cwd[p], i) /\ Count(cur, i) >= Is(cur[p], i)
      /\ Count(ip, i) >= Is(ip[p], i) /\ Count(dp, i) >= Is(dp[p], i)
  BY <1>0, TwoCount, Zenon
<1>4. ASSUME p # q
      PROVE  /\ Count(cwd, i) >= Is(cwd[p], i) + Is(cwd[q], i)
             /\ Count(cur, i) >= Is(cur[p], i) + Is(cur[q], i)
             /\ Count(ip, i) >= Is(ip[p], i) + Is(ip[q], i)
             /\ Count(dp, i) >= Is(dp[p], i) + Is(dp[q], i)
  BY <1>0, <1>4, TwoCount, Zenon
<1>5. /\ L(puts) \in Nat /\ L(puts) >= Listed(puts[p], i)
      /\ p # q => L(puts) >= Listed(puts[p], i) + Listed(puts[q], i)
  BY TwoListed, Zenon
<1>6. Listed(puts[p], i) \in Nat /\ Listed(puts[q], i) \in Nat BY DEF Listed
<1> HIDE DEF L
<1>n. /\ Is(cwd[p], i) \in Nat /\ Is(cur[p], i) \in Nat /\ Is(ip[p], i) \in Nat /\ Is(dp[p], i) \in Nat
      /\ Is(cwd[q], i) \in Nat /\ Is(cur[q], i) \in Nat /\ Is(ip[q], i) \in Nat /\ Is(dp[q], i) \in Nat
  BY IsNat, Zenon
<1>m. /\ Mine(p, i) = Is(cwd[p], i) + Is(cur[p], i) + Is(ip[p], i) + Is(dp[p], i) + Listed(puts[p], i)
      /\ Mine(q, i) = Is(cwd[q], i) + Is(cur[q], i) + Is(ip[q], i) + Is(dp[q], i) + Listed(puts[q], i)
  BY Zenon DEF Mine, InRegs
<1>7. References(i) >= Mine(p, i) BY <1>1, <1>2, <1>3, <1>5, <1>6, <1>n, <1>m
<1>8. ASSUME p # q PROVE References(i) >= Mine(p, i) + Mine(q, i)
  BY <1>1, <1>2, <1>3, <1>4, <1>5, <1>6, <1>8, <1>n, <1>m
<1> QED BY <1>7, <1>8, Zenon

\* iput() waits for no lock: "ip->ref == 1 means no other process can have ip
\* locked, so this acquiresleep() won't block (or deadlock)."
IputWillNotBlock ==
  \A p \in Procs : pc[p] = "iput" /\ LastLink(Head(puts[p])) => Unlocked(Head(puts[p]))

\* iput() takes ip->lock with itable.lock held: by the comment above this is
\* right since nobody can have the lock of an inode whose last reference iput()
\* is about to drop.
THEOREM IputNeverBlocks == Spec => []IputWillNotBlock
<1>1. ASSUME FsInv PROVE IputWillNotBlock
  <2> SUFFICES ASSUME NEW p \in Procs, pc[p] = "iput", LastLink(Head(puts[p])),
                      NEW i, i = Head(puts[p]), holder[i] # None
               PROVE  FALSE
    BY Zenon DEF IputWillNotBlock, Unlocked
  <2>1. /\ i \in Inums /\ Mine(p, i) \in Nat /\ Mine(p, i) >= 1
        /\ ip[p] = i \/ dp[p] = i => Mine(p, i) >= 2
    <3>1. pc[p] \in Putting BY Zenon DEF Putting
    <3> QED BY <1>1, <3>1, PutterHas, Zenon
  <2>h. PICK h \in Procs : h = holder[i] /\ Holds(h, i) BY <1>1, <2>1, FsParts, Zenon DEF LockInv
  <2>2. References(i) = 1 BY <1>1, <2>1, FsParts, Zenon DEF RefInv, LastLink
  <2>3. CASE h = p
    <3>1. ip[p] = i \/ dp[p] = i BY <2>h, <2>3, Zenon DEF Holds
    <3>2. References(i) >= Mine(p, i) BY <2>1, TwoHave, Zenon
    <3> QED BY <2>1, <2>2, <3>1, <3>2
  <2>4. CASE h # p
    <3>1. Mine(h, i) \in Nat /\ Mine(h, i) >= 1 BY <1>1, <2>1, <2>h, HolderHas, Zenon
    <3>2. References(i) >= Mine(p, i) + Mine(h, i) BY <2>1, <2>4, TwoHave, Zenon
    <3> QED BY <2>1, <2>2, <3>1, <3>2
  <2> QED BY <2>3, <2>4, Zenon
<1>2. FsInv => IputWillNotBlock BY <1>1, Zenon
<1> QED BY <1>2, FsInvariance, PTL

=============================================================================
