------------------------------ MODULE FsSteps -------------------------------
(***************************************************************************)
(* The inductive invariant of Fs, for any processes, inodes, files, names  *)
(* and calls, and what a step does to the process that takes it: one that  *)
(* changes no open file changes its references and the counts alike.       *)
(***************************************************************************)
EXTENDS Fs, TLAPS

Putting == {"iput", "itrunc", "invalidate", "drop"}

\* What namex() may return to.
Conts == {"open", "create", "link", "link_dp", "unlink", "chdir"}

\* What a call does when its iput()s are done.
Afters ==
  {"user", "namex", "create_found", "created", "unlock_dp", "link_found", "link_bad", "unlink_end"}

Places ==
  Putting \cup Conts \cup Afters \cup {"create_new", "unlink_ip"}

\* Each register has a value for each process.
Registers ==
  /\ DOMAIN pc = Procs /\ DOMAIN after = Procs /\ DOMAIN cont = Procs
  /\ DOMAIN path = Procs /\ DOMAIN rest = Procs
  /\ DOMAIN cur = Procs /\ DOMAIN ip = Procs /\ DOMAIN dp = Procs /\ DOMAIN puts = Procs

TypeInv ==
  /\ Registers
  /\ cwd \in [Procs -> Inums]
  /\ dir \in [Inums -> [Names \cup {".."} -> Inums \cup {Nil}]]
  /\ ref \in [Inums -> Nat]
  /\ DOMAIN holder = Inums
  /\ file \in [Files -> [ref : Nat, ip : Inums \cup {Nil}]]
  /\ ofile \in [Procs -> [Fds -> Files \cup {Nil}]]

\* Where p is, or will be when its iput()s are done.
Place(p) == IF pc[p] \in Putting THEN after[p] ELSE pc[p]

\* The places where namex() has an inode in hand, where the call has one, and
\* where it has a directory.
HaveIp ==
  {"open", "link", "chdir", "link_dp", "link_bad", "created", "create_found",
   "create_new", "unlink_ip", "unlink_end", "link_found"}
HaveDp == {"create", "unlink", "link_dp", "create_new", "unlink_ip", "unlock_dp", "link_found"}
HasCur(p) == Place(p) = "namex"
HasIp(p) == Place(p) \in HaveIp \/ (Place(p) = "namex" /\ cont[p] = "link_dp")
HasDp(p) == Place(p) \in HaveDp

\* What p's call has in hand.
CallInv(p) ==
  /\ pc[p] \in Places /\ after[p] \in Afters
  /\ path[p] \in Seq(Names \cup {".."}) /\ Elements(rest[p]) \in Seq(Names \cup {".."})
  /\ cur[p] \in IF HasCur(p) THEN Inums ELSE {Nil}
  /\ ip[p] \in IF HasIp(p) THEN Inums ELSE {Nil}
  /\ dp[p] \in IF HasDp(p) THEN Inums ELSE {Nil}
  /\ puts[p] \in Seq(Inums) /\ Len(puts[p]) <= 2
  /\ puts[p] = <<>> <=> pc[p] \notin Putting
  /\ Place(p) = "namex" => cont[p] \in Conts
  /\ pc[p] \in {"create", "unlink", "link_dp", "create_new", "unlink_ip"} => path[p] # <<>>

\* A file that is open has an inode, and f->ref counts the descriptors.
FileInv ==
  \A f \in Files :
    /\ file[f].ref > 0 => file[f].ip \in Inums
    /\ file[f].ref = Cardinality({x \in Procs \X Fds : ofile[x[1]][x[2]] = f})

\* The process that has locked an inode has a reference to it.
Holds(p, i) ==
  \/ Place(p) \in {"created", "unlink_end"} /\ ip[p] = i
  \/ Place(p) \in {"create_new", "unlink_ip", "unlock_dp", "link_found"} /\ dp[p] = i
  \/ pc[p] \in {"itrunc", "invalidate"} /\ Head(puts[p]) = i

LockInv ==
  \A i \in Inums : holder[i] # None => holder[i] \in Procs /\ Holds(holder[i], i)

RefInv == \A i \in Inums : ref[i] = References(i)

FsInv == TypeInv /\ (\A p \in Procs : CallInv(p)) /\ FileInv /\ LockInv /\ RefInv

LEMMA FsParts ==
  FsInv => TypeInv /\ (\A p \in Procs : CallInv(p)) /\ FileInv /\ LockInv /\ RefInv
BY Zenon DEF FsInv

LEMMA FsWhole ==
  TypeInv' /\ (\A p \in Procs : CallInv(p)') /\ FileInv' /\ LockInv' /\ RefInv' => FsInv'
BY Zenon DEF FsInv

-----------------------------------------------------------------------------
(* What a step of one process changes *)

Same(q) ==
  /\ pc'[q] = pc[q] /\ after'[q] = after[q] /\ cont'[q] = cont[q]
  /\ path'[q] = path[q] /\ rest'[q] = rest[q]
  /\ cur'[q] = cur[q] /\ ip'[q] = ip[q] /\ dp'[q] = dp[q] /\ puts'[q] = puts[q]
  /\ cwd'[q] = cwd[q]

Others(p) == \A q \in Procs : q # p => Same(q)

Is(x, y) == IF x = y THEN 1 ELSE 0

\* The inode i in a list of at most two.
Listed(q, i) ==
  (IF 1 <= Len(q) /\ q[1] = i THEN 1 ELSE 0) + (IF 2 <= Len(q) /\ q[2] = i THEN 1 ELSE 0)

\* The references that p has, but for its open files.
InRegs(p, i) == Is(cwd[p], i) + Is(cur[p], i) + Is(ip[p], i) + Is(dp[p], i)
Mine(p, i) == InRegs(p, i) + Listed(puts[p], i)

LockMoved(p) ==
  \A i \in Inums :
    \/ holder'[i] = None
    \/ holder'[i] = p /\ Holds(p, i)'
    \/ holder'[i] = holder[i] /\ holder[i] # p

Shapes ==
  /\ cwd \in [Procs -> Inums]
  /\ dir \in [Inums -> [Names \cup {".."} -> Inums \cup {Nil}]]
  /\ ref = [i \in Inums |-> ref[i]] /\ DOMAIN holder = Inums

\* A step of p that changes no file and no descriptor: p's references and the
\* counts change together.
Quiet(p) ==
  /\ Registers' /\ Others(p) /\ Shapes' /\ CallInv(p)' /\ LockMoved(p)
  /\ UNCHANGED <<file, ofile>>
  /\ \A i \in Inums : ref'[i] = ref[i] + (Mine(p, i)' - Mine(p, i))

\* sys_open() takes a file and a descriptor for ip.
TakesFile(p) ==
  /\ filealloc # {} /\ fdalloc(p) # {}
  /\ file' = [file EXCEPT ![Min(filealloc)] = [ref |-> 1, ip |-> ip[p]]]
  /\ ofile' = [ofile EXCEPT ![p][Min(fdalloc(p))] = Min(filealloc)]
  /\ ip' = [ip EXCEPT ![p] = Nil] /\ Leave(p, "user")
  /\ path' = path \/ path' = [path EXCEPT ![p] = <<>>]
  /\ UNCHANGED <<puts, rest, cur, dp, cwd>>

\* The steps that do: p's ip becomes the inode of a new file.
Takes(p) ==
  /\ pc[p] \in {"open", "create_found", "created"} /\ TakesFile(p)
  /\ ref' = ref /\ Shapes' /\ LockMoved(p)

LEMMA MineNat == ASSUME NEW p, NEW i PROVE Mine(p, i) \in Nat
BY DEF Mine, InRegs, Listed, Is

\* The inodes in a list.
LEMMA ListedTail ==
  \A q \in Seq(Inums) : \A i :
    q # <<>> /\ Len(q) <= 2 => Listed(Tail(q), i) = Listed(q, i) - Is(Head(q), i)
BY DEF Listed, Is

LEMMA ListedIs ==
  /\ \A i : Listed(<<>>, i) = 0
  /\ \A x, i : Listed(<<x>>, i) = Is(x, i)
  /\ \A x, y, i : Listed(<<x, y>>, i) = Is(x, i) + Is(y, i)
BY DEF Listed, Is

LEMMA IsNat == (\A x, y : Is(x, y) \in Nat) /\ (\A i \in Inums : Is(Nil, i) = 0)
BY FsAssumption, Zenon DEF Is

\* The counts and p's references, when an inode moves between p's registers and
\* the list of those it gives back.
LEMMA RegsNat ==
  ASSUME NEW p, NEW j
  PROVE  /\ InRegs(p, j) \in Nat /\ InRegs(p, j)' \in Nat
         /\ \A x : Is(x, j) \in Nat /\ \A y : Is(x, j) + Is(y, j) \in Nat
BY DEF InRegs, Is

LEMMA MineHas ==
  ASSUME NEW p, NEW i
  PROVE  /\ Mine(p, i) \in Nat /\ Mine(p, i) >= Listed(puts[p], i)
         /\ ip[p] = i => Mine(p, i) >= 1 + Listed(puts[p], i)
         /\ dp[p] = i => Mine(p, i) >= 1 + Listed(puts[p], i)
BY DEF Mine, InRegs, Listed, Is

LEMMA RegMoves ==
  ASSUME NEW p, NEW j \in Inums, cwd'[p] = cwd[p], cur'[p] = cur[p]
  PROVE  /\ ip'[p] = Nil /\ dp'[p] = dp[p] => InRegs(p, j) = InRegs(p, j)' + Is(ip[p], j)
         /\ dp'[p] = Nil /\ ip'[p] = ip[p] => InRegs(p, j) = InRegs(p, j)' + Is(dp[p], j)
         /\ ip[p] = Nil /\ dp'[p] = dp[p] => InRegs(p, j)' = InRegs(p, j) + Is(ip'[p], j)
         /\ ip[p] = Nil /\ dp'[p] = Nil =>
              InRegs(p, j)' + Is(dp[p], j) = InRegs(p, j) + Is(ip'[p], j)
         /\ ip'[p] = Nil /\ dp'[p] = Nil =>
              InRegs(p, j) = InRegs(p, j)' + (Is(dp[p], j) + Is(ip[p], j))
BY FsAssumption DEF InRegs, Is

LEMMA CurMoves ==
  ASSUME NEW p, NEW j \in Inums, cwd'[p] = cwd[p]
  PROVE  /\ cur[p] = Nil /\ ip'[p] = ip[p] /\ dp'[p] = dp[p] =>
              InRegs(p, j)' = InRegs(p, j) + Is(cur'[p], j)
         /\ cur'[p] = Nil /\ ip[p] = Nil /\ ip'[p] = cur[p] /\ dp'[p] = dp[p] =>
              InRegs(p, j)' = InRegs(p, j)
         /\ cur'[p] = Nil /\ dp[p] = Nil /\ dp'[p] = cur[p] /\ ip'[p] = ip[p] =>
              InRegs(p, j)' = InRegs(p, j)
         /\ ip'[p] = ip[p] /\ dp'[p] = dp[p] =>
              InRegs(p, j)' + Is(cur[p], j) = InRegs(p, j) + Is(cur'[p], j)
BY FsAssumption DEF InRegs, Is

LEMMA CwdMoves ==
  ASSUME NEW p, NEW j \in Inums, cur'[p] = cur[p], dp'[p] = dp[p], ip'[p] = Nil, cwd'[p] = ip[p]
  PROVE  InRegs(p, j) = InRegs(p, j)' + Is(cwd[p], j)
BY FsAssumption DEF InRegs, Is

LEMMA Balance ==
  ASSUME NEW p, NEW j, ref[j] \in Nat, Mine(p, j) = InRegs(p, j)
  PROVE  /\ ref'[j] = ref[j] /\ Mine(p, j)' = InRegs(p, j)' /\ InRegs(p, j)' = InRegs(p, j)
              => ref'[j] = ref[j] + (Mine(p, j)' - Mine(p, j))
         /\ \A x : ref'[j] = ref[j] + Is(x, j) /\ Mine(p, j)' = InRegs(p, j)'
                     /\ InRegs(p, j)' = InRegs(p, j) + Is(x, j)
              => ref'[j] = ref[j] + (Mine(p, j)' - Mine(p, j))
         /\ \A x : ref'[j] = ref[j] /\ Mine(p, j)' = InRegs(p, j)' + Is(x, j)
                     /\ InRegs(p, j) = InRegs(p, j)' + Is(x, j)
              => ref'[j] = ref[j] + (Mine(p, j)' - Mine(p, j))
         /\ \A x, y : ref'[j] = ref[j] + Is(x, j) /\ Mine(p, j)' = InRegs(p, j)' + Is(y, j)
                        /\ InRegs(p, j)' + Is(y, j) = InRegs(p, j) + Is(x, j)
              => ref'[j] = ref[j] + (Mine(p, j)' - Mine(p, j))
         /\ \A x, y : ref'[j] = ref[j] /\ Mine(p, j)' = InRegs(p, j)' + (Is(x, j) + Is(y, j))
                        /\ InRegs(p, j) = InRegs(p, j)' + (Is(x, j) + Is(y, j))
              => ref'[j] = ref[j] + (Mine(p, j)' - Mine(p, j))
BY RegsNat

\* What p has in hand at l, and will have when the iput()s before it are done.
InHandAt(p, l) ==
  /\ path[p] \in Seq(Names \cup {".."}) /\ Elements(rest[p]) \in Seq(Names \cup {".."})
  /\ cur[p] \in IF l = "namex" THEN Inums ELSE {Nil}
  /\ l \in HaveIp \/ (l = "namex" /\ cont[p] = "link_dp") => ip[p] \in Inums
  /\ ~(l \in HaveIp \/ (l = "namex" /\ cont[p] = "link_dp")) => ip[p] = Nil
  /\ l \in HaveDp => dp[p] \in Inums
  /\ l \notin HaveDp => dp[p] = Nil
  /\ l = "namex" => cont[p] \in Conts

LEMMA CallPuts ==
  ASSUME NEW p \in Procs, NEW l \in Afters, pc'[p] = "iput", after'[p] = l, InHandAt(p, l)',
         puts'[p] \in Seq(Inums), Len(puts'[p]) <= 2, puts'[p] # <<>>
  PROVE  CallInv(p)'
BY Zenon DEF InHandAt, CallInv, Place, HasCur, HasIp, HasDp, HaveIp, HaveDp, Putting, Places, Afters

LEMMA CallRuns ==
  ASSUME NEW p \in Procs, NEW l \in Places \ Putting, pc'[p] = l, after'[p] \in Afters, InHandAt(p, l)',
         puts'[p] = <<>>,
         l \in {"create", "unlink", "link_dp", "create_new", "unlink_ip"} => path'[p] # <<>>
  PROVE  CallInv(p)'
BY DEF InHandAt, CallInv, Place, HasCur, HasIp, HasDp, HaveIp, HaveDp, Putting, Places, Afters

LEMMA ShortList ==
  \A x, y \in Inums : /\ <<x>> \in Seq(Inums) /\ Len(<<x>>) <= 2 /\ <<x>> # <<>>
                      /\ <<x, y>> \in Seq(Inums) /\ Len(<<x, y>>) <= 2 /\ <<x, y>> # <<>>
OBVIOUS

LEMMA LockKept ==
  ASSUME FsInv, NEW p \in Procs, UNCHANGED holder, \A i \in Inums : Holds(p, i) => Holds(p, i)'
  PROVE  LockMoved(p)
<1> SUFFICES ASSUME NEW i \in Inums, holder[i] = p PROVE Holds(p, i)'
  BY Zenon DEF LockMoved
<1>1. p # None BY FsAssumption, Zenon
<1> QED BY <1>1, FsParts, Zenon DEF LockInv

-----------------------------------------------------------------------------
(* iput() *)

LEMMA TailOf ==
  \A S : \A q \in Seq(S) : q # <<>> => /\ Head(q) \in S /\ Tail(q) \in Seq(S)
                                       /\ Len(q) \in Nat /\ Len(q) > 0 /\ Len(Tail(q)) = Len(q) - 1
                                       /\ Tail(q) = <<>> <=> Len(q) = 1
<1> SUFFICES ASSUME NEW S, NEW q \in Seq(S), q # <<>>
             PROVE  /\ Head(q) \in S /\ Tail(q) \in Seq(S)
                    /\ Len(q) \in Nat /\ Len(q) > 0 /\ Len(Tail(q)) = Len(q) - 1
                    /\ Tail(q) = <<>> <=> Len(q) = 1
  BY Zenon
<1>1. /\ Head(q) \in S /\ Tail(q) \in Seq(S)
      /\ Len(q) \in Nat /\ Len(q) > 0 /\ Len(Tail(q)) = Len(q) - 1
  OBVIOUS
<1>2. \A t \in Seq(S) : t = <<>> <=> Len(t) = 0 OBVIOUS
<1>3. Tail(q) = <<>> <=> Len(Tail(q)) = 0 BY <1>1, <1>2, Zenon
<1> QED BY <1>1, <1>3

LEMMA DropQuiet ==
  ASSUME FsInv, NEW p \in Procs, pc[p] \in {"iput", "drop"}, Drop(p, Head(puts[p])),
         UNCHANGED <<dir, holder, opened, path, rest, cur, ip, dp>>
  PROVE  Quiet(p)
<1> DEFINE q == puts[p]
           l == IF Len(q) = 1 THEN after[p] ELSE "iput"
<1>0. TypeInv /\ CallInv(p) BY FsParts, Zenon
<1>1. q \in Seq(Inums) /\ Len(q) <= 2 /\ q # <<>> /\ Head(q) \in Inums
  BY <1>0 DEF CallInv, Putting
<1>2. /\ pc'[p] = l /\ after'[p] = IF l = "user" THEN "user" ELSE after[p]
      /\ cont'[p] = IF l = "user" THEN "user" ELSE cont[p]
      /\ path'[p] = path[p] /\ rest'[p] = rest[p] /\ cur'[p] = cur[p] /\ ip'[p] = ip[p]
      /\ dp'[p] = dp[p] /\ puts'[p] = Tail(q) /\ cwd'[p] = cwd[p]
  BY <1>0, Zenon DEF TypeInv, Registers, Drop, Leave, Goto, opened
<1>3. Registers' /\ Others(p)
  BY <1>0, Zenon DEF TypeInv, Registers, Drop, Leave, Goto, opened, Others, Same
<1>4. Shapes' BY <1>0, Zenon DEF TypeInv, Shapes, Drop, opened
<1>5. Place(p)' = Place(p) /\ pc'[p] \notin {"itrunc", "invalidate"}
  BY <1>0, <1>2, Zenon DEF CallInv, Place, Putting, Afters
<1>6. CallInv(p)'
  <2>1. /\ Tail(q) \in Seq(Inums) /\ Len(Tail(q)) <= 2
        /\ Tail(q) = <<>> <=> Len(q) = 1
    <3> HIDE DEF q
    <3> QED BY <1>1, TailOf
  <2>2. pc'[p] \in Places /\ after'[p] \in Afters
    BY <1>0, <1>2, Zenon DEF CallInv, Afters, Places, Putting
  <2>3. puts'[p] = <<>> <=> pc'[p] \notin Putting
    BY <1>0, <1>2, <2>1, Zenon DEF CallInv, Afters, Putting
  <2>4. Place(p) = "namex" => cont'[p] = cont[p]
    BY <1>0, <1>2, Zenon DEF CallInv, Place, Putting
  <2>5. pc'[p] \notin {"create", "unlink", "link_dp", "create_new", "unlink_ip"}
    BY <1>0, <1>2, Zenon DEF CallInv, Afters
  <2> HIDE DEF q, l
  <2> QED BY <1>0, <1>2, <1>5, <2>1, <2>2, <2>3, <2>4, <2>5, Zenon DEF CallInv, HasCur, HasIp, HasDp
<1>7. \A i \in Inums : ref'[i] = ref[i] + (Mine(p, i)' - Mine(p, i))
  <2> TAKE i \in Inums
  <2>1. ref'[i] = ref[i] - Is(Head(q), i) /\ ref[i] \in Nat BY <1>0, <1>1 DEF Drop, TypeInv, Is
  <2>2. Listed(puts'[p], i) = Listed(puts[p], i) - Is(Head(q), i) BY <1>1, <1>2, ListedTail, Zenon
  <2>3. Listed(puts[p], i) \in Nat /\ Is(Head(q), i) \in Nat BY DEF Listed, Is
  <2> HIDE DEF q
  <2> QED BY <1>2, <2>1, <2>2, <2>3 DEF Mine, InRegs, Is
<1>8. LockMoved(p)
  <2>1. \A i \in Inums : Holds(p, i) => Holds(p, i)' BY <1>2, <1>5, Zenon DEF Holds
  <2> QED BY <2>1, LockKept, Zenon
<1> QED BY <1>3, <1>4, <1>6, <1>7, <1>8, Zenon DEF Quiet, opened

LEMMA IputQuiet == ASSUME FsInv, NEW p \in Procs, iput(p) \/ itrunc(p) \/ invalidate(p) \/ drop(p)
                 PROVE  Quiet(p)
<1>j. PICK j : j = Head(puts[p]) BY Zenon
<1>0. TypeInv /\ CallInv(p) BY FsParts, Zenon
<1>1. CASE drop(p) BY <1>1, DropQuiet, Zenon DEF drop
<1>2. CASE iput(p) /\ ~LastLink(j) BY <1>j, <1>2, DropQuiet, Zenon DEF iput
<1>3. CASE (iput(p) /\ LastLink(j)) \/ itrunc(p) \/ invalidate(p)
  <2>1. /\ pc[p] \in {"iput", "itrunc", "invalidate"} /\ pc'[p] \in {"itrunc", "invalidate", "drop"}
        /\ UNCHANGED <<after, cont, path, rest, cur, ip, dp, puts, cwd, file, ofile, ref>>
    BY <1>0, <1>j, <1>3, Zenon DEF TypeInv, Registers, iput, itrunc, invalidate, Goto, opened, regs
  <2>2. Registers' /\ Others(p)
    BY <1>0, <1>j, <1>3, <2>1, Zenon DEF TypeInv, Registers, iput, itrunc, invalidate, Goto, Others, Same
  <2>3. j \in Inums BY <1>0, <1>j, <2>1 DEF CallInv, Putting
  <2>4. Shapes'
    <3>1. dir' \in [Inums -> [Names \cup {".."} -> Inums \cup {Nil}]]
      <4>1. CASE itrunc(p)
        <5>1. [n \in Names \cup {".."} |-> Nil] \in [Names \cup {".."} -> Inums \cup {Nil}] BY Zenon
        <5> QED BY <1>0, <4>1, <5>1, Zenon DEF TypeInv, itrunc
      <4>2. CASE UNCHANGED dir BY <1>0, <4>2, Zenon DEF TypeInv
      <4> QED BY <1>3, <1>j, <4>1, <4>2, Zenon DEF iput, invalidate
    <3>2. DOMAIN holder' = Inums BY <1>0, <1>j, <1>3, Zenon DEF TypeInv, iput, itrunc, invalidate
    <3> QED BY <1>0, <2>1, <3>1, <3>2, Zenon DEF TypeInv, Shapes
  <2>5. Place(p)' = Place(p) BY <2>1, Zenon DEF Place, Putting
  <2>6. CallInv(p)'
    BY <1>0, <2>1, <2>5, Zenon DEF CallInv, HasCur, HasIp, HasDp, Putting, Places
  <2>7. \A i \in Inums : ref'[i] = ref[i] + (Mine(p, i)' - Mine(p, i))
    <3> TAKE i \in Inums
    <3>1. Mine(p, i)' = Mine(p, i) BY <2>1, Zenon DEF Mine, InRegs
    <3>2. Mine(p, i) \in Nat /\ ref[i] \in Nat BY <1>0, MineNat, Zenon DEF TypeInv
    <3> QED BY <2>1, <3>1, <3>2
  <2>8. LockMoved(p)
    <3>1. \A i \in Inums : i # j /\ Holds(p, i) => Holds(p, i)' BY <1>j, <2>1, <2>5, Zenon DEF Holds
    <3>2. \A i \in Inums : i # j => holder'[i] = holder[i]
      BY <1>0, <1>j, <1>3, <2>3, Zenon DEF TypeInv, iput, itrunc, invalidate
    <3>3. holder'[j] = None \/ (holder'[j] = p /\ Holds(p, j)') \/ (holder'[j] = holder[j] /\ holder[j] # p)
      <4>1. CASE iput(p) /\ LastLink(j)
        <5>1. holder'[j] = p /\ pc'[p] = "itrunc"
          BY <1>0, <1>j, <2>3, <4>1, Zenon DEF TypeInv, Registers, iput, Goto
        <5> QED BY <1>j, <2>1, <5>1, Zenon DEF Holds
      <4>2. CASE itrunc(p)
        <5>1. holder'[j] = holder[j] /\ pc'[p] = "invalidate"
          BY <1>0, <4>2, Zenon DEF TypeInv, Registers, itrunc, Goto
        <5> QED BY <1>j, <2>1, <5>1, Zenon DEF Holds
      <4>3. CASE invalidate(p) BY <1>0, <1>j, <2>3, <4>3, Zenon DEF TypeInv, invalidate
      <4> QED BY <1>3, <4>1, <4>2, <4>3, Zenon
    <3>4. p # None BY FsAssumption, Zenon
    <3>5. ASSUME NEW i \in Inums, i # j
          PROVE  \/ holder'[i] = None \/ (holder'[i] = p /\ Holds(p, i)')
                 \/ (holder'[i] = holder[i] /\ holder[i] # p)
      <4>1. holder[i] = p => Holds(p, i) BY <3>4, FsParts, Zenon DEF LockInv
      <4> QED BY <3>1, <3>2, <3>5, <4>1, Zenon
    <3> QED BY <2>3, <3>3, <3>5, Zenon DEF LockMoved
  <2> QED BY <2>1, <2>2, <2>4, <2>6, <2>7, <2>8, Zenon DEF Quiet
<1> QED BY <1>1, <1>2, <1>3, Zenon

-----------------------------------------------------------------------------
(* Steps of a call that is not in iput() *)

\* p has no lock, and takes none.
Unlocking == {"created", "unlink_end", "create_new", "unlink_ip", "unlock_dp", "link_found"}

LEMMA IdleLock ==
  ASSUME FsInv, NEW p \in Procs, UNCHANGED holder, pc[p] \notin Putting \cup Unlocking
  PROVE  LockMoved(p)
<1>1. \A i \in Inums : ~Holds(p, i) BY Zenon DEF Holds, Place, Putting, Unlocking
<1> QED BY <1>1, LockKept, Zenon

\* What p has in hand when it is not in iput().
LEMMA InHand ==
  ASSUME FsInv, NEW p \in Procs, pc[p] \notin Putting
  PROVE  /\ Place(p) = pc[p] /\ puts[p] = <<>> /\ pc[p] \in Places /\ after[p] \in Afters
         /\ path[p] \in Seq(Names \cup {".."}) /\ Elements(rest[p]) \in Seq(Names \cup {".."})
         /\ cur[p] \in IF HasCur(p) THEN Inums ELSE {Nil}
         /\ ip[p] \in IF HasIp(p) THEN Inums ELSE {Nil}
         /\ dp[p] \in IF HasDp(p) THEN Inums ELSE {Nil}
         /\ pc[p] = "namex" => cont[p] \in Conts
         /\ pc[p] \in {"create", "unlink", "link_dp", "create_new", "unlink_ip"} => path[p] # <<>>
         /\ Registers /\ Shapes /\ ref \in [Inums -> Nat] /\ p # None /\ Nil \notin Inums
<1>1. CallInv(p) /\ TypeInv BY FsParts, Zenon
<1>2. Place(p) = pc[p] BY Zenon DEF Place
<1>3. Shapes BY <1>1, Zenon DEF TypeInv, Shapes
<1> QED BY <1>1, <1>2, <1>3, FsAssumption, Zenon DEF CallInv, TypeInv

LEMMA MineIs ==
  ASSUME NEW p, NEW j
  PROVE  /\ puts[p] = <<>> => Mine(p, j) = InRegs(p, j)
         /\ puts'[p] = <<>> => Mine(p, j)' = InRegs(p, j)'
         /\ \A x : puts'[p] = <<x>> => Mine(p, j)' = InRegs(p, j)' + Is(x, j)
         /\ \A x, y : puts'[p] = <<x, y>> => Mine(p, j)' = InRegs(p, j)' + (Is(x, j) + Is(y, j))
<1>1. InRegs(p, j) \in Nat /\ InRegs(p, j)' \in Nat BY IsNat DEF InRegs
<1>2. \A n \in Nat : n + 0 = n OBVIOUS
<1>3. ASSUME puts[p] = <<>> PROVE Mine(p, j) = InRegs(p, j)
  BY <1>1, <1>2, <1>3, ListedIs, Zenon DEF Mine
<1>4. ASSUME puts'[p] = <<>> PROVE Mine(p, j)' = InRegs(p, j)'
  BY <1>1, <1>2, <1>4, ListedIs, Zenon DEF Mine
<1>5. ASSUME NEW x, puts'[p] = <<x>> PROVE Mine(p, j)' = InRegs(p, j)' + Is(x, j)
  <2>1. Listed(puts'[p], j) = Is(x, j) BY <1>5, ListedIs, Zenon
  <2> QED BY <2>1, Zenon DEF Mine
<1>6. ASSUME NEW x, NEW y, puts'[p] = <<x, y>>
      PROVE  Mine(p, j)' = InRegs(p, j)' + (Is(x, j) + Is(y, j))
  <2>1. Listed(<<x, y>>, j) = Is(x, j) + Is(y, j) BY DEF Listed, Is
  <2>2. Listed(puts'[p], j) = Is(x, j) + Is(y, j) BY <1>6, <2>1, Zenon
  <2> QED BY <2>2, Zenon DEF Mine
<1> QED BY <1>3, <1>4, <1>5, <1>6, Zenon

-----------------------------------------------------------------------------
(* namex() *)

LEMMA NamexHas ==
  ASSUME FsInv, NEW p \in Procs, pc[p] = "namex"
  PROVE  /\ pc[p] \notin Putting \cup Unlocking
         /\ cur[p] \in Inums /\ dp[p] = Nil /\ puts[p] = <<>> /\ cont[p] \in Conts
         /\ ip[p] \in IF cont[p] = "link_dp" THEN Inums ELSE {Nil}
         /\ path[p] \in Seq(Names \cup {".."}) /\ Elements(rest[p]) \in Seq(Names \cup {".."})
         /\ Registers /\ Shapes /\ ref \in [Inums -> Nat] /\ after[p] \in Afters
<1>1. pc[p] \notin Putting \cup Unlocking BY Zenon DEF Putting, Unlocking
<1> QED BY <1>1, InHand, Zenon DEF HasCur, HasIp, HasDp, HaveIp, HaveDp

\* Where a step of namex() goes: back to its caller with the inode it has found,
Returns(p) ==
  /\ pc'[p] = cont[p] /\ cur'[p] = Nil /\ puts'[p] = <<>> /\ after'[p] = after[p]
  /\ path'[p] = path[p] /\ \A j \in Inums : ref'[j] = ref[j]
  /\ \/ /\ cont[p] \in {"open", "link", "chdir"}
        /\ ip'[p] = cur[p] /\ dp'[p] = dp[p]
     \/ /\ cont[p] \in {"create", "link_dp", "unlink"} /\ path[p] # <<>>
        /\ dp'[p] = cur[p] /\ ip'[p] = ip[p]

\* or to iput() for the directory it leaves, with the next inode in hand or none.
Leaves(p) ==
  /\ pc'[p] = "iput" /\ puts'[p] = <<cur[p]>> /\ ip'[p] = ip[p] /\ dp'[p] = dp[p]
  /\ path'[p] \in Seq(Names \cup {".."})
  /\ \A j \in Inums : ref'[j] = ref[j] + Is(cur'[p], j)
  /\ \/ cur'[p] \in Inums /\ after'[p] = "namex"
     \/ cur'[p] = Nil /\ after'[p] = IF cont[p] = "link_dp" THEN "link_bad" ELSE "user"

LEMMA ReturnsInv ==
  ASSUME FsInv, NEW p \in Procs, pc[p] = "namex", Returns(p),
         cwd'[p] = cwd[p] /\ rest'[p] = rest[p] /\ cont'[p] = cont[p]
  PROVE  CallInv(p)' /\ \A j \in Inums : ref'[j] = ref[j] + (Mine(p, j)' - Mine(p, j))
<1>1. CallInv(p)'
  <2>1. /\ path'[p] \in Seq(Names \cup {".."}) /\ Elements(rest'[p]) \in Seq(Names \cup {".."})
        /\ cur'[p] = Nil /\ dp[p] = Nil /\ cur[p] \in Inums
        /\ ip[p] \in IF cont[p] = "link_dp" THEN Inums ELSE {Nil}
        /\ cont[p] \in Conts /\ after'[p] \in Afters /\ puts'[p] = <<>>
    BY NamexHas, Zenon DEF Returns
  <2>2. \/ cont[p] \in {"open", "link", "chdir"} /\ ip'[p] = cur[p] /\ dp'[p] = dp[p]
        \/ /\ cont[p] \in {"create", "link_dp", "unlink"} /\ path'[p] # <<>>
           /\ dp'[p] = cur[p] /\ ip'[p] = ip[p]
    BY Zenon DEF Returns
  <2>3. InHandAt(p, cont[p])' BY <2>1, <2>2, Zenon DEF InHandAt, HaveIp, HaveDp
  <2>4. cont[p] \in Places \ Putting BY <2>1, Zenon DEF Conts, Places, Putting
  <2>5. pc'[p] = cont[p] BY Zenon DEF Returns
  <2>6. cont[p] \in {"create", "unlink", "link_dp", "create_new", "unlink_ip"} => path'[p] # <<>>
    BY <2>2, Zenon
  <2> QED BY <2>1, <2>3, <2>4, <2>5, <2>6, CallRuns, Zenon
<1>2. ASSUME NEW j \in Inums PROVE ref'[j] = ref[j] + (Mine(p, j)' - Mine(p, j))
  <2>1. Mine(p, j) = InRegs(p, j) /\ Mine(p, j)' = InRegs(p, j)' /\ ref'[j] = ref[j]
    BY NamexHas, MineIs, Zenon DEF Returns
  <2>2. ref[j] \in Nat BY NamexHas, Zenon
  <2>3. InRegs(p, j)' = InRegs(p, j)
    <3>1. cont[p] # "link_dp" => ip[p] = Nil BY NamexHas, Zenon
    <3> QED BY <3>1, NamexHas, CurMoves, Zenon DEF Returns
  <2> QED BY <2>1, <2>2, <2>3, Balance, Zenon
<1> QED BY <1>1, <1>2, Zenon

LEMMA LeavesInv ==
  ASSUME FsInv, NEW p \in Procs, pc[p] = "namex", Leaves(p),
         cwd'[p] = cwd[p] /\ rest'[p] = rest[p] /\ cont'[p] = cont[p]
  PROVE  CallInv(p)' /\ \A j \in Inums : ref'[j] = ref[j] + (Mine(p, j)' - Mine(p, j))
<1>1. CallInv(p)'
  BY NamexHas DEF Leaves, CallInv, Place, HasCur, HasIp, HasDp, HaveIp, HaveDp, Putting, Places, Afters
<1>2. ASSUME NEW j \in Inums PROVE ref'[j] = ref[j] + (Mine(p, j)' - Mine(p, j))
  <2>1. /\ Mine(p, j) = InRegs(p, j) /\ Mine(p, j)' = InRegs(p, j)' + Is(cur[p], j)
        /\ ref'[j] = ref[j] + Is(cur'[p], j)
    <3>1. puts[p] = <<>> BY NamexHas, Zenon
    <3>2. puts'[p] = <<cur[p]>> /\ ref'[j] = ref[j] + Is(cur'[p], j) BY Zenon DEF Leaves
    <3> QED BY <3>1, <3>2, MineIs, Zenon
  <2>2. ref[j] \in Nat BY NamexHas, Zenon
  <2>3. InRegs(p, j)' + Is(cur[p], j) = InRegs(p, j) + Is(cur'[p], j)
    BY CurMoves, Zenon DEF Leaves
  <2> QED BY <2>1, <2>2, <2>3, Balance, Zenon
<1> QED BY <1>1, <1>2, Zenon

LEMMA NamexQuiet == ASSUME FsInv, NEW p \in Procs, namex(p) PROVE Quiet(p)
<1>i. PICK i : i = cur[p] BY Zenon
<1>1. UNCHANGED <<dir, holder, file, ofile, cwd, rest, cont>> /\ pc[p] = "namex"
  BY Zenon DEF namex, opened
<1>2. /\ Registers /\ Shapes /\ i \in Inums /\ ref \in [Inums -> Nat]
      /\ path[p] \in Seq(Names \cup {".."}) /\ cont[p] \in Conts /\ puts[p] = <<>>
  BY <1>1, <1>i, NamexHas, Zenon
<1>3. Registers' /\ Others(p)
  BY <1>1, <1>2, ZenonT(40) DEF namex, Put, Goto, Registers, Others, Same
<1>4. Shapes' BY <1>1, <1>2, Zenon DEF namex, Look, Update, Shapes
<1>5. LockMoved(p) BY <1>1, NamexHas, IdleLock, Zenon
<1>6. cwd'[p] = cwd[p] /\ rest'[p] = rest[p] /\ cont'[p] = cont[p] BY <1>1, Zenon
<1>n. \A j \in Inums : ref[j] = ref[j] + Is(Nil, j)
  <2>1. ref \in [Inums -> Nat] BY <1>2, Zenon
  <2> QED BY <2>1, IsNat
<1>7. Returns(p) \/ Leaves(p)
  <2>1. CASE /\ path[p] = <<>> /\ ~Parent(cont[p])
             /\ ip' = [ip EXCEPT ![p] = i]
             /\ cur' = [cur EXCEPT ![p] = Nil]
             /\ Goto(p, cont[p])
             /\ UNCHANGED <<ref, dp, path, puts, after>>
    BY <1>i, <1>2, <2>1, Zenon DEF Returns, Goto, Registers, Parent, Conts
  <2>2. CASE /\ path[p] = <<>> /\ Parent(cont[p])
             /\ cur' = [cur EXCEPT ![p] = Nil]
             /\ Put(p, <<i>>, Failed(cont[p]))
             /\ UNCHANGED <<ref, ip, dp, path>>
    BY <1>i, <1>n, <1>2, <2>2, Zenon DEF Leaves, Put, Goto, Registers, Failed
  <2>3. CASE /\ path[p] # <<>> /\ Parent(cont[p])
             /\ Look({i}, {})
             /\ dp' = [dp EXCEPT ![p] = i]
             /\ cur' = [cur EXCEPT ![p] = Nil]
             /\ Goto(p, cont[p])
             /\ UNCHANGED <<ip, path, puts, after>>
    <3>1. \A j \in Inums : ref'[j] = ref[j] BY <2>3, Zenon DEF Look, Update
    <3> QED BY <1>i, <1>2, <2>3, <3>1, Zenon DEF Returns, Goto, Registers, Parent
  <2>4. CASE /\ path[p] # <<>> /\ dirlookup(i, Head(path[p])) # Nil
             /\ Look({i}, {dirlookup(i, Head(path[p]))})
             /\ cur' = [cur EXCEPT ![p] = dirlookup(i, Head(path[p]))]
             /\ path' = [path EXCEPT ![p] = Tail(@)]
             /\ Put(p, <<i>>, "namex")
             /\ UNCHANGED <<ip, dp>>
    <3>e. PICK e : e = dirlookup(i, Head(path[p])) BY Zenon
    <3>1. Head(path[p]) \in Names \cup {".."} /\ Tail(path[p]) \in Seq(Names \cup {".."})
      BY <1>2, <2>4, TailOf, Zenon
    <3>2. e \in Inums BY <1>2, <2>4, <3>e, <3>1 DEF Shapes, dirlookup
    <3>3. \A j \in Inums : ref'[j] = ref[j] + Is(e, j) BY <1>2, <2>4, <3>e DEF Look, Update, Is
    <3> QED BY <1>i, <1>2, <2>4, <3>e, <3>1, <3>2, <3>3, Zenon DEF Leaves, Put, Goto, Registers
  <2>5. CASE /\ Look({i}, {})
             /\ cur' = [cur EXCEPT ![p] = Nil]
             /\ path' = [path EXCEPT ![p] = <<>>]
             /\ Put(p, <<i>>, Failed(cont[p]))
             /\ UNCHANGED <<ip, dp>>
    <3>1. \A j \in Inums : ref'[j] = ref[j] BY <2>5, Zenon DEF Look, Update
    <3>2. path'[p] \in Seq(Names \cup {".."})
      <4>1. <<>> \in Seq(Names \cup {".."}) OBVIOUS
      <4>2. DOMAIN path = Procs BY <1>2, Zenon DEF Registers
      <4> QED BY <2>5, <4>1, <4>2, Zenon
    <3> QED BY <1>i, <1>n, <1>2, <2>5, <3>1, <3>2, Zenon DEF Leaves, Put, Goto, Registers, Failed
  <2> QED BY <1>i, <2>1, <2>2, <2>3, <2>4, <2>5, Zenon DEF namex
<1>8. CallInv(p)' /\ \A j \in Inums : ref'[j] = ref[j] + (Mine(p, j)' - Mine(p, j))
  BY <1>1, <1>6, <1>7, ReturnsInv, LeavesInv, Zenon
<1> QED BY <1>1, <1>3, <1>4, <1>5, <1>8, Zenon DEF Quiet

LEMMA CallStartQuiet == ASSUME FsInv, NEW p \in Procs, Call(p) PROVE Quiet(p)
<1>c. PICK c \in Calls :
        /\ op' = [op EXCEPT ![p] = c[1]]
        /\ rest' = [rest EXCEPT ![p] = c[3]]
        /\ Start(p, c[2], IF c[1] \in {"mkdir", "mknod"} THEN "create" ELSE c[1])
  BY Zenon DEF Call
<1>0. pc[p] = "user" /\ pc[p] \notin Putting \cup Unlocking BY Zenon DEF Call, Putting, Unlocking
<1>s. PICK i : i = IF c[2] # <<>> /\ Head(c[2]) = "/" THEN ROOTINO ELSE cwd[p] BY Zenon
<1>1. /\ cur[p] = Nil /\ ip[p] = Nil /\ dp[p] = Nil /\ puts[p] = <<>> /\ after[p] \in Afters
      /\ Registers /\ Shapes /\ ref \in [Inums -> Nat] /\ i \in Inums
  BY <1>0, <1>s, InHand, FsAssumption, Zenon DEF HasCur, HasIp, HasDp, HaveIp, HaveDp, Shapes
<1>2. /\ UNCHANGED <<dir, holder, file, ofile, cwd, ip, dp, puts, after>>
      /\ cur' = [cur EXCEPT ![p] = i] /\ path' = [path EXCEPT ![p] = Elements(c[2])]
      /\ cont' = [cont EXCEPT ![p] = IF c[1] \in {"mkdir", "mknod"} THEN "create" ELSE c[1]]
      /\ rest' = [rest EXCEPT ![p] = c[3]] /\ pc' = [pc EXCEPT ![p] = "namex"]
      /\ Look({}, {i})
  BY <1>c, <1>s, Zenon DEF Call, Start, Goto, opened
<1>r. ref' = [j \in Inums |-> IF j = i THEN ref[j] + 1 ELSE ref[j]] BY <1>2, Zenon DEF Look, Update
<1>3. Registers' /\ Others(p) BY <1>1, <1>2, Zenon DEF Registers, Others, Same
<1>4. Shapes' BY <1>1, <1>2, <1>r, Zenon DEF Shapes
<1>5. LockMoved(p) BY <1>0, <1>2, IdleLock, Zenon
<1>6. CallInv(p)'
  <2>1. /\ cur'[p] = i /\ path'[p] = Elements(c[2]) /\ rest'[p] = c[3] /\ pc'[p] = "namex"
        /\ cont'[p] = IF c[1] \in {"mkdir", "mknod"} THEN "create" ELSE c[1]
        /\ ip'[p] = Nil /\ dp'[p] = Nil /\ puts'[p] = <<>> /\ after'[p] = after[p]
    BY <1>1, <1>2, Zenon DEF Registers
  <2>2. cont'[p] \in Conts /\ cont'[p] # "link_dp" BY <2>1, FsAssumption, Zenon DEF Conts
  <2>3. Elements(c[2]) \in Seq(Names \cup {".."}) /\ Elements(c[3]) \in Seq(Names \cup {".."})
    BY FsAssumption, Zenon
  <2>4. InHandAt(p, "namex")' BY <1>1, <2>1, <2>2, <2>3, Zenon DEF InHandAt, HaveIp, HaveDp
  <2>5. "namex" \in Places \ Putting BY Zenon DEF Places, Afters, Putting
  <2> QED BY <1>1, <2>1, <2>4, <2>5, CallRuns, Zenon
<1>7. ASSUME NEW j \in Inums PROVE ref'[j] = ref[j] + (Mine(p, j)' - Mine(p, j))
  <2>1. ref'[j] = ref[j] + Is(i, j) BY <1>1, <1>r DEF Is
  <2>2. cur'[p] = i /\ ip'[p] = Nil /\ dp'[p] = Nil /\ puts'[p] = <<>> /\ cwd'[p] = cwd[p]
    BY <1>1, <1>2, Zenon DEF Registers
  <2>3. Mine(p, j) = InRegs(p, j) /\ Mine(p, j)' = InRegs(p, j)' BY <1>1, <2>2, MineIs, Zenon
  <2>4. InRegs(p, j)' = InRegs(p, j) + Is(i, j) BY <1>1, <2>2, CurMoves, Zenon
  <2>5. ref[j] \in Nat BY <1>1, Zenon
  <2> QED BY <2>1, <2>3, <2>4, <2>5, Balance, Zenon
<1> QED BY <1>2, <1>3, <1>4, <1>5, <1>6, <1>7, Zenon DEF Quiet

-----------------------------------------------------------------------------
(* Giving an inode back *)

\* One of the call's two inodes goes to iput(), and l follows.
Gives(p, x, l) ==
  /\ pc' = [pc EXCEPT ![p] = "iput"] /\ after' = [after EXCEPT ![p] = l]
  /\ puts' = [puts EXCEPT ![p] = <<x>>]
  /\ \/ x = ip[p] /\ ip' = [ip EXCEPT ![p] = Nil] /\ dp' = dp
     \/ x = dp[p] /\ dp' = [dp EXCEPT ![p] = Nil] /\ ip' = ip
  /\ path' = path \/ path' = [path EXCEPT ![p] = <<>>]
  /\ rest' = rest \/ rest' = [rest EXCEPT ![p] = <<>>]
  /\ UNCHANGED <<cont, cur, cwd, file, ofile>>

\* What p has at l.
Fits(p, l) ==
  /\ l \in Afters \ {"namex", "link_found"}
  /\ ip[p] \in IF l \in {"link_bad", "created", "create_found", "unlink_end"}
               THEN Inums ELSE {Nil}
  /\ dp[p] \in IF l = "unlock_dp" THEN Inums ELSE {Nil}

LEMMA GiveQuiet ==
  ASSUME FsInv, NEW p \in Procs, pc[p] \notin Putting \cup {"namex"}, NEW x \in Inums, NEW l,
         Gives(p, x, l), Fits(p, l)', ref' = ref, Shapes', LockMoved(p)
  PROVE  Quiet(p)
<1>1. /\ cur[p] = Nil /\ puts[p] = <<>> /\ path[p] \in Seq(Names \cup {".."})
      /\ Elements(rest[p]) \in Seq(Names \cup {".."}) /\ Registers /\ ref \in [Inums -> Nat]
  BY InHand, Zenon DEF HasCur
<1>2. Registers' /\ Others(p) BY <1>1, Zenon DEF Gives, Registers, Others, Same
<1>3. /\ pc'[p] = "iput" /\ after'[p] = l /\ puts'[p] = <<x>> /\ cur'[p] = Nil /\ cwd'[p] = cwd[p]
      /\ path'[p] = path[p] \/ path'[p] = <<>>
      /\ rest'[p] = rest[p] \/ rest'[p] = <<>>
  BY <1>1, Zenon DEF Gives, Registers
<1>4. CallInv(p)'
  <2>1. /\ l \in Afters \ {"namex", "link_found"}
        /\ ip'[p] \in IF l \in {"link_bad", "created", "create_found", "unlink_end"}
                      THEN Inums ELSE {Nil}
        /\ dp'[p] \in IF l = "unlock_dp" THEN Inums ELSE {Nil}
    BY Zenon DEF Fits
  <2>2. path'[p] \in Seq(Names \cup {".."}) /\ Elements(rest'[p]) \in Seq(Names \cup {".."})
    <3>1. <<>> \in Seq(Names \cup {".."}) /\ Elements(<<>>) = <<>> BY DEF Elements
    <3> QED BY <1>1, <1>3, <3>1, Zenon
  <2>3. InHandAt(p, l)'
    <3>1. ip'[p] \in Inums \/ ip'[p] = Nil BY <2>1, Zenon
    <3> QED BY <1>3, <2>1, <2>2, Zenon DEF InHandAt, HaveIp, HaveDp, Afters
  <2> QED BY <1>3, <2>1, <2>3, ShortList, CallPuts, Zenon
<1>5. ASSUME NEW j \in Inums PROVE ref'[j] = ref[j] + (Mine(p, j)' - Mine(p, j))
  <2>1. Mine(p, j) = InRegs(p, j) /\ Mine(p, j)' = InRegs(p, j)' + Is(x, j)
    BY <1>1, <1>3, MineIs, Zenon
  <2>2. \/ x = ip[p] /\ ip'[p] = Nil /\ dp'[p] = dp[p]
        \/ x = dp[p] /\ dp'[p] = Nil /\ ip'[p] = ip[p]
    BY <1>1, Zenon DEF Gives, Registers
  <2>3. InRegs(p, j) = InRegs(p, j)' + Is(x, j) BY <1>1, <1>3, <2>2, RegMoves, Zenon
  <2>4. ref[j] \in Nat /\ ref'[j] = ref[j] BY <1>1, Zenon
  <2> QED BY <2>1, <2>3, <2>4, Balance, Zenon
<1>6. UNCHANGED <<file, ofile>> BY Zenon DEF Gives
<1> QED BY <1>2, <1>4, <1>5, <1>6, Zenon DEF Quiet

\* Without iget() the counts stay.
LEMMA NoGet == ASSUME FsInv, NEW S, NEW new, Update(S, new, {}) PROVE ref' = ref
BY FsParts, Zenon DEF TypeInv, Update

\* iunlockput(ip) at the end of a call, with no other lock held.
LEMMA GiveIpQuiet ==
  ASSUME FsInv, NEW p \in Procs, pc[p] \in {"open", "create_found", "link", "link_bad", "chdir"},
         Gives(p, ip[p], "user"), ip'[p] = Nil, ref' = ref, UNCHANGED <<dir, holder>>
  PROVE  Quiet(p)
<1>1. pc[p] \notin Putting \cup Unlocking \cup {"namex"} BY Zenon DEF Putting, Unlocking
<1>2. ip[p] \in Inums /\ dp[p] = Nil /\ Registers /\ Shapes
  BY <1>1, InHand, Zenon DEF HasIp, HasDp, HaveIp, HaveDp
<1>3. Shapes' BY <1>2, Zenon DEF Gives, Shapes
<1>4. dp'[p] = Nil BY <1>2, Zenon DEF Gives, Registers
<1>5. Fits(p, "user")' BY <1>4, Zenon DEF Fits, Afters
<1>6. LockMoved(p) BY <1>1, IdleLock, Zenon
<1> QED BY <1>1, <1>2, <1>3, <1>5, <1>6, GiveQuiet, Zenon

LEMMA LinkBadQuiet == ASSUME FsInv, NEW p \in Procs, LinkBad(p) PROVE Quiet(p)
<1>1. ref' = ref BY NoGet, Zenon DEF LinkBad
<1>2. DOMAIN ip = Procs BY FsParts, Zenon DEF TypeInv, Registers
<1>3. Gives(p, ip[p], "user") /\ ip'[p] = Nil BY <1>2, Zenon DEF LinkBad, Put, Goto, Gives, opened
<1> QED BY <1>1, <1>3, GiveIpQuiet, Zenon DEF LinkBad

\* p unlocks S and locks T.
LEMMA LockChange ==
  ASSUME FsInv, NEW p \in Procs, NEW S, NEW T,
         \A i \in Inums : holder'[i] = IF i \in T THEN p ELSE IF i \in S THEN None ELSE holder[i],
         \A i \in Inums \cap T : Holds(p, i)',
         \A i \in Inums \ S : Holds(p, i) => Holds(p, i)'
  PROVE  LockMoved(p)
<1> SUFFICES ASSUME NEW i \in Inums
             PROVE  \/ holder'[i] = None \/ (holder'[i] = p /\ Holds(p, i)')
                    \/ (holder'[i] = holder[i] /\ holder[i] # p)
  BY Zenon DEF LockMoved
<1>1. p # None BY FsAssumption, Zenon
<1>2. holder[i] = p => Holds(p, i) BY <1>1, FsParts, Zenon DEF LockInv
<1> QED BY <1>2, Zenon

LEMMA UnlinkEndQuiet == ASSUME FsInv, NEW p \in Procs, UnlinkEnd(p) PROVE Quiet(p)
<1>i. PICK i : i = ip[p] BY Zenon
<1>0. pc[p] = "unlink_end" /\ pc[p] \notin Putting \cup {"namex"} BY Zenon DEF UnlinkEnd, Putting
<1>1. i \in Inums /\ dp[p] = Nil /\ Place(p) = "unlink_end" /\ Registers /\ Shapes
  BY <1>i, <1>0, InHand, Zenon DEF HasIp, HasDp, HaveIp, HaveDp
<1>2. ref' = ref BY NoGet, Zenon DEF UnlinkEnd
<1>3. Gives(p, i, "user") /\ ip'[p] = Nil /\ dp'[p] = Nil
  BY <1>i, <1>1, Zenon DEF UnlinkEnd, Put, Goto, Gives, opened, Registers
<1>4. Shapes' BY <1>1, <1>2, Zenon DEF UnlinkEnd, Shapes, opened
<1>5. Fits(p, "user")' BY <1>3, Zenon DEF Fits, Afters
<1>6. LockMoved(p)
  <2>1. \A j \in Inums : holder'[j] = IF j \in {} THEN p ELSE IF j \in {i} THEN None ELSE holder[j]
    BY <1>i, <1>1, Zenon DEF UnlinkEnd, Shapes
  <2>2. \A j \in Inums \cap {} : Holds(p, j)' BY Zenon
  <2>3. \A j \in Inums \ {i} : Holds(p, j) => Holds(p, j)' BY <1>i, <1>0, <1>1, Zenon DEF Holds
  <2> QED BY <2>1, <2>2, <2>3, LockChange, Zenon
<1> QED BY <1>0, <1>1, <1>2, <1>3, <1>4, <1>5, <1>6, GiveQuiet, Zenon

\* The end of a call that has locked the directory, too.
LEMMA GiveLocked ==
  ASSUME FsInv, NEW p \in Procs, pc[p] \in {"create_new", "unlink_ip"},
         Gives(p, ip[p], "unlock_dp"), ip'[p] = Nil, dp' = dp, ref' = ref, UNCHANGED <<dir, holder>>
  PROVE  Quiet(p)
<1>1. pc[p] \notin Putting \cup {"namex"} BY Zenon DEF Putting
<1>2. ip[p] \in Inums /\ dp[p] \in Inums /\ Registers /\ Shapes /\ Place(p) = pc[p]
  BY <1>1, InHand, Zenon DEF HasIp, HasDp, HaveIp, HaveDp
<1>3. Shapes' BY <1>2, Zenon DEF Gives, Shapes
<1>5. Fits(p, "unlock_dp")' BY <1>2, Zenon DEF Fits, Afters
<1>6. LockMoved(p)
  <2>1. Place(p)' = "unlock_dp" BY <1>2, Zenon DEF Gives, Place, Putting, Registers
  <2>2. \A i \in Inums : Holds(p, i) => Holds(p, i)' BY <1>2, <2>1, Zenon DEF Holds
  <2> QED BY <2>2, LockKept, Zenon
<1> QED BY <1>1, <1>2, <1>3, <1>5, <1>6, GiveQuiet, Zenon

LEMMA CreateFailQuiet == ASSUME FsInv, NEW p \in Procs, CreateFail(p) PROVE Quiet(p)
<1>1. ref' = ref BY NoGet, Zenon DEF CreateFail
<1>2. DOMAIN ip = Procs BY FsParts, Zenon DEF TypeInv, Registers
<1>3. Gives(p, ip[p], "unlock_dp") /\ ip'[p] = Nil BY <1>2, Zenon DEF CreateFail, Put, Goto, Gives, opened
<1> QED BY <1>1, <1>3, GiveLocked, Zenon DEF CreateFail

LEMMA UnlinkRefuseQuiet == ASSUME FsInv, NEW p \in Procs, UnlinkRefuse(p) PROVE Quiet(p)
<1>1. ref' = ref BY NoGet, Zenon DEF UnlinkRefuse, Look
<1>2. DOMAIN ip = Procs BY FsParts, Zenon DEF TypeInv, Registers
<1>3. Gives(p, ip[p], "unlock_dp") /\ ip'[p] = Nil BY <1>2, Zenon DEF UnlinkRefuse, Put, Goto, Gives, opened
<1> QED BY <1>1, <1>3, GiveLocked, Zenon DEF UnlinkRefuse

LEMMA UnlockDpQuiet == ASSUME FsInv, NEW p \in Procs, UnlockDp(p) PROVE Quiet(p)
<1>d. PICK d : d = dp[p] BY Zenon
<1>0. pc[p] = "unlock_dp" /\ pc[p] \notin Putting \cup {"namex"} BY Zenon DEF UnlockDp, Putting
<1>1. d \in Inums /\ ip[p] = Nil /\ Place(p) = "unlock_dp" /\ Registers /\ Shapes
  BY <1>d, <1>0, InHand, Zenon DEF HasIp, HasDp, HaveIp, HaveDp
<1>3. Gives(p, d, "user") /\ ip'[p] = Nil /\ dp'[p] = Nil
  BY <1>d, <1>1, Zenon DEF UnlockDp, Put, Goto, Gives, opened, Registers
<1>4. Shapes' BY <1>1, Zenon DEF UnlockDp, Shapes, opened
<1>5. Fits(p, "user")' BY <1>3, Zenon DEF Fits, Afters
<1>6. LockMoved(p)
  <2>1. \A j \in Inums : holder'[j] = IF j \in {} THEN p ELSE IF j \in {d} THEN None ELSE holder[j]
    BY <1>d, <1>1, Zenon DEF UnlockDp, Shapes
  <2>2. \A j \in Inums \cap {} : Holds(p, j)' BY Zenon
  <2>3. \A j \in Inums \ {d} : Holds(p, j) => Holds(p, j)' BY <1>d, <1>0, <1>1, Zenon DEF Holds
  <2> QED BY <2>1, <2>2, <2>3, LockChange, Zenon
<1>7. ref' = ref BY Zenon DEF UnlockDp
<1> QED BY <1>0, <1>1, <1>3, <1>4, <1>5, <1>6, <1>7, GiveQuiet, Zenon

LEMMA LinkFoundQuiet == ASSUME FsInv, NEW p \in Procs, LinkFound(p) PROVE Quiet(p)
<1>d. PICK d : d = dp[p] BY Zenon
<1>0. pc[p] = "link_found" /\ pc[p] \notin Putting \cup {"namex"} BY Zenon DEF LinkFound, Putting
<1>1. d \in Inums /\ ip[p] \in Inums /\ Place(p) = "link_found" /\ Registers /\ Shapes
  BY <1>d, <1>0, InHand, Zenon DEF HasIp, HasDp, HaveIp, HaveDp
<1>3. Gives(p, d, "link_bad") /\ ip'[p] = ip[p] /\ dp'[p] = Nil
  BY <1>d, <1>1, Zenon DEF LinkFound, Put, Goto, Gives, opened, Registers
<1>4. Shapes' BY <1>1, Zenon DEF LinkFound, Shapes, opened
<1>5. Fits(p, "link_bad")' BY <1>1, <1>3, Zenon DEF Fits, Afters
<1>6. LockMoved(p)
  <2>1. \A j \in Inums : holder'[j] = IF j \in {} THEN p ELSE IF j \in {d} THEN None ELSE holder[j]
    BY <1>d, <1>1, Zenon DEF LinkFound, Shapes
  <2>2. \A j \in Inums \cap {} : Holds(p, j)' BY Zenon
  <2>3. \A j \in Inums \ {d} : Holds(p, j) => Holds(p, j)' BY <1>d, <1>0, <1>1, Zenon DEF Holds
  <2> QED BY <2>1, <2>2, <2>3, LockChange, Zenon
<1>7. ref' = ref BY Zenon DEF LinkFound
<1> QED BY <1>0, <1>1, <1>3, <1>4, <1>5, <1>6, <1>7, GiveQuiet, Zenon

-----------------------------------------------------------------------------
(* The other steps of the system calls *)

LEMMA OpenStep == ASSUME FsInv, NEW p \in Procs, sys_open(p) \/ CreateFound(p) PROVE Quiet(p) \/ Takes(p)
<1>0. /\ pc[p] \in {"open", "create_found"} /\ pc[p] \notin Putting \cup Unlocking
      /\ path' = path \/ path' = [path EXCEPT ![p] = <<>>]
      /\ UNCHANGED <<dir, holder, cwd, rest, cur, dp>>
  BY Zenon DEF sys_open, CreateFound, Putting, Unlocking
<1>1. ref' = ref BY NoGet, Zenon DEF sys_open, CreateFound, Look
<1>2. Registers /\ Shapes BY <1>0, InHand, Zenon
<1>3. Shapes' /\ LockMoved(p) BY <1>0, <1>1, <1>2, IdleLock, Zenon DEF Shapes
<1>4. CASE OpenFile(p, ip[p]) /\ filealloc # {} /\ fdalloc(p) # {}
  <2>1. TakesFile(p) BY <1>0, <1>4, Zenon DEF OpenFile, TakesFile
  <2> QED BY <1>0, <1>1, <1>3, <2>1, Zenon DEF Takes
<1>5. CASE /\ ip' = [ip EXCEPT ![p] = Nil] /\ Put(p, <<ip[p]>>, "user")
           /\ UNCHANGED <<file, ofile, op, cont>>
  <2>1. Gives(p, ip[p], "user") /\ ip'[p] = Nil BY <1>0, <1>2, <1>5, Zenon DEF Put, Goto, Gives, Registers
  <2> QED BY <1>0, <1>1, <2>1, GiveIpQuiet, Zenon
<1> QED BY <1>4, <1>5, Zenon DEF sys_open, CreateFound, OpenFile, Refuse

LEMMA CreatedStep == ASSUME FsInv, NEW p \in Procs, Created(p) PROVE Quiet(p) \/ Takes(p)
<1>i. PICK i : i = ip[p] BY Zenon
<1>0. /\ pc[p] = "created" /\ pc[p] \notin Putting \cup {"namex"}
      /\ UNCHANGED <<dir, ref, cwd, path, rest, cur, dp>>
  BY Zenon DEF Created, Putting
<1>1. i \in Inums /\ dp[p] = Nil /\ Registers /\ Shapes /\ Place(p) = "created"
  BY <1>i, <1>0, InHand, Zenon DEF HasIp, HasDp, HaveIp, HaveDp
<1>2. Shapes' BY <1>0, <1>1, Zenon DEF Created, Shapes
<1>3. LockMoved(p)
  <2>1. \A j \in Inums : holder'[j] = IF j \in {} THEN p ELSE IF j \in {i} THEN None ELSE holder[j]
    BY <1>i, <1>1, Zenon DEF Created, Shapes
  <2>2. \A j \in Inums \cap {} : Holds(p, j)' BY Zenon
  <2>3. \A j \in Inums \ {i} : Holds(p, j) => Holds(p, j)' BY <1>i, <1>0, <1>1, Zenon DEF Holds
  <2> QED BY <2>1, <2>2, <2>3, LockChange, Zenon
<1>4. CASE OpenFile(p, ip[p]) /\ filealloc # {} /\ fdalloc(p) # {}
  <2>1. TakesFile(p) BY <1>0, <1>4, Zenon DEF OpenFile, TakesFile
  <2> QED BY <1>0, <1>2, <1>3, <2>1, Zenon DEF Takes
<1>5. CASE /\ ip' = [ip EXCEPT ![p] = Nil] /\ Put(p, <<ip[p]>>, "user")
           /\ UNCHANGED <<file, ofile, op, cont>>
  <2>1. Gives(p, i, "user") /\ ip'[p] = Nil /\ dp'[p] = Nil
    BY <1>i, <1>0, <1>1, <1>5, Zenon DEF Put, Goto, Gives, Registers
  <2>2. Fits(p, "user")' BY <2>1, Zenon DEF Fits, Afters
  <2> QED BY <1>0, <1>1, <1>2, <1>3, <2>1, <2>2, GiveQuiet, Zenon
<1> QED BY <1>4, <1>5, Zenon DEF Created, OpenFile

\* dp is locked, and ip found or allocated.
GetsLocked(p, e, l) ==
  /\ ip' = [ip EXCEPT ![p] = e] /\ pc' = [pc EXCEPT ![p] = l]
  /\ holder' = [holder EXCEPT ![dp[p]] = p]
  /\ UNCHANGED <<dir, file, ofile, cwd, path, rest, cont, cur, dp, puts, after>>

LEMMA GetLockedQuiet ==
  ASSUME FsInv, NEW p \in Procs, pc[p] \in {"create", "unlink"}, NEW e \in Inums,
         NEW l \in {"create_new", "unlink_ip"}, GetsLocked(p, e, l),
         ref' = [j \in Inums |-> ref[j] + Is(e, j)]
  PROVE  Quiet(p)
<1>d. PICK d : d = dp[p] BY Zenon
<1>0. pc[p] \notin Putting \cup Unlocking BY Zenon DEF Putting, Unlocking
<1>1. /\ d \in Inums /\ ip[p] = Nil /\ cur[p] = Nil /\ puts[p] = <<>> /\ path[p] # <<>>
      /\ path[p] \in Seq(Names \cup {".."}) /\ Elements(rest[p]) \in Seq(Names \cup {".."})
      /\ after[p] \in Afters /\ Registers /\ Shapes /\ ref \in [Inums -> Nat] /\ Place(p) = pc[p]
  BY <1>d, <1>0, InHand, Zenon DEF HasCur, HasIp, HasDp, HaveIp, HaveDp
<1>2. Registers' /\ Others(p) BY <1>1, Zenon DEF GetsLocked, Registers, Others, Same
<1>3. Shapes' BY <1>1, Zenon DEF GetsLocked, Shapes
<1>4. /\ ip'[p] = e /\ pc'[p] = l /\ dp'[p] = d /\ cur'[p] = Nil /\ puts'[p] = <<>> /\ cwd'[p] = cwd[p]
      /\ path'[p] = path[p] /\ rest'[p] = rest[p] /\ after'[p] = after[p]
  BY <1>d, <1>1, Zenon DEF GetsLocked, Registers
<1>5. Place(p)' = l BY <1>4, Zenon DEF Place, Putting
<1>6. CallInv(p)'
  <2>1. InHandAt(p, l)' BY <1>1, <1>4, Zenon DEF InHandAt, HaveIp, HaveDp
  <2>2. l \in Places \ Putting BY Zenon DEF Places, Putting
  <2> QED BY <1>1, <1>4, <2>1, <2>2, CallRuns, Zenon
<1>7. ASSUME NEW j \in Inums PROVE ref'[j] = ref[j] + (Mine(p, j)' - Mine(p, j))
  <2>1. Mine(p, j) = InRegs(p, j) /\ Mine(p, j)' = InRegs(p, j)' BY <1>1, <1>4, MineIs, Zenon
  <2>2. InRegs(p, j)' = InRegs(p, j) + Is(e, j)
    <3>1. cwd'[p] = cwd[p] /\ cur'[p] = cur[p] /\ ip[p] = Nil /\ dp'[p] = dp[p]
      BY <1>d, <1>1, <1>4, Zenon
    <3>2. InRegs(p, j)' = InRegs(p, j) + Is(ip'[p], j) BY <3>1, RegMoves, Zenon
    <3> QED BY <1>4, <3>2, Zenon
  <2>3. ref[j] \in Nat /\ ref'[j] = ref[j] + Is(e, j) BY <1>1, Zenon
  <2> QED BY <2>1, <2>2, <2>3, Balance, Zenon
<1>8. LockMoved(p)
  <2>1. \A j \in Inums : holder'[j] = IF j \in {d} THEN p ELSE IF j \in {} THEN None ELSE holder[j]
    BY <1>d, <1>1, Zenon DEF GetsLocked, Shapes
  <2>2. \A j \in Inums \cap {d} : Holds(p, j)' BY <1>4, <1>5, Zenon DEF Holds
  <2>3. \A j \in Inums \ {} : Holds(p, j) => Holds(p, j)' BY <1>0, <1>1, Zenon DEF Holds, Putting, Unlocking
  <2> QED BY <2>1, <2>2, <2>3, LockChange, Zenon
<1>9. UNCHANGED <<file, ofile>> BY Zenon DEF GetsLocked
<1> QED BY <1>2, <1>3, <1>6, <1>7, <1>8, <1>9, Zenon DEF Quiet

\* ip is locked, and dp let go.
LEMMA SwapLockQuiet ==
  ASSUME FsInv, NEW p \in Procs, pc[p] \in {"create_new", "unlink_ip"},
         NEW l \in {"created", "unlink_end"}, Gives(p, dp[p], l), dp'[p] = Nil, ip' = ip, ref' = ref,
         dir' \in [Inums -> [Names \cup {".."} -> Inums \cup {Nil}]],
         holder' = [holder EXCEPT ![dp[p]] = None, ![ip[p]] = p]
  PROVE  Quiet(p)
<1>d. PICK d : d = dp[p] BY Zenon
<1>i. PICK i : i = ip[p] BY Zenon
<1>0. pc[p] \notin Putting \cup {"namex"} BY Zenon DEF Putting
<1>1. /\ d \in Inums /\ i \in Inums /\ Registers /\ Shapes /\ Place(p) = pc[p]
  BY <1>d, <1>i, <1>0, InHand, Zenon DEF HasIp, HasDp, HaveIp, HaveDp
<1>2. Shapes' BY <1>1, Zenon DEF Gives, Shapes
<1>3. Fits(p, l)' BY <1>i, <1>1, Zenon DEF Fits, Afters
<1>4. LockMoved(p)
  <2>1. \A j \in Inums : holder'[j] = IF j \in {i} THEN p ELSE IF j \in {d} THEN None ELSE holder[j]
    BY <1>d, <1>i, <1>1, Zenon DEF Shapes
  <2>p. Place(p)' = l BY <1>1, Zenon DEF Gives, Place, Putting, Registers
  <2>2. \A j \in Inums \cap {i} : Holds(p, j)' BY <1>i, <2>p, Zenon DEF Holds
  <2>3. \A j \in Inums \ {d} : Holds(p, j) => Holds(p, j)' BY <1>d, <1>1, Zenon DEF Holds
  <2> QED BY <2>1, <2>2, <2>3, LockChange, ZenonT(40)
<1>5. Gives(p, d, l) BY <1>d, Zenon
<1> QED BY <1>0, <1>1, <1>2, <1>3, <1>4, <1>5, GiveQuiet, Zenon

\* iunlockput(dp), with no other lock held.
LEMMA GiveDpQuiet ==
  ASSUME FsInv, NEW p \in Procs, pc[p] \in {"create", "unlink", "link_dp"}, NEW l,
         l = IF pc[p] = "link_dp" THEN "link_bad" ELSE "user",
         Gives(p, dp[p], l), dp'[p] = Nil, ip' = ip, ref' = ref, UNCHANGED <<dir, holder>>
  PROVE  Quiet(p)
<1>1. pc[p] \notin Putting \cup Unlocking \cup {"namex"} BY Zenon DEF Putting, Unlocking
<1>2. dp[p] \in Inums /\ ip[p] \in (IF l = "link_bad" THEN Inums ELSE {Nil}) /\ Shapes
  BY <1>1, InHand, Zenon DEF HasIp, HasDp, HaveIp, HaveDp
<1>3. Shapes' BY <1>2, Zenon DEF Gives, Shapes
<1>4. Fits(p, l)' BY <1>2, Zenon DEF Fits, Afters
<1>5. LockMoved(p) BY <1>1, IdleLock, Zenon
<1> QED BY <1>1, <1>2, <1>3, <1>4, <1>5, GiveQuiet, Zenon

\* dirlink() and its inverse.
LEMMA EntryType ==
  \A t \in [Inums -> [Names \cup {".."} -> Inums \cup {Nil}]],
     d \in Inums, n \in Names \cup {".."}, i \in Inums \cup {Nil} :
    [t EXCEPT ![d][n] = i] \in [Inums -> [Names \cup {".."} -> Inums \cup {Nil}]]
<1> TAKE t \in [Inums -> [Names \cup {".."} -> Inums \cup {Nil}]],
         d \in Inums, n \in Names \cup {".."}, i \in Inums \cup {Nil}
<1>1. [t[d] EXCEPT ![n] = i] \in [Names \cup {".."} -> Inums \cup {Nil}] BY Zenon
<1> QED BY <1>1, Zenon

\* The element that the call is about to look up or to make.
LEMMA LastElement ==
  ASSUME FsInv, NEW p \in Procs, pc[p] \in {"create", "unlink", "link_dp", "create_new", "unlink_ip"}
  PROVE  Head(path[p]) \in Names \cup {".."} /\ dp[p] \in Inums /\ Registers /\ ref \in [Inums -> Nat]
<1>1. pc[p] \notin Putting BY Zenon DEF Putting
<1>2. /\ path[p] # <<>> /\ path[p] \in Seq(Names \cup {".."}) /\ dp[p] \in Inums /\ Registers
      /\ ref \in [Inums -> Nat]
  BY <1>1, InHand, Zenon DEF HasDp, HaveDp
<1> QED BY <1>2, TailOf, Zenon

LEMMA CreateNewQuiet == ASSUME FsInv, NEW p \in Procs, CreateNew(p) PROVE Quiet(p)
<1>0. pc[p] = "create_new" /\ pc[p] \notin Putting BY Zenon DEF CreateNew, Putting
<1>1. ref' = ref BY NoGet, Zenon DEF CreateNew
<1>2. /\ Head(path[p]) \in Names \cup {".."} /\ dp[p] \in Inums /\ Registers
  BY <1>0, LastElement, Zenon
<1>3. ip[p] \in Inums /\ Shapes BY <1>0, InHand, Zenon DEF HasIp, HaveIp
<1>4. dir' \in [Inums -> [Names \cup {".."} -> Inums \cup {Nil}]]
  <2> DEFINE t == IF op[p] = "mkdir" THEN [dir EXCEPT ![ip[p]][".."] = dp[p]] ELSE dir
  <2>1. t \in [Inums -> [Names \cup {".."} -> Inums \cup {Nil}]] BY <1>2, <1>3, EntryType, Zenon DEF Shapes
  <2>2. dir' = [t EXCEPT ![dp[p]][Head(path[p])] = ip[p]] BY Zenon DEF CreateNew, dirlink
  <2> HIDE DEF t
  <2> QED BY <1>2, <1>3, <2>1, <2>2, EntryType, Zenon
<1>5. Gives(p, dp[p], "created") /\ dp'[p] = Nil
  BY <1>2, Zenon DEF CreateNew, Put, Goto, Gives, opened, Registers
<1> QED BY <1>0, <1>1, <1>4, <1>5, SwapLockQuiet, Zenon DEF CreateNew

LEMMA UnlinkIpQuiet == ASSUME FsInv, NEW p \in Procs, UnlinkIp(p) PROVE Quiet(p)
<1>0. pc[p] = "unlink_ip" /\ pc[p] \notin Putting BY Zenon DEF UnlinkIp, Putting
<1>1. ref' = ref BY NoGet, Zenon DEF UnlinkIp
<1>2. /\ Head(path[p]) \in Names \cup {".."} /\ dp[p] \in Inums /\ Registers
  BY <1>0, LastElement, Zenon
<1>3. dir \in [Inums -> [Names \cup {".."} -> Inums \cup {Nil}]] BY FsParts, Zenon DEF TypeInv
<1>4. dir' \in [Inums -> [Names \cup {".."} -> Inums \cup {Nil}]]
  BY <1>2, <1>3, EntryType, Zenon DEF UnlinkIp
<1>5. Gives(p, dp[p], "unlink_end") /\ dp'[p] = Nil
  BY <1>2, Zenon DEF UnlinkIp, Put, Goto, Gives, opened, Registers
<1> QED BY <1>0, <1>1, <1>4, <1>5, SwapLockQuiet, Zenon DEF UnlinkIp

\* The inode that a directory has for a name.
LEMMA Looked ==
  ASSUME FsInv, NEW p \in Procs, pc[p] \in {"create", "unlink", "link_dp"}, NEW S, NEW e,
         e = dirlookup(dp[p], Head(path[p])), e # Nil, Look(S, {e})
  PROVE  e \in Inums /\ ref' = [j \in Inums |-> ref[j] + Is(e, j)]
<1>1. Head(path[p]) \in Names \cup {".."} /\ dp[p] \in Inums /\ ref \in [Inums -> Nat] BY LastElement, Zenon
<1>2. dir \in [Inums -> [Names \cup {".."} -> Inums \cup {Nil}]] BY FsParts, Zenon DEF TypeInv
<1>3. e \in Inums BY <1>1, <1>2, ZenonT(40) DEF dirlookup
<1> QED BY <1>1, <1>3 DEF Look, Update, Is

LEMMA CreateQuiet ==
  ASSUME FsInv, NEW p \in Procs, create(p), Allocatable # {} => Min(Allocatable) \in Allocatable
  PROVE  Quiet(p)
<1>d. PICK d : d = dp[p] BY Zenon
<1>e. PICK e : e = dirlookup(dp[p], Head(path[p])) BY Zenon
<1>0. pc[p] = "create" /\ pc[p] \notin Putting \cup Unlocking BY Zenon DEF create, Putting, Unlocking
<1>1. /\ d \in Inums /\ ip[p] = Nil /\ cur[p] = Nil /\ puts[p] = <<>>
      /\ path[p] \in Seq(Names \cup {".."}) /\ Elements(rest[p]) \in Seq(Names \cup {".."})
      /\ Registers /\ Shapes /\ ref \in [Inums -> Nat]
  BY <1>d, <1>0, InHand, Zenon DEF HasCur, HasIp, HasDp, HaveIp, HaveDp
<1>2. UNCHANGED <<dir, file, ofile, cwd, path, rest, cont, cur>> BY Zenon DEF create, opened
<1>3. CASE /\ e # Nil /\ Look({d}, {e})
           /\ ip' = [ip EXCEPT ![p] = e] /\ dp' = [dp EXCEPT ![p] = Nil]
           /\ Put(p, <<d>>, "create_found") /\ UNCHANGED holder
  <2>1. e \in Inums /\ ref' = [j \in Inums |-> ref[j] + Is(e, j)] BY <1>e, <1>0, <1>3, Looked, ZenonT(40)
  <2>2. Registers' /\ Others(p) BY <1>1, <1>2, <1>3, Zenon DEF Put, Goto, Registers, Others, Same
  <2>3. Shapes' BY <1>1, <1>2, <1>3, <2>1, Zenon DEF Shapes
  <2>4. /\ ip'[p] = e /\ pc'[p] = "iput" /\ dp'[p] = Nil /\ cur'[p] = Nil /\ puts'[p] = <<d>>
        /\ cwd'[p] = cwd[p] /\ path'[p] = path[p] /\ rest'[p] = rest[p] /\ after'[p] = "create_found"
    BY <1>1, <1>2, <1>3, Zenon DEF Put, Goto, Registers
  <2>5. CallInv(p)'
    <3>1. InHandAt(p, "create_found")'
      BY <1>1, <2>1, <2>4, Zenon DEF InHandAt, HaveIp, HaveDp
    <3>2. "create_found" \in Afters BY Zenon DEF Afters
    <3> QED BY <1>1, <2>4, <3>1, <3>2, ShortList, CallPuts, Zenon
  <2>6. ASSUME NEW j \in Inums PROVE ref'[j] = ref[j] + (Mine(p, j)' - Mine(p, j))
    <3>1. Mine(p, j) = InRegs(p, j) /\ Mine(p, j)' = InRegs(p, j)' + Is(d, j)
      BY <1>1, <2>4, MineIs, Zenon
    <3>2. InRegs(p, j)' + Is(d, j) = InRegs(p, j) + Is(e, j) BY <1>d, <1>1, <2>4, RegMoves, Zenon
    <3>3. ref[j] \in Nat /\ ref'[j] = ref[j] + Is(e, j) BY <1>1, <2>1, Zenon
    <3> QED BY <3>1, <3>2, <3>3, Balance, Zenon
  <2>7. LockMoved(p) BY <1>0, <1>3, IdleLock, Zenon
  <2> QED BY <1>2, <2>2, <2>3, <2>5, <2>6, <2>7, Zenon DEF Quiet
<1>4. CASE /\ Look({d}, {}) /\ dp' = [dp EXCEPT ![p] = Nil]
           /\ Put(p, <<d>>, "user") /\ UNCHANGED <<holder, ip>>
  <2>1. Gives(p, dp[p], "user") /\ dp'[p] = Nil BY <1>d, <1>1, <1>2, <1>4, Zenon DEF Put, Goto, Gives, Registers
  <2>2. ref' = ref BY <1>4, NoGet, Zenon DEF Look
  <2> QED BY <1>0, <1>2, <1>4, <2>1, <2>2, GiveDpQuiet, Zenon
<1>5. CASE LET new == Min(Allocatable) IN
           /\ Allocatable # {}
           /\ ref' = [ref EXCEPT ![new] = @ + 1]
           /\ holder' = [holder EXCEPT ![d] = p]
           /\ ip' = [ip EXCEPT ![p] = new]
           /\ Goto(p, "create_new")
           /\ UNCHANGED <<dp, puts, after>>
  <2>n. PICK new : new = Min(Allocatable) BY Zenon
  <2>1. new \in Inums
    <3>1. Allocatable \in SUBSET Nat /\ Allocatable \subseteq Inums BY FsAssumption, Zenon DEF Allocatable
    <3> QED BY <1>5, <2>n, <3>1, Zenon
  <2>2. ref' = [j \in Inums |-> ref[j] + Is(new, j)]
    <3>1. ref' = [ref EXCEPT ![new] = ref[new] + 1] BY <1>5, <2>n, Zenon
    <3>2. \A j \in Inums : ref[j] + Is(new, j) = IF j = new THEN ref[new] + 1 ELSE ref[j]
      <4>1. ref \in [Inums -> Nat] BY <1>1, Zenon
      <4> QED BY <4>1, <2>1 DEF Is
    <3> QED BY <1>1, <3>1, <3>2, Zenon
  <2>3. GetsLocked(p, new, "create_new") BY <1>d, <1>2, <1>5, <2>n, Zenon DEF Goto, GetsLocked
  <2> QED BY <1>0, <2>1, <2>2, <2>3, GetLockedQuiet, Zenon
<1> QED BY <1>d, <1>e, <1>3, <1>4, <1>5, Zenon DEF create

LEMMA UnlinkQuiet == ASSUME FsInv, NEW p \in Procs, sys_unlink(p) PROVE Quiet(p)
<1>e. PICK e : e = dirlookup(dp[p], Head(path[p])) BY Zenon
<1>0. pc[p] = "unlink" /\ UNCHANGED <<dir, file, ofile, cwd, rest, cont, cur>>
  BY Zenon DEF sys_unlink, opened
<1>1. Registers BY FsParts, Zenon DEF TypeInv
<1>2. CASE /\ Look({dp[p]}, {}) /\ dp' = [dp EXCEPT ![p] = Nil] /\ path' = [path EXCEPT ![p] = <<>>]
           /\ Put(p, <<dp[p]>>, "user") /\ UNCHANGED <<holder, ip>>
  <2>1. Gives(p, dp[p], "user") /\ dp'[p] = Nil BY <1>0, <1>1, <1>2, Zenon DEF Put, Goto, Gives, Registers
  <2>2. ref' = ref BY <1>2, NoGet, Zenon DEF Look
  <2> QED BY <1>0, <1>2, <2>1, <2>2, GiveDpQuiet, Zenon
<1>3. CASE /\ e # Nil /\ Look({dp[p]}, {e})
           /\ ip' = [ip EXCEPT ![p] = e] /\ holder' = [holder EXCEPT ![dp[p]] = p]
           /\ Goto(p, "unlink_ip") /\ UNCHANGED <<dp, path, puts, after>>
  <2>1. e \in Inums /\ ref' = [j \in Inums |-> ref[j] + Is(e, j)] BY <1>e, <1>0, <1>3, Looked, Zenon
  <2>2. GetsLocked(p, e, "unlink_ip") BY <1>0, <1>3, Zenon DEF Goto, GetsLocked
  <2> QED BY <1>0, <2>1, <2>2, GetLockedQuiet, Zenon
<1> QED BY <1>e, <1>2, <1>3, Zenon DEF sys_unlink

LEMMA LinkQuiet == ASSUME FsInv, NEW p \in Procs, sys_link(p) PROVE Quiet(p)
<1>i. PICK i : i = ip[p] BY Zenon
<1>s. PICK s : s = IF rest[p] # <<>> /\ Head(rest[p]) = "/" THEN ROOTINO ELSE cwd[p] BY Zenon
<1>0. /\ pc[p] = "link" /\ pc[p] \notin Putting \cup Unlocking
      /\ rest' = [rest EXCEPT ![p] = <<>>] /\ UNCHANGED <<dir, holder, file, ofile, cwd, dp>>
  BY Zenon DEF sys_link, opened, Putting, Unlocking
<1>1. /\ i \in Inums /\ dp[p] = Nil /\ cur[p] = Nil /\ puts[p] = <<>> /\ after[p] \in Afters /\ s \in Inums
      /\ Elements(rest[p]) \in Seq(Names \cup {".."}) /\ Registers /\ Shapes /\ ref \in [Inums -> Nat]
  BY <1>i, <1>s, <1>0, InHand, FsAssumption, Zenon DEF HasCur, HasIp, HasDp, HaveIp, HaveDp, Shapes
<1>2. CASE /\ Look({i}, {}) /\ ip' = [ip EXCEPT ![p] = Nil] /\ Put(p, <<i>>, "user")
           /\ UNCHANGED <<cur, path, cont>>
  <2>1. Gives(p, ip[p], "user") /\ ip'[p] = Nil BY <1>i, <1>0, <1>1, <1>2, Zenon DEF Put, Goto, Gives, Registers
  <2>2. ref' = ref BY <1>2, NoGet, Zenon DEF Look
  <2> QED BY <1>0, <2>1, <2>2, GiveIpQuiet, Zenon
<1>3. CASE /\ \E new : Update({i}, new, {s})
           /\ cur' = [cur EXCEPT ![p] = s]
           /\ path' = [path EXCEPT ![p] = Elements(rest[p])]
           /\ cont' = [cont EXCEPT ![p] = "link_dp"]
           /\ Goto(p, "namex")
           /\ UNCHANGED <<ip, puts, after>>
  <2>1. ref' = [j \in Inums |-> ref[j] + Is(s, j)] BY <1>1, <1>3 DEF Update, Is
  <2>2. Registers' /\ Others(p) BY <1>0, <1>1, <1>3, Zenon DEF Goto, Registers, Others, Same
  <2>3. Shapes' BY <1>0, <1>1, <2>1, Zenon DEF Shapes
  <2>4. /\ ip'[p] = i /\ pc'[p] = "namex" /\ dp'[p] = Nil /\ cur'[p] = s /\ puts'[p] = <<>>
        /\ cwd'[p] = cwd[p] /\ path'[p] = Elements(rest[p]) /\ rest'[p] = <<>> /\ after'[p] = after[p]
        /\ cont'[p] = "link_dp"
    BY <1>i, <1>0, <1>1, <1>3, Zenon DEF Goto, Registers
  <2>5. CallInv(p)'
    <3>1. Elements(<<>>) \in Seq(Names \cup {".."}) BY DEF Elements
    <3>2. InHandAt(p, "namex")'
      BY <1>1, <2>4, <3>1, Zenon DEF InHandAt, HaveIp, HaveDp, Conts
    <3>3. "namex" \in Places \ Putting BY Zenon DEF Places, Afters, Putting
    <3> QED BY <1>1, <2>4, <3>2, <3>3, CallRuns, Zenon
  <2>6. ASSUME NEW j \in Inums PROVE ref'[j] = ref[j] + (Mine(p, j)' - Mine(p, j))
    <3>1. Mine(p, j) = InRegs(p, j) /\ Mine(p, j)' = InRegs(p, j)' BY <1>1, <2>4, MineIs, Zenon
    <3>2. InRegs(p, j)' = InRegs(p, j) + Is(s, j) BY <1>i, <1>1, <2>4, CurMoves, Zenon
    <3>3. ref[j] \in Nat /\ ref'[j] = ref[j] + Is(s, j) BY <1>1, <2>1, Zenon
    <3> QED BY <3>1, <3>2, <3>3, Balance, Zenon
  <2>7. LockMoved(p) BY <1>0, IdleLock, Zenon
  <2> QED BY <1>0, <2>2, <2>3, <2>5, <2>6, <2>7, Zenon DEF Quiet
<1> QED BY <1>i, <1>s, <1>2, <1>3, Zenon DEF sys_link

LEMMA LinkDpQuiet == ASSUME FsInv, NEW p \in Procs, LinkDp(p) PROVE Quiet(p)
<1>i. PICK i : i = ip[p] BY Zenon
<1>d. PICK d : d = dp[p] BY Zenon
<1>0. /\ pc[p] = "link_dp" /\ pc[p] \notin Putting \cup Unlocking
      /\ path' = [path EXCEPT ![p] = <<>>]
      /\ UNCHANGED <<file, ofile, cwd, rest, cont, cur>>
  BY Zenon DEF LinkDp, opened, Putting, Unlocking
<1>1. /\ i \in Inums /\ d \in Inums /\ cur[p] = Nil /\ puts[p] = <<>>
      /\ Elements(rest[p]) \in Seq(Names \cup {".."}) /\ Registers /\ Shapes /\ ref \in [Inums -> Nat]
  BY <1>i, <1>d, <1>0, InHand, Zenon DEF HasCur, HasIp, HasDp, HaveIp, HaveDp
<1>e. PICK e : e = dirlookup(dp[p], Head(path[p])) BY Zenon
<1>2. Look({d}, {}) => ref' = ref BY NoGet, Zenon DEF Look
<1>3. CASE /\ Look({d}, {}) /\ dir' = dirlink(dir, d, Head(path[p]), i) /\ ip' = [ip EXCEPT ![p] = Nil]
           /\ dp' = [dp EXCEPT ![p] = Nil] /\ Put(p, <<d, i>>, "user") /\ UNCHANGED holder
  <2>1. dir' \in [Inums -> [Names \cup {".."} -> Inums \cup {Nil}]]
    <3>1. Head(path[p]) \in Names \cup {".."} BY <1>0, LastElement, Zenon
    <3> QED BY <1>1, <1>3, <3>1, EntryType, Zenon DEF Shapes, dirlink
  <2>2. Registers' /\ Others(p) BY <1>0, <1>1, <1>3, Zenon DEF Put, Goto, Registers, Others, Same
  <2>3. Shapes' BY <1>0, <1>1, <1>2, <1>3, <2>1, Zenon DEF Shapes
  <2>4. /\ ip'[p] = Nil /\ pc'[p] = "iput" /\ dp'[p] = Nil /\ cur'[p] = Nil /\ puts'[p] = <<d, i>>
        /\ cwd'[p] = cwd[p] /\ path'[p] = <<>> /\ rest'[p] = rest[p] /\ after'[p] = "user"
    BY <1>0, <1>1, <1>3, Zenon DEF Put, Goto, Registers
  <2>5. CallInv(p)'
    <3>1. InHandAt(p, "user")'
      <4>1. <<>> \in Seq(Names \cup {".."}) OBVIOUS
      <4> QED BY <1>1, <2>4, <4>1, Zenon DEF InHandAt, HaveIp, HaveDp
    <3>2. "user" \in Afters BY Zenon DEF Afters
    <3> QED BY <1>1, <2>4, <3>1, <3>2, ShortList, CallPuts, Zenon
  <2>6. ASSUME NEW j \in Inums PROVE ref'[j] = ref[j] + (Mine(p, j)' - Mine(p, j))
    <3>1. Mine(p, j) = InRegs(p, j) /\ Mine(p, j)' = InRegs(p, j)' + (Is(d, j) + Is(i, j))
      <4>1. puts[p] = <<>> => Mine(p, j) = InRegs(p, j) BY MineIs, Zenon
      <4>2. \A x, y : puts'[p] = <<x, y>> => Mine(p, j)' = InRegs(p, j)' + (Is(x, j) + Is(y, j))
        BY MineIs, Zenon
      <4>3. puts'[p] = <<d, i>> => Mine(p, j)' = InRegs(p, j)' + (Is(d, j) + Is(i, j)) BY <4>2, Zenon
      <4> QED BY <1>1, <2>4, <4>1, <4>3, Zenon
    <3>2. InRegs(p, j) = InRegs(p, j)' + (Is(d, j) + Is(i, j))
      <4>1. cwd'[p] = cwd[p] /\ cur'[p] = cur[p] /\ ip'[p] = Nil /\ dp'[p] = Nil
        BY <1>1, <2>4, Zenon
      <4>2. InRegs(p, j) = InRegs(p, j)' + (Is(dp[p], j) + Is(ip[p], j)) BY <4>1, RegMoves, Zenon
      <4> QED BY <1>i, <1>d, <4>2, Zenon
    <3>3. ref[j] \in Nat /\ ref'[j] = ref[j] BY <1>1, <1>2, <1>3, Zenon
    <3> QED BY <3>1, <3>2, <3>3, Balance, Zenon
  <2>7. LockMoved(p) BY <1>0, <1>3, IdleLock, Zenon
  <2> QED BY <1>0, <2>2, <2>3, <2>5, <2>6, <2>7, Zenon DEF Quiet
<1>4. CASE /\ Look({d}, {}) /\ Put(p, <<d>>, "link_bad") /\ dp' = [dp EXCEPT ![p] = Nil]
           /\ UNCHANGED <<dir, ip, holder>>
  <2>1. Gives(p, dp[p], "link_bad") /\ dp'[p] = Nil
    BY <1>d, <1>0, <1>1, <1>4, Zenon DEF Put, Goto, Gives, Registers
  <2> QED BY <1>0, <1>2, <1>4, <2>1, GiveDpQuiet, Zenon
<1>5. CASE /\ e # Nil /\ Look({d}, {e}) /\ holder' = [holder EXCEPT ![d] = p]
           /\ Put(p, <<e>>, "link_found") /\ UNCHANGED <<dir, ip, dp>>
  <2>1. e \in Inums /\ ref' = [j \in Inums |-> ref[j] + Is(e, j)] BY <1>e, <1>0, <1>5, Looked, ZenonT(40)
  <2>2. Registers' /\ Others(p) BY <1>0, <1>1, <1>5, Zenon DEF Put, Goto, Registers, Others, Same
  <2>3. Shapes' BY <1>0, <1>1, <1>5, <2>1, Zenon DEF Shapes
  <2>4. /\ ip'[p] = i /\ pc'[p] = "iput" /\ dp'[p] = d /\ cur'[p] = Nil /\ puts'[p] = <<e>>
        /\ cwd'[p] = cwd[p] /\ path'[p] = <<>> /\ rest'[p] = rest[p] /\ after'[p] = "link_found"
    BY <1>i, <1>d, <1>0, <1>1, <1>5, Zenon DEF Put, Goto, Registers
  <2>5. CallInv(p)'
    <3>1. InHandAt(p, "link_found")'
      <4>1. <<>> \in Seq(Names \cup {".."}) OBVIOUS
      <4> QED BY <1>1, <2>4, <4>1, Zenon DEF InHandAt, HaveIp, HaveDp
    <3>2. "link_found" \in Afters BY Zenon DEF Afters
    <3> QED BY <2>1, <2>4, <3>1, <3>2, ShortList, CallPuts, Zenon
  <2>6. ASSUME NEW j \in Inums PROVE ref'[j] = ref[j] + (Mine(p, j)' - Mine(p, j))
    <3>1. Mine(p, j) = InRegs(p, j) /\ Mine(p, j)' = InRegs(p, j)' + Is(e, j)
      BY <1>1, <2>4, MineIs, Zenon
    <3>2. InRegs(p, j)' = InRegs(p, j) BY <1>i, <1>d, <1>1, <2>4, Zenon DEF InRegs
    <3>3. InRegs(p, j)' + Is(e, j) = InRegs(p, j) + Is(e, j) BY <3>2, Zenon
    <3>4. ref[j] \in Nat /\ ref'[j] = ref[j] + Is(e, j) BY <1>1, <2>1, Zenon
    <3> QED BY <3>1, <3>3, <3>4, Balance, Zenon
  <2>7. LockMoved(p)
    <3>1. \A j \in Inums : holder'[j] = IF j \in {d} THEN p ELSE IF j \in {} THEN None ELSE holder[j]
      BY <1>1, <1>5, Zenon DEF Shapes
    <3>2. Place(p)' = "link_found" BY <2>4, Zenon DEF Place, Putting
    <3>3. \A j \in Inums \cap {d} : Holds(p, j)' BY <2>4, <3>2, Zenon DEF Holds
    <3>4. \A j \in Inums \ {} : Holds(p, j) => Holds(p, j)'
      BY <1>0, Zenon DEF Holds, Place, Putting, Unlocking
    <3> QED BY <3>1, <3>3, <3>4, LockChange, Zenon
  <2> QED BY <1>0, <2>2, <2>3, <2>5, <2>6, <2>7, Zenon DEF Quiet
<1> QED BY <1>i, <1>d, <1>e, <1>3, <1>4, <1>5, Zenon DEF LinkDp

LEMMA ChdirQuiet == ASSUME FsInv, NEW p \in Procs, sys_chdir(p) PROVE Quiet(p)
<1>i. PICK i : i = ip[p] BY Zenon
<1>c. PICK c : c = cwd[p] BY Zenon
<1>0. /\ pc[p] = "chdir" /\ pc[p] \notin Putting \cup Unlocking
      /\ ip' = [ip EXCEPT ![p] = Nil]
      /\ UNCHANGED <<dir, holder, file, ofile, path, rest, cont, cur, dp>>
  BY Zenon DEF sys_chdir, Putting, Unlocking
<1>1. /\ i \in Inums /\ dp[p] = Nil /\ cur[p] = Nil /\ puts[p] = <<>> /\ c \in Inums
      /\ path[p] \in Seq(Names \cup {".."}) /\ Elements(rest[p]) \in Seq(Names \cup {".."})
      /\ Registers /\ Shapes /\ ref \in [Inums -> Nat]
  BY <1>i, <1>c, <1>0, InHand, Zenon DEF HasCur, HasIp, HasDp, HaveIp, HaveDp, Shapes
<1>2. ref' = ref BY NoGet, Zenon DEF sys_chdir, Look
<1>3. CASE cwd' = [cwd EXCEPT ![p] = i] /\ Put(p, <<c>>, "user")
  <2>1. Registers' /\ Others(p) BY <1>0, <1>1, <1>3, Zenon DEF Put, Goto, Registers, Others, Same, Shapes
  <2>2. Shapes' BY <1>0, <1>1, <1>2, <1>3, Zenon DEF Shapes
  <2>3. /\ ip'[p] = Nil /\ pc'[p] = "iput" /\ dp'[p] = Nil /\ cur'[p] = Nil /\ puts'[p] = <<c>>
        /\ cwd'[p] = i /\ path'[p] = path[p] /\ rest'[p] = rest[p] /\ after'[p] = "user"
    BY <1>0, <1>1, <1>3, Zenon DEF Put, Goto, Registers, Shapes
  <2>4. CallInv(p)'
    <3>1. InHandAt(p, "user")' BY <1>1, <2>3, Zenon DEF InHandAt, HaveIp, HaveDp
    <3>2. "user" \in Afters BY Zenon DEF Afters
    <3> QED BY <1>1, <2>3, <3>1, <3>2, ShortList, CallPuts, Zenon
  <2>5. ASSUME NEW j \in Inums PROVE ref'[j] = ref[j] + (Mine(p, j)' - Mine(p, j))
    <3>1. Mine(p, j) = InRegs(p, j) /\ Mine(p, j)' = InRegs(p, j)' + Is(c, j)
      BY <1>1, <2>3, MineIs, Zenon
    <3>2. InRegs(p, j) = InRegs(p, j)' + Is(c, j) BY <1>i, <1>c, <1>1, <2>3, CwdMoves, Zenon
    <3>3. ref[j] \in Nat /\ ref'[j] = ref[j] BY <1>1, <1>2, Zenon
    <3> QED BY <3>1, <3>2, <3>3, Balance, Zenon
  <2>6. LockMoved(p) BY <1>0, IdleLock, Zenon
  <2> QED BY <1>0, <2>1, <2>2, <2>4, <2>5, <2>6, Zenon DEF Quiet
<1>4. CASE UNCHANGED cwd /\ Put(p, <<i>>, "user")
  <2>1. Gives(p, ip[p], "user") /\ ip'[p] = Nil BY <1>i, <1>0, <1>1, <1>4, Zenon DEF Put, Goto, Gives, Registers
  <2> QED BY <1>0, <1>2, <2>1, GiveIpQuiet, Zenon
<1> QED BY <1>i, <1>c, <1>3, <1>4, Zenon DEF sys_chdir

-----------------------------------------------------------------------------
(* Boot, files, and all steps together *)

LEMMA InitShapes ==
  ASSUME Init, Cardinality(Procs) \in Nat
  PROVE  TypeInv
<1>1. ref \in [Inums -> Nat] /\ cwd \in [Procs -> Inums] BY FsAssumption, Zenon DEF Init
<1>2. dir \in [Inums -> [Names \cup {".."} -> Inums \cup {Nil}]] BY FsAssumption, Zenon DEF Init
<1>3. Registers /\ DOMAIN holder = Inums BY Zenon DEF Init, Registers
<1>4. file \in [Files -> [ref : Nat, ip : Inums \cup {Nil}]] BY DEF Init
<1>5. ofile \in [Procs -> [Fds -> Files \cup {Nil}]] BY Zenon DEF Init
<1> QED BY <1>1, <1>2, <1>3, <1>4, <1>5, Zenon DEF TypeInv

LEMMA InitCalls == ASSUME Init, NEW p \in Procs PROVE CallInv(p)
<1>1. Elements(<<>>) = <<>> BY Zenon DEF Elements
<1>2. /\ pc[p] = "user" /\ after[p] = "user" /\ path[p] = <<>> /\ rest[p] = <<>> /\ puts[p] = <<>>
      /\ cur[p] = Nil /\ ip[p] = Nil /\ dp[p] = Nil
  BY Zenon DEF Init
<1>3. Place(p) = "user" BY <1>2 DEF Place, Putting
<1>4. ~HasCur(p) /\ ~HasIp(p) /\ ~HasDp(p) BY <1>3 DEF HasCur, HasIp, HasDp, HaveIp, HaveDp
<1>5. <<>> \in Seq(Names \cup {".."}) /\ <<>> \in Seq(Inums) /\ Len(<<>>) <= 2 OBVIOUS
<1>6. "user" \in Places /\ "user" \in Afters /\ "user" \notin Putting BY DEF Putting, Places, Afters
<1> QED BY <1>1, <1>2, <1>3, <1>4, <1>5, <1>6, Zenon DEF CallInv

LEMMA StutterInv == ASSUME FsInv, UNCHANGED vars PROVE FsInv'
<1> USE DEF vars, inodes, opened, regs
<1>1. TypeInv' /\ FileInv' BY FsParts, Zenon DEF TypeInv, Registers, FileInv
<1>2. ASSUME NEW p \in Procs PROVE CallInv(p)'
  <2>1. CallInv(p) BY FsParts, Zenon
  <2> QED BY <2>1, Zenon DEF CallInv, Place, HasCur, HasIp, HasDp
<1>3. LockInv' BY FsParts, Zenon DEF LockInv, Holds, Place
<1>4. RefInv'
  <2>1. \A i \in Inums : References(i)' = References(i) BY Zenon DEF References
  <2> QED BY <2>1, FsParts, Zenon DEF RefInv
<1> QED BY <1>1, <1>2, <1>3, <1>4, FsWhole, Zenon

\* What dup(), and a close() that leaves the file open, do to everything else.
LEMMA FilesFrame ==
  ASSUME FsInv, NEW p \in Procs, UNCHANGED <<inodes, cwd, pc, regs>>
  PROVE  /\ Registers' /\ Others(p) /\ Shapes' /\ CallInv(p)' /\ LockMoved(p) /\ ref' = ref
         /\ \A i \in Inums : Mine(p, i)' = Mine(p, i) /\ ref[i] \in Nat
<1>1. Registers' /\ Others(p) /\ Shapes'
  BY FsParts, Zenon DEF TypeInv, Registers, Others, Same, Shapes, inodes, regs
<1>2. CallInv(p)'
  <2>1. CallInv(p) BY FsParts, Zenon
  <2> QED BY <2>1, Zenon DEF CallInv, Place, HasCur, HasIp, HasDp, regs
<1>3. LockMoved(p)
  <2>1. \A i \in Inums : Holds(p, i) => Holds(p, i)' BY Zenon DEF Holds, Place, regs
  <2> QED BY <2>1, LockKept, Zenon DEF inodes
<1>4. \A i \in Inums : Mine(p, i)' = Mine(p, i) BY Zenon DEF Mine, InRegs, regs
<1>5. ref' = ref /\ \A i \in Inums : ref[i] \in Nat BY FsParts DEF TypeInv, inodes
<1> QED BY <1>1, <1>2, <1>3, <1>4, <1>5, Zenon

\* The last close() of a file passes its inode x to iput().
LEMMA LastClose ==
  ASSUME FsInv, NEW p \in Procs, NEW x \in Inums, pc[p] = "user", Put(p, <<x>>, "user"),
         UNCHANGED <<inodes, cwd, op, path, rest, cont, cur, ip, dp>>
  PROVE  /\ Registers' /\ Others(p) /\ Shapes' /\ CallInv(p)' /\ LockMoved(p) /\ ref' = ref
         /\ \A i \in Inums : /\ Mine(p, i)' = Mine(p, i) + Is(x, i)
                             /\ ref[i] \in Nat /\ Mine(p, i) \in Nat /\ Is(x, i) \in Nat
<1>1. pc[p] \notin Putting \cup Unlocking BY DEF Putting, Unlocking
<1>2. /\ cur[p] = Nil /\ ip[p] = Nil /\ dp[p] = Nil /\ puts[p] = <<>>
      /\ path[p] \in Seq(Names \cup {".."}) /\ Elements(rest[p]) \in Seq(Names \cup {".."})
      /\ Registers /\ Shapes /\ ref \in [Inums -> Nat]
  BY <1>1, InHand DEF HasCur, HasIp, HasDp, HaveIp, HaveDp
<1>3. Registers' /\ Others(p) BY <1>2, Zenon DEF Put, Goto, Registers, Others, Same
<1>4. Shapes' BY <1>2, Zenon DEF Shapes, inodes
<1>5. /\ pc'[p] = "iput" /\ after'[p] = "user" /\ puts'[p] = <<x>> /\ cur'[p] = Nil /\ ip'[p] = Nil
      /\ dp'[p] = Nil /\ cwd'[p] = cwd[p] /\ path'[p] = path[p] /\ rest'[p] = rest[p]
  BY <1>2, Zenon DEF Put, Goto, Registers
<1>6. CallInv(p)'
  <2>1. InHandAt(p, "user")' BY <1>2, <1>5, Zenon DEF InHandAt, HaveIp, HaveDp
  <2>2. puts'[p] \in Seq(Inums) /\ Len(puts'[p]) <= 2 /\ puts'[p] # <<>> BY <1>5, ShortList, Zenon
  <2>3. "user" \in Afters BY DEF Afters
  <2> QED BY <1>5, <2>1, <2>2, <2>3, CallPuts, Zenon
<1>7. LockMoved(p) BY <1>1, IdleLock, Zenon DEF inodes
<1>8. ASSUME NEW i \in Inums
      PROVE  Mine(p, i)' = Mine(p, i) + Is(x, i) /\ Mine(p, i) \in Nat /\ Is(x, i) \in Nat
  <2>1. Mine(p, i) = InRegs(p, i) /\ Mine(p, i)' = InRegs(p, i)' + Is(x, i)
    BY <1>2, <1>5, MineIs, Zenon
  <2>2. InRegs(p, i)' = InRegs(p, i) BY <1>2, <1>5, Zenon DEF InRegs
  <2>3. Mine(p, i) \in Nat /\ Is(x, i) \in Nat BY MineNat, RegsNat, Zenon
  <2> QED BY <2>1, <2>2, <2>3, Zenon
<1>9. ref' = ref /\ \A i \in Inums : ref[i] \in Nat BY <1>2 DEF inodes
<1> QED BY <1>3, <1>4, <1>6, <1>7, <1>8, <1>9, Zenon

\* What open() has in hand becomes the new file's inode.
LEMMA TakesIp ==
  ASSUME FsInv, NEW p \in Procs, Takes(p)
  PROVE  /\ Registers' /\ Others(p) /\ CallInv(p)' /\ ip[p] \in Inums
         /\ \A j \in Inums : /\ Mine(p, j) = Mine(p, j)' + Is(ip[p], j)
                             /\ ref[j] \in Nat /\ Mine(p, j)' \in Nat /\ Is(ip[p], j) \in Nat
<1>u. pc[p] \in {"open", "create_found", "created"} /\ TakesFile(p) BY Zenon DEF Takes
<1>1. pc[p] \notin Putting BY <1>u DEF Putting
<1>2. /\ ip[p] \in Inums /\ cur[p] = Nil /\ dp[p] = Nil /\ puts[p] = <<>>
      /\ path[p] \in Seq(Names \cup {".."}) /\ Elements(rest[p]) \in Seq(Names \cup {".."})
      /\ Registers /\ ref \in [Inums -> Nat]
  BY <1>u, <1>1, InHand DEF HasCur, HasIp, HasDp, HaveIp, HaveDp
<1>3. Registers' /\ Others(p)
  BY <1>u, <1>2 DEF TakesFile, Leave, Goto, Registers, Others, Same
<1>4. /\ pc'[p] = "user" /\ after'[p] = "user" /\ puts'[p] = <<>> /\ cur'[p] = Nil /\ ip'[p] = Nil
      /\ dp'[p] = Nil /\ cwd'[p] = cwd[p] /\ (path'[p] = path[p] \/ path'[p] = <<>>)
      /\ rest'[p] = rest[p]
  BY <1>u, <1>2 DEF TakesFile, Leave, Goto, Registers
<1>5. CallInv(p)'
  <2>1. path'[p] \in Seq(Names \cup {".."})
    <3>1. <<>> \in Seq(Names \cup {".."}) OBVIOUS
    <3> QED BY <1>2, <1>4, <3>1, Zenon
  <2>2. InHandAt(p, "user")' BY <1>2, <1>4, <2>1, Zenon DEF InHandAt, HaveIp, HaveDp
  <2>3. "user" \in Places \ Putting /\ "user" \in Afters BY DEF Places, Putting, Afters
  <2> QED BY <1>4, <2>2, <2>3, CallRuns, Zenon
<1>6. ASSUME NEW j \in Inums
      PROVE  /\ Mine(p, j) = Mine(p, j)' + Is(ip[p], j)
             /\ Mine(p, j)' \in Nat /\ Is(ip[p], j) \in Nat
  <2>1. Mine(p, j) = InRegs(p, j) /\ Mine(p, j)' = InRegs(p, j)' BY <1>2, <1>4, MineIs, Zenon
  <2>2. InRegs(p, j) = InRegs(p, j)' + Is(ip[p], j) BY <1>2, <1>4, RegMoves
  <2>3. InRegs(p, j)' \in Nat /\ Is(ip[p], j) \in Nat BY RegsNat, Zenon
  <2> QED BY <2>1, <2>2, <2>3, Zenon
<1>7. \A j \in Inums : ref[j] \in Nat BY <1>2
<1> QED BY <1>2, <1>3, <1>5, <1>6, <1>7, Zenon

\* Every other step is quiet, or takes a file.
LEMMA QuietOrTakes ==
  ASSUME FsInv, NEW p \in Procs, Allocatable # {} => Min(Allocatable) \in Allocatable,
         \/ iput(p) \/ itrunc(p) \/ invalidate(p) \/ drop(p)
         \/ namex(p) \/ Call(p)
         \/ sys_open(p) \/ Created(p) \/ create(p) \/ CreateFound(p) \/ CreateNew(p)
         \/ CreateFail(p) \/ UnlockDp(p)
         \/ sys_link(p) \/ LinkDp(p) \/ LinkFound(p) \/ LinkBad(p)
         \/ sys_unlink(p) \/ UnlinkRefuse(p) \/ UnlinkIp(p) \/ UnlinkEnd(p)
         \/ sys_chdir(p)
  PROVE  Quiet(p) \/ Takes(p)
BY IputQuiet, NamexQuiet, CallStartQuiet, OpenStep, CreatedStep, CreateQuiet, CreateNewQuiet,
  CreateFailQuiet, UnlockDpQuiet, LinkQuiet, LinkDpQuiet, LinkFoundQuiet, LinkBadQuiet, UnlinkQuiet,
  UnlinkRefuseQuiet, UnlinkIpQuiet, UnlinkEndQuiet, ChdirQuiet, Zenon

\* Whoever is about to iput() an inode has a reference to it, two if it also has
\* its lock; and so has whoever has the lock.
LEMMA PutterHas ==
  ASSUME FsInv, NEW p \in Procs, pc[p] \in Putting, NEW i, i = Head(puts[p])
  PROVE  /\ i \in Inums /\ Mine(p, i) \in Nat /\ Mine(p, i) >= 1
         /\ ip[p] = i \/ dp[p] = i => Mine(p, i) >= 2
<1>0. CallInv(p) BY FsParts, Zenon
<1>1. puts[p] \in Seq(Inums) /\ puts[p] # <<>> BY <1>0 DEF CallInv
<1>2. i \in Inums /\ Len(puts[p]) \in Nat /\ Len(puts[p]) > 0 BY <1>1, TailOf, Zenon
<1>3. Listed(puts[p], i) \in Nat /\ Listed(puts[p], i) >= 1 BY <1>1, <1>2 DEF Listed
<1> QED BY <1>2, <1>3, MineHas

LEMMA HolderHas ==
  ASSUME FsInv, NEW h \in Procs, NEW i \in Inums, Holds(h, i)
  PROVE  Mine(h, i) \in Nat /\ Mine(h, i) >= 1
<1>1. CASE ip[h] = i \/ dp[h] = i
  <2>1. Listed(puts[h], i) \in Nat BY DEF Listed
  <2> QED BY <1>1, <2>1, MineHas
<1>2. CASE pc[h] \in {"itrunc", "invalidate"} /\ Head(puts[h]) = i
  <2>1. pc[h] \in Putting BY <1>2 DEF Putting
  <2> QED BY <1>2, <2>1, PutterHas, Zenon
<1> QED BY <1>1, <1>2, Zenon DEF Holds

=============================================================================
