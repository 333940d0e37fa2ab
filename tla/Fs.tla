--------------------------------- MODULE Fs ---------------------------------
(***************************************************************************)
(* Inodes, directories, path names and open files: the inode table and the *)
(* directory layer of fs.c, the file table of file.c and the system calls  *)
(* of sysfile.c that use them, for processes that run them concurrently.   *)
(* A transaction's writes reach the buffer cache at once (Log and Bio have *)
(* the layers below); what is in a file is in FileData.  A step ends where *)
(* an inode's lock is waited for or itable.lock is let go with a changed   *)
(* reference count.  The inode table has an entry for every inode, so that *)
(* it is indexed by the inode's number.  Running out of disk blocks makes  *)
(* dirlink() fail, at any time.                                            *)
(***************************************************************************)
EXTENDS Integers, FiniteSets, Sequences, FiniteSetsExt, TLC

CONSTANTS
  Procs,
  None,    \* no process
  Inums,   \* 1 .. sb.ninodes - 1
  Names,   \* of files, without "." and ".."
  Files,   \* 1 .. NFILE
  NOFILE,
  Calls,   \* bound: the calls made, <<call, path, link()'s new>>; a path is a
           \* sequence of names, with "/" in front if it is absolute
  MaxCalls \* bound: how many

ROOTINO == 1
Fds == 1 .. NOFILE
Nil == 0

\* The names of a path, without the "/" in front.
Elements(q) == IF q # <<>> /\ Head(q) = "/" THEN Tail(q) ELSE q

ASSUME FsAssumption ==
  /\ IsFiniteSet(Procs) /\ None \notin Procs
  /\ Inums \subseteq Nat \ {Nil} /\ ROOTINO \in Inums
  /\ Files \subseteq Nat \ {Nil} /\ IsFiniteSet(Files)
  /\ NOFILE \in Nat
  /\ \A c \in Calls :
       /\ c[1] \in {"open", "create", "mkdir", "mknod", "link", "unlink", "chdir"}
       /\ {Elements(c[2]), Elements(c[3])} \subseteq Seq(Names \cup {".."})

VARIABLES
  dinode,      \* on disk: type and nlink
  dir,         \* the entries of a directory
  ref, valid,  \* in the inode table
  mem,         \* the copy of type and nlink there
  holder,      \* of ip->lock
  file, ofile, cwd,
  pc, op,      \* of a process: its place, its system call
  path, rest,  \* what is left of the path; sys_link()'s new
  cont,        \* what namex() returns to
  cur,         \* namex()'s ip
  ip, dp,      \* the call's
  puts, after, \* the inodes it is about to iput(), and what follows
  calls,       \* made so far
  odd          \* what has happened that the properties except: "stray" or "reused"

inodes == <<dinode, dir, ref, valid, mem, holder>>
opened == <<file, ofile, cwd>>
regs == <<op, path, rest, cont, cur, ip, dp, puts, after>>
vars == <<inodes, opened, pc, regs, calls, odd>>

Free == [type |-> "free", nlink |-> 0]

\* mkfs made the root directory, whose ".." is itself; everybody is in it.
Init ==
  /\ dinode = [i \in Inums |-> IF i = ROOTINO THEN [type |-> "dir", nlink |-> 1] ELSE Free]
  /\ dir = [i \in Inums |-> [n \in Names \cup {".."} |->
                               IF i = ROOTINO /\ n = ".." THEN ROOTINO ELSE Nil]]
  /\ ref = [i \in Inums |-> IF i = ROOTINO THEN Cardinality(Procs) ELSE 0]
  /\ valid = [i \in Inums |-> FALSE]
  /\ mem = [i \in Inums |-> Free]
  /\ holder = [i \in Inums |-> None]
  /\ file = [f \in Files |-> [ref |-> 0, ip |-> Nil]]
  /\ ofile = [p \in Procs |-> [d \in Fds |-> Nil]]
  /\ cwd = [p \in Procs |-> ROOTINO]
  /\ pc = [p \in Procs |-> "user"]
  /\ op = [p \in Procs |-> "none"]
  /\ path = [p \in Procs |-> <<>>]
  /\ rest = [p \in Procs |-> <<>>]
  /\ cont = [p \in Procs |-> "user"]
  /\ cur = [p \in Procs |-> Nil]
  /\ ip = [p \in Procs |-> Nil]
  /\ dp = [p \in Procs |-> Nil]
  /\ puts = [p \in Procs |-> <<>>]
  /\ after = [p \in Procs |-> "user"]
  /\ calls = 0
  /\ odd = {}

-----------------------------------------------------------------------------
(* Steps on inodes *)

\* What ilock(i) finds in the table, reading the inode from disk if it must.
In(i) == IF valid[i] THEN mem[i] ELSE dinode[i]

\* The inodes S are locked for a while, new takes their place in memory and,
\* by iupdate(), on disk; T are looked up with iget().
Update(S, new, T) ==
  /\ mem' = [i \in Inums |-> IF i \in DOMAIN new THEN new[i] ELSE IF i \in S THEN In(i) ELSE mem[i]]
  /\ dinode' = new @@ dinode
  /\ valid' = [i \in Inums |-> IF i \in T /\ ref[i] = 0 THEN FALSE ELSE valid[i] \/ i \in S]
  /\ ref' = [i \in Inums |-> IF i \in T THEN ref[i] + 1 ELSE ref[i]]

Nothing == <<>>

\* ilock() of S, and nothing changed.
Look(S, T) == Update(S, Nothing, T)

\* An entry is made in a directory that has been removed.
Stray(d) == IF In(d).nlink = 0 THEN odd \cup {"stray"} ELSE odd

Unlocked(i) == holder[i] = None

\* The inode of the entry n in d, or Nil.
dirlookup(d, n) == dir[d][n]

\* The directories t with the entry n for i in d.
dirlink(t, d, n, i) == [t EXCEPT ![d][n] = i]

Goto(p, l) == pc' = [pc EXCEPT ![p] = l]

\* p calls iput() for the inodes q, one after the other, and goes on at l.
Put(p, q, l) ==
  /\ puts' = [puts EXCEPT ![p] = q]
  /\ after' = [after EXCEPT ![p] = l]
  /\ Goto(p, "iput")

NoPut == UNCHANGED <<puts, after>>

-----------------------------------------------------------------------------
(* iput() *)

LastLink_file(i) == ref[i] = 1 /\ valid[i] /\ mem[i].nlink = 0 /\ mem[i].type = "file"

\* The test for an inode that is to be freed.
LastLink(i) == ref[i] = 1 /\ valid[i] /\ mem[i].nlink = 0

\* p goes to l; at the end of a system call its locals are gone.
Leave(p, l) ==
  /\ Goto(p, l)
  /\ op' = IF l = "user" THEN [op EXCEPT ![p] = "none"] ELSE op
  /\ cont' = IF l = "user" THEN [cont EXCEPT ![p] = "user"] ELSE cont
  /\ after' = IF l = "user" THEN [after EXCEPT ![p] = "user"] ELSE after

\* Without a reference the entry is free, and its fields mean nothing.
Drop(p, i) ==
  /\ ref' = [ref EXCEPT ![i] = @ - 1]
  /\ valid' = [valid EXCEPT ![i] = @ /\ ref[i] > 1]
  /\ mem' = IF ref[i] > 1 THEN mem ELSE [mem EXCEPT ![i] = Free]
  /\ puts' = [puts EXCEPT ![p] = Tail(@)]
  /\ Leave(p, IF Len(puts[p]) = 1 THEN after[p] ELSE "iput")

iput(p) ==
  LET i == Head(puts[p]) IN
  /\ pc[p] = "iput"
  /\ IF LastLink(i)
     THEN /\ Unlocked(i)
          /\ holder' = [holder EXCEPT ![i] = p]
          /\ Goto(p, "itrunc")
          /\ UNCHANGED <<ref, valid, mem, puts, op, cont, after>>
     ELSE Drop(p, i) /\ UNCHANGED holder
  /\ UNCHANGED <<dinode, dir, opened, path, rest, cur, ip, dp, calls, odd>>

\* itrunc(ip), ip->type = 0, iupdate(ip): now ialloc() may take it.
itrunc(p) ==
  LET i == Head(puts[p]) IN
  /\ pc[p] = "itrunc"
  /\ dir' = [dir EXCEPT ![i] = [n \in Names \cup {".."} |-> Nil]]
  /\ mem' = [mem EXCEPT ![i].type = "free"]
  /\ dinode' = [dinode EXCEPT ![i] = [mem[i] EXCEPT !.type = "free"]]
  /\ Goto(p, "invalidate")
  /\ UNCHANGED <<ref, valid, holder, opened, regs, calls, odd>>

invalidate_not(p) ==
  LET i == Head(puts[p]) IN
  /\ pc[p] = "invalidate"
  /\ holder' = [holder EXCEPT ![i] = None]
  /\ Goto(p, "drop")
  /\ UNCHANGED <<dinode, dir, ref, valid, mem, opened, regs, calls, odd>>

\* ip->valid = 0, and ip->lock is released.
invalidate(p) ==
  LET i == Head(puts[p]) IN
  /\ pc[p] = "invalidate"
  /\ valid' = [valid EXCEPT ![i] = FALSE]
  /\ holder' = [holder EXCEPT ![i] = None]
  /\ Goto(p, "drop")
  /\ UNCHANGED <<dinode, dir, ref, mem, opened, regs, calls, odd>>

\* ip->ref--, back under itable.lock.
drop(p) ==
  /\ pc[p] = "drop"
  /\ Drop(p, Head(puts[p]))
  /\ UNCHANGED <<dinode, dir, holder, opened, path, rest, cur, ip, dp, calls, odd>>

-----------------------------------------------------------------------------
(* namex() *)

Parent(c) == c \in {"create", "link_dp", "unlink"}

\* namex() fails: the system call does, too, except that sys_link() has to
\* take back the link it has counted.
Failed(c) == IF c = "link_dp" THEN "link_bad" ELSE "user"

\* It starts at the root or at the current directory.
Start(p, q, c) ==
  LET abs == q # <<>> /\ Head(q) = "/"
      i   == IF abs THEN ROOTINO ELSE cwd[p]
  IN /\ Look({}, {i})
     /\ cur' = [cur EXCEPT ![p] = i]
     /\ path' = [path EXCEPT ![p] = Elements(q)]
     /\ cont' = [cont EXCEPT ![p] = c]
     /\ Goto(p, "namex")

\* One turn of its loop, with the inode locked, or its end.
namex(p) ==
  LET i    == cur[p]
      name == Head(path[p])
      stop == Parent(cont[p]) /\ Len(path[p]) = 1
  IN
  /\ pc[p] = "namex"
  /\ \/ /\ path[p] = <<>> /\ ~Parent(cont[p])
        /\ ip' = [ip EXCEPT ![p] = i]
        /\ cur' = [cur EXCEPT ![p] = Nil]
        /\ Goto(p, cont[p])
        /\ UNCHANGED <<dinode, ref, valid, mem, dp, path, puts, after>>
     \/ /\ path[p] = <<>> /\ Parent(cont[p])
        /\ cur' = [cur EXCEPT ![p] = Nil]
        /\ Put(p, <<i>>, Failed(cont[p]))
        /\ UNCHANGED <<dinode, ref, valid, mem, ip, dp, path>>
     \/ /\ path[p] # <<>> /\ Unlocked(i)
        /\ In(i).type = "dir" /\ stop
        /\ Look({i}, {})
        /\ dp' = [dp EXCEPT ![p] = i]
        /\ cur' = [cur EXCEPT ![p] = Nil]
        /\ Goto(p, cont[p])
        /\ UNCHANGED <<ip, path, puts, after>>
     \/ /\ path[p] # <<>> /\ Unlocked(i)
        /\ In(i).type = "dir" /\ ~stop /\ dirlookup(i, name) # Nil
        /\ Look({i}, {dirlookup(i, name)})
        /\ cur' = [cur EXCEPT ![p] = dirlookup(i, name)]
        /\ path' = [path EXCEPT ![p] = Tail(@)]
        /\ Put(p, <<i>>, "namex")
        /\ UNCHANGED <<ip, dp>>
     \/ /\ path[p] # <<>> /\ Unlocked(i)
        /\ In(i).type # "dir" \/ (~stop /\ dirlookup(i, name) = Nil)
        /\ Look({i}, {})
        /\ cur' = [cur EXCEPT ![p] = Nil]
        /\ path' = [path EXCEPT ![p] = <<>>]
        /\ Put(p, <<i>>, Failed(cont[p]))
        /\ UNCHANGED <<ip, dp>>
  /\ UNCHANGED <<dir, holder, opened, op, rest, cont, calls, odd>>

-----------------------------------------------------------------------------
(* System calls: entry *)

Call(p) ==
  /\ pc[p] = "user" /\ calls < MaxCalls
  /\ calls' = calls + 1
  /\ \E c \in Calls :
       /\ op' = [op EXCEPT ![p] = c[1]]
       /\ rest' = [rest EXCEPT ![p] = c[3]]
       /\ Start(p, c[2], IF c[1] \in {"mkdir", "mknod"} THEN "create" ELSE c[1])
  /\ UNCHANGED <<dir, holder, opened, ip, dp, puts, after, odd>>

\* What filealloc() and fdalloc() take the first of.
filealloc == {f \in Files : file[f].ref = 0}
fdalloc(p) == {d \in Fds : ofile[p][d] = Nil}

filedup(f) == file' = [file EXCEPT ![f].ref = @ + 1]

sys_dup(p) ==
  /\ pc[p] = "user" /\ fdalloc(p) # {}
  /\ \E d \in Fds \ fdalloc(p) :
       /\ ofile' = [ofile EXCEPT ![p][Min(fdalloc(p))] = ofile[p][d]]
       /\ filedup(ofile[p][d])
  /\ UNCHANGED <<inodes, cwd, pc, regs, calls, odd>>

fileclose(p, f) ==
  IF file[f].ref > 1
  THEN file' = [file EXCEPT ![f].ref = @ - 1] /\ UNCHANGED <<pc, puts, after>>
  ELSE /\ file' = [file EXCEPT ![f] = [ref |-> 0, ip |-> Nil]]
       /\ Put(p, <<file[f].ip>>, "user")

sys_close(p) ==
  /\ pc[p] = "user"
  /\ \E d \in Fds \ fdalloc(p) :
       /\ ofile' = [ofile EXCEPT ![p][d] = Nil]
       /\ fileclose(p, ofile[p][d])
  /\ UNCHANGED <<inodes, cwd, op, path, rest, cont, cur, ip, dp, calls, odd>>

-----------------------------------------------------------------------------
(* sys_open() *)

OpenFile_leak(p, i) ==
  LET F == filealloc
      D == fdalloc(p)
  IN /\ ip' = [ip EXCEPT ![p] = Nil]
     /\ IF F # {} /\ D # {}
        THEN /\ file' = [file EXCEPT ![Min(F)] = [ref |-> 1, ip |-> i]]
             /\ ofile' = [ofile EXCEPT ![p][Min(D)] = Min(F)]
             /\ Leave(p, "user") /\ UNCHANGED puts
        ELSE Leave(p, "user") /\ UNCHANGED <<puts, file, ofile>>

\* The end, with ip locked: filealloc() and fdalloc(), which may both fail.
OpenFile(p, i) ==
  LET F == filealloc
      D == fdalloc(p)
  IN /\ ip' = [ip EXCEPT ![p] = Nil]
     /\ IF F # {} /\ D # {}
        THEN /\ file' = [file EXCEPT ![Min(F)] = [ref |-> 1, ip |-> i]]
             /\ ofile' = [ofile EXCEPT ![p][Min(D)] = Min(F)]
             /\ Leave(p, "user") /\ UNCHANGED puts
        ELSE Put(p, <<i>>, "user") /\ UNCHANGED <<file, ofile, op, cont>>

\* iunlockput(ip), with a directory to be written or a device out of range.
Refuse(p, i) ==
  /\ In(i).type \in {"dir", "dev"}
  /\ ip' = [ip EXCEPT ![p] = Nil]
  /\ Put(p, <<i>>, "user")
  /\ UNCHANGED <<file, ofile, op, cont>>

\* Without O_CREATE.
sys_open(p) ==
  LET i == ip[p] IN
  /\ pc[p] = "open" /\ Unlocked(i)
  /\ Look({i}, {})
  /\ OpenFile(p, i) \/ Refuse(p, i)
  /\ UNCHANGED <<dir, holder, cwd, path, rest, cur, dp, calls, odd>>

\* With O_CREATE, ip comes locked from create(); also the end of sys_mkdir()
\* and sys_mknod().
Created(p) ==
  LET i == ip[p] IN
  /\ pc[p] = "created" /\ holder[i] = p
  /\ holder' = [holder EXCEPT ![i] = None]
  /\ IF op[p] = "create" THEN OpenFile(p, i)
                         ELSE /\ ip' = [ip EXCEPT ![p] = Nil]
                              /\ Put(p, <<i>>, "user")
                              /\ UNCHANGED <<file, ofile, op, cont>>
  /\ UNCHANGED <<dinode, dir, ref, valid, mem, cwd, path, rest, cur, dp, calls, odd>>

-----------------------------------------------------------------------------
(* create() *)

Type(o) == CASE o = "mkdir" -> "dir" [] o = "mknod" -> "dev" [] OTHER -> "file"

Allocatable == {i \in Inums : dinode[i].type = "free"}

\* ilock(dp), dirlookup(), and ialloc() if there is nothing.
create(p) ==
  LET d == dp[p]
      i == dirlookup(d, Head(path[p]))
      new == Min(Allocatable)
  IN
  /\ pc[p] = "create" /\ Unlocked(d)
  /\ \/ /\ i # Nil
        /\ Look({d}, {i})
        /\ ip' = [ip EXCEPT ![p] = i]
        /\ dp' = [dp EXCEPT ![p] = Nil]
        /\ Put(p, <<d>>, "create_found")
        /\ UNCHANGED <<holder, odd>>
     \/ /\ i = Nil /\ Allocatable = {}
        /\ Look({d}, {})
        /\ dp' = [dp EXCEPT ![p] = Nil]
        /\ Put(p, <<d>>, "user")
        /\ UNCHANGED <<holder, ip, odd>>
     \/ /\ i = Nil /\ Allocatable # {}
        /\ mem' = [mem EXCEPT ![d] = In(d)]
        /\ dinode' = [dinode EXCEPT ![new] = [type |-> Type(op[p]), nlink |-> 0]]
        /\ valid' = [valid EXCEPT ![d] = TRUE, ![new] = @ /\ ref[new] > 0]
        /\ ref' = [ref EXCEPT ![new] = @ + 1]
        /\ holder' = [holder EXCEPT ![d] = p]
        /\ ip' = [ip EXCEPT ![p] = new]
        /\ odd' = IF ref[new] > 0 THEN odd \cup {"reused"} ELSE odd
        /\ Goto(p, "create_new")
        /\ UNCHANGED <<dp, puts, after>>
  /\ UNCHANGED <<dir, opened, op, path, rest, cont, cur, calls>>

\* The name exists: only open() of a file or a device takes it.
CreateFound(p) ==
  LET i == ip[p] IN
  /\ pc[p] = "create_found" /\ Unlocked(i)
  /\ Look({i}, {})
  /\ IF op[p] = "create" /\ In(i).type # "dir"
     THEN OpenFile(p, i) \/ Refuse(p, i)
     ELSE /\ ip' = [ip EXCEPT ![p] = Nil]
          /\ Put(p, <<i>>, "user")
          /\ UNCHANGED <<file, ofile, op, cont>>
  /\ path' = [path EXCEPT ![p] = <<>>]
  /\ UNCHANGED <<dir, holder, cwd, rest, cur, dp, calls, odd>>

\* ilock(ip), and the entries; dp is still locked.
CreateNew(p) ==
  LET i == ip[p]
      d == dp[p]
      isdir == op[p] = "mkdir"
  IN
  /\ pc[p] = "create_new" /\ Unlocked(i)
  /\ Update({i}, i :> [In(i) EXCEPT !.nlink = 1]
                 @@ d :> [In(d) EXCEPT !.nlink = IF isdir THEN @ + 1 ELSE @], {})
  /\ dir' = dirlink(IF isdir THEN dirlink(dir, i, "..", d) ELSE dir, d, Head(path[p]), i)
  /\ odd' = Stray(d)
  /\ holder' = [holder EXCEPT ![d] = None, ![i] = p]
  /\ dp' = [dp EXCEPT ![p] = Nil]
  /\ path' = [path EXCEPT ![p] = <<>>]
  /\ Put(p, <<d>>, "created")
  /\ UNCHANGED <<opened, op, rest, cont, cur, ip, calls>>

\* One of the dirlink() calls fails: nlink = 0, and iput(ip) frees it again.
CreateFail(p) ==
  LET i == ip[p] IN
  /\ pc[p] = "create_new" /\ Unlocked(i)
  /\ Update({i}, i :> [In(i) EXCEPT !.nlink = 0], {})
  /\ ip' = [ip EXCEPT ![p] = Nil]
  /\ path' = [path EXCEPT ![p] = <<>>]
  /\ Put(p, <<i>>, "unlock_dp")
  /\ UNCHANGED <<dir, holder, opened, op, rest, cont, cur, dp, calls, odd>>

\* iunlockput(dp) after iunlockput(ip).
UnlockDp(p) ==
  LET d == dp[p] IN
  /\ pc[p] = "unlock_dp"
  /\ holder' = [holder EXCEPT ![d] = None]
  /\ dp' = [dp EXCEPT ![p] = Nil]
  /\ Put(p, <<d>>, "user")
  /\ UNCHANGED <<dinode, dir, ref, valid, mem, opened, op, path, rest, cont, cur, ip, calls, odd>>

-----------------------------------------------------------------------------
(* sys_link() *)

\* With ip locked the link is counted; then the parent of new is looked up.
sys_link(p) ==
  LET i == ip[p]
      q == rest[p]
      abs == q # <<>> /\ Head(q) = "/"
      s == IF abs THEN ROOTINO ELSE cwd[p]
  IN
  /\ pc[p] = "link" /\ Unlocked(i)
  /\ IF In(i).type = "dir"
     THEN /\ Look({i}, {})
          /\ ip' = [ip EXCEPT ![p] = Nil]
          /\ Put(p, <<i>>, "user")
          /\ UNCHANGED <<cur, path, cont>>
     ELSE /\ Update({i}, i :> [In(i) EXCEPT !.nlink = @ + 1], {s})
          /\ cur' = [cur EXCEPT ![p] = s]
          /\ path' = [path EXCEPT ![p] = Elements(q)]
          /\ cont' = [cont EXCEPT ![p] = "link_dp"]
          /\ Goto(p, "namex")
          /\ UNCHANGED <<ip, puts, after>>
  /\ rest' = [rest EXCEPT ![p] = <<>>]
  /\ UNCHANGED <<dir, holder, opened, op, dp, calls, odd>>

\* With dp locked: dirlink() finds the name, and gives the inode back before dp;
\* or it makes the entry; or the disk is full.
LinkDp(p) ==
  LET i == ip[p]
      d == dp[p]
      e == dirlookup(d, Head(path[p]))
  IN
  /\ pc[p] = "link_dp" /\ Unlocked(d)
  /\ \/ /\ e # Nil
        /\ Look({d}, {e})
        /\ holder' = [holder EXCEPT ![d] = p]
        /\ Put(p, <<e>>, "link_found")
        /\ UNCHANGED <<dir, ip, dp, odd>>
     \/ /\ e = Nil
        /\ Look({d}, {})
        /\ dir' = dirlink(dir, d, Head(path[p]), i)
        /\ odd' = Stray(d)
        /\ ip' = [ip EXCEPT ![p] = Nil]
        /\ dp' = [dp EXCEPT ![p] = Nil]
        /\ Put(p, <<d, i>>, "user")
        /\ UNCHANGED holder
     \/ /\ e = Nil
        /\ Look({d}, {})
        /\ dp' = [dp EXCEPT ![p] = Nil]
        /\ Put(p, <<d>>, "link_bad")
        /\ UNCHANGED <<dir, ip, odd, holder>>
  /\ path' = [path EXCEPT ![p] = <<>>]
  /\ UNCHANGED <<opened, op, rest, cont, cur, calls>>

\* dirlink() has found the name: iunlockput(dp), and on to bad.
LinkFound(p) ==
  LET d == dp[p] IN
  /\ pc[p] = "link_found"
  /\ holder' = [holder EXCEPT ![d] = None]
  /\ dp' = [dp EXCEPT ![p] = Nil]
  /\ Put(p, <<d>>, "link_bad")
  /\ UNCHANGED <<dinode, dir, ref, valid, mem, opened, op, path, rest, cont, cur, ip, calls, odd>>

LinkBad_keep(p) ==
  LET i == ip[p] IN
  /\ pc[p] = "link_bad" /\ Unlocked(i)
  /\ Look({i}, {})
  /\ ip' = [ip EXCEPT ![p] = Nil]
  /\ Put(p, <<i>>, "user")
  /\ UNCHANGED <<dir, holder, opened, op, path, rest, cont, cur, dp, calls, odd>>

\* bad: the link is taken back.
LinkBad(p) ==
  LET i == ip[p] IN
  /\ pc[p] = "link_bad" /\ Unlocked(i)
  /\ Update({i}, i :> [In(i) EXCEPT !.nlink = @ - 1], {})
  /\ ip' = [ip EXCEPT ![p] = Nil]
  /\ Put(p, <<i>>, "user")
  /\ UNCHANGED <<dir, holder, opened, op, path, rest, cont, cur, dp, calls, odd>>

-----------------------------------------------------------------------------
(* sys_unlink() *)

\* ilock(dp), and the entry is looked up.
sys_unlink(p) ==
  LET d == dp[p]
      n == Head(path[p])
  IN
  /\ pc[p] = "unlink" /\ Unlocked(d)
  /\ IF n = ".." \/ dirlookup(d, n) = Nil
     THEN /\ Look({d}, {})
          /\ dp' = [dp EXCEPT ![p] = Nil]
          /\ path' = [path EXCEPT ![p] = <<>>]
          /\ Put(p, <<d>>, "user")
          /\ UNCHANGED <<holder, ip>>
     ELSE /\ Look({d}, {dirlookup(d, n)})
          /\ ip' = [ip EXCEPT ![p] = dirlookup(d, n)]
          /\ holder' = [holder EXCEPT ![d] = p]
          /\ Goto(p, "unlink_ip")
          /\ UNCHANGED <<dp, path, puts, after>>
  /\ UNCHANGED <<dir, opened, op, rest, cont, cur, calls, odd>>

isdirempty(i) == \A n \in Names : dir[i][n] = Nil

\* ilock(ip): a directory that is not empty stays ...
UnlinkRefuse(p) ==
  LET i == ip[p] IN
  /\ pc[p] = "unlink_ip" /\ Unlocked(i)
  /\ In(i).type = "dir" /\ ~isdirempty(i)
  /\ Look({i}, {})
  /\ ip' = [ip EXCEPT ![p] = Nil]
  /\ path' = [path EXCEPT ![p] = <<>>]
  /\ Put(p, <<i>>, "unlock_dp")
  /\ UNCHANGED <<dir, holder, opened, op, rest, cont, cur, dp, calls, odd>>

\* ... otherwise the entry goes, with ".." of a directory, and dp is let go.
UnlinkIp(p) ==
  LET i == ip[p]
      d == dp[p]
      isdir == In(i).type = "dir"
  IN
  /\ pc[p] = "unlink_ip" /\ Unlocked(i)
  /\ ~(isdir /\ ~isdirempty(i))
  /\ Update({i}, d :> [In(d) EXCEPT !.nlink = IF isdir THEN @ - 1 ELSE @], {})
  /\ dir' = [dir EXCEPT ![d][Head(path[p])] = Nil]
  /\ holder' = [holder EXCEPT ![d] = None, ![i] = p]
  /\ dp' = [dp EXCEPT ![p] = Nil]
  /\ path' = [path EXCEPT ![p] = <<>>]
  /\ Put(p, <<d>>, "unlink_end")
  /\ UNCHANGED <<opened, op, rest, cont, cur, ip, calls, odd>>

\* ip->nlink--, and iunlockput(ip).
UnlinkEnd(p) ==
  LET i == ip[p] IN
  /\ pc[p] = "unlink_end"
  /\ Update({i}, i :> [In(i) EXCEPT !.nlink = @ - 1], {})
  /\ holder' = [holder EXCEPT ![i] = None]
  /\ ip' = [ip EXCEPT ![p] = Nil]
  /\ Put(p, <<i>>, "user")
  /\ UNCHANGED <<dir, opened, op, path, rest, cont, cur, dp, calls, odd>>

-----------------------------------------------------------------------------
(* sys_chdir() *)

sys_chdir(p) ==
  LET i == ip[p] IN
  /\ pc[p] = "chdir" /\ Unlocked(i)
  /\ Look({i}, {})
  /\ ip' = [ip EXCEPT ![p] = Nil]
  /\ IF In(i).type = "dir"
     THEN cwd' = [cwd EXCEPT ![p] = i] /\ Put(p, <<cwd[p]>>, "user")
     ELSE UNCHANGED cwd /\ Put(p, <<i>>, "user")
  /\ UNCHANGED <<dir, holder, file, ofile, op, path, rest, cont, cur, dp, calls, odd>>

-----------------------------------------------------------------------------

\* Everybody is back in user space.
Done == calls = MaxCalls /\ (\A p \in Procs : pc[p] = "user") /\ UNCHANGED vars

Next ==
  \/ Done
  \/ \E p \in Procs :
    \/ iput(p) \/ itrunc(p) \/ invalidate(p) \/ drop(p)
    \/ namex(p) \/ Call(p) \/ sys_dup(p) \/ sys_close(p)
    \/ sys_open(p) \/ Created(p) \/ create(p) \/ CreateFound(p) \/ CreateNew(p)
    \/ CreateFail(p) \/ UnlockDp(p)
    \/ sys_link(p) \/ LinkDp(p) \/ LinkFound(p) \/ LinkBad(p)
    \/ sys_unlink(p) \/ UnlinkRefuse(p) \/ UnlinkIp(p) \/ UnlinkEnd(p)
    \/ sys_chdir(p)

Spec == Init /\ [][Next]_vars

-----------------------------------------------------------------------------
(* Properties *)

Removing(i) == \E p \in Procs : ip[p] = i /\ after[p] = "unlink_end"

\* The names of i; the directories whose ".." it is, as long as they have a name.
NamesOf(i) ==
  Cardinality({e \in Inums \X Names : dinode[e[1]].type = "dir" /\ dir[e[1]][e[2]] = i})
Subdirs(i) ==
  Cardinality({d \in Inums : /\ dinode[d].type = "dir" /\ dir[d][".."] = i
                             /\ dinode[d].nlink > 0 /\ ~Removing(d)})

\* Links that are counted while their entry is not made yet, or gone already.
InFlight(i) ==
  Cardinality({p \in Procs : ip[p] = i /\ (cont[p] = "link_dp" \/ after[p] = "unlink_end")})

\* nlink never falls behind the names of an inode, so that no name is left on
\* an inode that is freed; it is exact, whatever calls fail or interleave, as
\* long as nobody makes an entry in a directory that has been removed (create()
\* and sys_link() do that: what is in such a directory is lost with it).
LinksCounted ==
  \A i \in Inums :
    IF dinode[i].type = "free"
    THEN NamesOf(i) = 0
    ELSE /\ dinode[i].nlink >= NamesOf(i) + InFlight(i)
         /\ "stray" \notin odd => dinode[i].nlink = NamesOf(i) + Subdirs(i) + InFlight(i)

References(i) ==
  Cardinality({f \in Files : file[f].ref > 0 /\ file[f].ip = i})
  + Cardinality({p \in Procs : cwd[p] = i}) + Cardinality({p \in Procs : cur[p] = i})
  + Cardinality({p \in Procs : ip[p] = i}) + Cardinality({p \in Procs : dp[p] = i})
  + Cardinality({x \in Procs \X {1, 2} : x[2] <= Len(puts[x[1]]) /\ puts[x[1]][x[2]] = i})

\* Every iget(), idup() and filedup() has its iput() or fileclose(), on all the
\* paths through the system calls that fail, too: ip->ref and f->ref are the
\* pointers there are.
RefsCounted ==
  /\ \A i \in Inums : ref[i] = References(i)
  /\ \A f \in Files :
       file[f].ref = Cardinality({x \in Procs \X Fds : ofile[x[1]][x[2]] = f})

Leaked(i) == ref[i] = 0 /\ dinode[i].nlink = 0 /\ dinode[i].type # "free"

\* An inode without links and references has been given back, as long as no
\* ialloc() has taken an inode that an iput() still refers to.
Reclaimed == "reused" \in odd \/ \A i \in Inums : ~Leaked(i)

\* iput(): "If that was the last reference and the inode has no links to it,
\* free the inode (and its content) on disk."
LastPutFrees == \A i \in Inums : ~Leaked(i)

\* The inode that p is about to ilock().
Locking(p) ==
  CASE pc[p] = "namex" /\ path[p] # <<>> -> cur[p]
    [] pc[p] \in {"open", "create_found", "create_new", "link", "link_bad", "unlink_ip", "chdir"} -> ip[p]
    [] pc[p] \in {"create", "link_dp", "unlink"} -> dp[p]
    [] OTHER -> Nil

\* "ilock: no type" and "unlink: nlink < 1" are out of reach: what was looked
\* up is allocated when it is locked, though it was looked up before; and the
\* acquiresleep() in iput(), under itable.lock, finds the lock free.
NoPanic ==
  \A p \in Procs :
    LET i == Locking(p) IN
    /\ i # Nil /\ Unlocked(i) => In(i).type # "free"
    /\ pc[p] = "unlink_ip" /\ Unlocked(i) => In(i).nlink >= 1
    /\ pc[p] = "iput" /\ LastLink(Head(puts[p])) => Unlocked(Head(puts[p]))
=============================================================================
