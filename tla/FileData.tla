------------------------------ MODULE FileData ------------------------------
(***************************************************************************)
(* What is in files: the block allocator and the inode content of fs.c,    *)
(* and fileread(), filewrite() and O_TRUNC above it.  A step is a critical *)
(* section of ip->lock, in filewrite() also a transaction.  The disk may   *)
(* run out of blocks, and a copy from user memory may fail, in the middle  *)
(* of a writei().  A block is zero, data, or an indirect block's numbers.  *)
(***************************************************************************)
EXTENDS Integers, FiniteSets, FiniteSetsExt, Sequences, SequencesExt, TLC

CONSTANTS
  Inodes,
  Files,              \* a subset of Inodes: the ones under test, one per inode
  Blocks,             \* the data blocks, 1 .. n
  BPB,                \* blocks that a bitmap block covers
  BSIZE, NDIRECT, NINDIRECT,
  MAXOPBLOCKS,
  Uint,               \* 2^32
  Bytes, Counts       \* bound: what is written; the n of read() and write()

MAXFILE == NDIRECT + NINDIRECT

VARIABLES
  used,    \* the bitmap
  data,    \* of a block, as a data block in the buffer cache
  home,    \* the same, in the log or on the disk
  ind,     \* of a block, as an indirect block
  addrs, size,  \* of an inode
  file,    \* of an open file: ip, off
  job      \* of an open file: the rest of a filewrite()

vars == <<used, data, home, ind, addrs, size, file, job>>

ZeroData == [k \in 0 .. BSIZE - 1 |-> 0]
ZeroInd == [k \in 0 .. NINDIRECT - 1 |-> 0]
NoJob == [byte |-> 0, n |-> 0]

Init ==
  /\ used = {}
  /\ data = [b \in Blocks |-> ZeroData] /\ home = data
  /\ ind = [b \in Blocks |-> ZeroInd]
  /\ addrs = [i \in Inodes |-> [k \in 0 .. NDIRECT |-> 0]]
  /\ size = [i \in Inodes |-> 0]
  /\ file = [f \in Files |-> [ip |-> f, off |-> 0]]
  /\ job = [f \in Files |-> NoJob]

-----------------------------------------------------------------------------
(* Block and inode operations, on a record of the disk's state *)

Disk(i) == [used |-> used, data |-> data, home |-> home, ind |-> ind, addrs |-> addrs[i], log |-> {}]

Bitmap(b) == <<"bitmap", b \div BPB>>

\* balloc(): the first free block, zeroed, or 0.
balloc(d) ==
  IF Blocks \subseteq d.used THEN [d |-> d, b |-> 0]
  ELSE LET b == Min(Blocks \ d.used)
       IN [d |-> [d EXCEPT !.used = @ \cup {b}, !.data[b] = ZeroData, !.home[b] = ZeroData,
                           !.ind[b] = ZeroInd, !.log = @ \cup {Bitmap(b), <<"block", b>>}],
           b |-> b]

\* The entry of ip->addrs, allocated if need be.
Entry(d, k) ==
  IF d.addrs[k] # 0 THEN [d |-> d, b |-> d.addrs[k]]
  ELSE LET r == balloc(d)
       IN [r EXCEPT !.d.addrs[k] = r.b]

\* bmap(): the block bn of the inode, or 0.
bmap(d, bn) ==
  IF bn < NDIRECT THEN Entry(d, bn)
  ELSE LET r == Entry(d, NDIRECT)
           k == bn - NDIRECT
       IN IF r.b = 0 \/ r.d.ind[r.b][k] # 0
          THEN [d |-> r.d, b |-> IF r.b = 0 THEN 0 ELSE r.d.ind[r.b][k]]
          ELSE LET s == balloc(r.d)
               IN IF s.b = 0 THEN s
                  ELSE [s EXCEPT !.d.ind[r.b][k] = s.b, !.d.log = @ \cup {<<"block", r.b>>}]

\* How much of n bytes at off is in off's block.
Chunk(off, n) == Min({n, BSIZE - (off % BSIZE)})

\* m bytes at off in a block.
Copy(c, byte, off, m) ==
  [k \in 0 .. BSIZE - 1 |-> IF k \in off % BSIZE .. (off % BSIZE) + m - 1 THEN byte ELSE c[k]]

\* The loop of writei(), with n bytes to go at off. User memory has only good
\* more bytes: copyin() then fails, with those already in the buffer, which
\* is released without log_write().
RECURSIVE WriteLoop(_, _, _, _, _, _)
WriteLoop(d, byte, off, n, good, tot) ==
  LET r == bmap(d, off \div BSIZE)
      m == Chunk(off, n)
      c == Copy(r.d.data[r.b], byte, off, Min({m, good}))
  IN CASE n = 0 -> [d |-> d, tot |-> tot]
       [] n > 0 /\ r.b = 0 -> [d |-> r.d, tot |-> tot]
       [] n > 0 /\ r.b # 0 /\ m > good -> [d |-> [r.d EXCEPT !.data[r.b] = c], tot |-> tot]
       [] OTHER -> WriteLoop([r.d EXCEPT !.data[r.b] = c, !.home[r.b] = c,
                                         !.log = @ \cup {<<"block", r.b>>}],
                             byte, off + m, n - m, good - m, tot + m)

\* itrunc(): the blocks that it frees.
itrunc_direct(i) == {addrs[i][k] : k \in 0 .. NDIRECT} \ {0}

itrunc(i) ==
  LET direct == {addrs[i][k] : k \in 0 .. NDIRECT} \ {0}
      a == addrs[i][NDIRECT]
  IN direct \cup (IF a = 0 THEN {} ELSE {ind[a][k] : k \in 0 .. NINDIRECT - 1} \ {0})

\* bfree() of these blocks; it does not clear them.
bfree(S) == used \ S

-----------------------------------------------------------------------------
(* System calls *)

\* open() with O_TRUNC: nothing is left, also under the other open files. The new
\* file is soon closed.
sys_open_trunc(i) ==
  /\ used' = bfree(itrunc(i))
  /\ addrs' = [addrs EXCEPT ![i] = [k \in 0 .. NDIRECT |-> 0]]
  /\ size' = [size EXCEPT ![i] = 0]
  /\ UNCHANGED <<data, home, ind, file, job>>

\* open() without it: a new file, at offset 0, which takes the place of f.
sys_open(f) ==
  /\ job[f] = NoJob
  /\ file' = [file EXCEPT ![f].off = 0]
  /\ UNCHANGED <<used, data, home, ind, addrs, size, job>>

\* write(): filewrite() begins its loop.
sys_write(f) ==
  /\ job[f] = NoJob
  /\ \E c \in Bytes, n \in Counts : n > 0 /\ job' = [job EXCEPT ![f] = [byte |-> c, n |-> n]]
  /\ UNCHANGED <<used, data, home, ind, addrs, size, file>>

PerOp_slop == ((MAXOPBLOCKS - 1 - 1) \div 2) * BSIZE

\* filewrite()'s max.
PerOp == ((MAXOPBLOCKS - 1 - 1 - 2) \div 2) * BSIZE

\* writei()'s early returns; off + n is unsigned.
BadRange(i, off, n) ==
  LET end == (off + n) % Uint
  IN off > size[i] \/ end < off \/ end > MAXFILE * BSIZE

Size_short(i, off) == size[i]

\* "if(off > ip->size) ip->size = off".
Size(i, off) == Max({off, size[i]})

\* One transaction of filewrite(): a writei(), and on to the next if it was whole.
filewrite(f) ==
  LET i   == file[f].ip
      off == file[f].off
      n1  == Min({job[f].n, PerOp})
  IN
  /\ job[f] # NoJob
  /\ IF BadRange(i, off, n1)
     THEN /\ job' = [job EXCEPT ![f] = NoJob]
          /\ UNCHANGED <<used, data, home, ind, addrs, size, file>>
     ELSE \E good \in {n1 - 1, n1} :
            LET w == WriteLoop(Disk(i), job[f].byte, off, n1, good, 0)
                left == job[f].n - n1
            IN /\ used' = w.d.used /\ data' = w.d.data /\ home' = w.d.home /\ ind' = w.d.ind
               /\ addrs' = [addrs EXCEPT ![i] = w.d.addrs]
               /\ size' = [size EXCEPT ![i] = Size(i, off + w.tot)]
               /\ file' = [file EXCEPT ![f].off = off + w.tot]
               /\ job' = [job EXCEPT ![f] = IF w.tot = n1 /\ left > 0 THEN [@ EXCEPT !.n = left]
                                            ELSE NoJob]

\* readi()'s n: nothing beyond the end; n is unsigned there.
Readable(i, off, n) ==
  LET u == n % Uint IN
  IF off > size[i] \/ (off + u) % Uint < off THEN 0
  ELSE IF (off + u) % Uint > size[i] THEN size[i] - off ELSE u

\* read(): fileread(), whose readi() finds all blocks, and copyout() may fail.
fileread(f) ==
  LET i == file[f].ip
      off == file[f].off
  IN
  /\ job[f] = NoJob
  /\ \E n \in Counts : file' = [file EXCEPT ![f].off = off + Readable(i, off, n)]
  /\ UNCHANGED <<used, data, home, ind, addrs, size, job>>

\* A buffer with bytes that were not logged is recycled, and the block read
\* again; or an earlier write had it pinned, and the commit copies it all.
Recycle(b) ==
  /\ data[b] # home[b]
  /\ \/ data' = [data EXCEPT ![b] = home[b]] /\ UNCHANGED home
     \/ home' = [home EXCEPT ![b] = data[b]] /\ UNCHANGED data
  /\ UNCHANGED <<used, ind, addrs, size, file, job>>

Next ==
  \/ \E i \in Inodes : sys_open_trunc(i)
  \/ \E f \in Files : sys_open(f) \/ sys_write(f) \/ filewrite(f) \/ fileread(f)
  \/ \E b \in Blocks : Recycle(b)

Spec == Init /\ [][Next]_vars

-----------------------------------------------------------------------------
(* Properties *)

BlockOf(i, bn) == IF bn < NDIRECT THEN addrs[i][bn]
                  ELSE IF addrs[i][NDIRECT] = 0 THEN 0
                  ELSE ind[addrs[i][NDIRECT]][bn - NDIRECT]

Content(i, d) == [k \in 1 .. size[i] |-> d[BlockOf(i, (k - 1) \div BSIZE)][(k - 1) % BSIZE]]

\* f's write adds tot bytes, and m - tot more have overwritten what was there.
Written(i, f, tot, m) ==
  LET old == Content(i, data)
      off == file[f].off
  IN /\ file[f].ip = i /\ file' = [file EXCEPT ![f].off = off + tot]
     /\ Content(i, data)' = [k \in 1 .. Max({Len(old), off + tot}) |->
                                IF k \in off + 1 .. off + m THEN job[f].byte ELSE old[k]]

\* A file is a sequence of bytes. A write() replaces or appends the bytes it was
\* given, at the offset; when the disk is full or the user's memory ends it is a
\* prefix of them, and the size and the offset count only whole copies; no other
\* file changes, however blocks are recycled. Bytes of a copy that failed may
\* stay or go again later (writei() does not log them).
ByteStep ==
  \A i \in Inodes :
    \/ /\ Content(i, data)' = Content(i, data)
       /\ \A f \in Files : file[f].ip = i /\ job[f] # NoJob => file'[f] = file[f]
    \/ size'[i] = 0 /\ addrs' # addrs /\ job' = job
    \/ \E f \in Files : \E m \in 1 .. job[f].n : \E tot \in 0 .. m : Written(i, f, tot, m)
    \/ file' = file /\ Content(i, data)' = Content(i, home)

FileIsBytes == [][ByteStep]_vars

\* The places that hold a block number.
Places ==
  {<<i, k>> : i \in Inodes, k \in 0 .. NDIRECT}
    \cup {<<i, NDIRECT, k>> : i \in Inodes, k \in 0 .. NINDIRECT - 1}
At(x) == IF Len(x) = 2 THEN addrs[x[1]][x[2]]
         ELSE IF addrs[x[1]][NDIRECT] = 0 THEN 0 ELSE ind[addrs[x[1]][NDIRECT]][x[3]]

\* The bitmap has exactly the blocks in use, each in one place, also after a
\* write() that failed half-way; and a file has all its blocks, so that read(),
\* which is not in a transaction, never allocates one ("log_write outside of
\* trans").
BlocksOwned ==
  /\ used = {At(x) : x \in Places} \ {0}
  /\ \A x, y \in Places : x # y /\ At(x) # 0 => At(x) # At(y)
  /\ \A i \in Inodes : \A k \in 0 .. size[i] - 1 : BlockOf(i, k \div BSIZE) # 0

\* filewrite() splits a write() so that each of its transactions logs at most
\* MAXOPBLOCKS blocks: inode, indirect block, bitmap blocks, and data at both
\* ends. (It is about filewrite() alone; other calls log what they log.)
FitsTransaction ==
  \A f \in Files : \A n1 \in {Min({job[f].n, PerOp})} :
    job[f] # NoJob /\ ~BadRange(file[f].ip, file[f].off, n1) =>
      Cardinality(WriteLoop(Disk(file[f].ip), 0, file[f].off, n1, n1, 0).d.log) + 1 <= MAXOPBLOCKS
=============================================================================
