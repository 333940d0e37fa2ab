------------------------------ MODULE Strings -------------------------------
(***************************************************************************)
(* Loops over characters: kernel/string.c, user/ulib.c, skipelem() and     *)
(* namecmp() of fs.c, printint(), as recursive definitions, compared with  *)
(* what they are to compute.  A string is the sequence of its characters   *)
(* before the NUL; memory is a function from addresses.                    *)
(***************************************************************************)
EXTENDS Integers, Sequences, SequencesExt, FiniteSetsExt

CONSTANTS
  DIRSIZ,
  Uint      \* 2^32

NUL == 0
Slash == 47
LineEnds == {10, 13}  \* \n and \r

At(s, i) == IF i <= Len(s) THEN s[i] ELSE NUL

-----------------------------------------------------------------------------
(* Copies *)

RECURSIVE Upwards(_, _, _, _)
Upwards(m, d, s, n) == IF n = 0 THEN m ELSE Upwards([m EXCEPT ![d] = m[s]], d + 1, s + 1, n - 1)

RECURSIVE Downwards(_, _, _, _)
Downwards(m, d, s, n) ==
  IF n = 0 THEN m ELSE Downwards([m EXCEPT ![d + n - 1] = m[s + n - 1]], d, s, n - 1)

memmove_up(m, d, s, n) == Upwards(m, d, s, n)

\* The kernel's.
memmove(m, d, s, n) == IF s < d /\ s + n > d THEN Downwards(m, d, s, n) ELSE Upwards(m, d, s, n)

\* The one of user programs.
umemmove(m, d, s, n) == IF s > d THEN Upwards(m, d, s, n) ELSE Downwards(m, d, s, n)

\* From index i on, with n characters to go; after the NUL come NULs.
RECURSIVE strncpy(_, _, _)
strncpy(t, i, n) ==
  IF n <= 0 THEN <<>>
  ELSE IF At(t, i) = NUL THEN [k \in 1 .. n |-> NUL]
  ELSE <<t[i]>> \o strncpy(t, i + 1, n - 1)

\* Into s, from index i on, with --n characters to go.
RECURSIVE safestrcpy(_, _, _, _)
safestrcpy(s, t, i, n) ==
  IF n <= 0 THEN s
  ELSE IF n = 1 THEN [s EXCEPT ![i] = NUL]
  ELSE IF At(t, i) = NUL THEN [s EXCEPT ![i] = NUL, ![i + 1] = NUL]
  ELSE safestrcpy([s EXCEPT ![i] = t[i]], t, i + 1, n - 1)

RECURSIVE strncmp(_, _, _, _)
strncmp(p, q, i, n) ==
  IF n > 0 /\ At(p, i) # NUL /\ At(p, i) = At(q, i) THEN strncmp(p, q, i + 1, n - 1)
  ELSE IF n = 0 THEN 0 ELSE At(p, i) - At(q, i)

namecmp(s, t) == strncmp(s, t, 1, DIRSIZ)

-----------------------------------------------------------------------------
(* Paths, lines and numbers *)

RECURSIVE SkipSlashes(_)
SkipSlashes(path) == IF At(path, 1) = Slash THEN SkipSlashes(Tail(path)) ELSE path

\* skipelem(): the name and the path that follows, or nothing.
skipelem(path) ==
  LET s == SkipSlashes(path)
      len == Min({i \in 1 .. Len(s) + 1 : At(s, i) \in {Slash, NUL}}) - 1
  IN IF s = <<>> THEN <<>>
     ELSE <<SubSeq(s, 1, IF len >= DIRSIZ THEN DIRSIZ ELSE len),
            SkipSlashes(SubSeq(s, len + 1, Len(s)))>>

\* The names that namex() looks up.
RECURSIVE PathNames(_)
PathNames(path) ==
  LET r == skipelem(path) IN IF r = <<>> THEN <<>> ELSE <<r[1]>> \o PathNames(r[2])

\* gets(), with i characters in the buffer of max.
RECURSIVE gets(_, _, _)
gets(input, i, max) ==
  IF i + 1 < max /\ i < Len(input) /\ (i = 0 \/ input[i] \notin LineEnds) THEN gets(input, i + 1, max)
  ELSE SubSeq(input, 1, i)

\* digits[d], of "0123456789ABCDEF"
Digit(d) == IF d < 10 THEN 48 + d ELSE 55 + d

RECURSIVE Digits(_, _)
Digits(x, base) ==
  (IF x \div base = 0 THEN <<>> ELSE Digits(x \div base, base)) \o <<Digit(x % base)>>

\* printint(): the sign and the digits; the int xx is printed through an uint.
printint(xx, base, sgn) ==
  [neg |-> sgn /\ xx < 0, digits |-> Digits((IF sgn /\ xx < 0 THEN -xx ELSE xx) % Uint, base)]

\* atoi(), from index i on, up to the first character that is not a digit.
RECURSIVE atoi(_, _, _)
atoi(s, i, n) ==
  IF At(s, i) \in Digit(0) .. Digit(9) THEN atoi(s, i + 1, n * 10 + At(s, i) - Digit(0)) ELSE n

-----------------------------------------------------------------------------
(* Properties *)

\* memmove(): the bytes arrive as they were, when source and destination overlap
\* in either way, too; no other byte changes.
Moved(m) ==
  \A d, s \in DOMAIN m : \A n \in 0 .. Cardinality(DOMAIN m) - Max({d, s}) :
    LET copy == [k \in DOMAIN m |-> IF k \in d .. d + n - 1 THEN m[s + k - d] ELSE m[k]]
    IN memmove(m, d, s, n) = copy /\ umemmove(m, d, s, n) = copy

\* The names of a path are its longest pieces without slash, cut off at DIRSIZ.
NamesIn(path) ==
  LET starts == {i \in DOMAIN path : path[i] # Slash /\ At(<<Slash>> \o path, i) = Slash}
      Piece(i) == SubSeq(path, i, Min({j \in i .. Len(path) + 1 : At(path, j) \in {Slash, NUL}}) - 1)
      Cut(p) == SubSeq(p, 1, Min({Len(p), DIRSIZ}))
      order == SetToSortSeq(starts, LAMBDA i, j : i < j)
  IN [k \in DOMAIN order |-> Cut(Piece(order[k]))]

\* skipelem() in namex() finds the names of any path; the name that dirlink()
\* stores with strncpy() is found again by dirlookup(), under namecmp(), for the
\* names that agree with it in the first DIRSIZ characters, and for no others;
\* safestrcpy() ends with a NUL inside of its buffer; and gets() returns the input
\* up to the first \n or \r, or as much of it as fits.
StringRight(s, others) ==
  /\ PathNames(s) = NamesIn(s)
  /\ \A t \in others :
       namecmp(strncpy(s, 1, DIRSIZ), t) = 0 <=> strncpy(s, 1, DIRSIZ) = strncpy(t, 1, DIRSIZ)
  /\ \A n \in 1 .. Len(s) + 2 : \A old \in {[k \in 1 .. n |-> 1]} :
       LET len == Min({Len(s), n - 1})
           new == safestrcpy(old, s, 1, n)
       IN SubSeq(new, 1, len) = SubSeq(s, 1, len) /\ At(new, len + 1) = NUL
  /\ \A max \in 1 .. Len(s) + 2 :
       gets(s, 0, max) = SubSeq(s, 1, Min({max - 1, Len(s)} \cup {i \in DOMAIN s : s[i] \in LineEnds}))

Value(digits, base) ==
  FoldLeft(LAMBDA v, c : base * v + CHOOSE d \in 0 .. base - 1 : Digit(d) = c, 0, digits)

\* printint() prints every int, the smallest one too, so that it has its value,
\* without zeros in front; and atoi() reads a number back, if it is one of an
\* int, up to the character that ends it.
NumberRight(xx) ==
  LET p == printint(xx, 10, TRUE)
      q == printint(xx, 16, FALSE)
      abs == IF xx < 0 THEN -xx ELSE xx
  IN
  /\ p.neg = (xx < 0) /\ Value(p.digits, 10) = abs
  /\ ~q.neg /\ Value(q.digits, 16) = xx % Uint
  /\ \A t \in {p.digits, q.digits} : Len(t) > 1 => t[1] # Digit(0)
  /\ abs < Uint \div 2 =>
       \A rest \in {<<>>, <<Slash>>, <<Digit(10), Digit(1)>>} : atoi(p.digits \o rest, 1, 0) = abs
=============================================================================
