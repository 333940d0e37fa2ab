-------------------------------- MODULE Grep --------------------------------
(***************************************************************************)
(* user/grep.c: the matcher, compared with a definition by sets of         *)
(* positions, and the loop which cuts what read() returns into lines.      *)
(***************************************************************************)
EXTENDS Integers, Sequences, SequencesExt

CONSTANTS
  Bufsiz,    \* sizeof(buf)
  Patterns,  \* bound: patterns to match with every text
  Texts,     \* bound: those texts
  Files      \* bound: the content of files to search for <<"a">>

VARIABLES
  pattern, input,
  pos,    \* read so far
  buf,    \* buf[0 .. m - 1]
  out,    \* the lines that were written
  ended

vars == <<pattern, input, pos, buf, out, ended>>

-----------------------------------------------------------------------------
Is(c, x) == c = "." \/ c = x

RECURSIVE matchhere(_, _)
RECURSIVE matchstar(_, _, _)

matchhere(re, text) ==
  IF re = <<>> THEN TRUE
  ELSE IF Len(re) > 1 /\ re[2] = "*" THEN matchstar(re[1], SubSeq(re, 3, Len(re)), text)
  ELSE IF re = <<"$">> THEN text = <<>>
  ELSE text # <<>> /\ Is(re[1], text[1]) /\ matchhere(Tail(re), Tail(text))

matchstar(c, re, text) ==
  matchhere(re, text) \/ (text # <<>> /\ Is(c, text[1]) /\ matchstar(c, re, Tail(text)))

RECURSIVE Anywhere(_, _)
Anywhere(re, text) == matchhere(re, text) \/ (text # <<>> /\ Anywhere(re, Tail(text)))

match(re, text) == IF re # <<>> /\ re[1] = "^" THEN matchhere(Tail(re), text) ELSE Anywhere(re, text)

-----------------------------------------------------------------------------
Init ==
  /\ \/ pattern \in Patterns /\ input = <<>>
     \/ pattern = <<"a">> /\ input \in Files
  /\ pos = 0 /\ buf = <<>> /\ out = <<>> /\ ended = FALSE

\* The lines of buf, and what is left: strchr() and the writes of grep().
RECURSIVE Cut(_, _)
Cut(b, lines) ==
  LET ends == {i \in DOMAIN b : b[i] = "\n"}
      q == CHOOSE i \in ends : \A j \in ends : i <= j
      p == SubSeq(b, 1, q - 1)
  IN IF ends = {} THEN [left |-> b, out |-> lines]
     ELSE Cut(SubSeq(b, q + 1, Len(b)), IF match(pattern, p) THEN Append(lines, p) ELSE lines)

Room == Bufsiz - Len(buf) - 1

\* One round of the loop of grep(), for a read() of n bytes; it ends at 0.
grep(n) ==
  LET r == Cut(buf \o SubSeq(input, pos + 1, pos + n), out) IN
  /\ ~ended
  /\ n <= Room /\ pos + n <= Len(input)
  /\ n = 0 => Room = 0 \/ pos = Len(input)
  /\ ended' = (n = 0)
  /\ IF n = 0 THEN UNCHANGED <<pos, buf, out>>
     ELSE pos' = pos + n /\ buf' = r.left /\ out' = r.out
  /\ UNCHANGED <<pattern, input>>

\* grep() has returned.
Done == ended /\ UNCHANGED vars

Next == (\E n \in 0 .. Bufsiz : grep(n)) \/ Done

Spec == Init /\ [][Next]_vars

-----------------------------------------------------------------------------
(* Properties *)

\* How many characters of text can be behind us when re has matched, if before it
\* those of S could be.
RECURSIVE Reach(_, _, _)
Reach(re, text, S) ==
  IF re = <<>> THEN S
  ELSE IF Len(re) > 1 /\ re[2] = "*"
  THEN Reach(SubSeq(re, 3, Len(re)), text,
             {q \in 0 .. Len(text) : \E p \in S : p <= q /\ \A i \in p + 1 .. q : Is(re[1], text[i])})
  ELSE IF re = <<"$">> THEN S \cap {Len(text)}
  ELSE Reach(Tail(re), text, {q \in 1 .. Len(text) : q - 1 \in S /\ Is(re[1], text[q])})

Matches(re, text) ==
  IF re # <<>> /\ re[1] = "^" THEN Reach(Tail(re), text, {0}) # {}
  ELSE Reach(re, text, 0 .. Len(text)) # {}

\* The file's lines that are to be written, in order: those that match, up to the
\* first which does not fit into buf.
Wanted ==
  LET ends == {i \in DOMAIN input : input[i] = "\n"}
      Line(i) == SubSeq(input, 1 + Max({j \in ends : j < i} \cup {0}), i - 1)
      wanted == {i \in ends : /\ Matches(pattern, Line(i))
                              /\ \A j \in ends : j <= i => Len(Line(j)) < Bufsiz - 1}
      order == SetToSortSeq(wanted, LAMBDA i, j : i < j)
  IN [n \in DOMAIN order |-> Line(order[n])]

\* match() finds a match of the pattern if and only if there is one, and grep()
\* writes each line that matches once and in order, however read() cuts the file.
GrepRight ==
  /\ pos = 0 /\ input = <<>> => \A text \in Texts : match(pattern, text) = Matches(pattern, text)
  /\ ended => out = Wanted
=============================================================================
