------------------------------- MODULE Names -------------------------------
(***************************************************************************)
(* appendSnake of names.go, byte by byte, and normKey of config.go, which  *)
(* puts the keys of aliases into the form that the walk gives its own.     *)
(* A string is a sequence of bytes.                                        *)
(***************************************************************************)
EXTENDS Integers, Sequences, FiniteSets, SequencesExt

Underscore == 95

IsLower(c) == c \in 97 .. 122
Class(c) ==
  CASE IsLower(c) \/ c >= 128 -> "lower"
    [] c \in 65 .. 90 -> "upper"
    [] c \in 48 .. 57 -> "digit"
    [] OTHER -> "none"

LowerCase(c) == IF Class(c) = "upper" THEN c + 32 ELSE c

\* A slip of appendSnake: what dst held before counts as a word.
HasWordInDst(dst, start) == dst # <<>>

(* Whether s has given a word yet. *)
HasWord(dst, start) == Len(dst) > start

(* A byte of s that is a letter or a digit starts a word: after a           *)
(* separator, at a capital, before the last capital of an acronym.          *)
Boundary(a, s, i) ==
  \/ a.sep
  \/ Class(s[i]) = "upper" /\ a.prev \in {"lower", "digit"}
  \/ Class(s[i]) = "upper" /\ a.prev = "upper" /\ i < Len(s) /\ IsLower(s[i + 1])

AppendByte(a, s, i, start) ==
  IF Class(s[i]) = "none" THEN [a EXCEPT !.sep = TRUE]
  ELSE [dst |-> (IF Boundary(a, s, i) /\ HasWord(a.dst, start)
                 THEN Append(a.dst, Underscore) ELSE a.dst) \o <<LowerCase(s[i])>>,
        prev |-> Class(s[i]), sep |-> FALSE]

(* The loop of appendSnake: after[i] is its state when i bytes are read. *)
AppendSnake(dst, s) ==
  LET after[i \in 0 .. Len(s)] ==
        IF i = 0 THEN [dst |-> dst, prev |-> "none", sep |-> FALSE]
        ELSE AppendByte(after[i - 1], s, i, Len(dst))
  IN  after[Len(s)].dst

Snake(s) == AppendSnake(<<>>, s)

(* The numbers of a set in their order: the one in place n is the one that  *)
(* is the n-th from below.                                                  *)
Rank(S, i) == Cardinality({x \in S : x <= i})

InOrder(S) == [n \in 1 .. Cardinality(S) |-> CHOOSE x \in S : Rank(S, x) = n]

(* strings.Split and strings.Join at a separator of one byte. *)
SplitAt(s, sep) ==
  LET cuts == InOrder({0, Len(s) + 1} \cup {i \in DOMAIN s : s[i] = sep})
  IN  [n \in 1 .. Len(cuts) - 1 |-> SubSeq(s, cuts[n] + 1, cuts[n + 1] - 1)]

JoinWith(segs, sep) == FlattenSeq([n \in DOMAIN segs |-> IF n = 1 THEN segs[n] ELSE <<sep>> \o segs[n]])

SnakedSegments(key, sep) ==
  LET segs == SplitAt(key, sep) IN [n \in DOMAIN segs |-> Snake(segs[n])]

\* A slip of normKey: segments of which nothing is left are kept.
NormKeyWithEmpty(key, sep) == JoinWith(SnakedSegments(key, sep), sep)

NonEmpty(segs) ==
  LET left == InOrder({n \in DOMAIN segs : segs[n] # <<>>})
  IN  [n \in DOMAIN left |-> segs[left[n]]]

(* normKey, for a config that normalises. *)
NormKey(key, sep) == JoinWith(NonEmpty(SnakedSegments(key, sep)), sep)

-----------------------------------------------------------------------------

(* The letters and digits of s in lower case, an underscore before each of  *)
(* them that starts a word but the first: one after something else, one     *)
(* after a smaller one, or the last capital before a lower-case letter, for *)
(* which every byte from 128 on is taken.                                   *)
SnakeByWords(s) ==
  LET letters == InOrder({i \in DOMAIN s : Class(s[i]) # "none"})
      Cls(n) == Class(s[letters[n]])
      StartsWord(n) ==
        \/ letters[n] # letters[n - 1] + 1
        \/ Cls(n) = "upper" /\ Cls(n - 1) # "upper"
        \/ /\ Cls(n) = "upper"
           /\ n < Len(letters) /\ letters[n + 1] = letters[n] + 1
           /\ Class(s[letters[n + 1]]) = "lower"
      Piece(n) ==
        (IF n > 1 /\ StartsWord(n) THEN <<Underscore>> ELSE <<>>) \o <<LowerCase(s[letters[n]])>>
  IN  FlattenSeq([n \in DOMAIN letters |-> Piece(n)])

(* The names for which appendSnake breaks the words otherwise: behind a     *)
(* capital it looks for a .. z only (names.go:46), so that an acronym is    *)
(* not ended by a byte from 128 on, which is a lower-case letter elsewhere. *)
HighAfterCapitals(s) ==
  \E i \in 3 .. Len(s) :
    Class(s[i - 2]) = "upper" /\ Class(s[i - 1]) = "upper" /\ s[i] >= 128

=============================================================================
