------------------------------- MODULE MCText -------------------------------
(* The pure functions of names.go, jsonenc.go and skew on every short word   *)
(* over the bytes that they tell apart, worthPooling on every short sequence *)
(* of input sizes, and the maps of strmap.go beside them: kind says which of *)
(* them a behaviour is about.                                                *)
EXTENDS Names, Jsonenc, StrMap, Skew, Pooling

CONSTANTS Alphabet,   (* the bytes of the words, per kind *)
          MaxLen      (* bound: the bytes of a word, per kind *)

ASSUME BytesAssumption == \A x \in DOMAIN Alphabet : Alphabet[x] \subseteq Nat

VARIABLES kind, word

textVars == <<kind, word, m, lens>>

(* Bytes: a, Z, 1, -, _, a byte of a longer character; the bytes of numbers; *)
(* 0x01, newline, 0x1f, space, the quote, the backslash, u; moments; sizes   *)
(* of inputs, of which 9 is too large for the pool.                          *)
MCAlphabet ==
  [x \in {"name", "number", "text", "times", "sizes"} |->
    CASE x = "name"   -> {97, 90, 49, 45, 95, 195}
      [] x = "number" -> {45, 43, 46, 48, 49, 101}
      [] x = "text"   -> {1, 9, 10, 13, 31, 32, 34, 92, 117}
      [] x = "times"  -> 0 .. 20
      [] x = "sizes"  -> {0, 1, 3, 6, 9}]

MCMaxLen ==
  [x \in DOMAIN MCAlphabet |->
    CASE x = "name" -> 5 [] x = "number" -> 6 [] x = "text" -> 4 [] x = "times" -> 3
      [] x = "sizes" -> 6]

MCStrings == UNION {[1 .. n -> {0}] : n \in 0 .. 5} \cup {<<1>>, <<1, 1, 1, 1>>}

TextInit ==
  /\ Init
  /\ kind \in DOMAIN Alphabet \cup {"map"}
  /\ word = <<>>

Type ==
  /\ kind # "map"
  /\ Len(word) < MaxLen[kind]
  /\ \E c \in Alphabet[kind] : word' = Append(word, c)
  /\ UNCHANGED <<kind, m, lens>>

Fill ==
  /\ kind = "map"
  /\ Next
  /\ UNCHANGED <<kind, word>>

TextSpec == TextInit /\ [][Type \/ Fill]_textVars

-----------------------------------------------------------------------------

(* appendSnake breaks a name into words where a capital, an acronym or      *)
(* other characters say so, and adds nothing before the first one, whatever *)
(* stands in the buffer it appends to. The words are those of its comment,  *)
(* with bytes from 128 on for lower-case letters; left out are the names in *)
(* which such a byte follows two capitals, where the code is otherwise      *)
(* (appendSnake, names.go:17-19 and 46).                                    *)
SnakeAsWords ==
  kind = "name" /\ ~HighAfterCapitals(word) =>
    \A dst \in {<<>>, <<120>>} : AppendSnake(dst, word) = dst \o SnakeByWords(word)

(* An alias that is written with the separator "_" has the key that the     *)
(* walk makes of a member of that name, although the one is normalised      *)
(* segment by segment and the other as a whole (normKey, appendSnake).      *)
AliasMeetsKey == kind = "name" => NormKey(word, Underscore) = Snake(word)

(* ValidNumber accepts just the numbers of the grammar in its comment, with *)
(* nothing before or after.                                                 *)
NumbersOfGrammar == kind = "number" => (ValidNumber(word) <=> IsNumber(word))

(* What AppendQuoted appends is one JSON string, which reads back as the    *)
(* bytes it was made from; runs that are copied overlap no escape.          *)
EscapedReadsBack ==
  kind = "text" =>
    LET quoted == AppendQuoted(<<>>, word)
    IN  /\ Head(quoted) = Quote /\ Last(quoted) = Quote
        /\ Unescaped(SubSeq(quoted, 2, Len(quoted) - 1)) = word

(* A state is given up at an input just when that is too large for the pool *)
(* or the state has outgrown the traffic: not one input earlier, so that    *)
(* no state is thrown away that still fits, and not one later, so that none *)
(* is kept for good (worthPooling, release).                                *)
GivenUpWhenOutgrown ==
  kind = "sizes" =>
    \A n \in 1 .. Len(word) :
      n \in GivenUp(word) <=> word[n] > MaxPooled \/ Outgrown(word, n)

(* "skew computes now - (sent - original)" (transform.go, skew). *)
SkewAsDocumented ==
  kind = "times" /\ Len(word) = 3 =>
    SkewedTime(word[1], word[2], word[3]) = word[1] - (word[2] - word[3])

=============================================================================
