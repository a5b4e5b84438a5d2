------------------------------ MODULE Jsonenc ------------------------------
(***************************************************************************)
(* jsonenc.go: the escaper that copies runs of bytes which need no escape, *)
(* and the check of numbers. A string is a sequence of bytes.              *)
(***************************************************************************)
EXTENDS Integers, Sequences, SequencesExt, FiniteSetsExt

Quote == 34
Backslash == 92

HexDigit(n) == IF n < 10 THEN 48 + n ELSE 87 + n

EscapeOf(c) ==
  CASE c \in {Quote, Backslash} -> <<Backslash, c>>
    [] c = 10 -> <<Backslash, 110>>
    [] c = 13 -> <<Backslash, 114>>
    [] c = 9  -> <<Backslash, 116>>
    [] OTHER  -> <<Backslash, 117, 48, 48, HexDigit(c \div 16), HexDigit(c % 16)>>

IsPlain(c) == c >= 32 /\ c \notin {Quote, Backslash}

\* A slip of AppendEscaped: the next run starts at the byte just escaped.
EscapeByteInRun(a, s, i) ==
  IF IsPlain(s[i]) THEN a
  ELSE [dst |-> a.dst \o SubSeq(s, a.start, i - 1) \o EscapeOf(s[i]), start |-> i]

(* The body of the loop: a run ends at a byte that needs an escape. *)
EscapeByte(a, s, i) ==
  IF IsPlain(s[i]) THEN a
  ELSE [dst |-> a.dst \o SubSeq(s, a.start, i - 1) \o EscapeOf(s[i]), start |-> i + 1]

AppendEscaped(dst, s) ==
  LET after[i \in 0 .. Len(s)] ==
        IF i = 0 THEN [dst |-> dst, start |-> 1] ELSE EscapeByte(after[i - 1], s, i)
      last == after[Len(s)]
  IN  last.dst \o SubSeq(s, last.start, Len(s))

AppendQuoted(dst, s) == Append(AppendEscaped(Append(dst, Quote), s), Quote)

IsDigit(c) == c \in 48 .. 57

(* Where the scanner stands after the digits that start at i. *)
AfterDigits(s, i) == Min({j \in i .. Len(s) + 1 : j = Len(s) + 1 \/ ~IsDigit(s[j])})

Is(s, i, bytes) == i <= Len(s) /\ s[i] \in bytes

\* A slip of ValidNumber: nothing is asked of the digits.
OptionalDigits(s, i) == AfterDigits(s, i)

(* A part of a number that must have a digit; 0 is a failure. *)
Digits(s, i) == IF Is(s, i, 48 .. 57) THEN AfterDigits(s, i) ELSE 0

Minus == 45
Plus == 43
Point == 46
Exponents == {69, 101}

ValidNumber(s) ==
  LET i0 == IF Is(s, 1, {Minus}) THEN 2 ELSE 1
      i1 == IF Is(s, i0, {48}) THEN i0 + 1 ELSE Digits(s, i0)
      i2 == IF i1 # 0 /\ Is(s, i1, {Point}) THEN Digits(s, i1 + 1) ELSE i1
      i3 == IF i2 = 0 \/ ~Is(s, i2, Exponents) THEN i2
            ELSE Digits(s, IF Is(s, i2 + 1, {Plus, Minus}) THEN i2 + 2 ELSE i2 + 1)
  IN  i3 = Len(s) + 1

-----------------------------------------------------------------------------

(* What a reader of JSON makes of the text between two quotes; -1 stands    *)
(* for a byte that may not be there.                                        *)
HexValue(c) == IF IsDigit(c) THEN c - 48 ELSE c - 87

Unescaped(e) ==
  LET Short(c) == CASE c = 110 -> 10 [] c = 114 -> 13 [] c = 116 -> 9
                    [] c \in {Quote, Backslash} -> c [] OTHER -> -1
      read[i \in 1 .. Len(e) + 6] ==
        IF i > Len(e) THEN <<>>
        ELSE IF Is(e, i, {Backslash}) /\ Is(e, i + 1, {117})
             THEN IF i + 5 <= Len(e)
                  THEN <<16 * HexValue(e[i + 4]) + HexValue(e[i + 5])>> \o read[i + 6]
                  ELSE <<-1>>
        ELSE IF Is(e, i, {Backslash})
             THEN IF i < Len(e) THEN <<Short(e[i + 1])>> \o read[i + 2] ELSE <<-1>>
        ELSE <<IF e[i] < 32 \/ e[i] = Quote THEN -1 ELSE e[i]>> \o read[i + 1]
  IN  read[1]

\* -? (0 | [1-9][0-9]*) (\.[0-9]+)? ([eE][+-]?[0-9]+)?
AreDigits(s) == s # <<>> /\ \A i \in DOMAIN s : IsDigit(s[i])

IsInteger(s) ==
  LET unsigned == IF Is(s, 1, {Minus}) THEN Tail(s) ELSE s
  IN  AreDigits(unsigned) /\ (unsigned[1] = 48 => Len(unsigned) = 1)

IsFraction(s) == s = <<>> \/ (s[1] = Point /\ AreDigits(Tail(s)))

IsExponent(s) ==
  s = <<>> \/ (s[1] \in Exponents
               /\ AreDigits(IF Is(s, 2, {Plus, Minus}) THEN SubSeq(s, 3, Len(s)) ELSE Tail(s)))

IsNumber(s) ==
  \E i \in 0 .. Len(s) : \E j \in i .. Len(s) :
    IsInteger(SubSeq(s, 1, i)) /\ IsFraction(SubSeq(s, i + 1, j)) /\ IsExponent(SubSeq(s, j + 1, Len(s)))

=============================================================================
