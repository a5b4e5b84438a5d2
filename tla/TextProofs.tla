----------------------------- MODULE TextProofs -----------------------------
(***************************************************************************)
(* Proofs about Names, Jsonenc, StrMap and Pooling, for strings of any     *)
(* length over any bytes and inputs of any sizes.  The loops of the code   *)
(* are recursive functions; what they have made of the first i bytes is an *)
(* invariant of the loop, and it holds at every byte because there is no   *)
(* least byte at which it fails.                                           *)
(* Here are, one after the other:                                          *)
(*   the masks of lengths of strmap.go,                                    *)
(*   ValidNumber against the grammar of its comment,                       *)
(*   AppendQuoted against a reader of JSON strings,                        *)
(*   appendSnake against the words of a name,                              *)
(*   normKey, segment by segment, against appendSnake,                     *)
(*   worthPooling against the sizes of the inputs that came.               *)
(***************************************************************************)
EXTENDS MCText, Induction, SequenceTheorems, FiniteSetTheorems

(* Every key of the map has the bit of its length, and every bit is that of  *)
(* a key.                                                                    *)
BitsOfKeys ==
  /\ DOMAIN m \subseteq Strings
  /\ lens = UNION {LenBit(Len(key)) : key \in DOMAIN m}

LEMMA InitBits == Init => BitsOfKeys
  BY DEF Init, BitsOfKeys

LEMMA StepBits == BitsOfKeys /\ [Next]_strMapVars => BitsOfKeys'
<1> SUFFICES ASSUME BitsOfKeys, [Next]_strMapVars PROVE BitsOfKeys'
  OBVIOUS
<1>1. CASE UNCHANGED strMapVars
  BY <1>1 DEF strMapVars, BitsOfKeys, LenBit
<1>2. ASSUME NEW key \in Strings, NEW value \in Values, Set(key, value) PROVE BitsOfKeys'
  <2>1. DOMAIN m' = DOMAIN m \cup {key}
    BY <1>2 DEF Set
  <2>2. lens' = lens \cup LenBit(Len(key))
    BY <1>2 DEF Set
  <2>3. QED
    BY <2>1, <2>2 DEF BitsOfKeys
<1>3. QED
  BY <1>1, <1>2 DEF Next

(* A map of which every key has its bit answers get as it answers lookup.    *)
LEMMA BitsAreSound == BitsOfKeys => MaskIsSound
<1> SUFFICES ASSUME BitsOfKeys PROVE MaskIsSound
  OBVIOUS
<1>1. ASSUME NEW key \in Strings PROVE Get(key) = Lookup(key)
  <2>1. CASE key \in DOMAIN m
    <3>1. LenBit(Len(key)) \subseteq lens
      BY <2>1 DEF BitsOfKeys
    <3>2. LenBit(Len(key)) # {}
      BY DEF LenBit
    <3>3. QED
      BY <3>1, <3>2 DEF Get
  <2>2. CASE key \notin DOMAIN m
    BY <2>2 DEF Get, Lookup
  <2>3. QED
    BY <2>1, <2>2
<1>2. lens = {} <=> DOMAIN m = {}
  BY DEF BitsOfKeys, LenBit
<1>3. QED
  BY <1>1, <1>2 DEF MaskIsSound

(* get of a strMap finds exactly what set put in, whatever the lengths of    *)
(* the keys and the width of the mask (strmap.go: set, get, lookup).         *)
THEOREM MaskTurnsNoneAway == Spec => []MaskIsSound
<1>1. BitsOfKeys /\ [Next]_strMapVars => BitsOfKeys'
  BY StepBits
<1>2. QED
  BY InitBits, <1>1, BitsAreSound, PTL DEF Spec

-----------------------------------------------------------------------------

(* The bytes of a string. Nothing below needs that they are below 256.      *)
Bytes == Nat

(* A word is a sequence of bytes. *)
WordIsBytes == kind \in DOMAIN Alphabet \cup {"map"} /\ word \in Seq(Bytes)

(* The word starts empty and grows by a byte of its alphabet.               *)
LEMMA InitWord == TextInit => WordIsBytes
  BY DEF TextInit, WordIsBytes

LEMMA StepWord == WordIsBytes /\ [Type \/ Fill]_textVars => WordIsBytes'
<1> SUFFICES ASSUME WordIsBytes, [Type \/ Fill]_textVars PROVE WordIsBytes'
  OBVIOUS
<1>1. CASE Type
  <2>1. PICK c \in Alphabet[kind] : word' = Append(word, c)
    BY <1>1 DEF Type
  <2>2. kind \in DOMAIN Alphabet /\ kind' = kind
    BY <1>1 DEF Type, WordIsBytes
  <2>3. c \in Bytes
    BY <2>1, <2>2, BytesAssumption DEF Bytes
  <2> QED
    BY <2>1, <2>2, <2>3 DEF WordIsBytes
<1>2. CASE Fill
  BY <1>2 DEF Fill, WordIsBytes
<1>3. CASE UNCHANGED textVars
  BY <1>3 DEF textVars, WordIsBytes
<1> QED
  BY <1>1, <1>2, <1>3

(* So it is a sequence of bytes in every state.                             *)
LEMMA WordsAreBytes == TextSpec => []WordIsBytes
  BY InitWord, StepWord, PTL DEF TextSpec

-----------------------------------------------------------------------------

(* The scanner stops behind the last digit. *)
LEMMA AfterDigitsIs ==
  ASSUME NEW s \in Seq(Bytes), NEW i \in 1 .. Len(s) + 1
  PROVE  /\ AfterDigits(s, i) \in i .. Len(s) + 1
         /\ \A k \in i .. AfterDigits(s, i) - 1 : IsDigit(s[k])
         /\ AfterDigits(s, i) <= Len(s) => ~IsDigit(s[AfterDigits(s, i)])
<1> DEFINE Stops == {j \in i .. Len(s) + 1 : j = Len(s) + 1 \/ ~IsDigit(s[j])}
<1>1. Len(s) + 1 \in Stops /\ Stops \subseteq Nat
  OBVIOUS
<1>2. PICK j \in Stops : \A k \in Stops : j <= k
  <2> HIDE DEF Stops
  <2> QED
    BY <1>1, LeastNumber
<1>3. AfterDigits(s, i) \in Stops /\ \A k \in Stops : AfterDigits(s, i) <= k
  <2>1. AfterDigits(s, i) = Min(Stops)
    BY DEF AfterDigits
  <2> HIDE DEF Stops
  <2> QED
    BY <1>2, <2>1 DEF Min
<1> DEFINE end == AfterDigits(s, i)
<1>4. end \in i .. Len(s) + 1 /\ (end <= Len(s) => ~IsDigit(s[end]))
  BY <1>3
<1>5. ASSUME NEW k \in i .. end - 1 PROVE IsDigit(s[k])
  <2>1. k \in i .. Len(s) /\ k < end
    BY <1>4
  <2>2. k \notin Stops
    BY <1>3, <2>1
  <2> QED
    BY <2>1, <2>2
<1> QED
  BY <1>4, <1>5

(* Digits stops at i just if what lies before is all digits and more than none. *)
LEMMA DigitsIs ==
  ASSUME NEW s \in Seq(Bytes), NEW i \in 1 .. Len(s) + 1, NEW e \in 1 .. Len(s) + 1
  PROVE  Digits(s, i) = e <=>
           /\ i < e
           /\ \A k \in i .. e - 1 : IsDigit(s[k])
           /\ e <= Len(s) => ~IsDigit(s[e])
<1> DEFINE end == AfterDigits(s, i)
<1>1. /\ end \in i .. Len(s) + 1
      /\ \A k \in i .. end - 1 : IsDigit(s[k])
      /\ end <= Len(s) => ~IsDigit(s[end])
  BY AfterDigitsIs
<1>2. \A k \in 1 .. Len(s) : Is(s, k, 48 .. 57) <=> IsDigit(s[k])
  BY DEF Is, IsDigit
<1>3. Digits(s, i) = IF Is(s, i, 48 .. 57) THEN end ELSE 0
  BY DEF Digits
<1> HIDE DEF end
<1>4. CASE i = Len(s) + 1
  BY <1>3, <1>4 DEF Is
<1>5. CASE i <= Len(s) /\ ~IsDigit(s[i])
  <2>1. Digits(s, i) = 0
    BY <1>2, <1>3, <1>5
  <2> QED
    BY <2>1, <1>5
<1>6. CASE i <= Len(s) /\ IsDigit(s[i])
  <2>1. Digits(s, i) = end
    BY <1>2, <1>3, <1>6
  <2>2. end # i
    BY <1>1, <1>6
  <2>3. ASSUME i < e, \A k \in i .. e - 1 : IsDigit(s[k]), e <= Len(s) => ~IsDigit(s[e])
        PROVE  end = e
    <3>1. ~ (end < e)
      BY <1>1, <2>3
    <3>2. ~ (e < end)
      BY <1>1, <2>3
    <3> QED
      BY <1>1, <3>1, <3>2
  <2> QED
    BY <1>1, <2>1, <2>2, <2>3
<1> QED
  BY <1>4, <1>5, <1>6

(* Whether there are digits at i, and how far they go.                      *)
LEMMA DigitsOrNot ==
  ASSUME NEW s \in Seq(Bytes), NEW i \in 1 .. Len(s) + 1
  PROVE  Digits(s, i) = 0 \/ Digits(s, i) \in i + 1 .. Len(s) + 1
  BY AfterDigitsIs DEF Digits, Is, IsDigit

-----------------------------------------------------------------------------

(* Digits from a to b, at least one. *)
Run(s, a, b) == a <= b /\ \A k \in a .. b : IsDigit(s[k])

(* A cut of s is digits just if the places it was cut from hold a run of them. *)
LEMMA AreDigitsRun ==
  ASSUME NEW s \in Seq(Bytes), NEW a \in 1 .. Len(s) + 1, NEW b \in 0 .. Len(s)
  PROVE  AreDigits(SubSeq(s, a, b)) <=> Run(s, a, b)
<1> DEFINE part == SubSeq(s, a, b)
<1>1. CASE b < a
  BY <1>1 DEF Run, AreDigits
<1>2. CASE a <= b
  <2>1. /\ Len(part) = b - a + 1 /\ DOMAIN part = 1 .. b - a + 1
        /\ \A k \in 1 .. b - a + 1 : part[k] = s[a + k - 1]
    BY <1>2
  <2>2. part # <<>>
    BY <2>1, <1>2
  <2> HIDE DEF part
  <2>3. ASSUME \A k \in DOMAIN part : IsDigit(part[k]), NEW k \in a .. b
        PROVE  IsDigit(s[k])
    <3>1. k - a + 1 \in 1 .. b - a + 1 /\ a + (k - a + 1) - 1 = k
      BY <1>2
    <3> QED
      BY <3>1, <2>1, <2>3
  <2>4. ASSUME \A k \in a .. b : IsDigit(s[k]), NEW k \in DOMAIN part
        PROVE  IsDigit(part[k])
    <3>1. a + k - 1 \in a .. b
      BY <1>2, <2>1
    <3> QED
      BY <3>1, <2>1, <2>4
  <2>5. AreDigits(part) <=> Run(s, a, b)
    BY <1>2, <2>2, <2>3, <2>4 DEF AreDigits, Run
  <2> QED
    BY <2>5 DEF part
<1> QED
  BY <1>1, <1>2

(* Where the digits of a number begin, behind its sign.                     *)
Signed(s) == IF Is(s, 1, {Minus}) THEN 2 ELSE 1

(* The integer part of the grammar, by the places of s.                     *)
LEMMA IntegerIs ==
  ASSUME NEW s \in Seq(Bytes), NEW b \in 0 .. Len(s)
  PROVE  IsInteger(SubSeq(s, 1, b)) <=>
           Run(s, Signed(s), b) /\ (s[Signed(s)] = 48 => b = Signed(s))
<1> DEFINE part == SubSeq(s, 1, b)
           a == Signed(s)
<1>1. /\ part \in Seq(Bytes) /\ Len(part) = b
      /\ \A k \in 1 .. b : part[k] = s[k]
  OBVIOUS
<1>2. CASE b = 0
  <2>1. part = <<>>
    BY <1>2
  <2>2. ~Is(part, 1, {Minus})
    BY <1>1, <1>2 DEF Is
  <2>3. ~Run(s, a, b)
    BY <1>2 DEF Run, Signed
  <2> HIDE DEF part
  <2> QED
    BY <2>1, <2>2, <2>3 DEF IsInteger, AreDigits, part
<1>3. CASE b > 0
  <2>1. Is(part, 1, {Minus}) <=> Is(s, 1, {Minus})
    BY <1>1, <1>3 DEF Is
  <2>2. a \in 1 .. Len(s) + 1
    BY <1>3 DEF Signed
  <2> DEFINE unsigned == IF Is(part, 1, {Minus}) THEN Tail(part) ELSE part
  <2>3. unsigned = SubSeq(s, a, b)
    <3>1. Tail(part) = SubSeq(s, 2, b)
      <4>1. Tail(part) \in Seq(Bytes) /\ Len(Tail(part)) = b - 1
        BY <1>1, <1>3
      <4>2. SubSeq(s, 2, b) \in Seq(Bytes) /\ Len(SubSeq(s, 2, b)) = b - 1
        BY <1>3
      <4>3. \A k \in 1 .. b - 1 : Tail(part)[k] = SubSeq(s, 2, b)[k]
        BY <1>3
      <4> QED
        BY <4>1, <4>2, <4>3, SeqEqual
    <3> HIDE DEF part
    <3> QED
      BY <3>1, <2>1 DEF Signed, part
  <2>4. AreDigits(unsigned) <=> Run(s, a, b)
    BY <2>2, <2>3, AreDigitsRun
  <2>5. ASSUME Run(s, a, b)
        PROVE  (unsigned[1] = 48 => Len(unsigned) = 1) <=> (s[a] = 48 => b = a)
    <3>1. a <= b
      BY <2>5 DEF Run
    <3>2. unsigned[1] = s[a] /\ Len(unsigned) = b - a + 1
      <4> HIDE DEF unsigned, a
      <4> QED
        BY <2>2, <2>3, <3>1
    <3> HIDE DEF unsigned
    <3> QED
      BY <2>2, <3>1, <3>2
  <2>6. IsInteger(part) <=> AreDigits(unsigned) /\ (unsigned[1] = 48 => Len(unsigned) = 1)
    BY DEF IsInteger
  <2> HIDE DEF unsigned, part
  <2> QED
    BY <2>4, <2>5, <2>6 DEF part
<1> QED
  BY <1>2, <1>3

(* What is behind the first byte of a cut is a cut.                         *)
LEMMA TailOfPart ==
  ASSUME NEW s \in Seq(Bytes), NEW a \in 1 .. Len(s), NEW b \in a .. Len(s)
  PROVE  Tail(SubSeq(s, a, b)) = SubSeq(s, a + 1, b)
<1> DEFINE part == SubSeq(s, a, b)
<1>1. Tail(part) \in Seq(Bytes) /\ Len(Tail(part)) = b - a
  OBVIOUS
<1>2. SubSeq(s, a + 1, b) \in Seq(Bytes) /\ Len(SubSeq(s, a + 1, b)) = b - a
  OBVIOUS
<1>3. \A k \in 1 .. b - a : Tail(part)[k] = SubSeq(s, a + 1, b)[k]
  OBVIOUS
<1> QED
  BY <1>1, <1>2, <1>3, SeqEqual

(* The fraction of the grammar, by the places of s.                         *)
LEMMA FractionIs ==
  ASSUME NEW s \in Seq(Bytes), NEW a \in 0 .. Len(s), NEW b \in a .. Len(s)
  PROVE  IsFraction(SubSeq(s, a + 1, b)) <=>
           \/ a = b
           \/ a < b /\ s[a + 1] = Point /\ Run(s, a + 2, b)
<1> DEFINE part == SubSeq(s, a + 1, b)
<1>1. CASE a = b
  BY <1>1 DEF IsFraction
<1>2. CASE a < b
  <2>1. part # <<>> /\ part[1] = s[a + 1]
    BY <1>2
  <2>2. Tail(part) = SubSeq(s, a + 2, b)
    <3>1. a + 1 \in 1 .. Len(s) /\ b \in a + 1 .. Len(s) /\ (a + 1) + 1 = a + 2
      BY <1>2
    <3> QED
      BY <3>1, TailOfPart
  <2>3. AreDigits(Tail(part)) <=> Run(s, a + 2, b)
    <3>1. a + 2 \in 1 .. Len(s) + 1 /\ b \in 0 .. Len(s)
      BY <1>2
    <3> HIDE DEF part
    <3> QED
      BY <2>2, <3>1, AreDigitsRun
  <2> HIDE DEF part
  <2>4. IsFraction(part) <=> s[a + 1] = Point /\ Run(s, a + 2, b)
    BY <2>1, <2>3 DEF IsFraction
  <2> QED
    BY <1>2, <2>4 DEF part
<1> QED
  BY <1>1, <1>2

(* Where the digits of an exponent begin, behind its letter and sign.       *)
Power(s, i) == IF Is(s, i + 1, {Plus, Minus}) THEN i + 2 ELSE i + 1

(* The exponent of the grammar, by the places of s.                         *)
LEMMA ExponentIs ==
  ASSUME NEW s \in Seq(Bytes), NEW b \in 0 .. Len(s)
  PROVE  IsExponent(SubSeq(s, b + 1, Len(s))) <=>
           \/ b = Len(s)
           \/ b < Len(s) /\ s[b + 1] \in Exponents /\ Run(s, Power(s, b + 1), Len(s))
<1> DEFINE part == SubSeq(s, b + 1, Len(s))
           a == Power(s, b + 1)
<1>1. CASE b = Len(s)
  BY <1>1 DEF IsExponent
<1>2. CASE b < Len(s)
  <2>1. /\ part # <<>> /\ part[1] = s[b + 1] /\ part \in Seq(Bytes)
        /\ Len(part) = Len(s) - b
        /\ \A k \in 1 .. Len(s) - b : part[k] = s[b + k]
    BY <1>2
  <2>2. Is(part, 2, {Plus, Minus}) <=> Is(s, (b + 1) + 1, {Plus, Minus})
    BY <1>2, <2>1 DEF Is
  <2>3. Tail(part) = SubSeq(s, (b + 1) + 1, Len(s))
    BY <1>2, TailOfPart
  <2>4. a \in 1 .. Len(s) + 1
    BY <1>2 DEF Power, Is
  <2>5. Is(part, 2, {Plus, Minus}) => SubSeq(part, 3, Len(part)) = SubSeq(s, (b + 1) + 2, Len(s))
    <3> SUFFICES ASSUME Is(part, 2, {Plus, Minus})
        PROVE SubSeq(part, 3, Len(part)) = SubSeq(s, (b + 1) + 2, Len(s))
      OBVIOUS
    <3>1. Len(s) - b >= 2
      BY <1>2, <2>1 DEF Is
    <3> DEFINE low == SubSeq(part, 3, Len(part))
               high == SubSeq(s, (b + 1) + 2, Len(s))
    <3>2. low \in Seq(Bytes) /\ Len(low) = Len(s) - b - 2
      <4> HIDE DEF part
      <4> QED
        BY <2>1, <3>1
    <3>3. high \in Seq(Bytes) /\ Len(high) = Len(s) - b - 2
      BY <3>1
    <3>4. \A k \in 1 .. Len(s) - b - 2 : low[k] = high[k]
      <4>1. \A k \in 1 .. Len(s) - b - 2 : low[k] = part[k + 2]
        <5> HIDE DEF part
        <5> QED
          BY <2>1, <3>1
      <4>2. \A k \in 1 .. Len(s) - b - 2 : part[k + 2] = s[b + 2 + k]
        BY <2>1, <3>1
      <4>3. \A k \in 1 .. Len(s) - b - 2 : high[k] = s[b + 2 + k]
        BY <3>1
      <4> QED
        BY <4>1, <4>2, <4>3
    <3> HIDE DEF low, high
    <3> QED
      BY <3>2, <3>3, <3>4, SeqEqual DEF low, high
  <2> DEFINE ds == IF Is(part, 2, {Plus, Minus}) THEN SubSeq(part, 3, Len(part)) ELSE Tail(part)
  <2>6. ds = SubSeq(s, a, Len(s))
    <3> HIDE DEF part
    <3> QED
      BY <2>2, <2>3, <2>5 DEF Power
  <2>7. AreDigits(ds) <=> Run(s, a, Len(s))
    <3> HIDE DEF ds, a
    <3> QED
      BY <2>4, <2>6, AreDigitsRun
  <2> HIDE DEF part
  <2>8. IsExponent(part) <=> s[b + 1] \in Exponents /\ Run(s, a, Len(s))
    BY <2>1, <2>7 DEF IsExponent
  <2> QED
    BY <1>2, <2>8 DEF part
<1> QED
  BY <1>1, <1>2

(* The scanner takes as much for each part of a number as it can; no other  *)
(* way of cutting a number in three has the parts of the grammar.           *)
LEMMA ValidIsNumber ==
  ASSUME NEW s \in Seq(Bytes)
  PROVE  ValidNumber(s) <=> IsNumber(s)
<1> DEFINE size == Len(s)
           i0 == IF Is(s, 1, {Minus}) THEN 2 ELSE 1
           i1 == IF Is(s, i0, {48}) THEN i0 + 1 ELSE Digits(s, i0)
           i2 == IF i1 # 0 /\ Is(s, i1, {Point}) THEN Digits(s, i1 + 1) ELSE i1
           i3 == IF i2 = 0 \/ ~Is(s, i2, Exponents) THEN i2
                 ELSE Digits(s, Power(s, i2))
           Whole(i) == Run(s, i0, i) /\ (s[i0] = 48 => i = i0)
           Frac(i, j) == i = j \/ (i < j /\ s[i + 1] = Point /\ Run(s, i + 2, j))
           Expo(j) == j = size \/ (j < size /\ s[j + 1] \in Exponents
                                   /\ Run(s, Power(s, j + 1), size))
<1>1. ValidNumber(s) <=> i3 = size + 1
  BY DEF ValidNumber, Power
<1>2. IsNumber(s) <=> \E i \in 0 .. size : \E j \in i .. size : Whole(i) /\ Frac(i, j) /\ Expo(j)
  <2>1. \A i \in 0 .. size : IsInteger(SubSeq(s, 1, i)) <=> Whole(i)
    BY IntegerIs DEF Signed
  <2>2. \A i \in 0 .. size : \A j \in i .. size : IsFraction(SubSeq(s, i + 1, j)) <=> Frac(i, j)
    BY FractionIs
  <2>3. \A j \in 0 .. size : IsExponent(SubSeq(s, j + 1, size)) <=> Expo(j)
    BY ExponentIs
  <2>4. \A i \in 0 .. size : \A j \in i .. size : j \in 0 .. size
    OBVIOUS
  <2> HIDE DEF Whole, Frac, Expo
  <2> QED
    BY <2>1, <2>2, <2>3, <2>4 DEF IsNumber
<1>3. i0 \in 1 .. size + 1
  BY DEF Is
<1>4. IsDigit(48) /\ ~IsDigit(Point) /\ \A c \in Exponents : ~IsDigit(c) /\ c # Point
  BY DEF IsDigit, Point, Exponents
<1>5. ASSUME NEW i \in i0 + 1 .. size + 1
      PROVE  /\ i1 = i => Whole(i - 1)
             /\ Whole(i - 1) /\ (i <= size => ~IsDigit(s[i])) => i1 = i
  <2>1. CASE Is(s, i0, {48})
    <3>1. i1 = i0 + 1 /\ s[i0] = 48 /\ i0 <= size
      BY <2>1 DEF Is
    <3> HIDE DEF i0, i1
    <3>2. Run(s, i0, i0)
      BY <1>3, <1>4, <3>1 DEF Run
    <3> QED
      BY <1>3, <3>1, <3>2
  <2>2. CASE ~Is(s, i0, {48})
    <3>1. i1 = Digits(s, i0) /\ s[i0] # 48
      BY <1>3, <2>2 DEF Is
    <3>2. Digits(s, i0) = i <=> /\ i0 < i
                                /\ \A k \in i0 .. i - 1 : IsDigit(s[k])
                                /\ i <= size => ~IsDigit(s[i])
      <4> HIDE DEF i0
      <4> QED
        BY <1>3, DigitsIs
    <3> HIDE DEF i0, i1
    <3> QED
      BY <1>3, <3>1, <3>2 DEF Run
  <2> QED
    BY <2>1, <2>2
<1>6. i1 = 0 \/ i1 \in i0 + 1 .. size + 1
  <2>1. Is(s, i0, {48}) => i0 + 1 \in i0 + 1 .. size + 1
    <3> HIDE DEF i0
    <3> QED
      BY <1>3 DEF Is
  <2>2. Digits(s, i0) = 0 \/ Digits(s, i0) \in i0 + 1 .. size + 1
    <3> HIDE DEF i0
    <3> QED
      BY <1>3, DigitsOrNot
  <2> HIDE DEF i0
  <2> QED
    BY <2>1, <2>2
<1> HIDE DEF i1
<1>7. ASSUME i1 # 0, NEW j \in i1 .. size + 1
      PROVE  /\ i2 = j => Frac(i1 - 1, j - 1)
             /\ Frac(i1 - 1, j - 1) /\ (j <= size => ~IsDigit(s[j]) /\ s[j] # Point) => i2 = j
  <2>1. i1 \in 1 .. size + 1
    BY <1>3, <1>6, <1>7
  <2>2. CASE Is(s, i1, {Point})
    <3>1. i1 <= size /\ s[i1] = Point /\ i2 = Digits(s, i1 + 1)
      BY <1>7, <2>2 DEF Is
    <3>2. Digits(s, i1 + 1) = j <=> /\ i1 + 1 < j
                                    /\ \A k \in i1 + 1 .. j - 1 : IsDigit(s[k])
                                    /\ j <= size => ~IsDigit(s[j])
      <4>1. i1 + 1 \in 1 .. size + 1 /\ j \in 1 .. size + 1
        BY <2>1, <3>1
      <4> QED
        BY <4>1, DigitsIs
    <3> HIDE DEF i2
    <3>3. Run(s, (i1 - 1) + 2, j - 1) <=>
            i1 + 1 <= j - 1 /\ \A k \in i1 + 1 .. j - 1 : IsDigit(s[k])
      <4>1. (i1 - 1) + 2 = i1 + 1
        BY <2>1
      <4> QED
        BY <4>1 DEF Run
    <3>4. (i1 - 1) + 1 = i1
      BY <2>1
    <3> QED
      BY <2>1, <3>1, <3>2, <3>3, <3>4
  <2>3. CASE ~Is(s, i1, {Point})
    <3>1. i2 = i1
      BY <2>3
    <3>2. i1 <= size => s[i1] # Point
      BY <2>3 DEF Is
    <3>3. (i1 - 1) + 1 = i1
      BY <2>1
    <3> HIDE DEF i2
    <3> QED
      BY <2>1, <3>1, <3>2, <3>3
  <2> QED
    BY <2>2, <2>3
<1>8. i1 # 0 => i2 = 0 \/ i2 \in i1 .. size + 1
  <2> SUFFICES ASSUME i1 # 0 PROVE i2 = 0 \/ i2 \in i1 .. size + 1
    OBVIOUS
  <2>1. i1 \in 1 .. size + 1
    BY <1>3, <1>6
  <2>2. Is(s, i1, {Point}) => i1 + 1 \in 1 .. size + 1
    BY <2>1 DEF Is
  <2>3. Is(s, i1, {Point}) => Digits(s, i1 + 1) = 0 \/ Digits(s, i1 + 1) \in i1 + 2 .. size + 1
    BY <2>1, <2>2, DigitsOrNot
  <2> QED
    BY <2>1, <2>3
<1>9. i1 = 0 => i2 = 0
  OBVIOUS
<1> HIDE DEF i2
<1>10. ASSUME i2 \in 1 .. size + 1
       PROVE  i3 = size + 1 <=> Expo(i2 - 1)
  <2>1. (i2 - 1) + 1 = i2
    BY <1>10
  <2>2. CASE Is(s, i2, Exponents)
    <3>1. i2 <= size /\ s[i2] \in Exponents /\ i3 = Digits(s, Power(s, i2))
      BY <1>10, <2>2 DEF Is
    <3>2. Power(s, i2) \in 1 .. size + 1
      BY <1>10, <3>1 DEF Power, Is
    <3>3. Digits(s, Power(s, i2)) = size + 1 <=> Run(s, Power(s, i2), size)
      <4>1. size + 1 \in 1 .. size + 1 /\ (size + 1) - 1 = size
        OBVIOUS
      <4> QED
        BY <3>2, <4>1, DigitsIs DEF Run
    <3> HIDE DEF i3
    <3> QED
      BY <1>10, <2>1, <3>1, <3>3
  <2>3. CASE ~Is(s, i2, Exponents)
    <3>1. i3 = i2
      BY <2>3
    <3>2. i2 <= size => s[i2] \notin Exponents
      BY <2>3 DEF Is
    <3> HIDE DEF i3
    <3> QED
      BY <1>10, <2>1, <3>1, <3>2
  <2> QED
    BY <2>2, <2>3
<1>11. i2 = 0 => i3 # size + 1
  OBVIOUS
<1> HIDE DEF i3, i0
<1>12. ASSUME i3 = size + 1
       PROVE  \E i \in 0 .. size : \E j \in i .. size : Whole(i) /\ Frac(i, j) /\ Expo(j)
  <2>1. i2 # 0 /\ i1 # 0
    BY <1>9, <1>11, <1>12
  <2>2. i1 \in i0 + 1 .. size + 1 /\ i2 \in i1 .. size + 1
    BY <1>6, <1>8, <2>1
  <2>3. Whole(i1 - 1)
    BY <1>5, <2>2
  <2>4. Frac(i1 - 1, i2 - 1)
    BY <1>7, <2>1, <2>2
  <2>5. Expo(i2 - 1)
    BY <1>3, <1>10, <1>12, <2>2
  <2>6. i1 - 1 \in 0 .. size /\ i2 - 1 \in i1 - 1 .. size
    BY <1>3, <2>2
  <2> HIDE DEF Whole, Frac, Expo
  <2> QED
    BY <2>3, <2>4, <2>5, <2>6
<1>13. ASSUME NEW i \in 0 .. size, NEW j \in i .. size, Whole(i), Frac(i, j), Expo(j)
       PROVE  i3 = size + 1
  <2>1. i0 <= i
    BY <1>13 DEF Run
  <2>2. j < size => s[j + 1] \in Exponents
    BY <1>13
  <2>3. i < size => ~IsDigit(s[i + 1])
    BY <1>4, <1>13, <2>2
  <2>4. i1 = i + 1
    <3>1. i + 1 \in i0 + 1 .. size + 1 /\ (i + 1) - 1 = i /\ (i + 1 <= size => i < size)
      BY <1>3, <2>1
    <3> HIDE DEF Whole
    <3> QED
      BY <1>5, <1>13, <2>3, <3>1
  <2>5. i2 = j + 1
    <3>1. j + 1 \in i1 .. size + 1 /\ (j + 1) - 1 = j /\ (j + 1 <= size => j < size) /\ i1 # 0
      BY <2>4
    <3>2. Frac(i1 - 1, (j + 1) - 1)
      BY <1>13, <2>4
    <3> HIDE DEF Frac
    <3> QED
      BY <1>4, <1>7, <2>2, <3>1, <3>2
  <2>6. i2 \in 1 .. size + 1 /\ i2 - 1 = j
    BY <2>5
  <2> HIDE DEF Expo
  <2> QED
    BY <1>10, <1>13, <2>6
<1> HIDE DEF Whole, Frac, Expo
<1> QED
  BY <1>1, <1>2, <1>12, <1>13

(* ValidNumber accepts every number of the grammar of its comment, and      *)
(* nothing else, however long the text is (jsonenc.go: ValidNumber).        *)
THEOREM NumbersAreOfGrammar == TextSpec => []NumbersOfGrammar
<1>1. WordIsBytes => NumbersOfGrammar
  BY ValidIsNumber DEF WordIsBytes, NumbersOfGrammar
<1> QED
  BY <1>1, WordsAreBytes, PTL

-----------------------------------------------------------------------------

(* The states of the loop of AppendEscaped. *)
Escaping(dst, s) ==
  CHOOSE after : after = [i \in 0 .. Len(s) |->
    IF i = 0 THEN [dst |-> dst, start |-> 1] ELSE EscapeByte(after[i - 1], s, i)]

(* A function that is defined by recursion exists up to each number, by the *)
(* least one up to which it would not; so the CHOOSE that names it unfolds. *)
LEMMA EscapingUnfold ==
  ASSUME NEW dst, NEW s, Len(s) \in Nat
  PROVE  /\ Escaping(dst, s)[0] = [dst |-> dst, start |-> 1]
         /\ \A i \in 1 .. Len(s) : Escaping(dst, s)[i] = EscapeByte(Escaping(dst, s)[i - 1], s, i)
<1> DEFINE size == Len(s)
           From(h, i) == IF i = 0 THEN [dst |-> dst, start |-> 1] ELSE EscapeByte(h[i - 1], s, i)
           IsUpTo(k, h) == h = [i \in 0 .. k |-> From(h, i)]
           Undefined == {k \in 0 .. size : ~ \E h : IsUpTo(k, h)}
<1>1. Undefined = {}
  <2> SUFFICES ASSUME Undefined # {} PROVE FALSE
    OBVIOUS
  <2>1. PICK k \in Undefined : \A j \in Undefined : k <= j
    <3>1. Undefined \subseteq Nat
      OBVIOUS
    <3> HIDE DEF Undefined
    <3> QED
      BY <3>1, LeastNumber
  <2>2. k \in 0 .. size
    OBVIOUS
  <2>3. CASE k = 0
    <3> DEFINE h == [i \in 0 .. 0 |-> [dst |-> dst, start |-> 1]]
    <3>1. IsUpTo(0, h)
      OBVIOUS
    <3> QED
      BY <2>3, <3>1
  <2>4. CASE k # 0
    <3>1. k - 1 \in 0 .. size /\ k - 1 \notin Undefined
      <4> HIDE DEF Undefined
      <4> QED
        BY <2>1, <2>2, <2>4
    <3>2. PICK h : IsUpTo(k - 1, h)
      BY <3>1
    <3> DEFINE g == [i \in 0 .. k |-> From(h, i)]
    <3>3. ASSUME NEW i \in 0 .. k
          PROVE  From(h, i) = From(g, i)
      <4>1. CASE i = 0
        BY <4>1
      <4>2. CASE i # 0
        <5>1. i - 1 \in 0 .. k - 1 /\ i - 1 \in 0 .. k
          BY <4>2, <2>2
        <5>2. h[i - 1] = From(h, i - 1)
          <6> HIDE DEF From
          <6> QED
            BY <3>2, <5>1, Zenon
        <5>3. g[i - 1] = From(h, i - 1)
          BY <5>1
        <5> HIDE DEF g
        <5> QED
          BY <5>2, <5>3
      <4> QED
        BY <4>1, <4>2
    <3>4. IsUpTo(k, g)
      BY <3>3
    <3> QED
      BY <3>4
  <2> QED
    BY <2>3, <2>4
<1>2. \E h : IsUpTo(size, h)
  <2> HIDE DEF IsUpTo
  <2>1. size \in 0 .. size
    OBVIOUS
  <2> HIDE DEF size
  <2> QED
    BY <1>1, <2>1
<1> DEFINE after == CHOOSE h : IsUpTo(size, h)
<1>3. IsUpTo(size, after)
  <2> HIDE DEF IsUpTo, size
  <2> QED
    BY <1>2
<1>4. Escaping(dst, s) = after
  BY DEF Escaping
<1> HIDE DEF after
<1>5. \A i \in 0 .. size : after[i] = From(after, i)
  <2> HIDE DEF From
  <2> QED
    BY <1>3, Zenon
<1> QED
  BY <1>4, <1>5

(* What the loop has made of the first i bytes, the open run included. *)
Escaped(dst, s, i) ==
  Escaping(dst, s)[i].dst \o SubSeq(s, Escaping(dst, s)[i].start, i)

(* What AppendEscaped writes for a byte.                                    *)
CodeOf(c) == IF IsPlain(c) THEN <<c>> ELSE EscapeOf(c)

(* The code of a byte is bytes.                                             *)
LEMMA CodesAreBytes == \A c \in Bytes : CodeOf(c) \in Seq(Bytes)
<1> SUFFICES ASSUME NEW c \in Bytes PROVE CodeOf(c) \in Seq(Bytes)
  OBVIOUS
<1>1. CASE IsPlain(c)
  BY <1>1 DEF CodeOf
<1>2. CASE ~IsPlain(c)
  <2>1. HexDigit(c \div 16) \in Bytes /\ HexDigit(c % 16) \in Bytes
    BY DEF HexDigit, Bytes
  <2>2. EscapeOf(c) \in Seq(Bytes)
    BY <2>1 DEF EscapeOf, Bytes, Backslash
  <2> QED
    BY <1>2, <2>2 DEF CodeOf
<1> QED
  BY <1>1, <1>2

(* The open run of the loop lies in what it has read.                       *)
EscapingOK(dst, s, i) ==
  /\ Escaping(dst, s)[i].dst \in Seq(Bytes)
  /\ Escaping(dst, s)[i].start \in 1 .. i + 1

(* Concatenation is associative.                                            *)
LEMMA Associative ==
  ASSUME NEW p \in Seq(Bytes), NEW q \in Seq(Bytes), NEW r \in Seq(Bytes)
  PROVE  p \o (q \o r) = (p \o q) \o r
  BY ConcatAssociative

(* A run that is one byte longer ends in that byte.                         *)
LEMMA RunGrows ==
  ASSUME NEW s \in Seq(Bytes), NEW i \in 1 .. Len(s), NEW a \in 1 .. i
  PROVE  SubSeq(s, a, i) = SubSeq(s, a, i - 1) \o <<s[i]>>
<1> DEFINE run == SubSeq(s, a, i - 1)
<1>1. SubSeq(s, a, i) \in Seq(Bytes) /\ Len(SubSeq(s, a, i)) = i - a + 1
  OBVIOUS
<1>2. run \o <<s[i]>> \in Seq(Bytes) /\ Len(run \o <<s[i]>>) = i - a + 1
  OBVIOUS
<1>3. \A k \in 1 .. i - a + 1 : SubSeq(s, a, i)[k] = (run \o <<s[i]>>)[k]
  OBVIOUS
<1> QED
  BY <1>1, <1>2, <1>3, SeqEqual

(* One turn of the loop closes the run or makes it longer: either way the   *)
(* code of the byte comes behind what there was.                            *)
LEMMA EscapesNext ==
  ASSUME NEW dst \in Seq(Bytes), NEW s \in Seq(Bytes), NEW i \in 1 .. Len(s),
         EscapingOK(dst, s, i - 1)
  PROVE  /\ EscapingOK(dst, s, i)
         /\ Escaped(dst, s, i) = Escaped(dst, s, i - 1) \o CodeOf(s[i])
<1> DEFINE a == Escaping(dst, s)[i - 1]
           b == Escaping(dst, s)[i]
           run == SubSeq(s, a.start, i - 1)
<1>1. b = EscapeByte(a, s, i)
  <2>1. Len(s) \in Nat
    OBVIOUS
  <2> QED
    BY <2>1, EscapingUnfold, Zenon
<1>2. a.dst \in Seq(Bytes) /\ a.start \in 1 .. i
  BY DEF EscapingOK
<1>3. run \in Seq(Bytes) /\ CodeOf(s[i]) \in Seq(Bytes) /\ s[i] \in Bytes
  BY <1>2, CodesAreBytes
<1> HIDE DEF a, b
<1>4. CASE IsPlain(s[i])
  <2>1. b = a /\ CodeOf(s[i]) = <<s[i]>>
    BY <1>1, <1>4 DEF EscapeByte, CodeOf
  <2>2. SubSeq(s, a.start, i) = run \o <<s[i]>>
    BY <1>2, RunGrows
  <2>3. a.dst \o (run \o <<s[i]>>) = (a.dst \o run) \o <<s[i]>>
    <3> HIDE DEF run
    <3>1. <<s[i]>> \in Seq(Bytes)
      BY <1>3
    <3> QED
      BY <1>2, <1>3, <3>1, Associative
  <2>4. b.start \in 1 .. i + 1
    BY <1>2, <2>1
  <2> QED
    BY <1>2, <2>1, <2>2, <2>3, <2>4 DEF EscapingOK, Escaped, a, b
<1>5. CASE ~IsPlain(s[i])
  <2>1. /\ b = [dst |-> a.dst \o run \o EscapeOf(s[i]), start |-> i + 1]
        /\ CodeOf(s[i]) = EscapeOf(s[i])
    BY <1>1, <1>5 DEF EscapeByte, CodeOf
  <2>2. b.dst = (a.dst \o run) \o CodeOf(s[i]) /\ b.start = i + 1
    BY <2>1
  <2>3. b.dst \in Seq(Bytes)
    <3> HIDE DEF run
    <3> QED
      BY <1>2, <1>3, <2>2
  <2>4. SubSeq(s, b.start, i) = <<>>
    BY <2>2
  <2>5. b.dst \o <<>> = b.dst
    BY <2>3
  <2>6. Escaped(dst, s, i) = b.dst
    BY <2>4, <2>5 DEF Escaped, b
  <2>7. Escaped(dst, s, i - 1) = a.dst \o run
    BY DEF Escaped, a
  <2>8. EscapingOK(dst, s, i)
    <3>1. b.start \in 1 .. i + 1
      BY <2>2
    <3> QED
      BY <2>3, <3>1 DEF EscapingOK, b
  <2> HIDE DEF run
  <2> QED
    BY <2>2, <2>6, <2>7, <2>8
<1> QED
  BY <1>4, <1>5

(* Nothing is escaped at first.                                             *)
LEMMA EscapingStarts ==
  ASSUME NEW dst \in Seq(Bytes), NEW s \in Seq(Bytes)
  PROVE  EscapingOK(dst, s, 0) /\ Escaped(dst, s, 0) = dst
<1>1. Escaping(dst, s)[0] = [dst |-> dst, start |-> 1]
  BY EscapingUnfold
<1>2. SubSeq(s, 1, 0) = <<>> /\ dst \o <<>> = dst
  OBVIOUS
<1> QED
  BY <1>1, <1>2 DEF EscapingOK, Escaped

(* The run lies where it should at every byte.                              *)
LEMMA EscapingHolds ==
  ASSUME NEW dst \in Seq(Bytes), NEW s \in Seq(Bytes)
  PROVE  \A i \in 0 .. Len(s) : EscapingOK(dst, s, i)
<1> DEFINE Bad == {i \in 0 .. Len(s) : ~EscapingOK(dst, s, i)}
<1> SUFFICES ASSUME Bad # {} PROVE FALSE
  OBVIOUS
<1>1. PICK i \in Bad : \A j \in Bad : i <= j
  <2>1. Bad \subseteq Nat
    OBVIOUS
  <2> HIDE DEF Bad
  <2> QED
    BY <2>1, LeastNumber
<1>2. i # 0
  BY EscapingStarts
<1>3. i \in 1 .. Len(s) /\ i - 1 \in 0 .. Len(s) /\ ~EscapingOK(dst, s, i)
  BY <1>2
<1>4. EscapingOK(dst, s, i - 1)
  <2>1. i - 1 \notin Bad
    <3> HIDE DEF Bad
    <3> QED
      BY <1>1, <1>3
  <2> QED
    BY <1>3, <2>1
<1> QED
  BY <1>3, <1>4, EscapesNext

(* Each byte adds its code, and nothing else changes. *)
LEMMA EscapedIs ==
  ASSUME NEW dst \in Seq(Bytes), NEW s \in Seq(Bytes)
  PROVE  /\ \A i \in 0 .. Len(s) : Escaped(dst, s, i) \in Seq(Bytes)
         /\ Escaped(dst, s, 0) = dst
         /\ \A i \in 1 .. Len(s) : Escaped(dst, s, i) = Escaped(dst, s, i - 1) \o CodeOf(s[i])
         /\ AppendEscaped(dst, s) = Escaped(dst, s, Len(s))
<1>1. ASSUME NEW i \in 0 .. Len(s) PROVE Escaped(dst, s, i) \in Seq(Bytes)
  <2>1. EscapingOK(dst, s, i)
    BY EscapingHolds
  <2> QED
    BY <2>1 DEF EscapingOK, Escaped
<1>2. ASSUME NEW i \in 1 .. Len(s)
      PROVE  Escaped(dst, s, i) = Escaped(dst, s, i - 1) \o CodeOf(s[i])
  <2>1. i - 1 \in 0 .. Len(s)
    OBVIOUS
  <2>2. EscapingOK(dst, s, i - 1)
    BY <2>1, EscapingHolds
  <2> QED
    BY <2>2, EscapesNext
<1>3. AppendEscaped(dst, s) = Escaped(dst, s, Len(s))
  BY DEF AppendEscaped, Escaped, Escaping
<1> QED
  BY <1>1, <1>2, <1>3, EscapingStarts

-----------------------------------------------------------------------------

(* The byte that a short escape stands for.                                 *)
ShortOf(c) ==
  CASE c = 110 -> 10 [] c = 114 -> 13 [] c = 116 -> 9
    [] c \in {Quote, Backslash} -> c [] OTHER -> -1

(* What the reader makes of e from i on, if read is what it makes of more. *)
ReadAt(read, e, i) ==
  IF i > Len(e) THEN <<>>
  ELSE IF Is(e, i, {Backslash}) /\ Is(e, i + 1, {117})
       THEN IF i + 5 <= Len(e)
            THEN <<16 * HexValue(e[i + 4]) + HexValue(e[i + 5])>> \o read[i + 6]
            ELSE <<-1>>
  ELSE IF Is(e, i, {Backslash})
       THEN IF i < Len(e) THEN <<ShortOf(e[i + 1])>> \o read[i + 2] ELSE <<-1>>
  ELSE <<IF e[i] < 32 \/ e[i] = Quote THEN -1 ELSE e[i]>> \o read[i + 1]

(* What the reader makes of e from each place on.                           *)
Reading(e) == CHOOSE read : read = [i \in 1 .. Len(e) + 6 |-> ReadAt(read, e, i)]

(* Unescaped reads from the first place.                                    *)
LEMMA UnescapedIs == ASSUME NEW e PROVE Unescaped(e) = Reading(e)[1]
  BY DEF Unescaped, Reading, ReadAt, ShortOf

(* It reads only what comes later. *)
LEMMA ReadsLater ==
  ASSUME NEW e, Len(e) \in Nat, NEW i \in 1 .. Len(e) + 6, NEW f, NEW g,
         \A j \in i + 1 .. Len(e) + 6 : f[j] = g[j]
  PROVE  ReadAt(f, e, i) = ReadAt(g, e, i)
<1>1. CASE i > Len(e)
  BY <1>1 DEF ReadAt
<1>2. CASE i <= Len(e)
  <2>1. f[i + 1] = g[i + 1] /\ f[i + 2] = g[i + 2] /\ f[i + 6] = g[i + 6]
    BY <1>2
  <2> QED
    BY <2>1 DEF ReadAt
<1> QED
  BY <1>1, <1>2

(* So it is defined from the end of e backwards.                            *)
LEMMA ReadingUnfold ==
  ASSUME NEW e, Len(e) \in Nat
  PROVE  \A i \in 1 .. Len(e) + 6 : Reading(e)[i] = ReadAt(Reading(e), e, i)
<1> DEFINE size == Len(e) + 6
           IsFrom(k, h) == h = [i \in size - k .. size |-> ReadAt(h, e, i)]
           Undefined == {k \in 0 .. size - 1 : ~ \E h : IsFrom(k, h)}
<1>1. Undefined = {}
  <2> SUFFICES ASSUME Undefined # {} PROVE FALSE
    OBVIOUS
  <2>1. PICK k \in Undefined : \A j \in Undefined : k <= j
    <3>1. Undefined \subseteq Nat
      OBVIOUS
    <3> HIDE DEF Undefined
    <3> QED
      BY <3>1, LeastNumber
  <2>2. k \in 0 .. size - 1
    OBVIOUS
  <2>3. CASE k = 0
    <3> DEFINE h == [i \in size - 0 .. size |-> <<>>]
    <3>1. ASSUME NEW i \in size - 0 .. size PROVE ReadAt(h, e, i) = <<>>
      <4>1. i > Len(e)
        OBVIOUS
      <4> HIDE DEF h
      <4> QED
        BY <4>1 DEF ReadAt
    <3>2. IsFrom(0, h)
      BY <3>1
    <3> QED
      BY <2>3, <3>2
  <2>4. CASE k # 0
    <3>1. k - 1 \in 0 .. size - 1 /\ k - 1 \notin Undefined
      <4> HIDE DEF Undefined
      <4> QED
        BY <2>1, <2>2, <2>4
    <3>2. PICK h : IsFrom(k - 1, h)
      BY <3>1
    <3> DEFINE g == [i \in size - k .. size |-> ReadAt(h, e, i)]
    <3>3. ASSUME NEW j \in size - (k - 1) .. size PROVE h[j] = g[j]
      <4>1. h[j] = ReadAt(h, e, j)
        BY <3>2, Zenon
      <4>2. j \in size - k .. size
        BY <2>2
      <4> QED
        BY <4>1, <4>2, Zenon
    <3>4. ASSUME NEW i \in size - k .. size
          PROVE  ReadAt(h, e, i) = ReadAt(g, e, i)
      <4>1. i \in 1 .. size /\ \A j \in i + 1 .. size : j \in size - (k - 1) .. size
        BY <2>2
      <4>2. \A j \in i + 1 .. size : h[j] = g[j]
        <5> HIDE DEF g
        <5> QED
          BY <3>3, <4>1
      <4> HIDE DEF g
      <4> QED
        BY <4>1, <4>2, ReadsLater
    <3>5. IsFrom(k, g)
      BY <3>4
    <3> QED
      BY <3>5
  <2> QED
    BY <2>3, <2>4
<1>2. \E h : IsFrom(size - 1, h)
  <2>1. size - 1 \in 0 .. size - 1
    OBVIOUS
  <2> HIDE DEF IsFrom, size
  <2> QED
    BY <1>1, <2>1
<1>3. size - (size - 1) = 1
  OBVIOUS
<1> DEFINE Solves(h) == h = [i \in 1 .. size |-> ReadAt(h, e, i)]
<1>4. \E h : Solves(h)
  <2> HIDE DEF size
  <2> QED
    BY <1>2, <1>3
<1> DEFINE read == CHOOSE h : Solves(h)
<1>5. Solves(read)
  <2> HIDE DEF Solves, size
  <2> QED
    BY <1>4
<1>6. Reading(e) = read
  BY DEF Reading
<1> HIDE DEF read
<1>7. \A i \in 1 .. size : read[i] = ReadAt(read, e, i)
  BY <1>5, Zenon
<1> QED
  BY <1>6, <1>7

(* The reader takes the code of a byte for that byte, and goes on behind it. *)
LEMMA CodeReads ==
  ASSUME NEW e \in Seq(Bytes), NEW c \in Bytes, NEW i \in 1 .. Len(e),
         i + Len(CodeOf(c)) <= Len(e) + 1,
         \A k \in 1 .. Len(CodeOf(c)) : e[i + k - 1] = CodeOf(c)[k]
  PROVE  Reading(e)[i] = <<c>> \o Reading(e)[i + Len(CodeOf(c))]
<1> DEFINE read == Reading(e)
<1>1. read[i] = ReadAt(read, e, i)
  <2>1. Len(e) \in Nat /\ i \in 1 .. Len(e) + 6
    OBVIOUS
  <2> QED
    BY <2>1, ReadingUnfold, Zenon
<1> HIDE DEF read
<1>2. CASE IsPlain(c)
  <2>1. CodeOf(c) = <<c>>
    BY <1>2 DEF CodeOf
  <2>2. Len(CodeOf(c)) = 1 /\ e[i] = c
    <3>1. e[i + 1 - 1] = c
      BY <2>1
    <3> QED
      BY <2>1, <3>1
  <2>3. c >= 32 /\ c # Quote /\ c # Backslash
    BY <1>2 DEF IsPlain
  <2>4. ReadAt(read, e, i) = <<c>> \o read[i + 1]
    <3>1. ~(i > Len(e)) /\ ~Is(e, i, {Backslash})
      BY <2>2, <2>3 DEF Is
    <3>2. (IF e[i] < 32 \/ e[i] = Quote THEN -1 ELSE e[i]) = c
      <4>1. ~(c < 32)
        BY <2>3 DEF Bytes
      <4> QED
        BY <2>2, <2>3, <4>1, Zenon
    <3> QED
      BY <3>1, <3>2, Zenon DEF ReadAt
  <2> QED
    BY <1>1, <2>2, <2>4 DEF read
<1>3. CASE c \in {Quote, Backslash, 9, 10, 13}
  <2> DEFINE d == IF c = 10 THEN 110 ELSE IF c = 13 THEN 114 ELSE IF c = 9 THEN 116 ELSE c
  <2>1. CodeOf(c) = <<Backslash, d>>
    <3>1. CodeOf(c) = EscapeOf(c)
      BY <1>3 DEF CodeOf, IsPlain, Quote, Backslash
    <3>2. c = Quote => EscapeOf(c) = <<Backslash, c>> /\ d = c
      BY DEF EscapeOf, Quote, Backslash
    <3>6. c = Backslash => EscapeOf(c) = <<Backslash, c>> /\ d = c
      BY DEF EscapeOf, Quote, Backslash
    <3>3. c = 10 => EscapeOf(c) = <<Backslash, 110>> /\ d = 110
      BY DEF EscapeOf, Quote, Backslash
    <3>4. c = 13 => EscapeOf(c) = <<Backslash, 114>> /\ d = 114
      BY DEF EscapeOf, Quote, Backslash
    <3>5. c = 9 => EscapeOf(c) = <<Backslash, 116>> /\ d = 116
      BY DEF EscapeOf, Quote, Backslash
    <3> HIDE DEF d
    <3> QED
      BY <1>3, <3>1, <3>2, <3>3, <3>4, <3>5, <3>6
  <2>2. d # 117 /\ ShortOf(d) = c
    BY <1>3 DEF ShortOf, Quote, Backslash
  <2> HIDE DEF d
  <2>3. Len(CodeOf(c)) = 2 /\ CodeOf(c)[1] = Backslash /\ CodeOf(c)[2] = d
    BY <2>1
  <2>4. e[i] = Backslash /\ e[i + 1] = d /\ i + 1 <= Len(e)
    <3>1. e[i + 1 - 1] = Backslash /\ e[i + 2 - 1] = d
      BY <2>3
    <3> QED
      BY <2>3, <3>1
  <2>5. Is(e, i, {Backslash}) /\ ~Is(e, i + 1, {117}) /\ i < Len(e) /\ ~(i > Len(e))
    BY <2>2, <2>4 DEF Is
  <2>6. ReadAt(read, e, i) = <<ShortOf(e[i + 1])>> \o read[i + 2]
    BY <2>5 DEF ReadAt
  <2> QED
    BY <1>1, <2>2, <2>3, <2>4, <2>6 DEF read
<1>4. CASE ~IsPlain(c) /\ c \notin {Quote, Backslash, 9, 10, 13}
  <2> DEFINE hi == HexDigit(c \div 16)
             lo == HexDigit(c % 16)
  <2>1. c \in 0 .. 31
    BY <1>4 DEF IsPlain, Bytes
  <2>2. CodeOf(c) = <<Backslash, 117, 48, 48, hi, lo>>
    BY <1>4 DEF CodeOf, EscapeOf
  <2>3. 16 * HexValue(hi) + HexValue(lo) = c
    <3>1. c \div 16 \in 0 .. 15 /\ c % 16 \in 0 .. 15 /\ 16 * (c \div 16) + (c % 16) = c
      BY <2>1
    <3>2. \A n \in 0 .. 15 : HexValue(HexDigit(n)) = n
      BY DEF HexValue, HexDigit, IsDigit
    <3> QED
      BY <3>1, <3>2
  <2> HIDE DEF hi, lo
  <2>4. /\ Len(CodeOf(c)) = 6 /\ CodeOf(c)[1] = Backslash /\ CodeOf(c)[2] = 117
        /\ CodeOf(c)[5] = hi /\ CodeOf(c)[6] = lo
    BY <2>2
  <2>5. e[i] = Backslash /\ e[i + 1] = 117 /\ e[i + 4] = hi /\ e[i + 5] = lo /\ i + 5 <= Len(e)
    <3>1. /\ e[i + 1 - 1] = Backslash /\ e[i + 2 - 1] = 117
          /\ e[i + 5 - 1] = hi /\ e[i + 6 - 1] = lo
      BY <2>4
    <3> QED
      BY <2>4, <3>1
  <2>6. Is(e, i, {Backslash}) /\ Is(e, i + 1, {117}) /\ ~(i > Len(e))
    BY <2>5 DEF Is
  <2>7. ReadAt(read, e, i) = <<16 * HexValue(e[i + 4]) + HexValue(e[i + 5])>> \o read[i + 6]
    BY <2>5, <2>6 DEF ReadAt
  <2> QED
    BY <1>1, <2>3, <2>4, <2>5, <2>7 DEF read
<1> QED
  BY <1>2, <1>3, <1>4

-----------------------------------------------------------------------------

(* What is escaped stays as it is: later bytes go behind it. *)
LEMMA EscapedStays ==
  ASSUME NEW dst \in Seq(Bytes), NEW s \in Seq(Bytes), NEW i \in 0 .. Len(s)
  PROVE  \A j \in i .. Len(s) :
           /\ Len(Escaped(dst, s, i)) <= Len(Escaped(dst, s, j))
           /\ \A k \in 1 .. Len(Escaped(dst, s, i)) : Escaped(dst, s, j)[k] = Escaped(dst, s, i)[k]
<1> DEFINE out(j) == Escaped(dst, s, j)
           Begins(j) == /\ Len(out(i)) <= Len(out(j))
                        /\ \A k \in 1 .. Len(out(i)) : out(j)[k] = out(i)[k]
           Bad == {j \in i .. Len(s) : ~Begins(j)}
<1>1. \A j \in 0 .. Len(s) : out(j) \in Seq(Bytes)
  BY EscapedIs
<1>2. \A j \in 1 .. Len(s) : out(j) = out(j - 1) \o CodeOf(s[j])
  BY EscapedIs
<1>3. \A j \in 1 .. Len(s) : CodeOf(s[j]) \in Seq(Bytes)
  BY CodesAreBytes
<1> HIDE DEF out
<1>4. Begins(i)
  BY <1>1
<1>5. ASSUME NEW j \in i + 1 .. Len(s), Begins(j - 1) PROVE Begins(j)
  <2>1. j \in 1 .. Len(s) /\ j - 1 \in 0 .. Len(s)
    OBVIOUS
  <2>2. out(j - 1) \in Seq(Bytes) /\ CodeOf(s[j]) \in Seq(Bytes) /\ out(i) \in Seq(Bytes)
    BY <1>1, <1>3, <2>1
  <2>3. Len(out(j)) = Len(out(j - 1)) + Len(CodeOf(s[j]))
    BY <1>2, <2>1, <2>2
  <2>4. \A k \in 1 .. Len(out(j - 1)) : out(j)[k] = out(j - 1)[k]
    BY <1>2, <2>1, <2>2
  <2> QED
    BY <1>5, <2>2, <2>3, <2>4
<1> HIDE DEF Begins
<1>6. Bad = {}
  <2> SUFFICES ASSUME Bad # {} PROVE FALSE
    OBVIOUS
  <2>1. PICK j \in Bad : \A l \in Bad : j <= l
    <3>1. Bad \subseteq Nat
      OBVIOUS
    <3> HIDE DEF Bad
    <3> QED
      BY <3>1, LeastNumber
  <2>2. j \in i .. Len(s) /\ ~Begins(j)
    OBVIOUS
  <2>3. j # i
    BY <1>4, <2>2
  <2>4. j - 1 \in i .. Len(s) /\ j \in i + 1 .. Len(s)
    BY <2>2, <2>3
  <2>5. j - 1 \notin Bad
    <3> HIDE DEF Bad
    <3> QED
      BY <2>1, <2>2
  <2>6. Begins(j - 1)
    BY <2>4, <2>5
  <2> QED
    BY <1>5, <2>2, <2>4, <2>6
<1> QED
  BY <1>6 DEF Begins, out

(* Without its first byte, each byte stands one place earlier.              *)
LEMMA FromSecond ==
  ASSUME NEW s \in Seq(Bytes), NEW b \in 1 .. Len(s)
  PROVE  /\ SubSeq(s, 2, b) \in Seq(Bytes) /\ Len(SubSeq(s, 2, b)) = b - 1
         /\ \A k \in 1 .. b - 1 : SubSeq(s, 2, b)[k] = s[k + 1]
<1>1. SubSeq(s, 2, b) \in Seq(Bytes) /\ Len(SubSeq(s, 2, b)) = b - 1
  OBVIOUS
<1>2. \A k \in 1 .. b - 1 : SubSeq(s, 2, b)[k] = s[k + 1]
  OBVIOUS
<1> QED
  BY <1>1, <1>2

(* A string that is quoted reads back: what is left to read behind each code *)
(* is what is left of the string, from its end backwards.                   *)
LEMMA QuotedReads ==
  ASSUME NEW s \in Seq(Bytes)
  PROVE  LET quoted == AppendQuoted(<<>>, s)
         IN  /\ Head(quoted) = Quote /\ Last(quoted) = Quote
             /\ Unescaped(SubSeq(quoted, 2, Len(quoted) - 1)) = s
<1> DEFINE size == Len(s)
           out(i) == Escaped(<<Quote>>, s, i)
           whole == out(size)
           e == SubSeq(whole, 2, Len(whole))
           quoted == AppendQuoted(<<>>, s)
<1>1. <<Quote>> \in Seq(Bytes) /\ Append(<<>>, Quote) = <<Quote>> /\ Quote \in Bytes
  BY DEF Quote, Bytes
<1>2. /\ \A i \in 0 .. size : out(i) \in Seq(Bytes)
      /\ out(0) = <<Quote>>
      /\ \A i \in 1 .. size : out(i) = out(i - 1) \o CodeOf(s[i])
      /\ AppendEscaped(<<Quote>>, s) = whole
  BY <1>1, EscapedIs
<1>3. \A i \in 0 .. size : /\ Len(out(i)) <= Len(whole)
                           /\ \A k \in 1 .. Len(out(i)) : whole[k] = out(i)[k]
  <2>1. \A i \in 0 .. size : size \in i .. size
    OBVIOUS
  <2> QED
    BY <1>1, <2>1, EscapedStays
<1>4. quoted = Append(whole, Quote)
  BY <1>1, <1>2 DEF AppendQuoted
<1> HIDE DEF out, quoted
<1>5. whole \in Seq(Bytes) /\ Len(whole) \in Nat
  BY <1>2
<1>6. Len(whole) >= 1 /\ whole[1] = Quote
  <2>1. 0 \in 0 .. size /\ Len(out(0)) = 1 /\ out(0)[1] = Quote
    BY <1>2
  <2> QED
    BY <1>3, <2>1
<1> HIDE DEF whole
<1>7. /\ Len(quoted) = Len(whole) + 1 /\ quoted[1] = Quote /\ quoted[Len(quoted)] = Quote
      /\ quoted \in Seq(Bytes) /\ \A k \in 1 .. Len(whole) : quoted[k] = whole[k]
  BY <1>1, <1>4, <1>5, <1>6
<1>8. Head(quoted) = Quote /\ Last(quoted) = Quote
  BY <1>6, <1>7 DEF Last
<1>9. e \in Seq(Bytes) /\ Len(e) = Len(whole) - 1 /\ \A k \in 1 .. Len(e) : e[k] = whole[k + 1]
  <2>1. Len(whole) \in 1 .. Len(whole)
    BY <1>5, <1>6
  <2> QED
    BY <1>5, <2>1, FromSecond
<1>10. SubSeq(quoted, 2, Len(quoted) - 1) = e
  <2> DEFINE inner == SubSeq(quoted, 2, Len(quoted) - 1)
  <2>1. Len(quoted) - 1 = Len(whole) /\ Len(whole) \in 1 .. Len(quoted)
    BY <1>5, <1>6, <1>7
  <2>2. /\ inner \in Seq(Bytes) /\ Len(inner) = Len(whole) - 1
        /\ \A k \in 1 .. Len(whole) - 1 : inner[k] = quoted[k + 1]
    BY <1>7, <2>1, FromSecond
  <2> HIDE DEF inner, e
  <2>3. \A k \in 1 .. Len(whole) - 1 : inner[k] = e[k]
    <3>1. \A k \in 1 .. Len(whole) - 1 : k + 1 \in 1 .. Len(whole) /\ k \in 1 .. Len(e)
      BY <1>5, <1>9
    <3> QED
      BY <1>7, <1>9, <2>2, <3>1
  <2>4. inner = e
    BY <1>9, <2>2, <2>3, SeqEqual
  <2> QED
    BY <2>4 DEF inner
<1> HIDE DEF e
<1>11. ASSUME NEW i \in 1 .. size,
              Reading(e)[Len(out(i))] = SubSeq(s, i + 1, size)
       PROVE  Reading(e)[Len(out(i - 1))] = SubSeq(s, i, size)
  <2> DEFINE c == s[i]
             p == Len(out(i - 1))
  <2>1. i - 1 \in 0 .. size /\ i \in 0 .. size /\ c \in Bytes
    OBVIOUS
  <2>2. CodeOf(c) \in Seq(Bytes) /\ out(i - 1) \in Seq(Bytes) /\ out(i) = out(i - 1) \o CodeOf(c)
    BY <1>2, <2>1, CodesAreBytes
  <2>3. Len(out(i)) = p + Len(CodeOf(c)) /\ p \in Nat
    BY <2>2
  <2>4. p >= 1
    <3>1. 0 \in 0 .. size /\ i - 1 \in 0 .. size /\ Len(out(0)) = 1
      BY <1>2, <2>1
    <3>2. \A j \in 0 .. size : Len(out(0)) <= Len(out(j))
      BY <1>1, EscapedStays, <3>1 DEF out
    <3> QED
      BY <2>1, <3>1, <3>2
  <2>5. Len(out(i)) <= Len(whole) /\ \A k \in 1 .. Len(out(i)) : whole[k] = out(i)[k]
    BY <1>3, <2>1
  <2>6. Len(CodeOf(c)) >= 1
    BY DEF CodeOf, EscapeOf
  <2>7. ASSUME NEW k \in 1 .. Len(CodeOf(c)) PROVE e[p + k - 1] = CodeOf(c)[k]
    <3>1. out(i)[p + k] = CodeOf(c)[k]
      BY <2>2, <2>3
    <3>2. p + k \in 1 .. Len(out(i)) /\ p + k - 1 \in 1 .. Len(e) /\ (p + k - 1) + 1 = p + k
      BY <1>9, <2>2, <2>3, <2>4, <2>5
    <3> QED
      BY <1>9, <2>5, <3>1, <3>2
  <2>8. p \in 1 .. Len(e) /\ p + Len(CodeOf(c)) <= Len(e) + 1
    BY <1>5, <1>9, <2>2, <2>3, <2>4, <2>5, <2>6
  <2>9. Reading(e)[p] = <<c>> \o Reading(e)[p + Len(CodeOf(c))]
    <3> HIDE DEF c, p
    <3> QED
      BY <1>9, <2>1, <2>7, <2>8, CodeReads
  <2>10. Reading(e)[p] = <<c>> \o SubSeq(s, i + 1, size)
    BY <1>11, <2>3, <2>9
  <2>11. <<s[i]>> \o SubSeq(s, i + 1, size) = SubSeq(s, i, size)
    <3>1. SubSeq(s, i, size) \in Seq(Bytes) /\ Len(SubSeq(s, i, size)) = size - i + 1
      OBVIOUS
    <3>2. /\ <<s[i]>> \o SubSeq(s, i + 1, size) \in Seq(Bytes)
          /\ Len(<<s[i]>> \o SubSeq(s, i + 1, size)) = size - i + 1
      OBVIOUS
    <3>3. \A k \in 1 .. size - i + 1 :
            (<<s[i]>> \o SubSeq(s, i + 1, size))[k] = SubSeq(s, i, size)[k]
      OBVIOUS
    <3> QED
      BY <3>1, <3>2, <3>3, SeqEqual
  <2> QED
    BY <2>10, <2>11
<1>12. Reading(e)[Len(out(size))] = SubSeq(s, size + 1, size)
  <2>1. Len(out(size)) = Len(e) + 1 /\ Len(e) \in Nat /\ Len(out(size)) \in 1 .. Len(e) + 6
    BY <1>5, <1>6, <1>9 DEF whole
  <2>2. Reading(e)[Len(out(size))] = ReadAt(Reading(e), e, Len(out(size)))
    BY <2>1, ReadingUnfold, Zenon
  <2>3. ReadAt(Reading(e), e, Len(out(size))) = <<>>
    BY <2>1 DEF ReadAt
  <2>4. SubSeq(s, size + 1, size) = <<>>
    OBVIOUS
  <2> QED
    BY <2>2, <2>3, <2>4
<1> DEFINE Good(i) == Reading(e)[Len(out(i))] = SubSeq(s, i + 1, size)
           Bad == {k \in 0 .. size : ~Good(size - k)}
<1>13. Bad = {}
  <2>1. \A i \in 1 .. size : Good(i) => Good(i - 1)
    <3>1. \A i \in 1 .. size : (i - 1) + 1 = i
      OBVIOUS
    <3> QED
      BY <1>11, <3>1
  <2>2. Good(size)
    BY <1>12
  <2> HIDE DEF Good
  <2> SUFFICES ASSUME Bad # {} PROVE FALSE
    OBVIOUS
  <2>3. PICK k \in Bad : \A j \in Bad : k <= j
    <3>1. Bad \subseteq Nat
      OBVIOUS
    <3> HIDE DEF Bad
    <3> QED
      BY <3>1, LeastNumber
  <2>4. k \in 0 .. size /\ ~Good(size - k)
    OBVIOUS
  <2>5. k # 0
    BY <2>2, <2>4
  <2>6. k - 1 \in 0 .. size /\ k - 1 \notin Bad
    <3> HIDE DEF Bad
    <3> QED
      BY <2>3, <2>4, <2>5
  <2>7. Good(size - (k - 1))
    BY <2>6
  <2>8. size - (k - 1) \in 1 .. size /\ size - (k - 1) - 1 = size - k
    BY <2>4, <2>5
  <2> QED
    BY <2>1, <2>4, <2>7, <2>8
<1>14. Reading(e)[1] = s
  <2>1. size \in 0 .. size /\ size - size = 0
    OBVIOUS
  <2>2. Good(0)
    <3> HIDE DEF Good
    <3> QED
      BY <1>13, <2>1
  <2>3. Len(out(0)) = 1 /\ SubSeq(s, 0 + 1, size) = s
    BY <1>2
  <2> QED
    BY <2>2, <2>3
<1> QED
  BY <1>8, <1>10, <1>14, UnescapedIs DEF quoted

(* The string AppendQuoted writes reads back as the bytes it was made from, *)
(* whatever bytes they are and however long (jsonenc.go: AppendQuoted,      *)
(* AppendEscaped).                                                          *)
THEOREM EscapesReadBack == TextSpec => []EscapedReadsBack
<1>1. WordIsBytes => EscapedReadsBack
  BY QuotedReads DEF WordIsBytes, EscapedReadsBack
<1> QED
  BY <1>1, WordsAreBytes, PTL

-----------------------------------------------------------------------------

(* A set of numbers up to b is finite, and so is what is below in it.       *)
LEMMA UpToFinite ==
  ASSUME NEW b \in Nat, NEW S, S \subseteq 0 .. b, NEW i
  PROVE  /\ IsFiniteSet(S) /\ Cardinality(S) \in Nat
         /\ IsFiniteSet({x \in S : x <= i})
         /\ Rank(S, i) \in 0 .. Cardinality(S)
<1>1. IsFiniteSet(0 .. b)
  BY FS_Interval
<1>2. IsFiniteSet(S)
  BY <1>1, FS_Subset
<1>3. {x \in S : x <= i} \subseteq S
  OBVIOUS
<1>4. IsFiniteSet({x \in S : x <= i}) /\ Cardinality({x \in S : x <= i}) <= Cardinality(S)
  BY <1>2, <1>3, FS_Subset
<1>5. Cardinality(S) \in Nat /\ Cardinality({x \in S : x <= i}) \in Nat
  BY <1>2, <1>4, FS_CardinalityType
<1> QED
  BY <1>2, <1>4, <1>5 DEF Rank

(* The rank grows by one at each member. *)
LEMMA RankGrows ==
  ASSUME NEW b \in Nat, NEW S, S \subseteq 0 .. b
  PROVE  /\ Rank(S, 0) = IF 0 \in S THEN 1 ELSE 0
         /\ \A i \in 1 .. b : Rank(S, i) = Rank(S, i - 1) + IF i \in S THEN 1 ELSE 0
         /\ Rank(S, b) = Cardinality(S)
<1> DEFINE Below(i) == {x \in S : x <= i}
<1>0. \A x \in S : x \in Nat /\ x <= b
  OBVIOUS
<1>1. Rank(S, 0) = IF 0 \in S THEN 1 ELSE 0
  <2>1. CASE 0 \in S
    <3>1. Below(0) = {0}
      <4>1. \A x \in S : x <= 0 <=> x = 0
        BY <1>0
      <4> QED
        BY <2>1, <4>1, Zenon
    <3>2. Cardinality({0}) = 1
      BY FS_Singleton
    <3> QED
      BY <2>1, <3>1, <3>2 DEF Rank
  <2>2. CASE 0 \notin S
    <3>1. Below(0) = {}
      <4>1. \A x \in S : x <= 0 <=> x = 0
        BY <1>0
      <4> QED
        BY <2>2, <4>1, Zenon
    <3>2. Cardinality({}) = 0
      BY FS_EmptySet
    <3> QED
      BY <2>2, <3>1, <3>2 DEF Rank
  <2> QED
    BY <2>1, <2>2
<1>2. ASSUME NEW i \in 1 .. b
      PROVE  Rank(S, i) = Rank(S, i - 1) + IF i \in S THEN 1 ELSE 0
  <2>1. IsFiniteSet(Below(i - 1)) /\ Cardinality(Below(i - 1)) \in Nat
    BY UpToFinite, FS_CardinalityType
  <2>2. CASE i \in S
    <3>1. Below(i) = Below(i - 1) \cup {i} /\ i \notin Below(i - 1)
      <4>1. \A x \in S : x <= i <=> x <= i - 1 \/ x = i
        BY <1>0
      <4>2. ~(i <= i - 1)
        OBVIOUS
      <4> QED
        BY <2>2, <4>1, <4>2, Zenon
    <3> HIDE DEF Below
    <3>2. Cardinality(Below(i - 1) \cup {i}) = Cardinality(Below(i - 1)) + 1
      BY <2>1, <3>1, FS_AddElement
    <3> QED
      BY <2>2, <3>1, <3>2 DEF Rank, Below
  <2>3. CASE i \notin S
    <3>1. Below(i) = Below(i - 1)
      <4>1. \A x \in S : x <= i <=> x <= i - 1
        BY <1>0, <2>3
      <4> QED
        BY <4>1
    <3> QED
      BY <2>1, <2>3, <3>1 DEF Rank
  <2> QED
    BY <2>2, <2>3
<1>3. Rank(S, b) = Cardinality(S)
  <2>1. Below(b) = S
    BY <1>0
  <2> QED
    BY <2>1 DEF Rank
<1> QED
  BY <1>1, <1>2, <1>3

(* Different members have different ranks.                                  *)
LEMMA RanksDiffer ==
  ASSUME NEW b \in Nat, NEW S, S \subseteq 0 .. b, NEW x \in S, NEW y \in S, x < y
  PROVE  Rank(S, x) < Rank(S, y)
<1> DEFINE Below(i) == {z \in S : z <= i}
<1>1. IsFiniteSet(Below(x)) /\ IsFiniteSet(Below(y))
  BY UpToFinite
<1>2. Below(x) \subseteq Below(y) /\ y \in Below(y) /\ y \notin Below(x)
  <2>1. \A z \in S : z <= x => z <= y
    OBVIOUS
  <2>2. y <= y /\ ~(y <= x)
    OBVIOUS
  <2> QED
    BY <2>1, <2>2, Zenon
<1> HIDE DEF Below
<1>3. /\ Cardinality(Below(x)) <= Cardinality(Below(y))
      /\ Cardinality(Below(x)) # Cardinality(Below(y))
  BY <1>1, <1>2, FS_Subset
<1>4. Cardinality(Below(x)) \in Nat /\ Cardinality(Below(y)) \in Nat
  BY <1>1, FS_CardinalityType
<1> QED
  BY <1>3, <1>4 DEF Rank, Below

(* Every number up to the size of the set is the rank of a member.          *)
LEMMA EveryRankIs ==
  ASSUME NEW b \in Nat, NEW S, S \subseteq 0 .. b, NEW n \in 1 .. Cardinality(S)
  PROVE  \E x \in S : Rank(S, x) = n
<1> DEFINE T == {i \in 0 .. b : Rank(S, i) >= n}
<1>0. /\ Rank(S, 0) = IF 0 \in S THEN 1 ELSE 0
      /\ \A i \in 1 .. b : Rank(S, i) = Rank(S, i - 1) + IF i \in S THEN 1 ELSE 0
  BY RankGrows
<1>1. Rank(S, b) = Cardinality(S) /\ Cardinality(S) \in Nat
  BY RankGrows, UpToFinite
<1>2. b \in T /\ T \subseteq Nat
  BY <1>1
<1>3. PICK i \in T : \A j \in T : i <= j
  <2> HIDE DEF T
  <2> QED
    BY <1>2, LeastNumber
<1>4. i \in 0 .. b /\ Rank(S, i) >= n
  OBVIOUS
<1>5. CASE i = 0
  <2>1. Rank(S, 0) = 1 /\ 0 \in S
    <3> HIDE DEF T
    <3> QED
      BY <1>0, <1>4, <1>5
  <2> QED
    BY <1>4, <1>5, <2>1
<1>6. CASE i # 0
  <2>1. i \in 1 .. b /\ i - 1 \in 0 .. b
    BY <1>4, <1>6
  <2>2. i - 1 \notin T
    <3> HIDE DEF T
    <3> QED
      BY <1>3, <1>4
  <2>3. Rank(S, i - 1) \in Nat /\ Rank(S, i - 1) < n
    <3>1. Rank(S, i - 1) \in 0 .. Cardinality(S)
      BY UpToFinite
    <3> QED
      BY <1>1, <2>1, <2>2, <3>1
  <2>4. Rank(S, i) = Rank(S, i - 1) + IF i \in S THEN 1 ELSE 0
    BY <1>0, <2>1
  <2> QED
    BY <1>4, <2>3, <2>4
<1> QED
  BY <1>5, <1>6

(* InOrder lists every member of a set once, in the place of its rank. *)
LEMMA InOrderIs ==
  ASSUME NEW b \in Nat, NEW S, S \subseteq 0 .. b
  PROVE  /\ Len(InOrder(S)) = Cardinality(S) /\ DOMAIN InOrder(S) = 1 .. Cardinality(S)
         /\ \A n \in 1 .. Cardinality(S) : InOrder(S)[n] \in S /\ Rank(S, InOrder(S)[n]) = n
         /\ \A x \in S : Rank(S, x) \in 1 .. Cardinality(S) /\ InOrder(S)[Rank(S, x)] = x
<1>1. Cardinality(S) \in Nat
  BY UpToFinite
<1>2. DOMAIN InOrder(S) = 1 .. Cardinality(S) /\ Len(InOrder(S)) = Cardinality(S)
  BY <1>1 DEF InOrder
<1>3. ASSUME NEW n \in 1 .. Cardinality(S)
      PROVE  InOrder(S)[n] \in S /\ Rank(S, InOrder(S)[n]) = n
  <2>1. InOrder(S)[n] = CHOOSE x \in S : Rank(S, x) = n
    BY DEF InOrder
  <2>2. \E x \in S : Rank(S, x) = n
    BY EveryRankIs
  <2> QED
    BY <2>1, <2>2
<1>4. ASSUME NEW x \in S
      PROVE  Rank(S, x) \in 1 .. Cardinality(S) /\ InOrder(S)[Rank(S, x)] = x
  <2>1. Rank(S, x) \in 0 .. Cardinality(S)
    BY UpToFinite
  <2>2. Rank(S, x) # 0
    <3>1. x \in {z \in S : z <= x} /\ IsFiniteSet({z \in S : z <= x})
      <4>1. x <= x
        OBVIOUS
      <4>2. x \in {z \in S : z <= x}
        BY <4>1
      <4> QED
        BY <4>2, UpToFinite, Zenon
    <3>2. Cardinality({z \in S : z <= x}) # 0
      BY <3>1, FS_EmptySet
    <3> QED
      BY <3>2 DEF Rank
  <2>3. Rank(S, x) \in 1 .. Cardinality(S)
    BY <1>1, <2>1, <2>2
  <2> DEFINE y == InOrder(S)[Rank(S, x)]
  <2>4. y \in S /\ Rank(S, y) = Rank(S, x)
    BY <1>3, <2>3
  <2>5. ~(x < y) /\ ~(y < x)
    <3> HIDE DEF y
    <3>1. Rank(S, x) \in Nat
      BY <2>3
    <3>2. ~(Rank(S, x) < Rank(S, y)) /\ ~(Rank(S, y) < Rank(S, x))
      BY <2>4, <3>1
    <3> QED
      BY <2>4, <3>2, RanksDiffer, Zenon
  <2>6. y = x
    <3> HIDE DEF y
    <3>1. \A z \in S : z \in Nat
      OBVIOUS
    <3> QED
      BY <2>4, <2>5, <3>1
  <2> QED
    BY <2>3, <2>6
<1> QED
  BY <1>2, <1>3, <1>4

-----------------------------------------------------------------------------

(* The function of FlattenSeq: flatten[n] is the first n sequences in one.  *)
Flattening(q) ==
  CHOOSE flatten : flatten = [i \in 1 .. Len(q) |->
    IF i = 1 THEN q[i] ELSE flatten[i - 1] \o q[i]]

(* It exists for every length, as Escaping does.                            *)
LEMMA FlatteningUnfold ==
  ASSUME NEW q, Len(q) \in Nat
  PROVE  \A i \in 1 .. Len(q) :
           Flattening(q)[i] = IF i = 1 THEN q[i] ELSE Flattening(q)[i - 1] \o q[i]
<1> DEFINE size == Len(q)
           From(h, i) == IF i = 1 THEN q[i] ELSE h[i - 1] \o q[i]
           IsUpTo(k, h) == h = [i \in 1 .. k |-> From(h, i)]
           Undefined == {k \in 0 .. size : ~ \E h : IsUpTo(k, h)}
<1>1. Undefined = {}
  <2> SUFFICES ASSUME Undefined # {} PROVE FALSE
    OBVIOUS
  <2>1. PICK k \in Undefined : \A j \in Undefined : k <= j
    <3>1. Undefined \subseteq Nat
      <4> HIDE DEF IsUpTo
      <4> QED
        OBVIOUS
    <3> HIDE DEF Undefined
    <3> QED
      BY <3>1, LeastNumber
  <2>2. k \in 0 .. size
    OBVIOUS
  <2>3. CASE k = 0
    <3> DEFINE h == [i \in 1 .. 0 |-> <<>>]
    <3>1. IsUpTo(0, h)
      OBVIOUS
    <3> QED
      BY <2>3, <3>1
  <2>4. CASE k # 0
    <3>1. k - 1 \in 0 .. size /\ k - 1 \notin Undefined
      <4> HIDE DEF Undefined
      <4> QED
        BY <2>1, <2>2, <2>4
    <3>2. PICK h : IsUpTo(k - 1, h)
      BY <3>1
    <3> DEFINE g == [i \in 1 .. k |-> From(h, i)]
    <3>3. ASSUME NEW i \in 1 .. k
          PROVE  From(h, i) = From(g, i)
      <4>1. CASE i = 1
        BY <4>1
      <4>2. CASE i # 1
        <5>1. i - 1 \in 1 .. k - 1 /\ i - 1 \in 1 .. k
          BY <4>2, <2>2
        <5>2. h[i - 1] = From(h, i - 1)
          <6> HIDE DEF From
          <6> QED
            BY <3>2, <5>1, Zenon
        <5>3. g[i - 1] = From(h, i - 1)
          BY <5>1
        <5> HIDE DEF g
        <5> QED
          BY <5>2, <5>3
      <4> QED
        BY <4>1, <4>2
    <3>4. IsUpTo(k, g)
      BY <3>3
    <3> QED
      BY <3>4
  <2> QED
    BY <2>3, <2>4
<1>2. \E h : IsUpTo(size, h)
  <2> HIDE DEF IsUpTo
  <2>1. size \in 0 .. size
    OBVIOUS
  <2> HIDE DEF size
  <2> QED
    BY <1>1, <2>1
<1> DEFINE after == CHOOSE h : IsUpTo(size, h)
<1>3. IsUpTo(size, after)
  <2> HIDE DEF IsUpTo, size
  <2> QED
    BY <1>2
<1>4. Flattening(q) = after
  BY DEF Flattening
<1> HIDE DEF after
<1>5. \A i \in 1 .. size : after[i] = From(after, i)
  <2> HIDE DEF From
  <2> QED
    BY <1>3, Zenon
<1> QED
  BY <1>4, <1>5

(* The first n of q, one after the other. *)
Flat(q, n) == IF n = 0 THEN <<>> ELSE Flattening(q)[n]

(* It grows by a sequence at a time.                                        *)
LEMMA FlatIs ==
  ASSUME NEW q \in Seq(Seq(Bytes))
  PROVE  /\ Flat(q, 0) = <<>>
         /\ \A n \in 1 .. Len(q) : Flat(q, n) = Flat(q, n - 1) \o q[n]
         /\ \A n \in 0 .. Len(q) : Flat(q, n) \in Seq(Bytes)
         /\ FlattenSeq(q) = Flat(q, Len(q))
<1> DEFINE flat == Flattening(q)
           Bad == {n \in 0 .. Len(q) : Flat(q, n) \notin Seq(Bytes)}
<1>0. Len(q) \in Nat /\ \A i \in 1 .. Len(q) : q[i] \in Seq(Bytes)
  OBVIOUS
<1>1. \A i \in 1 .. Len(q) : flat[i] = IF i = 1 THEN q[i] ELSE flat[i - 1] \o q[i]
  BY <1>0, FlatteningUnfold, Zenon
<1> HIDE DEF flat
<1>2. ASSUME NEW n \in 1 .. Len(q) PROVE Flat(q, n) = Flat(q, n - 1) \o q[n]
  <2>1. CASE n = 1
    <3>1. Flat(q, n) = q[1] /\ Flat(q, n - 1) = <<>>
      BY <1>1, <2>1 DEF Flat, flat
    <3>2. q[1] \in Seq(Bytes)
      BY <2>1
    <3> QED
      BY <2>1, <3>1, <3>2
  <2>2. CASE n # 1
    <3>1. n # 0 /\ n - 1 # 0
      BY <2>2
    <3>2. flat[n] = flat[n - 1] \o q[n]
      BY <1>1, <2>2, Zenon
    <3> QED
      BY <3>1, <3>2, Zenon DEF Flat, flat
  <2> QED
    BY <2>1, <2>2
<1>3. Flat(q, 0) = <<>>
  BY DEF Flat
<1>4. Bad = {}
  <2> SUFFICES ASSUME Bad # {} PROVE FALSE
    OBVIOUS
  <2>1. PICK n \in Bad : \A j \in Bad : n <= j
    <3>1. Bad \subseteq Nat
      OBVIOUS
    <3> HIDE DEF Bad
    <3> QED
      BY <3>1, LeastNumber
  <2>2. n \in 0 .. Len(q) /\ Flat(q, n) \notin Seq(Bytes)
    OBVIOUS
  <2>3. n # 0
    <3>1. <<>> \in Seq(Bytes)
      OBVIOUS
    <3> HIDE DEF Bad
    <3> QED
      BY <1>3, <2>2, <3>1
  <2>4. n \in 1 .. Len(q) /\ n - 1 \in 0 .. Len(q) /\ n - 1 \notin Bad
    <3> HIDE DEF Bad
    <3> QED
      BY <2>1, <2>2, <2>3
  <2>5. Flat(q, n - 1) \in Seq(Bytes) /\ q[n] \in Seq(Bytes)
    BY <1>0, <2>4
  <2>6. Flat(q, n) = Flat(q, n - 1) \o q[n]
    BY <1>2, <2>4
  <2>7. Flat(q, n - 1) \o q[n] \in Seq(Bytes)
    BY <2>5, ConcatProperties
  <2> QED
    BY <2>2, <2>6, <2>7
<1>5. FlattenSeq(q) = Flat(q, Len(q))
  <2>1. CASE Len(q) = 0
    <3>1. q = <<>>
      BY <2>1
    <3> QED
      BY <2>1, <3>1 DEF FlattenSeq, Flat
  <2>2. CASE Len(q) # 0
    BY <2>2 DEF FlattenSeq, Flat, Flattening
  <2> QED
    BY <2>1, <2>2
<1> QED
  BY <1>2, <1>3, <1>4, <1>5

-----------------------------------------------------------------------------

(* The state of the loop of appendSnake before the first byte.              *)
Fresh(dst) == [dst |-> dst, prev |-> "none", sep |-> FALSE]

(* The states of the loop of appendSnake. *)
Snaking(dst, s) ==
  CHOOSE after : after = [i \in 0 .. Len(s) |->
    IF i = 0 THEN Fresh(dst) ELSE AppendByte(after[i - 1], s, i, Len(dst))]

(* They follow from one another, byte by byte.                              *)
LEMMA SnakingUnfold ==
  ASSUME NEW dst, NEW s, Len(s) \in Nat
  PROVE  /\ Snaking(dst, s)[0] = Fresh(dst)
         /\ \A i \in 1 .. Len(s) :
              Snaking(dst, s)[i] = AppendByte(Snaking(dst, s)[i - 1], s, i, Len(dst))
<1> DEFINE size == Len(s)
           From(h, i) == IF i = 0 THEN Fresh(dst) ELSE AppendByte(h[i - 1], s, i, Len(dst))
           IsUpTo(k, h) == h = [i \in 0 .. k |-> From(h, i)]
           Undefined == {k \in 0 .. size : ~ \E h : IsUpTo(k, h)}
<1>1. Undefined = {}
  <2> SUFFICES ASSUME Undefined # {} PROVE FALSE
    OBVIOUS
  <2>1. PICK k \in Undefined : \A j \in Undefined : k <= j
    <3>1. Undefined \subseteq Nat
      OBVIOUS
    <3> HIDE DEF Undefined
    <3> QED
      BY <3>1, LeastNumber
  <2>2. k \in 0 .. size
    OBVIOUS
  <2>3. CASE k = 0
    <3> DEFINE h == [i \in 0 .. 0 |-> Fresh(dst)]
    <3>1. IsUpTo(0, h)
      OBVIOUS
    <3> QED
      BY <2>3, <3>1
  <2>4. CASE k # 0
    <3>1. k - 1 \in 0 .. size /\ k - 1 \notin Undefined
      <4> HIDE DEF Undefined
      <4> QED
        BY <2>1, <2>2, <2>4
    <3>2. PICK h : IsUpTo(k - 1, h)
      BY <3>1
    <3> DEFINE g == [i \in 0 .. k |-> From(h, i)]
    <3>3. ASSUME NEW i \in 0 .. k
          PROVE  From(h, i) = From(g, i)
      <4>1. CASE i = 0
        BY <4>1
      <4>2. CASE i # 0
        <5>1. i - 1 \in 0 .. k - 1 /\ i - 1 \in 0 .. k
          BY <4>2, <2>2
        <5>2. h[i - 1] = From(h, i - 1)
          <6> HIDE DEF From
          <6> QED
            BY <3>2, <5>1, Zenon
        <5>3. g[i - 1] = From(h, i - 1)
          BY <5>1
        <5> HIDE DEF g
        <5> QED
          BY <5>2, <5>3
      <4> QED
        BY <4>1, <4>2
    <3>4. IsUpTo(k, g)
      BY <3>3
    <3> QED
      BY <3>4
  <2> QED
    BY <2>3, <2>4
<1>2. \E h : IsUpTo(size, h)
  <2> HIDE DEF IsUpTo
  <2>1. size \in 0 .. size
    OBVIOUS
  <2> HIDE DEF size
  <2> QED
    BY <1>1, <2>1
<1> DEFINE after == CHOOSE h : IsUpTo(size, h)
<1>3. IsUpTo(size, after)
  <2> HIDE DEF IsUpTo, size
  <2> QED
    BY <1>2
<1>4. Snaking(dst, s) = after
  BY DEF Snaking
<1> HIDE DEF after
<1>5. \A i \in 0 .. size : after[i] = From(after, i)
  <2> HIDE DEF From
  <2> QED
    BY <1>3, Zenon
<1> QED
  BY <1>4, <1>5

(* AppendSnake is what the last of them holds.                              *)
LEMMA SnakeIs == ASSUME NEW dst, NEW s PROVE AppendSnake(dst, s) = Snaking(dst, s)[Len(s)].dst
  BY DEF AppendSnake, Snaking, Fresh

-----------------------------------------------------------------------------

(* The classes of bytes, and their lower case.                              *)
LEMMA ClassIs ==
  \A c \in Bytes : /\ Class(c) \in {"lower", "upper", "digit", "none"}
                   /\ IsLower(c) => Class(c) = "lower"
                   /\ Class(c) = "lower" => IsLower(c) \/ c >= 128
                   /\ LowerCase(c) \in Bytes
<1> SUFFICES ASSUME NEW c \in Bytes
    PROVE  /\ Class(c) \in {"lower", "upper", "digit", "none"}
           /\ IsLower(c) => Class(c) = "lower"
           /\ Class(c) = "lower" => IsLower(c) \/ c >= 128
           /\ LowerCase(c) \in Bytes
  OBVIOUS
<1>1. /\ Class(c) \in {"lower", "upper", "digit", "none"}
      /\ IsLower(c) => Class(c) = "lower"
      /\ Class(c) = "lower" => IsLower(c) \/ c >= 128
  <2>1. CASE IsLower(c) \/ c >= 128
    <3>1. Class(c) = "lower"
      BY <2>1 DEF Class, IsLower, Bytes
    <3> QED
      BY <2>1, <3>1
  <2>2. CASE ~(IsLower(c) \/ c >= 128)
    <3>1. Class(c) \in {"upper", "digit", "none"}
      BY <2>2 DEF Class, IsLower, Bytes
    <3> QED
      BY <2>2, <3>1
  <2> QED
    BY <2>1, <2>2
<1>2. LowerCase(c) \in Bytes
  BY DEF LowerCase, Bytes
<1> QED
  BY <1>1, <1>2

(* The separator of keys is of no word.                                     *)
LEMMA SeparatorIsNone == Class(Underscore) = "none" /\ ~IsLower(Underscore)
  BY DEF Class, IsLower, Underscore

(* Append adds a sequence of one.                                           *)
LEMMA AppendIs ==
  ASSUME NEW q \in Seq(Bytes), NEW x \in Bytes
  PROVE  Append(q, x) = q \o <<x>>
  BY AppendIsConcat

(* The words of a name, as the loop breaks them.                            *)
LettersIn(s) == {i \in DOMAIN s : Class(s[i]) # "none"}

ClassAt(s, n) == Class(s[InOrder(LettersIn(s))[n]])

StartsWordAt(s, n) ==
  LET letters == InOrder(LettersIn(s))
  IN  \/ letters[n] # letters[n - 1] + 1
      \/ ClassAt(s, n) = "upper" /\ ClassAt(s, n - 1) # "upper"
      \/ /\ ClassAt(s, n) = "upper"
         /\ n < Len(letters) /\ letters[n + 1] = letters[n] + 1
         /\ IsLower(s[letters[n + 1]])

PieceAt(s, n) ==
  (IF n > 1 /\ StartsWordAt(s, n) THEN <<Underscore>> ELSE <<>>)
    \o <<LowerCase(s[InOrder(LettersIn(s))[n]])>>

PiecesOf(s) == [n \in DOMAIN InOrder(LettersIn(s)) |-> PieceAt(s, n)]


(* There is a piece for every letter, in the order of the letters.          *)
LEMMA PiecesAre ==
  ASSUME NEW s \in Seq(Bytes)
  PROVE  /\ LettersIn(s) \subseteq 0 .. Len(s)
         /\ \A x \in LettersIn(s) : x \in 1 .. Len(s)
         /\ PiecesOf(s) \in Seq(Seq(Bytes))
         /\ Len(PiecesOf(s)) = Cardinality(LettersIn(s))
         /\ \A n \in 1 .. Cardinality(LettersIn(s)) :
              PiecesOf(s)[n] = PieceAt(s, n) /\ PieceAt(s, n) \in Seq(Bytes)
         /\ Cardinality(LettersIn(s)) \in Nat
<1> DEFINE size == Cardinality(LettersIn(s))
<1>1. \A x \in LettersIn(s) : x \in 1 .. Len(s)
  BY DEF LettersIn
<1>2. LettersIn(s) \subseteq 0 .. Len(s)
  BY <1>1
<1>3. Len(s) \in Nat /\ size \in Nat
  <2>1. Len(s) \in Nat
    OBVIOUS
  <2> QED
    BY <1>2, <2>1, UpToFinite, Zenon
<1>4. /\ DOMAIN InOrder(LettersIn(s)) = 1 .. size
      /\ \A n \in 1 .. size : InOrder(LettersIn(s))[n] \in LettersIn(s)
  BY <1>2, <1>3, InOrderIs
<1>5. ASSUME NEW n \in 1 .. size PROVE PieceAt(s, n) \in Seq(Bytes)
  <2>1. s[InOrder(LettersIn(s))[n]] \in Bytes
    BY <1>1, <1>4
  <2>2. LowerCase(s[InOrder(LettersIn(s))[n]]) \in Bytes
    BY <2>1, ClassIs
  <2>3. <<LowerCase(s[InOrder(LettersIn(s))[n]])>> \in Seq(Bytes)
    BY <2>2
  <2>4. (IF n > 1 /\ StartsWordAt(s, n) THEN <<Underscore>> ELSE <<>>) \in Seq(Bytes)
    BY DEF Underscore, Bytes
  <2> QED
    BY <2>3, <2>4, ConcatProperties DEF PieceAt
<1> HIDE DEF size
<1>6. PiecesOf(s) = [n \in 1 .. size |-> PieceAt(s, n)]
  BY <1>4 DEF PiecesOf
<1>7. PiecesOf(s) \in Seq(Seq(Bytes)) /\ Len(PiecesOf(s)) = size
  BY <1>3, <1>5, <1>6
<1> QED
  BY <1>1, <1>2, <1>3, <1>5, <1>6, <1>7 DEF size

(* What the loop knows when i bytes are read: the pieces of the letters so  *)
(* far, what the last of them was, and whether it is right behind it.       *)
SoFar(a, n, dst, s, i) ==
  LET last == InOrder(LettersIn(s))[n]
  IN  /\ a = [dst |-> a.dst, prev |-> a.prev, sep |-> a.sep]
      /\ a.dst = dst \o Flat(PiecesOf(s), n)
      /\ a.dst \in Seq(Bytes) /\ (Len(a.dst) > Len(dst) <=> n > 0)
      /\ n = 0 => a.prev = "none"
      /\ n > 0 => a.prev = Class(s[last]) /\ (a.sep <=> last < i) /\ last \in 1 .. i

(* What the loop has when i bytes are read: the pieces of the letters among *)
(* them, and the class and the place of the last letter.                    *)
SnakedSoFar(dst, s, i) == SoFar(Snaking(dst, s)[i], Rank(LettersIn(s), i), dst, s, i)

(* It holds before the first byte ...                                       *)
LEMMA SnakedFirst ==
  ASSUME NEW dst \in Seq(Bytes), NEW s \in Seq(Bytes)
  PROVE  SnakedSoFar(dst, s, 0)
<1>1. Snaking(dst, s)[0] = Fresh(dst)
  BY SnakingUnfold
<1>2. Rank(LettersIn(s), 0) = 0
  BY PiecesAre, RankGrows
<1>3. Flat(PiecesOf(s), 0) = <<>> /\ dst \o <<>> = dst
  BY DEF Flat
<1>4. SoFar(Fresh(dst), 0, dst, s, 0)
  BY <1>3 DEF SoFar, Fresh
<1> QED
  BY <1>1, <1>2, <1>4 DEF SnakedSoFar

(* ... and after each byte, if it did before: a letter adds its piece, for  *)
(* the loop and SnakeByWords break words at the same places.                *)
LEMMA SnakedNext ==
  ASSUME NEW dst \in Seq(Bytes), NEW s \in Seq(Bytes), NEW j \in 1 .. Len(s),
         SnakedSoFar(dst, s, j - 1)
  PROVE  SnakedSoFar(dst, s, j)
<1> DEFINE a == Snaking(dst, s)[j - 1]
           b == Snaking(dst, s)[j]
           L == LettersIn(s)
           letters == InOrder(L)
           n == Rank(L, j - 1)
           last == letters[n]
           c == s[j]
           q == PiecesOf(s)
<1>0. Len(s) \in Nat /\ j \in Nat /\ c \in Bytes
  OBVIOUS
<1>1. b = AppendByte(a, s, j, Len(dst))
  BY <1>0, SnakingUnfold, Zenon
<1>2. /\ a = [dst |-> a.dst, prev |-> a.prev, sep |-> a.sep]
      /\ a.dst = dst \o Flat(q, n)
      /\ a.dst \in Seq(Bytes) /\ (Len(a.dst) > Len(dst) <=> n > 0)
      /\ n = 0 => a.prev = "none"
      /\ n > 0 => a.prev = Class(s[last]) /\ (a.sep <=> last < j - 1) /\ last \in 1 .. j - 1
  BY Zenon DEF SnakedSoFar, SoFar
<1>3. /\ L \subseteq 0 .. Len(s) /\ \A x \in L : x \in 1 .. Len(s)
      /\ q \in Seq(Seq(Bytes)) /\ Len(q) = Cardinality(L) /\ Cardinality(L) \in Nat
      /\ \A k \in 1 .. Cardinality(L) : q[k] = PieceAt(s, k) /\ PieceAt(s, k) \in Seq(Bytes)
  BY PiecesAre
<1>4. /\ Len(letters) = Cardinality(L)
      /\ \A k \in 1 .. Cardinality(L) : letters[k] \in L /\ Rank(L, letters[k]) = k
      /\ \A x \in L : Rank(L, x) \in 1 .. Cardinality(L) /\ letters[Rank(L, x)] = x
  BY <1>0, <1>3, InOrderIs
<1>5. n \in 0 .. Cardinality(L)
  BY <1>0, <1>3, UpToFinite
<1>6. \A x \in 1 .. Len(s) : Rank(L, x) = Rank(L, x - 1) + IF x \in L THEN 1 ELSE 0
  BY <1>0, <1>3, RankGrows
<1>7. \A x \in 1 .. Len(s) : x \in L <=> Class(s[x]) # "none"
  BY DEF LettersIn
<1>8. \A k : SoFar(b, k, dst, s, j) <=>
        /\ b = [dst |-> b.dst, prev |-> b.prev, sep |-> b.sep]
        /\ b.dst = dst \o Flat(q, k)
        /\ b.dst \in Seq(Bytes) /\ (Len(b.dst) > Len(dst) <=> k > 0)
        /\ k = 0 => b.prev = "none"
        /\ k > 0 => /\ b.prev = Class(s[letters[k]])
                    /\ b.sep <=> letters[k] < j
                    /\ letters[k] \in 1 .. j
  BY Zenon DEF SoFar
<1>9. SoFar(b, Rank(L, j), dst, s, j) => SnakedSoFar(dst, s, j)
  BY DEF SnakedSoFar
<1> HIDE DEF a, b, L, letters, n, q
<1>12. ASSUME b = [a EXCEPT !.sep = TRUE] 
       PROVE  /\ b.dst = a.dst /\ b.prev = a.prev /\ b.sep
              /\ b = [dst |-> b.dst, prev |-> b.prev, sep |-> b.sep]
  <2>1. b = [dst |-> a.dst, prev |-> a.prev, sep |-> TRUE]
    BY <1>2, <1>12
  <2> QED
    BY <2>1
<1>13. Len(a.dst) >= Len(dst)
  <2>1. Flat(q, n) \in Seq(Bytes)
    BY <1>3, <1>5, FlatIs
  <2> QED
    BY <1>2, <2>1
<1>10. CASE Class(c) = "none"
  <2>1. b = [a EXCEPT !.sep = TRUE]
    BY <1>1, <1>10 DEF AppendByte
  <2>2. Rank(L, j) = n
    BY <1>0, <1>5, <1>6, <1>7, <1>10 DEF n
  <2>3. /\ b.dst = a.dst /\ b.prev = a.prev /\ b.sep
        /\ b = [dst |-> b.dst, prev |-> b.prev, sep |-> b.sep]
    BY <1>12, <2>1
  <2>4. n > 0 => last < j /\ last \in 1 .. j
    BY <1>2
  <2>5. SoFar(b, n, dst, s, j)
    BY <1>2, <1>8, <2>3, <2>4
  <2> QED
    BY <1>9, <2>2, <2>5
<1>11. CASE Class(c) # "none"
  <2>1. j \in L /\ Rank(L, j) = n + 1
    BY <1>0, <1>5, <1>6, <1>7, <1>11 DEF n
  <2>2. n + 1 \in 1 .. Cardinality(L) /\ letters[n + 1] = j
    BY <1>4, <2>1
  <2>3. HasWord(a.dst, Len(dst)) <=> n + 1 > 1
    BY <1>2, <1>5 DEF HasWord
  <2>4. n > 0 => (Boundary(a, s, j) <=> StartsWordAt(s, n + 1))
    <3> SUFFICES ASSUME n > 0 PROVE Boundary(a, s, j) <=> StartsWordAt(s, n + 1)
      OBVIOUS
    <3>1. /\ a.prev = Class(s[last]) /\ (a.sep <=> last < j - 1) /\ last \in 1 .. j - 1
          /\ last = letters[n]
      BY <1>2 DEF last
    <3>2. last \in L
      <4>1. n \in 1 .. Cardinality(L)
        BY <1>3, <1>5
      <4> QED
        BY <1>4, <3>1, <4>1
    <3>3. Class(s[last]) # "none" /\ s[last] \in Bytes
      <4>1. last \in 1 .. Len(s)
        BY <1>3, <3>2
      <4> QED
        BY <1>7, <3>2, <4>1
    <3>4. Class(s[last]) \in {"lower", "digit"} <=> Class(s[last]) # "upper"
      BY <3>3, ClassIs
    <3>5. a.sep <=> letters[n + 1] # letters[n] + 1
      BY <1>0, <2>2, <3>1
    <3>6. j < Len(s) /\ IsLower(s[j + 1]) <=>
            n + 1 < Cardinality(L) /\ letters[n + 2] = j + 1 /\ IsLower(s[j + 1])
      <4>1. ASSUME j < Len(s), IsLower(s[j + 1])
            PROVE  n + 1 < Cardinality(L) /\ letters[n + 2] = j + 1
        <5>1. j + 1 \in 1 .. Len(s) /\ (j + 1) - 1 = j
          BY <4>1
        <5>2. j + 1 \in L
          <6>1. Class(s[j + 1]) = "lower"
            BY <4>1, <5>1, ClassIs
          <6> QED
            BY <1>7, <5>1, <6>1
        <5>3. Rank(L, j + 1) = n + 2
          BY <1>5, <1>6, <2>1, <5>1, <5>2
        <5> QED
          BY <1>3, <1>4, <1>5, <5>2, <5>3
      <4>2. ASSUME n + 1 < Cardinality(L), letters[n + 2] = j + 1
            PROVE  j < Len(s)
        <5>1. n + 2 \in 1 .. Cardinality(L)
          BY <1>3, <1>5, <4>2
        <5>2. j + 1 \in 1 .. Len(s)
          BY <1>3, <1>4, <4>2, <5>1
        <5> QED
          BY <1>0, <5>2
      <4> QED
        BY <4>1, <4>2
    <3>7. Boundary(a, s, j) <=>
            \/ a.sep
            \/ Class(c) = "upper" /\ Class(s[last]) # "upper"
            \/ Class(c) = "upper" /\ Class(s[last]) = "upper" /\ j < Len(s) /\ IsLower(s[j + 1])
      BY <3>1, <3>4 DEF Boundary
    <3>8. StartsWordAt(s, n + 1) <=>
            \/ letters[n + 1] # letters[n] + 1
            \/ Class(c) = "upper" /\ Class(s[last]) # "upper"
            \/ /\ Class(c) = "upper" /\ n + 1 < Cardinality(L)
               /\ letters[n + 2] = j + 1 /\ IsLower(s[j + 1])
      <4>1. (n + 1) - 1 = n /\ (n + 1) + 1 = n + 2
        BY <1>5
      <4>2. ClassAt(s, n + 1) = Class(c) /\ ClassAt(s, n) = Class(s[last])
        BY <2>2, <3>1 DEF ClassAt, letters, L
      <4>3. StartsWordAt(s, n + 1) <=>
              \/ letters[n + 1] # letters[(n + 1) - 1] + 1
              \/ ClassAt(s, n + 1) = "upper" /\ ClassAt(s, (n + 1) - 1) # "upper"
              \/ /\ ClassAt(s, n + 1) = "upper"
                 /\ n + 1 < Len(letters) /\ letters[(n + 1) + 1] = letters[n + 1] + 1
                 /\ IsLower(s[letters[(n + 1) + 1]])
        BY DEF StartsWordAt, letters, L
      <4>4. /\ (letters[(n + 1) + 1] = letters[n + 1] + 1 /\ IsLower(s[letters[(n + 1) + 1]]))
              <=> (letters[n + 2] = j + 1 /\ IsLower(s[j + 1]))
        BY <2>2, <4>1
      <4> QED
        BY <1>4, <4>1, <4>2, <4>3, <4>4
    <3> QED
      BY <3>5, <3>6, <3>7, <3>8
  <2>5. b.dst = a.dst \o PieceAt(s, n + 1)
    <3>1. PieceAt(s, n + 1) =
            (IF n + 1 > 1 /\ StartsWordAt(s, n + 1) THEN <<Underscore>> ELSE <<>>)
              \o <<LowerCase(c)>>
      BY <2>2 DEF PieceAt, letters, L
    <3>2. b.dst = (IF Boundary(a, s, j) /\ HasWord(a.dst, Len(dst))
                   THEN Append(a.dst, Underscore) ELSE a.dst) \o <<LowerCase(c)>>
      BY <1>1, <1>11 DEF AppendByte
    <3>3. Underscore \in Bytes /\ <<LowerCase(c)>> \in Seq(Bytes) /\ <<Underscore>> \in Seq(Bytes)
      <4>1. Underscore \in Bytes
        BY DEF Underscore, Bytes
      <4>2. LowerCase(c) \in Bytes
        BY <1>0, ClassIs
      <4> QED
        BY <4>1, <4>2
    <3>4. Boundary(a, s, j) /\ HasWord(a.dst, Len(dst)) <=> n + 1 > 1 /\ StartsWordAt(s, n + 1)
      BY <1>5, <2>3, <2>4
    <3>5. CASE n + 1 > 1 /\ StartsWordAt(s, n + 1)
      <4>1. Append(a.dst, Underscore) = a.dst \o <<Underscore>>
        BY <1>2, <3>3, AppendIs
      <4>2. a.dst \o (<<Underscore>> \o <<LowerCase(c)>>)
              = (a.dst \o <<Underscore>>) \o <<LowerCase(c)>>
        BY <1>2, <3>3, Associative
      <4> QED
        BY <3>1, <3>2, <3>4, <3>5, <4>1, <4>2, Zenon
    <3>6. CASE ~(n + 1 > 1 /\ StartsWordAt(s, n + 1))
      <4>1. <<>> \o <<LowerCase(c)>> = <<LowerCase(c)>>
        BY <3>3
      <4> QED
        BY <3>1, <3>2, <3>4, <3>6, <4>1, Zenon
    <3> QED
      BY <3>5, <3>6
  <2>6. /\ b.prev = Class(c) /\ ~b.sep
        /\ b = [dst |-> b.dst, prev |-> b.prev, sep |-> b.sep]
    BY <1>1, <1>11 DEF AppendByte
  <2>7. b.dst = dst \o Flat(q, n + 1)
    <3>1. /\ n + 1 \in 1 .. Len(q) /\ (n + 1) - 1 = n /\ n \in 0 .. Len(q)
          /\ q[n + 1] = PieceAt(s, n + 1) /\ PieceAt(s, n + 1) \in Seq(Bytes)
      BY <1>3, <1>5, <2>2
    <3>2. Flat(q, n + 1) = Flat(q, n) \o PieceAt(s, n + 1) /\ Flat(q, n) \in Seq(Bytes)
      BY <1>3, <3>1, FlatIs
    <3>3. dst \o (Flat(q, n) \o PieceAt(s, n + 1)) = (dst \o Flat(q, n)) \o PieceAt(s, n + 1)
      BY <3>1, <3>2, Associative
    <3> QED
      BY <1>2, <2>5, <3>2, <3>3, Zenon
  <2>8. b.dst \in Seq(Bytes) /\ Len(b.dst) > Len(dst)
    <3>1. PieceAt(s, n + 1) \in Seq(Bytes)
      BY <1>3, <2>2
    <3>2. Len(PieceAt(s, n + 1)) > 0
      BY DEF PieceAt
    <3>3. b.dst \in Seq(Bytes) /\ Len(b.dst) = Len(a.dst) + Len(PieceAt(s, n + 1))
      BY <1>2, <2>5, <3>1
    <3>4. Len(a.dst) >= Len(dst)
      BY <1>2, <1>13
    <3> QED
      BY <1>2, <3>1, <3>2, <3>3, <3>4
  <2>9. SoFar(b, n + 1, dst, s, j)
    <3>1. n + 1 > 0 /\ n + 1 # 0 /\ ~(j < j) /\ j \in 1 .. j
      BY <1>5
    <3>2. b.prev = Class(s[letters[n + 1]]) /\ (b.sep <=> letters[n + 1] < j)
      BY <2>2, <2>6, <3>1
    <3> QED
      BY <1>8, <2>2, <2>6, <2>7, <2>8, <3>1, <3>2, Zenon
  <2> QED
    BY <1>9, <2>1, <2>9
<1> QED
  BY <1>10, <1>11

-----------------------------------------------------------------------------

(* So it holds at every byte.                                               *)
LEMMA SnakedHolds ==
  ASSUME NEW dst \in Seq(Bytes), NEW s \in Seq(Bytes)
  PROVE  \A i \in 0 .. Len(s) : SnakedSoFar(dst, s, i)
<1> DEFINE Bad == {i \in 0 .. Len(s) : ~SnakedSoFar(dst, s, i)}
<1> SUFFICES ASSUME Bad # {} PROVE FALSE
  OBVIOUS
<1>1. PICK i \in Bad : \A j \in Bad : i <= j
  <2>1. Bad \subseteq Nat
    OBVIOUS
  <2> HIDE DEF Bad
  <2> QED
    BY <2>1, LeastNumber
<1>2. i # 0
  BY SnakedFirst
<1>3. i \in 1 .. Len(s) /\ i - 1 \in 0 .. Len(s) /\ ~SnakedSoFar(dst, s, i)
  BY <1>2
<1>4. SnakedSoFar(dst, s, i - 1)
  <2>1. i - 1 \notin Bad
    <3> HIDE DEF Bad
    <3> QED
      BY <1>1, <1>3
  <2> QED
    BY <1>3, <2>1
<1> QED
  BY <1>3, <1>4, SnakedNext

(* SnakeByWords ends an acronym before any byte of the class of lower-case  *)
(* letters.                                                                 *)
BreaksAt(s, n) ==
  LET letters == InOrder(LettersIn(s))
  IN  \/ letters[n] # letters[n - 1] + 1
      \/ ClassAt(s, n) = "upper" /\ ClassAt(s, n - 1) # "upper"
      \/ /\ ClassAt(s, n) = "upper"
         /\ n < Len(letters) /\ letters[n + 1] = letters[n] + 1
         /\ Class(s[letters[n + 1]]) = "lower"

WordAt(s, n) ==
  (IF n > 1 /\ BreaksAt(s, n) THEN <<Underscore>> ELSE <<>>)
    \o <<LowerCase(s[InOrder(LettersIn(s))[n]])>>

WordsOf(s) == [n \in DOMAIN InOrder(LettersIn(s)) |-> WordAt(s, n)]

LEMMA SnakeByWordsIs == ASSUME NEW s PROVE SnakeByWords(s) = FlattenSeq(WordsOf(s))
  BY DEF SnakeByWords, WordsOf, WordAt, BreaksAt, ClassAt, LettersIn

(* The loop breaks the words at the same places, but where a byte from 128  *)
(* on follows two capitals.                                                 *)
LEMMA BreaksAreStarts ==
  ASSUME NEW s \in Seq(Bytes), ~HighAfterCapitals(s),
         NEW n \in 2 .. Cardinality(LettersIn(s))
  PROVE  BreaksAt(s, n) <=> StartsWordAt(s, n)
<1> DEFINE L == LettersIn(s)
           letters == InOrder(L)
           size == Cardinality(L)
           next == letters[n + 1]
<1>1. /\ L \subseteq 0 .. Len(s) /\ \A x \in L : x \in 1 .. Len(s)
      /\ size \in Nat
  BY PiecesAre
<1>2. Len(letters) = size /\ \A k \in 1 .. size : letters[k] \in L
  BY <1>1, InOrderIs
<1>3. n \in 1 .. size /\ n - 1 \in 1 .. size /\ n \in Nat
  BY <1>1
<1> HIDE DEF L, letters, size, next
<1>4. ASSUME n < size, next = letters[n] + 1, letters[n] = letters[n - 1] + 1,
             Class(s[letters[n - 1]]) = "upper", Class(s[letters[n]]) = "upper"
      PROVE  IsLower(s[next]) <=> Class(s[next]) = "lower"
  <2>1. n + 1 \in 1 .. size
    BY <1>1, <1>3, <1>4
  <2>2. next \in 1 .. Len(s) /\ letters[n] \in 1 .. Len(s) /\ letters[n - 1] \in 1 .. Len(s)
    BY <1>1, <1>2, <1>3, <2>1 DEF next
  <2>3. next \in 3 .. Len(s) /\ next - 2 = letters[n - 1] /\ next - 1 = letters[n]
    BY <1>4, <2>2
  <2>4. ~(s[next] >= 128)
    BY <1>4, <2>3 DEF HighAfterCapitals
  <2>5. s[next] \in Bytes
    BY <2>2
  <2> QED
    BY <2>4, <2>5, ClassIs
<1>5. StartsWordAt(s, n) <=>
        \/ letters[n] # letters[n - 1] + 1
        \/ Class(s[letters[n]]) = "upper" /\ Class(s[letters[n - 1]]) # "upper"
        \/ /\ Class(s[letters[n]]) = "upper"
           /\ n < size /\ next = letters[n] + 1 /\ IsLower(s[next])
  BY <1>2 DEF StartsWordAt, ClassAt, letters, L, next
<1>6. BreaksAt(s, n) <=>
        \/ letters[n] # letters[n - 1] + 1
        \/ Class(s[letters[n]]) = "upper" /\ Class(s[letters[n - 1]]) # "upper"
        \/ /\ Class(s[letters[n]]) = "upper"
           /\ n < size /\ next = letters[n] + 1 /\ Class(s[next]) = "lower"
  BY <1>2 DEF BreaksAt, ClassAt, letters, L, next
<1> QED
  BY <1>4, <1>5, <1>6

LEMMA WordsArePieces ==
  ASSUME NEW s \in Seq(Bytes), ~HighAfterCapitals(s)
  PROVE  WordsOf(s) = PiecesOf(s)
<1>1. LettersIn(s) \subseteq 0 .. Len(s) /\ Cardinality(LettersIn(s)) \in Nat /\ Len(s) \in Nat
  BY PiecesAre
<1>2. DOMAIN InOrder(LettersIn(s)) = 1 .. Cardinality(LettersIn(s))
  BY DEF InOrder
<1>3. ASSUME NEW n \in 1 .. Cardinality(LettersIn(s)) PROVE WordAt(s, n) = PieceAt(s, n)
  <2>1. n > 1 => n \in 2 .. Cardinality(LettersIn(s))
    BY <1>1
  <2>2. n > 1 => (BreaksAt(s, n) <=> StartsWordAt(s, n))
    BY <2>1, BreaksAreStarts
  <2> QED
    BY <2>2 DEF WordAt, PieceAt
<1> QED
  BY <1>2, <1>3 DEF WordsOf, PiecesOf

(* The output of appendSnake is that of SnakeByWords, behind any buffer.    *)
LEMMA SnakeIsByWords ==
  ASSUME NEW dst \in Seq(Bytes), NEW s \in Seq(Bytes), ~HighAfterCapitals(s)
  PROVE  AppendSnake(dst, s) = dst \o SnakeByWords(s)
<1> DEFINE size == Len(s)
           n == Rank(LettersIn(s), size)
           q == PiecesOf(s)
<1>1. size \in Nat /\ size \in 0 .. size
  OBVIOUS
<1>2. SnakedSoFar(dst, s, size)
  BY <1>1, SnakedHolds
<1>3. Snaking(dst, s)[size].dst = dst \o Flat(q, n)
  BY <1>2 DEF SnakedSoFar, SoFar
<1>4. q \in Seq(Seq(Bytes)) /\ n = Len(q)
  BY <1>1, PiecesAre, RankGrows
<1>5. Flat(q, n) = SnakeByWords(s)
  <2>1. FlattenSeq(q) = Flat(q, Len(q))
    BY <1>4, FlatIs
  <2> QED
    BY <1>4, <2>1, SnakeByWordsIs, WordsArePieces
<1> QED
  BY <1>3, <1>5, SnakeIs

(* A name of any length and bytes is broken into words just where a capital, *)
(* an acronym or other characters say so, unless a byte from 128 on follows *)
(* two capitals in it (names.go: appendSnake).                              *)
THEOREM SnakesAreWords == TextSpec => []SnakeAsWords
<1>1. WordIsBytes => SnakeAsWords
  <2>1. <<>> \in Seq(Bytes) /\ <<120>> \in Seq(Bytes)
    <3>1. 120 \in Bytes
      BY DEF Bytes
    <3> QED
      BY <3>1
  <2> QED
    BY <2>1, SnakeIsByWords DEF WordIsBytes, SnakeAsWords
<1> QED
  BY <1>1, WordsAreBytes, PTL

-----------------------------------------------------------------------------

(* What the loop does to its output when it comes to a word behind others.  *)
Glued(dst) == IF dst = <<>> THEN <<>> ELSE dst \o <<Underscore>>

(* A state of the loop.                                                     *)
IsState(a) ==
  /\ a = [dst |-> a.dst, prev |-> a.prev, sep |-> a.sep]
  /\ a.dst \in Seq(Bytes)

(* a, in the whole, is behind dst what f is in the segment alone.           *)
Matches(a, f, dst) ==
  /\ IsState(a) /\ IsState(f)
  /\ f.dst = <<>> => a.dst = dst /\ (dst # <<>> => a.sep)
  /\ f.dst # <<>> => a.dst = Glued(dst) \o f.dst /\ a.prev = f.prev /\ (a.sep <=> f.sep)

(* What a byte of class cls makes of a. *)
ByteGives(b, a, cls, byte, breaks) ==
  /\ IsState(b)
  /\ cls = "none" => b.dst = a.dst /\ b.prev = a.prev /\ b.sep
  /\ cls # "none" =>
       /\ b.dst = (IF breaks THEN a.dst \o <<Underscore>> ELSE a.dst) \o <<byte>>
       /\ b.prev = cls /\ ~b.sep

(* One turn of the loop of appendSnake.                                     *)
LEMMA ByteIsState ==
  ASSUME NEW a, IsState(a), NEW s \in Seq(Bytes), NEW i \in 1 .. Len(s), NEW start
  PROVE  ByteGives(AppendByte(a, s, i, start), a, Class(s[i]), LowerCase(s[i]),
                   Boundary(a, s, i) /\ HasWord(a.dst, start))
<1> DEFINE b == AppendByte(a, s, i, start)
<1>1. /\ a = [dst |-> a.dst, prev |-> a.prev, sep |-> a.sep]
      /\ a.dst \in Seq(Bytes) /\ s[i] \in Bytes
  BY DEF IsState
<1>2. CASE Class(s[i]) = "none"
  <2>1. b = [a EXCEPT !.sep = TRUE]
    BY <1>2 DEF AppendByte
  <2>2. b = [dst |-> a.dst, prev |-> a.prev, sep |-> TRUE]
    BY <1>1, <2>1
  <2> HIDE DEF b
  <2> QED
    BY <1>1, <1>2, <2>2 DEF IsState, ByteGives, b
<1>3. CASE Class(s[i]) # "none"
  <2> DEFINE d == (IF Boundary(a, s, i) /\ HasWord(a.dst, start)
                   THEN Append(a.dst, Underscore) ELSE a.dst) \o <<LowerCase(s[i])>>
  <2>1. b = [dst |-> d, prev |-> Class(s[i]), sep |-> FALSE]
    BY <1>3 DEF AppendByte
  <2>2. Underscore \in Bytes /\ LowerCase(s[i]) \in Bytes
    <3>1. Underscore \in Bytes
      BY DEF Underscore, Bytes
    <3> QED
      BY <1>1, <3>1, ClassIs
  <2>3. Append(a.dst, Underscore) = a.dst \o <<Underscore>>
    BY <1>1, <2>2, AppendIs
  <2>4. d \in Seq(Bytes)
    BY <1>1, <2>2
  <2>5. d = (IF Boundary(a, s, i) /\ HasWord(a.dst, start)
             THEN a.dst \o <<Underscore>> ELSE a.dst) \o <<LowerCase(s[i])>>
    BY <2>3
  <2> HIDE DEF b, d
  <2>6. b.dst = d /\ b.prev = Class(s[i]) /\ ~b.sep /\ IsState(b)
    BY <2>1, <2>4 DEF IsState
  <2> QED
    BY <1>3, <2>5, <2>6 DEF ByteGives, b
<1> QED
  BY <1>2, <1>3

(* The sums that the next step needs, with their brackets moved.            *)
Regroup(p, x, u, l) ==
  /\ (p \o x) \o l = p \o (x \o l)
  /\ ((p \o x) \o u) \o l = p \o ((x \o u) \o l)

LEMMA Regroups ==
  ASSUME NEW p \in Seq(Bytes), NEW x \in Seq(Bytes), NEW u \in Seq(Bytes), NEW l \in Seq(Bytes)
  PROVE  Regroup(p, x, u, l)
<1>1. \A v, w \in Seq(Bytes) : (p \o v) \o w = p \o (v \o w)
  BY Associative
<1>2. x \o u \in Seq(Bytes)
  OBVIOUS
<1>3. (p \o x) \o u = p \o (x \o u)
  BY <1>1
<1>4. (p \o (x \o u)) \o l = p \o ((x \o u) \o l)
  BY <1>1, <1>2, Zenon
<1>5. (p \o x) \o l = p \o (x \o l)
  BY <1>1
<1> QED
  BY <1>3, <1>4, <1>5, Zenon DEF Regroup

(* One byte of a segment, in the whole and alone. *)
LEMMA MatchesNext ==
  ASSUME NEW s \in Seq(Bytes), NEW t \in Seq(Bytes), NEW dst \in Seq(Bytes),
         NEW i \in 1 .. Len(s), NEW j \in 1 .. Len(t), s[i] = t[j],
         i < Len(s) /\ IsLower(s[i + 1]) <=> j < Len(t) /\ IsLower(t[j + 1]),
         NEW a, NEW f, Matches(a, f, dst)
  PROVE  Matches(AppendByte(a, s, i, 0), AppendByte(f, t, j, 0), dst)
<1> DEFINE b == AppendByte(a, s, i, 0)
           g == AppendByte(f, t, j, 0)
           c == s[i]
           low == <<LowerCase(c)>>
<1>0. IsState(a) /\ IsState(f) /\ a.dst \in Seq(Bytes) /\ f.dst \in Seq(Bytes) /\ c \in Bytes
  BY DEF Matches, IsState
<1>1. ByteGives(b, a, Class(c), LowerCase(c), Boundary(a, s, i) /\ HasWord(a.dst, 0))
  BY <1>0, ByteIsState, Zenon
<1>2. ByteGives(g, f, Class(c), LowerCase(c), Boundary(f, t, j) /\ HasWord(f.dst, 0))
  <2>1. ByteGives(g, f, Class(t[j]), LowerCase(t[j]), Boundary(f, t, j) /\ HasWord(f.dst, 0))
    BY <1>0, ByteIsState, Zenon
  <2>2. t[j] = c
    OBVIOUS
  <2> HIDE DEF g, c
  <2> QED
    BY <2>1, <2>2
<1>3. /\ f.dst = <<>> => a.dst = dst /\ (dst # <<>> => a.sep)
      /\ f.dst # <<>> => a.dst = Glued(dst) \o f.dst /\ a.prev = f.prev /\ (a.sep <=> f.sep)
  BY DEF Matches
<1>4. \A p \in Seq(Bytes) : HasWord(p, 0) <=> p # <<>>
  BY DEF HasWord
<1>5. low \in Seq(Bytes) /\ <<Underscore>> \in Seq(Bytes) /\ Glued(dst) \in Seq(Bytes)
  <2>1. Underscore \in Bytes
    BY DEF Underscore, Bytes
  <2>2. LowerCase(c) \in Bytes
    BY <1>0, ClassIs
  <2> QED
    BY <2>1, <2>2 DEF Glued
<1>6. f.dst # <<>> => (Boundary(a, s, i) <=> Boundary(f, t, j))
  BY <1>3 DEF Boundary
<1>7. a.sep => Boundary(a, s, i)
  BY DEF Boundary
<1> HIDE DEF b, g, c, low
<1>12. /\ IsState(b)
       /\ Class(c) = "none" => b.dst = a.dst /\ b.prev = a.prev /\ b.sep
       /\ Class(c) # "none" =>
            /\ b.dst = (IF Boundary(a, s, i) /\ HasWord(a.dst, 0)
                        THEN a.dst \o <<Underscore>> ELSE a.dst) \o low
            /\ b.prev = Class(c) /\ ~b.sep
  BY <1>1, Zenon DEF ByteGives, low
<1>13. /\ IsState(g)
       /\ Class(c) = "none" => g.dst = f.dst /\ g.prev = f.prev /\ g.sep
       /\ Class(c) # "none" =>
            /\ g.dst = (IF Boundary(f, t, j) /\ HasWord(f.dst, 0)
                        THEN f.dst \o <<Underscore>> ELSE f.dst) \o low
            /\ g.prev = Class(c) /\ ~g.sep
  BY <1>2, Zenon DEF ByteGives, low
<1>14. /\ (Glued(dst) \o f.dst) \o low = Glued(dst) \o (f.dst \o low)
       /\ ((Glued(dst) \o f.dst) \o <<Underscore>>) \o low
            = Glued(dst) \o ((f.dst \o <<Underscore>>) \o low)
  <2>1. Glued(dst) \in Seq(Bytes) /\ f.dst \in Seq(Bytes)
        /\ <<Underscore>> \in Seq(Bytes) /\ low \in Seq(Bytes)
    BY <1>0, <1>5
  <2>2. Regroup(Glued(dst), f.dst, <<Underscore>>, low)
    BY <2>1, Regroups, Zenon
  <2> QED
    BY <2>2, Zenon DEF Regroup
<1> SUFFICES Matches(b, g, dst)
  BY DEF b, g
<1>11. \/ g.dst = <<>> /\ b.dst = dst /\ (dst # <<>> => b.sep)
       \/ g.dst # <<>> /\ b.dst = Glued(dst) \o g.dst /\ b.prev = g.prev /\ (b.sep <=> g.sep)
       => Matches(b, g, dst)
  BY <1>12, <1>13, Zenon DEF Matches
<1>8. CASE Class(c) = "none"
  BY <1>12, <1>13, <1>3, <1>8, <1>11, Zenon
<1>9. CASE Class(c) # "none" /\ f.dst = <<>>
  <2>1. g.dst = low /\ g.dst # <<>>
    <3>1. low # <<>> /\ <<>> \o low = low
      BY <1>5 DEF low
    <3>2. ~HasWord(f.dst, 0)
      BY <1>0, <1>4, <1>9
    <3> QED
      BY <1>9, <1>13, <3>1, <3>2
  <2>2. b.dst = Glued(dst) \o low
    <3>1. CASE dst = <<>>
      BY <1>0, <1>12, <1>3, <1>4, <1>9, <3>1 DEF Glued
    <3>2. CASE dst # <<>>
      BY <1>0, <1>12, <1>3, <1>4, <1>7, <1>9, <3>2 DEF Glued
    <3> QED
      BY <3>1, <3>2
  <2> QED
    BY <1>12, <1>13, <1>9, <1>11, <2>1, <2>2, Zenon
<1>10. CASE Class(c) # "none" /\ f.dst # <<>>
  <2>1. HasWord(f.dst, 0) /\ HasWord(a.dst, 0)
    <3>1. Len(f.dst) > 0
      BY <1>0, <1>10
    <3>2. Len(a.dst) > 0
      BY <1>0, <1>3, <1>5, <1>10, <3>1
    <3> QED
      BY <3>1, <3>2 DEF HasWord
  <2>2. CASE Boundary(f, t, j)
    <3>1. b.dst = (a.dst \o <<Underscore>>) \o low /\ g.dst = (f.dst \o <<Underscore>>) \o low
      BY <1>12, <1>13, <1>6, <1>10, <2>1, <2>2, Zenon
    <3>5. g.dst # <<>>
      BY <1>0, <1>5, <3>1 DEF low
    <3>6. b.dst = Glued(dst) \o g.dst
      BY <1>3, <1>10, <1>14, <3>1, Zenon
    <3> QED
      BY <1>12, <1>13, <1>10, <1>11, <3>5, <3>6, Zenon
  <2>3. CASE ~Boundary(f, t, j)
    <3>1. b.dst = a.dst \o low /\ g.dst = f.dst \o low
      BY <1>12, <1>13, <1>6, <1>10, <2>1, <2>3, Zenon
    <3>3. g.dst # <<>>
      BY <1>0, <1>5, <3>1 DEF low
    <3>4. b.dst = Glued(dst) \o g.dst
      BY <1>3, <1>10, <1>14, <3>1, Zenon
    <3> QED
      BY <1>12, <1>13, <1>10, <1>11, <3>3, <3>4, Zenon
  <2> QED
    BY <2>2, <2>3
<1> QED
  BY <1>8, <1>9, <1>10

-----------------------------------------------------------------------------

(* The names of NormKey, for a key and the separator "_". *)
CutsIn(s) == {0, Len(s) + 1} \cup {i \in DOMAIN s : s[i] = Underscore}

Cut(s, n) == InOrder(CutsIn(s))[n]

Segments(s) == Cardinality(CutsIn(s)) - 1

Segment(s, n) == SubSeq(s, Cut(s, n) + 1, Cut(s, n + 1) - 1)

WordedIn(s) == {n \in 1 .. Segments(s) : Snake(Segment(s, n)) # <<>>}

PartAt(s, n) ==
  IF n = 1 THEN Snake(Segment(s, InOrder(WordedIn(s))[n]))
  ELSE <<Underscore>> \o Snake(Segment(s, InOrder(WordedIn(s))[n]))

PartsOf(s) == [n \in 1 .. Cardinality(WordedIn(s)) |-> PartAt(s, n)]

(* The cuts are in order, the first before the key and the last behind it;  *)
(* each between them is a separator, and there is none between two of them. *)
LEMMA CutsAre ==
  ASSUME NEW s \in Seq(Bytes)
  PROVE  /\ Len(InOrder(CutsIn(s))) - 1 = Segments(s)
         /\ Segments(s) \in Nat \ {0}
         /\ Cut(s, 1) = 0 /\ Cut(s, Segments(s) + 1) = Len(s) + 1
         /\ \A n \in 1 .. Segments(s) :
              /\ Cut(s, n) \in 0 .. Len(s) /\ Cut(s, n + 1) \in 1 .. Len(s) + 1
              /\ Cut(s, n) < Cut(s, n + 1)
              /\ \A i \in 1 .. Len(s) :
                   Cut(s, n) < i /\ i < Cut(s, n + 1) => s[i] # Underscore
              /\ n < Segments(s) =>
                   Cut(s, n + 1) \in 1 .. Len(s) /\ s[Cut(s, n + 1)] = Underscore
<1> DEFINE C == CutsIn(s)
           size == Len(s)
           last == Cardinality(C)
<1>1. size \in Nat /\ size + 1 \in Nat /\ DOMAIN s = 1 .. size
  OBVIOUS
<1>2. C \subseteq 0 .. size + 1 /\ 0 \in C /\ size + 1 \in C
  BY <1>1 DEF CutsIn
<1>3. \A i \in C : i = 0 \/ i = size + 1 \/ (i \in 1 .. size /\ s[i] = Underscore)
  BY <1>1 DEF CutsIn
<1>4. \A i \in 1 .. size : s[i] = Underscore => i \in C
  BY <1>1 DEF CutsIn
<1>5. /\ Len(InOrder(C)) = last
      /\ \A n \in 1 .. last : Cut(s, n) \in C /\ Rank(C, Cut(s, n)) = n
      /\ \A x \in C : Rank(C, x) \in 1 .. last /\ Cut(s, Rank(C, x)) = x
  <2> HIDE DEF C
  <2>1. Len(InOrder(C)) = last
        /\ (\A n \in 1 .. last : InOrder(C)[n] \in C /\ Rank(C, InOrder(C)[n]) = n)
        /\ \A x \in C : Rank(C, x) \in 1 .. last /\ InOrder(C)[Rank(C, x)] = x
    BY <1>1, <1>2, InOrderIs, Zenon
  <2> QED
    BY <2>1, Zenon DEF Cut, C
<1>6. Rank(C, 0) = 1 /\ Rank(C, size + 1) = last /\ last \in Nat
  <2> HIDE DEF C
  <2>1. Rank(C, 0) = (IF 0 \in C THEN 1 ELSE 0) /\ Rank(C, size + 1) = Cardinality(C)
    BY <1>1, <1>2, RankGrows, Zenon
  <2>2. Cardinality(C) \in Nat
    BY <1>1, <1>2, UpToFinite, Zenon
  <2> QED
    BY <1>2, <2>1, <2>2
<1>7. \A x, y \in C : x < y => Rank(C, x) < Rank(C, y)
  <2> HIDE DEF C
  <2> QED
    BY <1>1, <1>2, RanksDiffer
<1>8. last > 1
  BY <1>1, <1>2, <1>6, <1>7
<1>9. Cut(s, 1) = 0 /\ Cut(s, last) = size + 1
  BY <1>2, <1>5, <1>6
<1> HIDE DEF C, last
<1>10. Segments(s) = last - 1
  BY DEF Segments, last, C
<1>11. ASSUME NEW n \in 1 .. last - 1
       PROVE  /\ Cut(s, n) \in 0 .. size /\ Cut(s, n + 1) \in 1 .. size + 1
              /\ Cut(s, n) < Cut(s, n + 1)
              /\ \A i \in 1 .. size : Cut(s, n) < i /\ i < Cut(s, n + 1) => s[i] # Underscore
              /\ n < last - 1 => Cut(s, n + 1) \in 1 .. size /\ s[Cut(s, n + 1)] = Underscore
  <2> DEFINE x == Cut(s, n)
             y == Cut(s, n + 1)
  <2>1. /\ x \in C /\ Rank(C, x) = n /\ y \in C /\ Rank(C, y) = n + 1
        /\ x \in 0 .. size + 1 /\ y \in 0 .. size + 1
    <3>1. n \in 1 .. last /\ n + 1 \in 1 .. last
      BY <1>6
    <3>2. x \in C /\ Rank(C, x) = n /\ y \in C /\ Rank(C, y) = n + 1
      BY <1>5, <3>1, Zenon
    <3> QED
      BY <1>2, <3>2
  <2> HIDE DEF x, y
  <2>2. x < y
    <3>1. x # y
      BY <2>1
    <3>2. ~(y < x)
      BY <1>6, <1>7, <2>1
    <3> QED
      BY <1>1, <2>1, <3>1, <3>2
  <2>3. ASSUME NEW i \in 1 .. size, x < i, i < y, s[i] = Underscore PROVE FALSE
    <3>1. i \in C
      BY <1>4, <2>3
    <3>2. n < Rank(C, i) /\ Rank(C, i) < n + 1 /\ Rank(C, i) \in Int
      BY <1>5, <1>6, <1>7, <2>1, <2>3, <3>1
    <3> QED
      BY <1>6, <3>2
  <2>4. n < last - 1 => y \in 1 .. size /\ s[y] = Underscore
    <3>1. n < last - 1 => y # size + 1
      BY <1>6, <2>1
    <3>2. y # 0
      BY <1>1, <2>1, <2>2
    <3> QED
      BY <1>3, <2>1, <3>1, <3>2
  <2>5. x \in 0 .. size /\ y \in 1 .. size + 1
    BY <1>1, <2>1, <2>2
  <2> QED
    BY <2>2, <2>3, <2>4, <2>5 DEF x, y
<1> QED
  BY <1>5, <1>6, <1>8, <1>9, <1>10, <1>11 DEF C, last

(* A segment is what lies between two cuts.                                 *)
LEMMA SegmentIs ==
  ASSUME NEW s \in Seq(Bytes), NEW n \in 1 .. Segments(s)
  PROVE  /\ Segment(s, n) \in Seq(Bytes)
         /\ Len(Segment(s, n)) = Cut(s, n + 1) - 1 - Cut(s, n)
         /\ \A i \in 1 .. Len(Segment(s, n)) :
              Cut(s, n) + i \in 1 .. Len(s) /\ Segment(s, n)[i] = s[Cut(s, n) + i]
<1> DEFINE x == Cut(s, n)
           y == Cut(s, n + 1)
<1>1. x \in 0 .. Len(s) /\ y \in 1 .. Len(s) + 1 /\ x < y
  BY CutsAre
<1> HIDE DEF x, y
<1>2. x + 1 \in 1 .. Len(s) + 1 /\ y - 1 \in x .. Len(s) /\ Len(s) \in Nat
  BY <1>1
<1>3. /\ SubSeq(s, x + 1, y - 1) \in Seq(Bytes)
      /\ Len(SubSeq(s, x + 1, y - 1)) = y - 1 - x
      /\ \A i \in 1 .. y - 1 - x : x + i \in 1 .. Len(s) /\ SubSeq(s, x + 1, y - 1)[i] = s[x + i]
  BY <1>1, <1>2
<1> QED
  BY <1>3 DEF Segment, x, y

(* Every state of the loop is one, and its output is bytes.                 *)
LEMMA SnakingIsState ==
  ASSUME NEW dst \in Seq(Bytes), NEW s \in Seq(Bytes), NEW i \in 0 .. Len(s)
  PROVE  IsState(Snaking(dst, s)[i])
  BY SnakedHolds DEF SnakedSoFar, SoFar, IsState

LEMMA SnakeIsBytes ==
  ASSUME NEW s \in Seq(Bytes)
  PROVE  Snake(s) \in Seq(Bytes) /\ Snake(s) = Snaking(<<>>, s)[Len(s)].dst
<1>1. <<>> \in Seq(Bytes) /\ Len(s) \in 0 .. Len(s)
  OBVIOUS
<1>2. Snake(s) = Snaking(<<>>, s)[Len(s)].dst
  BY SnakeIs DEF Snake
<1>3. IsState(Snaking(<<>>, s)[Len(s)])
  BY <1>1, SnakingIsState
<1> QED
  BY <1>2, <1>3 DEF IsState

(* The parts are those of the segments that have a word, and none is empty. *)
LEMMA PartsAre ==
  ASSUME NEW s \in Seq(Bytes)
  PROVE  /\ WordedIn(s) \subseteq 0 .. Segments(s) /\ 0 \notin WordedIn(s)
         /\ Cardinality(WordedIn(s)) \in Nat
         /\ PartsOf(s) \in Seq(Seq(Bytes)) /\ Len(PartsOf(s)) = Cardinality(WordedIn(s))
         /\ \A n \in 1 .. Cardinality(WordedIn(s)) :
              PartsOf(s)[n] = PartAt(s, n) /\ PartsOf(s)[n] # <<>>
<1> DEFINE K == WordedIn(s)
           size == Cardinality(K)
<1>1. Segments(s) \in Nat
  BY CutsAre
<1>2. K \subseteq 0 .. Segments(s) /\ 0 \notin K
  BY <1>1 DEF WordedIn
<1>3. size \in Nat /\ \A n \in 1 .. size : InOrder(K)[n] \in K
  <2> HIDE DEF K
  <2> QED
    BY <1>1, <1>2, UpToFinite, InOrderIs
<1>4. \A k \in K : k \in 1 .. Segments(s) /\ Snake(Segment(s, k)) # <<>>
  BY DEF WordedIn
<1>5. Underscore \in Bytes
  BY DEF Underscore, Bytes
<1>6. ASSUME NEW n \in 1 .. size PROVE PartAt(s, n) \in Seq(Bytes) /\ PartAt(s, n) # <<>>
  <2> DEFINE k == InOrder(K)[n]
             p == Snake(Segment(s, k))
  <2>1. k \in 1 .. Segments(s) /\ p # <<>>
    BY <1>3, <1>4
  <2>2. p \in Seq(Bytes)
    <3>1. Segment(s, k) \in Seq(Bytes)
      BY <2>1, SegmentIs, Zenon
    <3> QED
      BY <3>1, SnakeIsBytes, Zenon
  <2>3. PartAt(s, n) = IF n = 1 THEN p ELSE <<Underscore>> \o p
    BY DEF PartAt
  <2> HIDE DEF p
  <2>4. <<Underscore>> \o p \in Seq(Bytes) /\ <<Underscore>> \o p # <<>>
    BY <1>5, <2>2
  <2> QED
    BY <2>1, <2>2, <2>3, <2>4, Zenon
<1>7. PartsOf(s) = [n \in 1 .. size |-> PartAt(s, n)]
  BY DEF PartsOf
<1> HIDE DEF size, K
<1>8. PartsOf(s) \in Seq(Seq(Bytes)) /\ Len(PartsOf(s)) = size
  BY <1>3, <1>6, <1>7
<1> QED
  BY <1>2, <1>3, <1>6, <1>7, <1>8 DEF size, K

-----------------------------------------------------------------------------

(* NormKey in the names above. *)
LEMMA NormKeyIs ==
  ASSUME NEW s \in Seq(Bytes)
  PROVE  NormKey(s, Underscore) = FlattenSeq(PartsOf(s))
<1> DEFINE N == Segments(s)
           segs == SplitAt(s, Underscore)
           snaked == SnakedSegments(s, Underscore)
           K == WordedIn(s)
           kept == NonEmpty(snaked)
<1>1. Len(InOrder(CutsIn(s))) - 1 = N
  BY CutsAre
<1>2. segs = [n \in 1 .. N |-> Segment(s, n)]
  BY <1>1 DEF SplitAt, CutsIn, Cut, Segment
<1>3. DOMAIN segs = 1 .. N /\ \A n \in 1 .. N : segs[n] = Segment(s, n)
  <2> HIDE DEF segs, N
  <2> QED
    BY <1>2
<1>4. snaked = [n \in DOMAIN segs |-> Snake(segs[n])]
  BY DEF SnakedSegments
<1> HIDE DEF segs, N
<1>5. DOMAIN snaked = 1 .. N /\ \A n \in 1 .. N : snaked[n] = Snake(Segment(s, n))
  <2> HIDE DEF snaked
  <2> QED
    BY <1>3, <1>4
<1>6. {n \in DOMAIN snaked : snaked[n] # <<>>} = K
  <2> HIDE DEF snaked
  <2>1. K = {n \in 1 .. N : Snake(Segment(s, n)) # <<>>}
    BY DEF WordedIn, N
  <2> HIDE DEF K
  <2> QED
    BY <1>5, <2>1
<1>7. kept = [n \in DOMAIN InOrder({k \in DOMAIN snaked : snaked[k] # <<>>}) |->
               snaked[InOrder({k \in DOMAIN snaked : snaked[k] # <<>>})[n]]]
  BY DEF NonEmpty
<1>8. kept = [n \in DOMAIN InOrder(K) |-> snaked[InOrder(K)[n]]]
  <2> HIDE DEF kept, snaked, K
  <2> QED
    BY <1>6, <1>7
<1>9. /\ DOMAIN InOrder(K) = 1 .. Cardinality(K)
      /\ \A n \in 1 .. Cardinality(K) : InOrder(K)[n] \in K
  <2>1. K \subseteq 0 .. N /\ N \in Nat
    BY PartsAre, CutsAre DEF N
  <2> HIDE DEF K
  <2> QED
    BY <2>1, InOrderIs
<1>10. K \subseteq 1 .. N
  BY DEF WordedIn, N
<1> HIDE DEF K, snaked, kept
<1>11. /\ DOMAIN kept = 1 .. Cardinality(K)
       /\ \A n \in 1 .. Cardinality(K) : kept[n] = Snake(Segment(s, InOrder(K)[n]))
  BY <1>5, <1>8, <1>9, <1>10
<1>12. [n \in DOMAIN kept |-> IF n = 1 THEN kept[n] ELSE <<Underscore>> \o kept[n]]
         = PartsOf(s)
  <2>1. PartsOf(s) = [n \in 1 .. Cardinality(K) |-> PartAt(s, n)]
    BY DEF PartsOf, K
  <2>2. \A n \in 1 .. Cardinality(K) :
          PartAt(s, n) = IF n = 1 THEN kept[n] ELSE <<Underscore>> \o kept[n]
    BY <1>11 DEF PartAt, K
  <2> QED
    BY <1>11, <2>1, <2>2
<1>13. NormKey(s, Underscore)
         = FlattenSeq([n \in DOMAIN kept |-> IF n = 1 THEN kept[n] ELSE <<Underscore>> \o kept[n]])
  BY DEF NormKey, JoinWith, kept, snaked
<1> QED
  BY <1>12, <1>13

(* At the start of segment n, and at its end. *)
StartsAt(s, n) ==
  LET a == Snaking(<<>>, s)[Cut(s, n)]
  IN  /\ IsState(a)
      /\ a.dst = Flat(PartsOf(s), Rank(WordedIn(s), n - 1))
      /\ a.dst # <<>> => a.sep

EndsAt(s, n) ==
  LET a == Snaking(<<>>, s)[Cut(s, n + 1) - 1]
  IN  /\ IsState(a)
      /\ a.dst = Flat(PartsOf(s), Rank(WordedIn(s), n))

(* The loop starts at the first segment.                                    *)
LEMMA FirstStarts == ASSUME NEW s \in Seq(Bytes) PROVE StartsAt(s, 1)
<1> DEFINE a == Snaking(<<>>, s)[0]
<1>1. Cut(s, 1) = 0 /\ Segments(s) \in Nat
  BY CutsAre
<1>2. a = Fresh(<<>>)
  BY SnakingUnfold
<1>3. a = [dst |-> <<>>, prev |-> "none", sep |-> FALSE]
  BY <1>2 DEF Fresh
<1>4. a.dst = <<>> /\ IsState(a)
  <2> HIDE DEF a
  <2>1. a.dst = <<>> /\ a.prev = "none" /\ a.sep = FALSE
    BY <1>3
  <2> QED
    BY <1>3, <2>1 DEF IsState
<1>5. Rank(WordedIn(s), 0) = 0
  BY <1>1, PartsAre, RankGrows
<1>6. Flat(PartsOf(s), 0) = <<>>
  BY DEF Flat
<1> QED
  BY <1>1, <1>4, <1>5, <1>6 DEF StartsAt

(* The separator ends a word, and is nothing else. *)
LEMMA NextStarts ==
  ASSUME NEW s \in Seq(Bytes), NEW n \in 1 .. Segments(s), n < Segments(s), EndsAt(s, n)
  PROVE  StartsAt(s, n + 1)
<1> DEFINE y == Cut(s, n + 1)
           a == Snaking(<<>>, s)[y - 1]
           b == Snaking(<<>>, s)[y]
<1>1. y \in 1 .. Len(s) /\ s[y] = Underscore
  BY CutsAre
<1>2. IsState(a) /\ a.dst = Flat(PartsOf(s), Rank(WordedIn(s), n))
  BY DEF EndsAt
<1> HIDE DEF y
<1>3. b = AppendByte(a, s, y, 0)
  <2>1. b = AppendByte(a, s, y, Len(<<>>))
    BY <1>1, SnakingUnfold
  <2>2. Len(<<>>) = 0
    OBVIOUS
  <2> HIDE DEF a, b
  <2> QED
    BY <2>1, <2>2
<1> HIDE DEF a, b
<1>4. ByteGives(b, a, Class(s[y]), LowerCase(s[y]), Boundary(a, s, y) /\ HasWord(a.dst, 0))
  BY <1>1, <1>2, <1>3, ByteIsState, Zenon
<1>5. Class(s[y]) = "none"
  BY <1>1, SeparatorIsNone
<1>6. IsState(b) /\ b.dst = a.dst /\ b.sep
  BY <1>4, <1>5, Zenon DEF ByteGives
<1>7. (n + 1) - 1 = n
  OBVIOUS
<1> QED
  BY <1>2, <1>6, <1>7 DEF StartsAt, b, y

-----------------------------------------------------------------------------

(* A turn of the loop that started with an empty buffer.                    *)
LEMMA SnakeStep ==
  ASSUME NEW s \in Seq(Bytes), NEW i \in 1 .. Len(s)
  PROVE  Snaking(<<>>, s)[i] = AppendByte(Snaking(<<>>, s)[i - 1], s, i, 0)
<1>1. Len(s) \in Nat /\ Len(<<>>) = 0
  OBVIOUS
<1>2. Snaking(<<>>, s)[i] = AppendByte(Snaking(<<>>, s)[i - 1], s, i, Len(<<>>))
  BY <1>1, SnakingUnfold, Zenon
<1> QED
  BY <1>1, <1>2, Zenon

(* What ends in something is something.                                     *)
LEMMA LongerIsSome ==
  ASSUME NEW p \in Seq(Bytes), NEW q \in Seq(Bytes), q # <<>>
  PROVE  p \o q # <<>> /\ p \o q \in Seq(Bytes)
  OBVIOUS

(* What a segment gives does not depend on what stands around it. *)
LEMMA SegmentMatches ==
  ASSUME NEW s \in Seq(Bytes), NEW n \in 1 .. Segments(s), StartsAt(s, n)
  PROVE  \A i \in 0 .. Len(Segment(s, n)) :
           Matches(Snaking(<<>>, s)[Cut(s, n) + i], Snaking(<<>>, Segment(s, n))[i],
                   Snaking(<<>>, s)[Cut(s, n)].dst)
<1> DEFINE x == Cut(s, n)
           y == Cut(s, n + 1)
           t == Segment(s, n)
           D == Snaking(<<>>, s)[x].dst
           Agree(i) == Matches(Snaking(<<>>, s)[x + i], Snaking(<<>>, t)[i], D)
           Bad == {i \in 0 .. Len(t) : ~Agree(i)}
<1>1. /\ x \in 0 .. Len(s) /\ y \in 1 .. Len(s) + 1 /\ x < y
      /\ n < Segments(s) => y \in 1 .. Len(s) /\ s[y] = Underscore
      /\ n = Segments(s) => y = Len(s) + 1
  BY CutsAre
<1>2. /\ t \in Seq(Bytes) /\ Len(t) = y - 1 - x
      /\ \A i \in 1 .. Len(t) : x + i \in 1 .. Len(s) /\ t[i] = s[x + i]
  BY SegmentIs, Zenon
<1>3. /\ IsState(Snaking(<<>>, s)[x])
      /\ D # <<>> => Snaking(<<>>, s)[x].sep
  BY DEF StartsAt
<1>11. n \in Int /\ Segments(s) \in Int /\ n <= Segments(s)
  BY CutsAre
<1> HIDE DEF x, y, t, D
<1>4. D \in Seq(Bytes) /\ Snaking(<<>>, s)[x].dst = D
  BY <1>3 DEF IsState, D
<1>5. Agree(0)
  <2> DEFINE f == Snaking(<<>>, t)[0]
             a == Snaking(<<>>, s)[x]
  <2>1. f = [dst |-> <<>>, prev |-> "none", sep |-> FALSE]
    <3>1. Len(t) \in Nat
      BY <1>2
    <3> QED
      BY <3>1, SnakingUnfold DEF Fresh
  <2> HIDE DEF f
  <2>2. f.dst = <<>> /\ f.prev = "none" /\ f.sep = FALSE
    BY <2>1
  <2>3. IsState(f)
    BY <2>1, <2>2 DEF IsState
  <2>4. x + 0 = x
    BY <1>1
  <2>5. IsState(a) /\ a.dst = D /\ (D # <<>> => a.sep)
    BY <1>3, <1>4
  <2> HIDE DEF a
  <2>6. Matches(a, f, D)
    BY <2>2, <2>3, <2>5, Zenon DEF Matches
  <2> QED
    BY <2>4, <2>6 DEF a, f
<1>6. ASSUME NEW i \in 1 .. Len(t), Agree(i - 1)
      PROVE  Agree(i)
  <2> DEFINE a == Snaking(<<>>, s)[x + i - 1]
             f == Snaking(<<>>, t)[i - 1]
  <2>1. x + i \in 1 .. Len(s) /\ t[i] = s[x + i] /\ x + (i - 1) = x + i - 1
    BY <1>1, <1>2
  <2>2. Matches(a, f, D)
    BY <1>6, <2>1
  <2>3. x + i < Len(s) /\ IsLower(s[x + i + 1]) <=> i < Len(t) /\ IsLower(t[i + 1])
    <3>1. CASE i < Len(t)
      <4>1. i + 1 \in 1 .. Len(t) /\ x + (i + 1) = x + i + 1
        BY <1>1, <1>2, <3>1
      <4>2. x + i + 1 \in 1 .. Len(s) /\ t[i + 1] = s[x + i + 1]
        BY <1>2, <4>1
      <4> QED
        BY <1>1, <3>1, <4>2
    <3>2. CASE ~(i < Len(t))
      <4>1. x + i + 1 = y
        BY <1>1, <1>2, <3>2
      <4>2. CASE n < Segments(s)
        BY <1>1, <3>2, <4>1, <4>2, SeparatorIsNone
      <4>3. CASE n = Segments(s)
        BY <1>1, <3>2, <4>1, <4>3
      <4> QED
        BY <1>11, <4>2, <4>3
    <3> QED
      BY <3>1, <3>2
  <2>4. Snaking(<<>>, s)[x + i] = AppendByte(a, s, x + i, 0)
    <3>1. Snaking(<<>>, s)[x + i] = AppendByte(Snaking(<<>>, s)[(x + i) - 1], s, x + i, 0)
      BY <2>1, SnakeStep, Zenon
    <3>2. (x + i) - 1 = x + i - 1
      BY <1>1, <1>2
    <3> QED
      BY <3>1, <3>2, Zenon
  <2>5. Snaking(<<>>, t)[i] = AppendByte(f, t, i, 0)
    BY <1>2, SnakeStep, Zenon
  <2> HIDE DEF a, f
  <2>6. Matches(AppendByte(a, s, x + i, 0), AppendByte(f, t, i, 0), D)
    <3>1. s[x + i] = t[i]
      BY <2>1
    <3> QED
      BY <1>2, <1>4, <2>1, <2>2, <2>3, <3>1, MatchesNext, Zenon
  <2> QED
    BY <2>4, <2>5, <2>6
<1>7. SUFFICES Bad = {}
  BY DEF x, t, D
<1> SUFFICES ASSUME Bad # {} PROVE FALSE
  OBVIOUS
<1> HIDE DEF Agree
<1>8. PICK i \in Bad : \A j \in Bad : i <= j
  <2>1. Bad \subseteq Nat
    OBVIOUS
  <2> HIDE DEF Bad
  <2> QED
    BY <2>1, LeastNumber
<1>9. i \in 1 .. Len(t) /\ i - 1 \in 0 .. Len(t) /\ ~Agree(i)
  BY <1>5
<1>10. Agree(i - 1)
  <2>1. i - 1 \notin Bad
    <3> HIDE DEF Bad
    <3> QED
      BY <1>8, <1>9
  <2> QED
    BY <1>9, <2>1
<1> QED
  BY <1>6, <1>9, <1>10

(* So a segment adds its part, if it has one. *)
LEMMA SegmentEnds ==
  ASSUME NEW s \in Seq(Bytes), NEW n \in 1 .. Segments(s), StartsAt(s, n)
  PROVE  EndsAt(s, n)
<1> DEFINE x == Cut(s, n)
           y == Cut(s, n + 1)
           t == Segment(s, n)
           K == WordedIn(s)
           parts == PartsOf(s)
           r == Rank(K, n - 1)
           D == Snaking(<<>>, s)[x].dst
           a == Snaking(<<>>, s)[y - 1]
           f == Snaking(<<>>, t)[Len(t)]
<1>1. Segments(s) \in Nat /\ n \in 1 .. Segments(s) /\ x \in Int /\ y \in Int
  BY CutsAre
<1>2. t \in Seq(Bytes) /\ Len(t) = y - 1 - x /\ Len(t) \in Nat
  <2>1. t \in Seq(Bytes) /\ Len(t) = y - 1 - x
    BY SegmentIs, Zenon
  <2> HIDE DEF t
  <2> QED
    BY <2>1
<1>3. Matches(a, f, D)
  <2>1. Len(t) \in 0 .. Len(t) /\ x + Len(t) = y - 1
    BY <1>1, <1>2
  <2>2. Matches(Snaking(<<>>, s)[x + Len(t)], Snaking(<<>>, t)[Len(t)], D)
    BY <2>1, SegmentMatches, Zenon
  <2> QED
    BY <2>1, <2>2
<1>4. D = Flat(parts, r)
  BY DEF StartsAt
<1>5. f.dst = Snake(t) /\ Snake(t) \in Seq(Bytes)
  <2> HIDE DEF t
  <2> QED
    BY <1>2, SnakeIsBytes, Zenon
<1>6. /\ IsState(a)
      /\ Snake(t) = <<>> => a.dst = D
      /\ Snake(t) # <<>> => a.dst = Glued(D) \o Snake(t)
  BY <1>3, <1>5, Zenon DEF Matches
<1>7. /\ K \subseteq 0 .. Segments(s) /\ 0 \notin K /\ Cardinality(K) \in Nat
      /\ parts \in Seq(Seq(Bytes)) /\ Len(parts) = Cardinality(K)
      /\ \A k \in 1 .. Cardinality(K) : parts[k] = PartAt(s, k) /\ parts[k] # <<>>
  BY PartsAre
<1>8. n \in K <=> Snake(t) # <<>>
  BY DEF WordedIn
<1> HIDE DEF K, parts, a, f, t, x, y, D, r
<1>9. Rank(K, n) = r + (IF n \in K THEN 1 ELSE 0)
  <2>1. \A i \in 1 .. Segments(s) : Rank(K, i) = Rank(K, i - 1) + IF i \in K THEN 1 ELSE 0
    BY <1>1, <1>7, RankGrows, Zenon
  <2> QED
    BY <2>1, Zenon DEF r
<1>10. r \in 0 .. Cardinality(K)
  BY <1>1, <1>7, UpToFinite, Zenon DEF r
<1>11. /\ Flat(parts, 0) = <<>>
       /\ \A k \in 1 .. Len(parts) : Flat(parts, k) = Flat(parts, k - 1) \o parts[k]
       /\ \A k \in 0 .. Len(parts) : Flat(parts, k) \in Seq(Bytes)
  BY <1>7, FlatIs
<1>12. D \in Seq(Bytes) /\ (D = <<>> <=> r = 0)
  <2>1. CASE r = 0
    BY <1>4, <1>7, <1>11, <2>1
  <2>2. CASE r # 0
    <3>1. r \in 1 .. Len(parts) /\ r - 1 \in 0 .. Len(parts)
      BY <1>7, <1>10, <2>2
    <3>2. Flat(parts, r) = Flat(parts, r - 1) \o parts[r]
      BY <1>11, <3>1
    <3>3. parts[r] # <<>> /\ parts[r] \in Seq(Bytes) /\ Flat(parts, r - 1) \in Seq(Bytes)
      BY <1>7, <1>11, <3>1
    <3>4. Flat(parts, r) # <<>> /\ Flat(parts, r) \in Seq(Bytes)
      BY <3>2, <3>3, LongerIsSome, Zenon
    <3> QED
      BY <1>4, <2>2, <3>4
  <2> QED
    BY <2>1, <2>2
<1>13. a.dst = Flat(parts, Rank(K, n))
  <2>1. CASE n \notin K
    BY <1>4, <1>6, <1>8, <1>9, <1>10, <2>1
  <2>2. CASE n \in K
    <3>1. Rank(K, n) = r + 1 /\ a.dst = Glued(D) \o Snake(t)
      BY <1>6, <1>8, <1>9, <2>2
    <3>2. r + 1 \in 1 .. Cardinality(K) /\ InOrder(K)[r + 1] = n
      <4>1. Rank(K, n) \in 1 .. Cardinality(K) /\ InOrder(K)[Rank(K, n)] = n
        BY <1>1, <1>7, <2>2, InOrderIs, Zenon
      <4> QED
        BY <3>1, <4>1
    <3>3. Flat(parts, r + 1) = D \o parts[r + 1]
      <4>1. (r + 1) - 1 = r
        BY <1>10
      <4> QED
        BY <1>4, <1>7, <1>11, <3>2, <4>1
    <3>4. parts[r + 1] = IF r + 1 = 1 THEN Snake(t) ELSE <<Underscore>> \o Snake(t)
      <4>1. parts[r + 1] = PartAt(s, r + 1)
        BY <1>7, <3>2
      <4>2. PartAt(s, r + 1) = IF r + 1 = 1 THEN Snake(Segment(s, InOrder(K)[r + 1]))
                               ELSE <<Underscore>> \o Snake(Segment(s, InOrder(K)[r + 1]))
        BY DEF PartAt, K
      <4> QED
        BY <3>2, <4>1, <4>2 DEF t
    <3>5. CASE r = 0
      <4>1. D = <<>> /\ Glued(D) = <<>>
        BY <1>12, <3>5 DEF Glued
      <4>2. parts[r + 1] = Snake(t)
        BY <3>4, <3>5
      <4> QED
        BY <3>1, <3>3, <4>1, <4>2
    <3>6. CASE r # 0
      <4>1. Glued(D) = D \o <<Underscore>>
        BY <1>12, <3>6 DEF Glued
      <4>2. parts[r + 1] = <<Underscore>> \o Snake(t)
        BY <1>10, <3>4, <3>6
      <4>3. <<Underscore>> \in Seq(Bytes)
        BY DEF Underscore, Bytes
      <4>4. D \o (<<Underscore>> \o Snake(t)) = (D \o <<Underscore>>) \o Snake(t)
        BY <1>5, <1>12, <4>3, Associative, Zenon
      <4> QED
        BY <3>1, <3>3, <4>1, <4>2, <4>4, Zenon
    <3> QED
      BY <3>5, <3>6
  <2> QED
    BY <2>1, <2>2
<1> QED
  BY <1>6, <1>13 DEF EndsAt, a, parts, K, y

(* So the whole is at the start of every segment where the parts are.       *)
LEMMA AllStart ==
  ASSUME NEW s \in Seq(Bytes)
  PROVE  \A n \in 1 .. Segments(s) : StartsAt(s, n)
<1> DEFINE Bad == {n \in 1 .. Segments(s) : ~StartsAt(s, n)}
<1> SUFFICES ASSUME Bad # {} PROVE FALSE
  OBVIOUS
<1>0. Segments(s) \in Nat
  BY CutsAre
<1>1. PICK n \in Bad : \A j \in Bad : n <= j
  <2>1. Bad \subseteq Nat
    BY <1>0
  <2> HIDE DEF Bad
  <2> QED
    BY <2>1, LeastNumber
<1>2. n \in 1 .. Segments(s) /\ ~StartsAt(s, n)
  OBVIOUS
<1>3. n # 1
  BY <1>2, FirstStarts
<1>4. n - 1 \in 1 .. Segments(s) /\ n - 1 < Segments(s) /\ (n - 1) + 1 = n
  BY <1>0, <1>2, <1>3
<1>5. StartsAt(s, n - 1)
  <2>1. n - 1 \notin Bad
    <3> HIDE DEF Bad
    <3> QED
      BY <1>1, <1>4
  <2> QED
    BY <1>4, <2>1
<1>6. StartsAt(s, (n - 1) + 1)
  BY <1>4, <1>5, SegmentEnds, NextStarts, Zenon
<1> QED
  BY <1>2, <1>4, <1>6

(* A key in one piece and the same key in segments come to one name.        *)
LEMMA KeyIsSnake ==
  ASSUME NEW s \in Seq(Bytes)
  PROVE  NormKey(s, Underscore) = Snake(s)
<1> DEFINE N == Segments(s)
           K == WordedIn(s)
           parts == PartsOf(s)
<1>1. N \in 1 .. N /\ N \in Nat /\ Cut(s, N + 1) - 1 = Len(s)
  BY CutsAre
<1>2. EndsAt(s, N)
  BY <1>1, AllStart, SegmentEnds, Zenon
<1>3. Snaking(<<>>, s)[Len(s)].dst = Flat(parts, Rank(K, N))
  BY <1>1, <1>2 DEF EndsAt
<1>4. parts \in Seq(Seq(Bytes)) /\ Len(parts) = Cardinality(K) /\ K \subseteq 0 .. N
  BY PartsAre
<1> HIDE DEF N, K, parts
<1>5. Rank(K, N) = Len(parts)
  BY <1>1, <1>4, RankGrows
<1>6. FlattenSeq(parts) = Flat(parts, Len(parts))
  BY <1>4, FlatIs
<1> QED
  BY <1>3, <1>5, <1>6, NormKeyIs, SnakeIsBytes DEF parts

(* An alias written with "_" is normalised, segment by segment, to the key  *)
(* that the walk makes of the member of that name, of any length and bytes  *)
(* (config.go: normKey; names.go: appendSnake).                             *)
THEOREM AliasesMeetKeys == TextSpec => []AliasMeetsKey
<1>1. WordIsBytes => AliasMeetsKey
  BY KeyIsSnake DEF WordIsBytes, AliasMeetsKey
<1> QED
  BY <1>1, WordsAreBytes, PTL

-----------------------------------------------------------------------------
(* When a state is given up, of sizes that are numbers.                     *)

Weighing(s, n) == Weighed(Served(s)[n - 1], s[n])

After(s, n) == IF GivesUp(Weighing(s, n), s[n]) THEN Unused ELSE Weighing(s, n)

(* The counters follow from one another, input by input.                    *)
LEMMA ServedUnfold ==
  ASSUME NEW s, Len(s) \in Nat
  PROVE  Served(s)[0] = Unused /\ \A n \in 1 .. Len(s) : Served(s)[n] = After(s, n)
<1> DEFINE size == Len(s)
           Next1(f, n) == IF GivesUp(Weighed(f, s[n]), s[n]) THEN Unused ELSE Weighed(f, s[n])
           From(h, n) == IF n = 0 THEN Unused ELSE Next1(h[n - 1], n)
           IsUpTo(k, h) == h = [n \in 0 .. k |-> From(h, n)]
           Undefined == {k \in 0 .. size : ~ \E h : IsUpTo(k, h)}
<1>1. Undefined = {}
  <2> SUFFICES ASSUME Undefined # {} PROVE FALSE
    OBVIOUS
  <2>1. PICK k \in Undefined : \A j \in Undefined : k <= j
    <3>1. Undefined \subseteq Nat
      OBVIOUS
    <3> HIDE DEF Undefined
    <3> QED
      BY <3>1, LeastNumber
  <2>2. k \in 0 .. size
    OBVIOUS
  <2>3. CASE k = 0
    <3> DEFINE h == [n \in 0 .. 0 |-> Unused]
    <3>1. IsUpTo(0, h)
      OBVIOUS
    <3> QED
      BY <2>3, <3>1
  <2>4. CASE k # 0
    <3>1. k - 1 \in 0 .. size /\ k - 1 \notin Undefined
      <4> HIDE DEF Undefined
      <4> QED
        BY <2>1, <2>2, <2>4
    <3>2. PICK h : IsUpTo(k - 1, h)
      BY <3>1
    <3> DEFINE g == [n \in 0 .. k |-> From(h, n)]
    <3>3. ASSUME NEW n \in 0 .. k PROVE From(h, n) = From(g, n)
      <4>1. CASE n = 0
        BY <4>1
      <4>2. CASE n # 0
        <5>1. n - 1 \in 0 .. k - 1 /\ n - 1 \in 0 .. k
          BY <4>2, <2>2
        <5>2. h[n - 1] = From(h, n - 1)
          <6> HIDE DEF From
          <6> QED
            BY <3>2, <5>1, Zenon
        <5>3. g[n - 1] = From(h, n - 1)
          <6> HIDE DEF From
          <6> QED
            BY <5>1
        <5> HIDE DEF g, Next1
        <5> QED
          BY <4>2, <5>2, <5>3
      <4> QED
        BY <4>1, <4>2
    <3>4. g = [n \in 0 .. k |-> From(g, n)]
      <4> HIDE DEF From
      <4> QED
        BY <3>3
    <3> QED
      BY <3>4
  <2> QED
    BY <2>3, <2>4
<1>2. PICK h : IsUpTo(size, h)
  BY <1>1
<1> DEFINE after == CHOOSE after : IsUpTo(size, after)
<1>3. IsUpTo(size, after)
  BY <1>2
<1>4. Served(s) = after
  BY DEF Served
<1>5. \A n \in 0 .. size : after[n] = From(after, n)
  <2> HIDE DEF after, From
  <2> QED
    BY <1>3
<1>6. after[0] = Unused
  BY <1>5
<1>7. \A n \in 1 .. size : after[n] = Next1(after[n - 1], n)
  BY <1>5
<1> HIDE DEF after
<1> QED
  BY <1>4, <1>6, <1>7 DEF After, Weighing

(* What the counters know after n inputs, when the state was made after the *)
(* input made: peak is the largest since, small counts those behind it that *)
(* were far below it, without a gap, and no longer run of them is left out. *)
Knows(s, n, made) ==
  LET f == Served(s)[n]
  IN  /\ made \in 0 .. n /\ MadeAfter(s, n + 1, made)
      /\ f = [peak |-> f.peak, small |-> f.small]
      /\ f.peak \in Nat /\ f.small \in 0 .. ShrinkAfter - 1
      /\ f.small <= n - made
      /\ \A k \in made + 1 .. n : s[k] <= f.peak
      /\ f.peak = 0 \/ \E p \in made + 1 .. n : s[p] = f.peak
      /\ \A k \in n - f.small + 1 .. n : s[k] * ShrinkRatio < f.peak
      /\ \A q \in made .. n : \A p \in made + 1 .. q :
           (\A k \in q + 1 .. n : s[k] * ShrinkRatio < s[p]) => f.small >= n - q

LEMMA Larger == ASSUME NEW x \in Nat PROVE x * ShrinkRatio \in Nat /\ x <= x * ShrinkRatio
<1>1. ShrinkRatio \in Nat /\ ShrinkRatio >= 1
  BY PoolingAssumption
<1> QED
  BY <1>1

(* The counters of an unused state, made after n, know that nothing came.   *)
LEMMA KnowsNothing ==
  ASSUME NEW s, NEW n \in Nat, Served(s)[n] = Unused, MadeAfter(s, n + 1, n)
  PROVE  Knows(s, n, n)
<1>1. 0 \in 0 .. ShrinkAfter - 1
  BY PoolingAssumption
<1> QED
  BY <1>1 DEF Knows, Unused

LEMMA KnowsFirst == ASSUME NEW s \in Seq(Nat) PROVE Knows(s, 0, 0)
<1>1. Served(s)[0] = Unused
  BY ServedUnfold
<1>2. MadeAfter(s, 0 + 1, 0)
  BY DEF MadeAfter, GivenUp
<1> QED
  BY <1>1, <1>2, KnowsNothing

(* What weighing an input makes of the counters.                            *)
LEMMA WeighedIs ==
  ASSUME NEW f, NEW n \in Nat, f = [peak |-> f.peak, small |-> f.small],
         f.peak \in Nat, f.small \in Nat
  PROVE  LET w == Weighed(f, n)
         IN  /\ w = [peak |-> w.peak, small |-> w.small]
             /\ \/ n > f.peak /\ w.peak = n /\ w.small = 0
                \/ n * ShrinkRatio < f.peak /\ n <= f.peak /\ w.peak = f.peak
                   /\ w.small = f.small + 1
                \/ n <= f.peak /\ ~(n * ShrinkRatio < f.peak) /\ w.peak = f.peak /\ w.small = 0
<1>1. n * ShrinkRatio \in Nat
  BY Larger
<1>2. CASE n > f.peak
  <2>1. Weighed(f, n) = [peak |-> n, small |-> 0]
    BY <1>2 DEF Weighed, WeighedTo
  <2> QED
    BY <1>2, <2>1
<1>3. CASE ~(n > f.peak) /\ n * ShrinkRatio < f.peak
  <2>1. Weighed(f, n) = [peak |-> f.peak, small |-> f.small + 1]
    BY <1>3 DEF Weighed, WeighedTo
  <2> QED
    BY <1>3, <2>1
<1>4. CASE ~(n > f.peak) /\ ~(n * ShrinkRatio < f.peak)
  <2>1. Weighed(f, n) = [peak |-> f.peak, small |-> 0]
    BY <1>4 DEF Weighed, WeighedTo
  <2> QED
    BY <1>4, <2>1
<1> QED
  BY <1>2, <1>3, <1>4

(* An input between the making of the state and input n is one of the word. *)
LEMMA InsideWord ==
  ASSUME NEW s \in Seq(Nat), NEW n \in 1 .. Len(s), NEW made \in Nat, NEW p \in made + 1 .. n - 1
  PROVE  p \in 1 .. Len(s) /\ s[p] \in Nat
<1>1. p \in Nat /\ p >= 1 /\ p <= Len(s) /\ Len(s) \in Nat
  OBVIOUS
<1>2. p \in 1 .. Len(s)
  BY <1>1
<1> QED
  BY <1>2

(* If they know it of n - 1 inputs, they know it of n.                      *)
LEMMA KnowsNext ==
  ASSUME NEW s \in Seq(Nat), NEW n \in 1 .. Len(s), NEW made, Knows(s, n - 1, made)
  PROVE  \E now : Knows(s, n, now)
<1> DEFINE f == Served(s)[n - 1]
           w == Weighing(s, n)
           x == s[n]
<1>0. n \in Nat /\ n >= 1 /\ x \in Nat /\ n - 1 \in Nat /\ (n - 1) + 1 = n /\ Len(s) \in Nat
  OBVIOUS
<1>1. Served(s)[n] = IF GivesUp(w, x) THEN Unused ELSE w
  BY <1>0, ServedUnfold DEF After
<1>2. n \in GivenUp(s) <=> GivesUp(w, x)
  BY DEF GivenUp, Weighing
<1>3. /\ made \in 0 .. n - 1
      /\ f.peak \in Nat /\ f.small \in Nat /\ f.small < ShrinkAfter
      /\ f.small <= n - 1 - made
  BY <1>0, PoolingAssumption DEF Knows
<1>13. MadeAfter(s, n, made) /\ f = [peak |-> f.peak, small |-> f.small]
  BY <1>0 DEF Knows
<1>14. \A k \in made + 1 .. n - 1 : s[k] <= f.peak
  BY <1>0 DEF Knows
<1>15. f.peak = 0 \/ \E p \in made + 1 .. n - 1 : s[p] = f.peak
  BY <1>0 DEF Knows
<1>16. \A k \in n - 1 - f.small + 1 .. n - 1 : s[k] * ShrinkRatio < f.peak
  BY <1>0 DEF Knows
<1>17. \A q \in made .. n - 1 : \A p \in made + 1 .. q :
           (\A k \in q + 1 .. n - 1 : s[k] * ShrinkRatio < s[p]) => f.small >= n - 1 - q
  BY <1>0 DEF Knows
<1>4. CASE GivesUp(w, x)
  <2>1. MadeAfter(s, n + 1, n)
    <3>1. n \in GivenUp(s) /\ \A k \in GivenUp(s) : k \in Nat
      BY <1>2, <1>4 DEF GivenUp
    <3> QED
      BY <1>0, <3>1 DEF MadeAfter
  <2>2. Served(s)[n] = Unused
    BY <1>1, <1>4
  <2> QED
    BY <1>0, <2>1, <2>2, KnowsNothing
<1>5. CASE ~GivesUp(w, x)
  <2>1. Served(s)[n] = w
    BY <1>1, <1>5
  <2>2. MadeAfter(s, n + 1, made) /\ made \in 0 .. n
    <3>1. n \notin GivenUp(s) /\ \A k \in GivenUp(s) : k \in Nat
      BY <1>2, <1>5 DEF GivenUp
    <3> QED
      BY <1>0, <1>3, <1>13, <3>1 DEF MadeAfter
  <2>3. /\ w = [peak |-> w.peak, small |-> w.small]
        /\ \/ x > f.peak /\ w.peak = x /\ w.small = 0
           \/ x * ShrinkRatio < f.peak /\ x <= f.peak /\ w.peak = f.peak
              /\ w.small = f.small + 1
           \/ x <= f.peak /\ ~(x * ShrinkRatio < f.peak) /\ w.peak = f.peak /\ w.small = 0
    <3>1. f.small \in Nat
      BY <1>3
    <3> HIDE DEF f, x
    <3> QED
      BY <1>0, <1>3, <1>13, <3>1, WeighedIs DEF Weighing, f, x
  <2>4. w.peak \in Nat /\ w.small \in 0 .. ShrinkAfter - 1
    <3>1. ~(w.small >= ShrinkAfter)
      BY <1>5 DEF GivesUp
    <3>2. ShrinkAfter \in Nat
      BY PoolingAssumption
    <3> HIDE DEF w, f, x
    <3>3. w.peak \in {x, f.peak} /\ w.small \in {0, f.small + 1}
      BY <2>3
    <3>4. w.small \in Nat
      BY <1>3, <3>3
    <3> QED
      BY <1>0, <1>3, <3>1, <3>2, <3>3, <3>4
  <2> HIDE DEF w, f
  <2>5. w.small <= n - made
    BY <1>0, <1>3, <2>3
  <2>6. \A k \in made + 1 .. n : s[k] <= w.peak
    <3> SUFFICES ASSUME NEW k \in made + 1 .. n PROVE s[k] <= w.peak
      OBVIOUS
    <3>1. CASE k = n
      BY <1>0, <1>3, <2>3, <3>1
    <3>2. CASE k # n
      <4>1. k \in made + 1 .. n - 1 /\ k \in 1 .. Len(s) /\ s[k] \in Nat
        BY <1>0, <1>3, <3>2
      <4>2. s[k] <= f.peak
        BY <1>14, <4>1
      <4>3. f.peak <= w.peak
        <5>1. (x > f.peak /\ w.peak = x) \/ w.peak = f.peak
          BY <2>3
        <5> HIDE DEF x
        <5> QED
          BY <1>0, <1>3, <5>1
      <4> QED
        BY <1>3, <2>4, <4>1, <4>2, <4>3
    <3> QED
      BY <3>1, <3>2
  <2>7. w.peak = 0 \/ \E p \in made + 1 .. n : s[p] = w.peak
    <3>1. CASE x > f.peak
      <4>1. n \in made + 1 .. n /\ s[n] = w.peak
        BY <1>0, <1>3, <2>3, <3>1
      <4> QED
        BY <4>1
    <3>2. CASE ~(x > f.peak)
      <4>1. w.peak = f.peak
        BY <2>3, <3>2
      <4>2. CASE f.peak = 0
        BY <4>1, <4>2
      <4>3. CASE f.peak # 0
        <5>1. PICK p \in made + 1 .. n - 1 : s[p] = f.peak
          BY <1>15, <4>3
        <5>2. p \in made + 1 .. n
          BY <1>0, <1>3
        <5> QED
          BY <4>1, <5>1, <5>2
      <4> QED
        BY <4>2, <4>3
    <3> QED
      BY <3>1, <3>2
  <2>8. \A k \in n - w.small + 1 .. n : s[k] * ShrinkRatio < w.peak
    <3> SUFFICES ASSUME NEW k \in n - w.small + 1 .. n PROVE s[k] * ShrinkRatio < w.peak
      OBVIOUS
    <3>1. w.small # 0
      BY <1>0, <2>4
    <3>2. x * ShrinkRatio < f.peak /\ w.peak = f.peak /\ w.small = f.small + 1
      BY <2>3, <3>1
    <3>3. CASE k = n
      BY <3>2, <3>3
    <3>4. CASE k # n
      <4>1. k \in n - 1 - f.small + 1 .. n - 1
        BY <1>0, <1>3, <3>2, <3>4
      <4> QED
        BY <1>16, <3>2, <4>1
    <3> QED
      BY <3>3, <3>4
  <2>9. ASSUME NEW q \in made .. n, NEW p \in made + 1 .. q,
               \A k \in q + 1 .. n : s[k] * ShrinkRatio < s[p]
        PROVE  w.small >= n - q
    <3>1. CASE q = n
      BY <1>0, <2>4, <3>1
    <3>2. CASE q # n
      <4>1. q \in made .. n - 1 /\ n \in q + 1 .. n
        BY <1>0, <1>3, <3>2
      <4>2. \A k \in q + 1 .. n - 1 : s[k] * ShrinkRatio < s[p]
        BY <1>0, <1>3, <2>9, <4>1
      <4>3. f.small >= n - 1 - q
        BY <1>17, <4>1, <4>2
      <4>4. p \in made + 1 .. n - 1 /\ p \in 1 .. Len(s) /\ s[p] \in Nat
        <5>1. p \in made + 1 .. n - 1
          BY <1>3, <4>1
        <5> QED
          BY <1>3, <5>1, InsideWord
      <4>5. s[p] <= f.peak /\ x * ShrinkRatio < s[p]
        BY <1>14, <2>9, <4>1, <4>4
      <4>6. x * ShrinkRatio \in Nat /\ x <= x * ShrinkRatio
        BY <1>0, Larger
      <4> HIDE DEF x
      <4>7. x * ShrinkRatio < f.peak /\ ~(x > f.peak)
        BY <1>0, <1>3, <4>4, <4>5, <4>6
      <4>8. w.small = f.small + 1
        BY <2>3, <4>7
      <4> QED
        BY <1>0, <1>3, <4>1, <4>3, <4>8
    <3> QED
      BY <3>1, <3>2
  <2>10. Knows(s, n, made)
    BY <2>1, <2>2, <2>3, <2>4, <2>5, <2>6, <2>7, <2>8, <2>9, Zenon DEF Knows
  <2> QED
    BY <2>10
<1> QED
  BY <1>4, <1>5

(* So they know it after any number of inputs.                              *)
LEMMA KnowsAlways ==
  ASSUME NEW s \in Seq(Nat), NEW n \in 0 .. Len(s)
  PROVE  \E made : Knows(s, n, made)
<1> DEFINE Bad == {k \in 0 .. Len(s) : ~ \E made : Knows(s, k, made)}
<1> SUFFICES ASSUME Bad # {} PROVE FALSE
  OBVIOUS
<1>1. PICK k \in Bad : \A j \in Bad : k <= j
  <2>1. Bad \subseteq Nat
    OBVIOUS
  <2> HIDE DEF Bad
  <2> QED
    BY <2>1, LeastNumber
<1>2. k # 0
  BY KnowsFirst
<1>3. k \in 1 .. Len(s) /\ k - 1 \in 0 .. Len(s) /\ ~ \E made : Knows(s, k, made)
  BY <1>2
<1>4. \E made : Knows(s, k - 1, made)
  <2>1. k - 1 \notin Bad
    <3> HIDE DEF Bad
    <3> QED
      BY <1>1, <1>3
  <2> QED
    BY <1>3, <2>1
<1> QED
  BY <1>3, <1>4, KnowsNext

(* A state is given up at an input just when it should.                     *)
LEMMA GivenUpIs ==
  ASSUME NEW s \in Seq(Nat), NEW n \in 1 .. Len(s)
  PROVE  n \in GivenUp(s) <=> s[n] > MaxPooled \/ Outgrown(s, n)
<1> DEFINE f == Served(s)[n - 1]
           w == Weighing(s, n)
           x == s[n]
<1>0. /\ n \in Nat /\ n >= 1 /\ x \in Nat /\ n - 1 \in 0 .. Len(s) /\ (n - 1) + 1 = n /\ Len(s) \in Nat
      /\ ShrinkAfter \in Nat /\ ShrinkAfter >= 1 /\ x * ShrinkRatio \in Nat /\ x <= x * ShrinkRatio
  BY PoolingAssumption, Larger
<1>1. n \in GivenUp(s) <=> x > MaxPooled \/ w.small >= ShrinkAfter
  BY DEF GivenUp, Weighing, GivesUp
<1>2. PICK made : Knows(s, n - 1, made)
  BY <1>0, KnowsAlways
<1>3. /\ made \in 0 .. n - 1
      /\ f.peak \in Nat /\ f.small \in Nat /\ f.small < ShrinkAfter
      /\ f.small <= n - 1 - made
  BY <1>0, <1>2, PoolingAssumption DEF Knows
<1>13. MadeAfter(s, n, made) /\ f = [peak |-> f.peak, small |-> f.small]
  BY <1>0, <1>2 DEF Knows
<1>14. \A k \in made + 1 .. n - 1 : s[k] <= f.peak
  BY <1>0, <1>2 DEF Knows
<1>15. f.peak = 0 \/ \E p \in made + 1 .. n - 1 : s[p] = f.peak
  BY <1>0, <1>2 DEF Knows
<1>16. \A k \in n - 1 - f.small + 1 .. n - 1 : s[k] * ShrinkRatio < f.peak
  BY <1>0, <1>2 DEF Knows
<1>17. \A q \in made .. n - 1 : \A p \in made + 1 .. q :
           (\A k \in q + 1 .. n - 1 : s[k] * ShrinkRatio < s[p]) => f.small >= n - 1 - q
  BY <1>0, <1>2 DEF Knows
<1>4. \/ x > f.peak /\ w.peak = x /\ w.small = 0
      \/ x * ShrinkRatio < f.peak /\ x <= f.peak /\ w.peak = f.peak /\ w.small = f.small + 1
      \/ x <= f.peak /\ ~(x * ShrinkRatio < f.peak) /\ w.peak = f.peak /\ w.small = 0
  <2>1. f.small \in Nat
    BY <1>3
  <2> HIDE DEF f, x
  <2> QED
    BY <1>0, <1>3, <1>13, <2>1, WeighedIs DEF Weighing, f, x
<1> HIDE DEF f, w, x
<1>5. ASSUME w.small >= ShrinkAfter PROVE Outgrown(s, n)
  <2>1. /\ x * ShrinkRatio < f.peak /\ f.small = ShrinkAfter - 1
    BY <1>0, <1>3, <1>4, <1>5
  <2>2. made \in 0 .. n - ShrinkAfter
    BY <1>0, <1>3, <2>1
  <2>3. PICK p \in made + 1 .. n - 1 : s[p] = f.peak
    BY <1>0, <1>3, <1>15, <2>1
  <2>4. p \in 1 .. Len(s) /\ s[p] \in Nat
    BY <1>0, <1>3
  <2>5. s[p] <= s[p] * ShrinkRatio /\ s[p] * ShrinkRatio \in Nat
    BY <2>4, Larger
  <2>6. ~(p \in n - ShrinkAfter + 1 .. n - 1)
    <3>1. n - 1 - f.small + 1 = n - ShrinkAfter + 1
      BY <1>0, <2>1
    <3> QED
      BY <1>3, <1>16, <2>3, <2>4, <2>5, <3>1
  <2>7. p \in made + 1 .. n - ShrinkAfter
    BY <1>0, <1>3, <2>6
  <2>8. \A k \in n - ShrinkAfter + 1 .. n : s[k] * ShrinkRatio < s[p]
    <3> SUFFICES ASSUME NEW k \in n - ShrinkAfter + 1 .. n PROVE s[k] * ShrinkRatio < s[p]
      OBVIOUS
    <3>1. CASE k = n
      BY <2>1, <2>3, <3>1 DEF x
    <3>2. CASE k # n
      <4>1. k \in n - 1 - f.small + 1 .. n - 1
        BY <1>0, <2>1, <3>2
      <4> QED
        BY <1>16, <2>3, <4>1
    <3> QED
      BY <3>1, <3>2
  <2> QED
    BY <1>13, <2>2, <2>7, <2>8 DEF Outgrown
<1>6. ASSUME Outgrown(s, n) PROVE w.small >= ShrinkAfter
  <2>1. PICK since \in 0 .. n - ShrinkAfter :
          /\ MadeAfter(s, n, since)
          /\ \E p \in since + 1 .. n - ShrinkAfter :
               \A k \in n - ShrinkAfter + 1 .. n : s[k] * ShrinkRatio < s[p]
    BY <1>6 DEF Outgrown
  <2>2. since = made
    <3>1. since \in Nat /\ made \in Nat /\ since < n /\ made < n
      BY <1>0, <1>3, <2>1
    <3>2. since # 0 => since \in GivenUp(s)
      BY <2>1 DEF MadeAfter
    <3>3. made # 0 => made \in GivenUp(s)
      BY <1>13 DEF MadeAfter
    <3>4. since # 0 => since <= made
      BY <1>0, <1>3, <1>13, <3>1, <3>2 DEF MadeAfter
    <3>5. made # 0 => made <= since
      BY <1>0, <2>1, <3>1, <3>3 DEF MadeAfter
    <3> QED
      BY <3>1, <3>4, <3>5
  <2>3. PICK p \in made + 1 .. n - ShrinkAfter :
          \A k \in n - ShrinkAfter + 1 .. n : s[k] * ShrinkRatio < s[p]
    BY <2>1, <2>2
  <2> DEFINE q == n - ShrinkAfter
  <2>4. q \in made .. n - 1 /\ p \in made + 1 .. q /\ n - 1 - q = ShrinkAfter - 1
    BY <1>0, <1>3, <2>1, <2>2
  <2>5. \A k \in q + 1 .. n - 1 : s[k] * ShrinkRatio < s[p]
    BY <1>0, <2>3
  <2>6. n \in q + 1 .. n
    BY <1>0
  <2>7. p \in made + 1 .. n - 1 /\ p \in 1 .. Len(s) /\ s[p] \in Nat
    <3>1. p \in made + 1 .. n - 1
      BY <1>0, <2>3
    <3> QED
      BY <1>3, <3>1, InsideWord
  <2>8. x * ShrinkRatio < s[p]
    BY <2>3, <2>6 DEF x
  <2> HIDE DEF q
  <2>9. f.small >= ShrinkAfter - 1
    BY <1>17, <2>4, <2>5
  <2>10. s[p] <= f.peak
    BY <1>14, <2>7
  <2>11. x * ShrinkRatio < f.peak /\ ~(x > f.peak)
    BY <1>0, <1>3, <2>7, <2>8, <2>10
  <2>12. w.small = f.small + 1
    BY <1>4, <2>11
  <2> QED
    BY <1>0, <1>3, <2>9, <2>12
<1> QED
  BY <1>1, <1>5, <1>6 DEF x

(* Whatever the sizes of the inputs, their number and the limits: a state   *)
(* is given up at an input just when that is too large for the pool or the  *)
(* last shrinkAfter inputs were all far below one that it had served before *)
(* them (transform.go: worthPooling, release).                              *)
THEOREM GivenUpInTime == TextSpec => []GivenUpWhenOutgrown
<1>1. WordIsBytes => GivenUpWhenOutgrown
  BY GivenUpIs DEF WordIsBytes, GivenUpWhenOutgrown, Bytes
<1> QED
  BY <1>1, WordsAreBytes, PTL

=============================================================================
