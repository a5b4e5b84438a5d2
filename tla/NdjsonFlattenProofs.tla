-------------------------- MODULE NdjsonFlattenProofs --------------------------
(***************************************************************************)
(* Why the command writes all it should and counts truly, for every stream,*)
(* -limit and buffer.                                                      *)
(***************************************************************************)
EXTENDS NdjsonFlatten, SequenceTheorems, FiniteSetTheorems, TLAPS

Places == Nat \X Nat
Counts == [lines : Nat, rows : Nat, badLines : Nat, failed : Nat, invalid : Nat]

(* The records handled so far, with an outcome: those of the lines before   *)
(* the current one and, within it, the first few.                           *)
InLine(n, m, outcomes) == {n} \X {q \in 1 .. m : input[n].records[q] \in outcomes}
Handled(outcomes) ==
  IF pc = "records" THEN RecordsWith(lineNo - 1, outcomes) \cup InLine(lineNo, record, outcomes)
  ELSE RecordsWith(lineNo, outcomes)

Tally(outcomes, k) == IsFiniteSet(Handled(outcomes)) /\ Cardinality(Handled(outcomes)) = k
Invalid(n) == {p \in Counted(n) : input[p].kind = "invalid"}

(* Nothing has failed yet, or never will. *)
Fine == pc \in {"scan", "records", "flush"}
        \/ (pc \in {"close", "exit"} /\ err \in {"none", "rows failed verification"})

Lines ==
  /\ st.lines = Cardinality(Counted(lineNo))
  /\ st.badLines = Cardinality(Invalid(lineNo))
  /\ pc \in {"scan", "records"} =>
       NonBlank(lineNo) = Counted(lineNo) /\ (limit > 0 => st.lines <= limit)
  /\ pc = "records" => lineNo > 0 /\ IsCounted(lineNo) /\ input[lineNo].kind = "json"
  /\ pc \notin {"scan", "records"} => Counted(Len(input)) = Counted(lineNo)

Records ==
  /\ Tally(Failures, st.failed)
  /\ Tally(Rejects, st.invalid)
  /\ Tally(Rows, st.rows)
  /\ InOrder(written \o buffered)
  /\ Range(written \o buffered) = Handled(Rows)
  /\ pc \in {"close", "exit"} => buffered = <<>>

(* Before the stream is read, or when it never is. *)
Untouched ==
  /\ pc \in {"config", "open", "create", "exit"}
  /\ ~created /\ lineNo = 0 /\ buffered = <<>> /\ written = <<>>
  /\ st = [lines |-> 0, rows |-> 0, badLines |-> 0, failed |-> 0, invalid |-> 0]
  /\ IF pc = "exit" THEN err \in StartErrors ELSE err = "none"

Errors == {"none", "input error", "output error", "rows failed verification"}

Reading ==
  /\ pc \in {"scan", "records", "flush", "close", "exit"}
  /\ created
  /\ pc \in {"scan", "records", "flush"} => err = "none"
  /\ err \in Errors
  /\ Fine => Lines /\ Records

Typed ==
  /\ input \in Inputs
  /\ limit \in Limits
  /\ verify \in BOOLEAN
  /\ lineNo \in 0 .. Len(input)
  /\ pc = "records" => record \in 0 .. Len(Line.records)
  /\ st \in Counts
  /\ buffered \in Seq(Places) /\ Len(buffered) <= Capacity
  /\ written \in Seq(Places)

IInv == Typed /\ (Untouched \/ Reading)

-----------------------------------------------------------------------------
(* The stream.                                                              *)

LEMMA StreamFacts ==
  ASSUME input \in Inputs
  PROVE  /\ Len(input) \in Nat /\ DOMAIN input = 1 .. Len(input)
         /\ \A p \in 1 .. Len(input) :
              /\ Len(input[p].records) \in Nat
              /\ DOMAIN input[p].records = 1 .. Len(input[p].records)
              /\ \A q \in 1 .. Len(input[p].records) : input[p].records[q] \in Outcomes
              /\ input[p].kind \in {"blank", "invalid", "unreadable", "json"}
              /\ input[p].kind # "json" => Len(input[p].records) = 0
<1>1. Len(input) \in Nat /\ DOMAIN input = 1 .. Len(input)
  <2>1. input \in Seq(Range(input))
    BY InputsAssumption
  <2> QED BY <2>1
<1>2. ASSUME NEW p \in 1 .. Len(input)
      PROVE  /\ Len(input[p].records) \in Nat
             /\ DOMAIN input[p].records = 1 .. Len(input[p].records)
             /\ \A q \in 1 .. Len(input[p].records) : input[p].records[q] \in Outcomes
             /\ input[p].kind \in {"blank", "invalid", "unreadable", "json"}
             /\ input[p].kind # "json" => Len(input[p].records) = 0
  <2> DEFINE records == input[p].records
  <2>1. records \in Seq(Outcomes) /\ (input[p].kind # "json" => records = <<>>)
        /\ input[p].kind \in {"blank", "invalid", "unreadable", "json"}
    BY <1>1, InputsAssumption DEF IsLine
  <2> HIDE DEF records
  <2>2. /\ Len(records) \in Nat /\ DOMAIN records = 1 .. Len(records)
        /\ \A q \in 1 .. Len(records) : records[q] \in Outcomes
        /\ records = <<>> => Len(records) = 0
    BY <2>1
  <2> QED BY <2>1, <2>2 DEF records
<1> QED BY <1>1, <1>2

LEMMA CountedFinite ==
  ASSUME NEW n \in Nat
  PROVE  /\ IsFiniteSet(NonBlank(n)) /\ IsFiniteSet(Counted(n))
         /\ Counted(n) \subseteq NonBlank(n) /\ NonBlank(n) \subseteq 1 .. n
         /\ IsFiniteSet(Invalid(n))
<1>1. IsFiniteSet(1 .. n)
  BY FS_Interval
<1>2. Counted(n) \subseteq NonBlank(n) /\ NonBlank(n) \subseteq 1 .. n /\ Invalid(n) \subseteq 1 .. n
  BY DEF Counted, NonBlank, IsCounted, Invalid
<1> QED BY <1>1, <1>2, FS_Subset

(* One line more. *)
LEMMA CountedGrows ==
  ASSUME input \in Inputs, NEW n \in 0 .. Len(input) - 1
  PROVE  /\ NonBlank(n + 1) = IF input[n + 1].kind = "blank" THEN NonBlank(n) ELSE NonBlank(n) \cup {n + 1}
         /\ Counted(n + 1) = IF IsCounted(n + 1) THEN Counted(n) \cup {n + 1} ELSE Counted(n)
         /\ n + 1 \notin NonBlank(n) /\ n + 1 \notin Counted(n)
<1>1. n \in Nat /\ n + 1 \in 1 .. n + 1 /\ n + 1 \notin 1 .. n
      /\ \A p : p \in 1 .. n + 1 <=> p \in 1 .. n \/ p = n + 1
  BY StreamFacts
<1>2. NonBlank(n + 1) = IF input[n + 1].kind = "blank" THEN NonBlank(n) ELSE NonBlank(n) \cup {n + 1}
  BY <1>1 DEF NonBlank
<1>3. Counted(n + 1) = IF IsCounted(n + 1) THEN Counted(n) \cup {n + 1} ELSE Counted(n)
  BY <1>1 DEF Counted
<1> QED BY <1>1, <1>2, <1>3 DEF NonBlank, Counted

LEMMA RecordsGrow ==
  ASSUME input \in Inputs, NEW n \in 0 .. Len(input) - 1, NEW S
  PROVE  RecordsWith(n + 1, S) = IF IsCounted(n + 1)
                                 THEN RecordsWith(n, S) \cup InLine(n + 1, Len(input[n + 1].records), S)
                                 ELSE RecordsWith(n, S)
<1>1. n + 1 \in 1 .. Len(input)
  BY StreamFacts
<1>2. DOMAIN input[n + 1].records = 1 .. Len(input[n + 1].records)
  BY <1>1, StreamFacts
<1>3. Counted(n + 1) = IF IsCounted(n + 1) THEN Counted(n) \cup {n + 1} ELSE Counted(n)
  BY CountedGrows
<1> DEFINE Of(p) == {p} \X {q \in DOMAIN input[p].records : input[p].records[q] \in S}
<1>4. Of(n + 1) = InLine(n + 1, Len(input[n + 1].records), S)
  BY <1>2 DEF InLine
<1>5. \A m, x : x \in RecordsWith(m, S) <=> \E p \in Counted(m) : x \in Of(p)
  BY DEF RecordsWith
<1> HIDE DEF Of
<1>6. CASE IsCounted(n + 1)
  <2>1. \A p : p \in Counted(n + 1) <=> p \in Counted(n) \/ p = n + 1
    BY <1>3, <1>6
  <2>2. \A x : x \in RecordsWith(n + 1, S) <=> x \in RecordsWith(n, S) \cup Of(n + 1)
    BY <1>5, <2>1
  <2> QED BY <1>4, <1>6, <2>2
<1>7. CASE ~IsCounted(n + 1)
  BY <1>3, <1>7 DEF RecordsWith
<1> QED BY <1>6, <1>7

(* A line without records adds none. *)
LEMMA RecordsOfOther ==
  ASSUME input \in Inputs, NEW n \in 0 .. Len(input) - 1, NEW S,
         input[n + 1].kind # "json" \/ ~IsCounted(n + 1)
  PROVE  RecordsWith(n + 1, S) = RecordsWith(n, S)
<1>1. n + 1 \in 1 .. Len(input)
  BY StreamFacts
<1>2. CASE ~IsCounted(n + 1)
  BY <1>2, RecordsGrow
<1>3. CASE input[n + 1].kind # "json"
  <2>1. Len(input[n + 1].records) = 0
    BY <1>1, <1>3, StreamFacts
  <2>2. InLine(n + 1, 0, S) = {}
    BY DEF InLine
  <2> QED BY <2>1, <2>2, RecordsGrow
<1> QED BY <1>2, <1>3

(* What comes before a place of the stream. *)
LEMMA RecordsAreBefore ==
  ASSUME input \in Inputs, NEW n \in 0 .. Len(input), NEW S, NEW x \in RecordsWith(n, S)
  PROVE  x \in Places /\ x[1] <= n
<1>1. PICK p \in Counted(n) : \E q \in DOMAIN input[p].records : x = <<p, q>>
  BY DEF RecordsWith
<1>2. p \in 1 .. n /\ p \in 1 .. Len(input)
  BY StreamFacts DEF Counted
<1>3. DOMAIN input[p].records \subseteq Nat
  BY <1>2, StreamFacts
<1> QED BY <1>1, <1>2, <1>3 DEF Places

(* When one line more than -limit allows has been read, no later one counts.*)
LEMMA NoneAfterLimit ==
  ASSUME input \in Inputs, limit \in Nat, limit > 0, NEW n \in 0 .. Len(input),
         Cardinality(NonBlank(n)) > limit
  PROVE  Counted(Len(input)) = Counted(n)
<1>1. Len(input) \in Nat /\ n \in Nat
  BY StreamFacts
<1>2. ASSUME NEW p \in 1 .. Len(input), p > n PROVE ~IsCounted(p)
  <2>1. p \in Nat /\ NonBlank(n) \subseteq NonBlank(p)
    BY <1>1, <1>2 DEF NonBlank
  <2>2. Cardinality(NonBlank(n)) <= Cardinality(NonBlank(p))
    BY <2>1, CountedFinite, FS_Subset
  <2>3. Cardinality(NonBlank(n)) \in Nat /\ Cardinality(NonBlank(p)) \in Nat
    BY <1>1, <2>1, CountedFinite, FS_CardinalityType
  <2> QED BY <2>2, <2>3 DEF IsCounted
<1>3. \A p : p \in 1 .. n <=> p \in 1 .. Len(input) /\ ~(p > n)
  BY <1>1
<1> QED BY <1>2, <1>3 DEF Counted

LEMMA SameStream ==
  ASSUME UNCHANGED flags
  PROVE  /\ \A n : Counted(n)' = Counted(n) /\ NonBlank(n)' = NonBlank(n)
                   /\ Invalid(n)' = Invalid(n) /\ (IsCounted(n)' <=> IsCounted(n))
         /\ \A n, S : RecordsWith(n, S)' = RecordsWith(n, S)
         /\ \A n, m, S : InLine(n, m, S)' = InLine(n, m, S)
         /\ Rejects' = Rejects /\ Rows' = Rows /\ Failures' = Failures
<1>1. input' = input /\ limit' = limit /\ verify' = verify
  BY DEF flags
<1>2. ASSUME NEW n
      PROVE  /\ Counted(n)' = Counted(n) /\ NonBlank(n)' = NonBlank(n)
             /\ Invalid(n)' = Invalid(n) /\ (IsCounted(n)' <=> IsCounted(n))
  BY <1>1, SMT DEF Counted, IsCounted, NonBlank, Invalid
<1>3. ASSUME NEW n, NEW S PROVE RecordsWith(n, S)' = RecordsWith(n, S)
  BY <1>1, SMT DEF RecordsWith, Counted, IsCounted, NonBlank
<1>4. ASSUME NEW n, NEW m, NEW S PROVE InLine(n, m, S)' = InLine(n, m, S)
  BY <1>1 DEF InLine
<1>5. Rejects' = Rejects /\ Rows' = Rows /\ Failures' = Failures
  BY <1>1 DEF Rejects, Rows, Failures
<1> QED BY <1>2, <1>3, <1>4, <1>5

-----------------------------------------------------------------------------
(* One lemma per step. First, that the types stay.                          *)

LEMMA ErrorsAreApart ==
  StartErrors \cap Errors = {}
BY DEF StartErrors, Errors

LEMMA StreamTyped ==
  ASSUME Typed
  PROVE  /\ Len(input) \in Nat /\ lineNo \in Nat /\ limit \in Nat
         /\ pc = "records" => record \in Nat
         /\ Capacity \in Nat \ {0}
         /\ Len(buffered) \in Nat
<1>1. Len(input) \in Nat
  BY StreamFacts DEF Typed
<1> QED BY <1>1, InputsAssumption DEF Typed

LEMMA CountsGrow ==
  ASSUME NEW s \in Counts
  PROVE  /\ [s EXCEPT !.failed = @ + 1] \in Counts
         /\ [s EXCEPT !.invalid = @ + 1] \in Counts
         /\ [s EXCEPT !.rows = @ + 1] \in Counts
         /\ \A b \in Nat : [s EXCEPT !.lines = @ + 1, !.badLines = b] \in Counts
<1>1. s.lines + 1 \in Nat /\ s.failed + 1 \in Nat /\ s.invalid + 1 \in Nat /\ s.rows + 1 \in Nat
  BY DEF Counts
<1>2. [s EXCEPT !.failed = @ + 1] \in Counts
  BY <1>1 DEF Counts
<1>3. [s EXCEPT !.invalid = @ + 1] \in Counts
  BY <1>1 DEF Counts
<1>4. [s EXCEPT !.rows = @ + 1] \in Counts
  BY <1>1 DEF Counts
<1>5. ASSUME NEW b \in Nat PROVE [s EXCEPT !.lines = @ + 1, !.badLines = b] \in Counts
  BY <1>1 DEF Counts
<1> QED BY <1>2, <1>3, <1>4, <1>5

(* The three outcomes of ScanLine. *)
Skipped == input[lineNo + 1].kind = "blank" /\ UNCHANGED <<pc, record, st, err>>
Limited ==
  /\ input[lineNo + 1].kind # "blank" /\ limit > 0 /\ st.lines = limit
  /\ (pc' = "flush" /\ err' = err) \/ (pc' = "close" /\ err' = "input error")
  /\ UNCHANGED <<record, st>>
Taken ==
  /\ input[lineNo + 1].kind # "blank" /\ ~(limit > 0 /\ st.lines = limit)
  /\ st' = [st EXCEPT !.lines = @ + 1,
                      !.badLines = IF input[lineNo + 1].kind = "invalid" THEN @ + 1 ELSE @]
  /\ pc' = IF input[lineNo + 1].kind = "json" THEN "records" ELSE "scan"
  /\ record' = 0 /\ err' = err

LEMMA ScanLineCases ==
  ASSUME ScanLine
  PROVE  /\ UNCHANGED <<flags, created, buffered, written>> /\ lineNo' = lineNo + 1
         /\ pc = "scan" /\ lineNo < Len(input) /\ input[lineNo + 1].kind # "unreadable"
         /\ Skipped \/ Limited \/ Taken
<1>1. /\ UNCHANGED <<flags, created, buffered, written>> /\ lineNo' = lineNo + 1
      /\ pc = "scan" /\ lineNo < Len(input) /\ input[lineNo + 1].kind # "unreadable"
  BY DEF ScanLine
<1> DEFINE kind == input[lineNo + 1].kind
<1>2. CASE kind = "blank"
  BY <1>2 DEF ScanLine, Skipped
<1>3. CASE kind # "blank" /\ limit > 0 /\ st.lines = limit
  BY <1>3 DEF ScanLine, IsAtLimit, Stop, Limited
<1>4. CASE kind # "blank" /\ ~(limit > 0 /\ st.lines = limit)
  BY <1>4 DEF ScanLine, IsAtLimit, Taken
<1> QED BY <1>1, <1>2, <1>3, <1>4

LEMMA ScanLineTyped ==
  ASSUME Typed, ScanLine
  PROVE  Typed'
<1>1. /\ UNCHANGED <<flags, created, buffered, written>> /\ lineNo' = lineNo + 1
      /\ pc = "scan" /\ lineNo < Len(input)
      /\ \/ pc' # "records" /\ st' = st
         \/ /\ st' = [st EXCEPT !.lines = @ + 1,
                                !.badLines = IF input[lineNo + 1].kind = "invalid" THEN @ + 1 ELSE @]
            /\ record' = 0
  BY ScanLineCases DEF Skipped, Limited, Taken
<1>2. input' = input /\ limit' = limit /\ verify' = verify /\ buffered' = buffered /\ written' = written
  BY <1>1 DEF flags
<1>3. lineNo' \in 0 .. Len(input) /\ lineNo + 1 \in 1 .. Len(input)
  BY <1>1, StreamTyped DEF Typed
<1>4. st' \in Counts
  <2>1. st \in Counts
    BY DEF Typed
  <2> DEFINE b == IF input[lineNo + 1].kind = "invalid" THEN st.badLines + 1 ELSE st.badLines
  <2>2. b \in Nat
    BY <2>1 DEF Counts
  <2>3. st' = st \/ st' = [st EXCEPT !.lines = @ + 1, !.badLines = b]
    BY <1>1
  <2> HIDE DEF b
  <2> QED BY <2>1, <2>2, <2>3, CountsGrow
<1>5. pc' = "records" => record' \in 0 .. Len(Line.records)'
  <2>1. Len(input[lineNo + 1].records) \in Nat
    BY <1>3, StreamFacts DEF Typed
  <2>2. Line' = input[lineNo + 1]
    BY <1>1, <1>2 DEF Line
  <2> QED BY <1>1, <2>1, <2>2
<1> QED BY <1>2, <1>3, <1>4, <1>5 DEF Typed

LEMMA StepIsTyped ==
  ASSUME Typed, Next
  PROVE  Typed'
<1>1. CASE ReadConfig \/ OpenInput \/ CreateOutput \/ ScanEnds \/ EndLine \/ Close
  <2>1. UNCHANGED <<flags, flattening>>
    BY <1>1 DEF ReadConfig, OpenInput, CreateOutput, ScanEnds, EndLine, Close, flattening
  <2>2. pc' # "records"
    <3>1. CASE ReadConfig \/ OpenInput \/ CreateOutput
      BY <3>1 DEF ReadConfig, OpenInput, CreateOutput, GoOnOrExit, Stop
    <3>2. CASE ScanEnds \/ EndLine \/ Close
      BY <3>2 DEF ScanEnds, EndLine, Close, Stop
    <3> QED BY <1>1, <3>1, <3>2
  <2> QED BY <2>1, <2>2 DEF flags, flattening, Typed
<1>2. CASE ScanLine
  BY <1>2, ScanLineTyped
<1>3. CASE CountRecord \/ WriteRow
  <2>1. /\ UNCHANGED <<flags, pc, lineNo>> /\ pc = "records" /\ record < Len(Line.records)
        /\ record' = record + 1
    BY <1>3 DEF CountRecord, CountAndGoTo, WriteRow, HasRecord
  <2>2. input' = input /\ limit' = limit /\ verify' = verify /\ Line' = Line /\ lineNo' = lineNo
    BY <2>1 DEF flags, Line
  <2>3. Len(Line.records) \in Nat
    BY <2>1, StreamFacts, StreamTyped DEF Typed, Line
  <2>4. record' \in 0 .. Len(Line'.records)
    BY <2>1, <2>2, <2>3 DEF Typed
  <2>5. st' \in Counts
    <3>1. \/ st' = [st EXCEPT !.failed = @ + 1]
          \/ st' = [st EXCEPT !.invalid = @ + 1]
          \/ st' = [st EXCEPT !.rows = @ + 1]
      BY <1>3 DEF CountRecord, CountAndGoTo, Rejected, WriteRow
    <3>2. st \in Counts
      BY DEF Typed
    <3> QED BY <3>1, <3>2, CountsGrow
  <2>6. ThisRow \in Places
    BY <2>1, StreamTyped DEF ThisRow, Places
  <2>7. /\ buffered' \in Seq(Places) /\ Len(buffered') <= Capacity
        /\ written' \in Seq(Places)
    <3>1. CASE CountRecord
      BY <3>1 DEF CountRecord, CountAndGoTo, Typed
    <3>2. CASE WriteRow
      <4> DEFINE x == ThisRow
      <4> HIDE DEF x
      <4>1. x \in Places /\ buffered \in Seq(Places) /\ written \in Seq(Places)
            /\ Len(buffered) <= Capacity /\ Capacity \in Nat \ {0} /\ Len(buffered) \in Nat
        BY <2>6, StreamTyped DEF Typed, x
      <4>2. \/ Len(buffered) < Capacity /\ buffered' = Append(buffered, x) /\ written' = written
            \/ buffered' = <<x>> /\ written' = written \o buffered
        BY <3>2 DEF WriteRow, x
      <4>3. CASE Len(buffered) < Capacity /\ buffered' = Append(buffered, x) /\ written' = written
        BY <4>1, <4>3
      <4>4. CASE buffered' = <<x>> /\ written' = written \o buffered
        <5>1. written \o buffered \in Seq(Places)
          BY <4>1
        <5>2. <<x>> \in Seq(Places) /\ Len(<<x>>) = 1
          BY <4>1
        <5> QED BY <4>1, <4>4, <5>1, <5>2
      <4> QED BY <4>2, <4>3, <4>4
    <3> QED BY <1>3, <3>1, <3>2
  <2> QED BY <2>1, <2>2, <2>4, <2>5, <2>7 DEF Typed
<1>4. CASE WriteFails \/ Flush
  <2>1. /\ UNCHANGED <<flags, lineNo, st>> /\ pc' = "close"
        /\ buffered' = buffered \/ buffered' = <<>>
        /\ \/ written' = written \o buffered
           \/ \E got \in 0 .. Len(buffered) - 1 : written' = written \o SubSeq(buffered, 1, got)
    BY <1>4 DEF WriteFails, Flush, Stop
  <2>2. buffered \in Seq(Places) /\ written \in Seq(Places)
    BY DEF Typed
  <2>3. ASSUME NEW got \in 0 .. Len(buffered) - 1
        PROVE  SubSeq(buffered, 1, got) \in Seq(Places)
    <3>1. \A i \in 1 .. got : buffered[i] \in Places
      BY <2>2, ElementOfSeq
    <3> QED BY <3>1, SubSeqProperties
  <2>4. written' \in Seq(Places)
    <3>1. \A s \in Seq(Places) : written \o s \in Seq(Places)
      BY <2>2
    <3> QED BY <2>1, <2>2, <2>3, <3>1
  <2>5. buffered' \in Seq(Places) /\ Len(buffered') <= Capacity
    <3>1. <<>> \in Seq(Places) /\ Len(<<>>) = 0 /\ 0 <= Capacity
      BY StreamTyped
    <3> QED BY <2>1, <2>2, <3>1 DEF Typed
  <2> QED BY <2>1, <2>4, <2>5 DEF Typed, flags
<1> QED BY <1>1, <1>2, <1>3, <1>4 DEF Next

-----------------------------------------------------------------------------
(* Then, what is counted and written.                                       *)

(* When the handled records stay, so does all that is said of them. *)
LEMMA RecordsStay ==
  ASSUME Records, UNCHANGED flags, UNCHANGED <<buffered, written>>,
         st'.failed = st.failed, st'.invalid = st.invalid, st'.rows = st.rows,
         \A S : Handled(S)' = Handled(S),
         pc' \notin {"close", "exit"} \/ buffered = <<>>
  PROVE  Records'
<1>1. Failures' = Failures /\ Rejects' = Rejects /\ Rows' = Rows
  BY SameStream
<1>2. /\ Handled(Failures)' = Handled(Failures) /\ Handled(Rejects)' = Handled(Rejects)
      /\ Handled(Rows)' = Handled(Rows)
  BY <1>1
<1>3. Tally(Failures, st.failed)' /\ Tally(Rejects, st.invalid)' /\ Tally(Rows, st.rows)'
  BY <1>2 DEF Records, Tally
<1>4. InOrder(written \o buffered)' /\ Range(written \o buffered)' = Handled(Rows)'
  BY <1>2 DEF Records, InOrder, Before
<1> QED BY <1>3, <1>4 DEF Records

(* The stream before its first line. *)
Started ==
  /\ Typed /\ pc = "scan" /\ created /\ err = "none"
  /\ lineNo = 0 /\ buffered = <<>> /\ written = <<>>
  /\ st = [lines |-> 0, rows |-> 0, badLines |-> 0, failed |-> 0, invalid |-> 0]

LEMMA StartedIsReading == Started => Reading
<1> SUFFICES ASSUME Started PROVE Reading
  OBVIOUS
<1>1. NonBlank(0) = {} /\ Counted(0) = {} /\ Invalid(0) = {}
  BY DEF NonBlank, Counted, Invalid
<1>2. \A S : Handled(S) = {}
  <2>1. \A S : RecordsWith(0, S) = {}
    BY <1>1 DEF RecordsWith
  <2> QED BY <2>1 DEF Handled, Started
<1>3. IsFiniteSet({}) /\ Cardinality({}) = 0
  BY FS_EmptySet
<1>4. Lines
  <2>1. pc = "scan" /\ lineNo = 0 /\ st.lines = 0 /\ st.badLines = 0 /\ limit \in Nat
    BY StreamTyped DEF Started
  <2>2. limit > 0 => st.lines <= limit
    BY <2>1
  <2> QED BY <1>1, <1>3, <2>1, <2>2 DEF Lines
<1>5. Records
  <2>1. Tally(Failures, st.failed) /\ Tally(Rejects, st.invalid) /\ Tally(Rows, st.rows)
    BY <1>2, <1>3 DEF Tally, Started
  <2>2. written \o buffered = <<>>
    BY DEF Started
  <2>3. InOrder(written \o buffered) /\ Range(written \o buffered) = {}
    BY <2>2 DEF InOrder, Range
  <2> QED BY <1>2, <2>1, <2>3 DEF Records, Started
<1> QED BY <1>4, <1>5 DEF Reading, Started, Errors

LEMMA BeginKeeps ==
  ASSUME Typed, Untouched, ReadConfig \/ OpenInput \/ CreateOutput
  PROVE  Untouched' \/ Reading'
<1>1. UNCHANGED flattening /\ UNCHANGED flags
  BY DEF ReadConfig, OpenInput, CreateOutput
<1>2. CASE ReadConfig \/ OpenInput \/ (CreateOutput /\ pc' # "scan")
  BY <1>1, <1>2 DEF ReadConfig, OpenInput, CreateOutput, GoOnOrExit, Stop, Untouched, flattening, StartErrors
<1>3. CASE CreateOutput /\ pc' = "scan"
  <2>1. Typed'
    BY StepIsTyped DEF Next
  <2>2. Started'
    BY <1>1, <1>3, <2>1 DEF CreateOutput, GoOnOrExit, Stop, Untouched, flattening, Started
  <2>3. (Started => Reading)'
    BY StartedIsReading, PTL
  <2> QED BY <2>2, <2>3
<1> QED BY <1>2, <1>3

LEMMA ScanLineKeeps ==
  ASSUME Typed, Reading, ScanLine
  PROVE  Reading'
<1> DEFINE n == lineNo
<1>1. /\ UNCHANGED flags /\ UNCHANGED <<created, buffered, written>> /\ lineNo' = n + 1
      /\ pc = "scan" /\ n < Len(input) /\ input[n + 1].kind # "unreadable"
      /\ Skipped \/ Limited \/ Taken
  BY ScanLineCases
<1>2. input \in Inputs /\ n \in 0 .. Len(input) - 1 /\ n + 1 \in 1 .. Len(input) /\ n \in Nat
      /\ n + 1 \in 0 .. Len(input) /\ limit \in Nat
  BY <1>1, StreamTyped DEF Typed
<1>3. Lines /\ Records /\ created /\ err = "none"
  BY <1>1 DEF Reading, Fine
<1>4. /\ st.lines = Cardinality(Counted(n)) /\ st.badLines = Cardinality(Invalid(n))
      /\ NonBlank(n) = Counted(n) /\ (limit > 0 => st.lines <= limit)
      /\ st.lines \in Nat /\ st.badLines \in Nat
  BY <1>1, <1>3 DEF Lines, Typed, Counts
<1>5. /\ NonBlank(n + 1) = IF input[n + 1].kind = "blank" THEN NonBlank(n) ELSE NonBlank(n) \cup {n + 1}
      /\ Counted(n + 1) = IF IsCounted(n + 1) THEN Counted(n) \cup {n + 1} ELSE Counted(n)
      /\ n + 1 \notin NonBlank(n) /\ n + 1 \notin Counted(n)
      /\ IsFiniteSet(NonBlank(n)) /\ IsFiniteSet(Counted(n)) /\ IsFiniteSet(Invalid(n))
      /\ n + 1 \notin Invalid(n)
  BY <1>2, CountedGrows, CountedFinite DEF Invalid
<1>6. input[n + 1].kind # "blank" => Cardinality(NonBlank(n + 1)) = st.lines + 1
  BY <1>4, <1>5, FS_AddElement
<1>7. /\ \/ pc' \in {"scan", "records", "flush"} /\ err' = "none"
         \/ pc' = "close" /\ err' = "input error"
      /\ st'.failed = st.failed /\ st'.invalid = st.invalid /\ st'.rows = st.rows
  BY <1>1, <1>3 DEF Skipped, Limited, Taken, Typed, Counts
<1>8. Lines' /\ \A S : Handled(S)' = Handled(S)
  <2>1. CASE Skipped
    <3>1. input[n + 1].kind = "blank" /\ UNCHANGED <<pc, record, st>>
      BY <2>1 DEF Skipped
    <3>2. ~IsCounted(n + 1)
      BY <3>1 DEF IsCounted, NonBlank
    <3>3. NonBlank(n + 1) = NonBlank(n) /\ Counted(n + 1) = Counted(n) /\ Invalid(n + 1) = Invalid(n)
      BY <1>5, <3>1, <3>2 DEF Invalid
    <3>4. Lines'
      BY <1>1, <1>4, <3>1, <3>3, SameStream DEF Lines, flags
    <3>5. \A S : Handled(S)' = Handled(S)
      BY <1>1, <1>2, <3>1, <3>2, RecordsOfOther, SameStream DEF Handled
    <3> QED BY <3>4, <3>5
  <2>2. CASE Limited
    <3>1. /\ input[n + 1].kind # "blank" /\ limit > 0 /\ st.lines = limit
          /\ pc' \in {"flush", "close"} /\ UNCHANGED <<record, st>>
      BY <2>2 DEF Limited
    <3>2. Cardinality(NonBlank(n + 1)) > limit
      BY <1>2, <1>6, <3>1
    <3>3. ~IsCounted(n + 1)
      <4>1. Cardinality(NonBlank(n + 1)) = st.lines + 1
        BY <1>6, <3>1
      <4>2. ~(Cardinality(NonBlank(n + 1)) <= limit)
        BY <1>2, <3>1, <4>1
      <4> QED BY <3>1, <4>2 DEF IsCounted
    <3>4. Counted(Len(input)) = Counted(n + 1)
      BY <1>2, <3>1, <3>2, NoneAfterLimit
    <3>5. Counted(n + 1) = Counted(n) /\ Invalid(n + 1) = Invalid(n)
      BY <1>5, <3>3 DEF Invalid
    <3>6. Lines'
      BY <1>1, <1>4, <3>1, <3>4, <3>5, SameStream DEF Lines, flags
    <3>7. \A S : Handled(S)' = Handled(S)
      BY <1>1, <1>2, <3>1, <3>3, RecordsOfOther, SameStream DEF Handled
    <3> QED BY <3>6, <3>7
  <2>3. CASE Taken
    <3>1. /\ input[n + 1].kind # "blank" /\ ~(limit > 0 /\ st.lines = limit)
          /\ st'.lines = st.lines + 1
          /\ st'.badLines = IF input[n + 1].kind = "invalid" THEN st.badLines + 1 ELSE st.badLines
          /\ pc' = IF input[n + 1].kind = "json" THEN "records" ELSE "scan"
          /\ record' = 0
      BY <2>3 DEF Taken, Typed, Counts
    <3>2. IsCounted(n + 1)
      BY <1>2, <1>4, <1>6, <3>1 DEF IsCounted, NonBlank
    <3>3. /\ Counted(n + 1) = Counted(n) \cup {n + 1} /\ NonBlank(n + 1) = Counted(n + 1)
          /\ Invalid(n + 1) = IF input[n + 1].kind = "invalid" THEN Invalid(n) \cup {n + 1} ELSE Invalid(n)
      BY <1>4, <1>5, <3>1, <3>2 DEF Invalid
    <3>4. st'.lines = Cardinality(Counted(n + 1)) /\ st'.badLines = Cardinality(Invalid(n + 1))
      <4>1. st'.lines = Cardinality(Counted(n + 1))
        BY <1>6, <3>1, <3>3
      <4>2. Cardinality(Invalid(n) \cup {n + 1}) = Cardinality(Invalid(n)) + 1
        BY <1>5, FS_AddElement
      <4> QED BY <1>4, <3>1, <3>3, <4>1, <4>2
    <3>5. limit > 0 => st'.lines <= limit
      BY <1>2, <1>4, <3>1
    <3>6. Lines'
      BY <1>1, <1>2, <3>1, <3>2, <3>3, <3>4, <3>5, SameStream DEF Lines, flags
    <3>7. ASSUME NEW S PROVE Handled(S)' = Handled(S)
      <4>1. CASE input[n + 1].kind = "json"
        <5>1. InLine(n + 1, 0, S) = {}
          BY DEF InLine
        <5>2. Handled(S)' = RecordsWith(n, S) \cup InLine(n + 1, 0, S)
          <6>1. lineNo' - 1 = n /\ pc' = "records"
            BY <1>1, <1>2, <3>1, <4>1
          <6> QED BY <1>1, <3>1, <6>1, SameStream DEF Handled
        <5> QED BY <1>1, <5>1, <5>2 DEF Handled
      <4>2. CASE input[n + 1].kind # "json"
        BY <1>1, <1>2, <3>1, <4>2, RecordsOfOther, SameStream DEF Handled
      <4> QED BY <4>1, <4>2
    <3> QED BY <3>6, <3>7
  <2> QED BY <1>1, <2>1, <2>2, <2>3
<1>9. pc' # "close" => Records'
  BY <1>1, <1>3, <1>7, <1>8, RecordsStay
<1> QED BY <1>1, <1>3, <1>7, <1>8, <1>9 DEF Reading, Fine, Errors

LEMMA ScanEndsKeeps ==
  ASSUME Typed, Reading, ScanEnds
  PROVE  Reading'
<1>1. /\ UNCHANGED flags /\ UNCHANGED <<created, lineNo, record, st, buffered, written>> /\ pc = "scan"
      /\ \/ lineNo = Len(input) /\ pc' = "flush" /\ err' = "none"
         \/ pc' = "close" /\ err' = "input error"
  BY DEF ScanEnds, Stop
<1>2. Lines /\ Records /\ created
  BY <1>1 DEF Reading, Fine
<1>3. CASE pc' = "close" /\ err' = "input error"
  BY <1>1, <1>2, <1>3 DEF Reading, Fine, Errors
<1>4. CASE lineNo = Len(input) /\ pc' = "flush" /\ err' = "none"
  <2>1. \A S : Handled(S)' = Handled(S)
    BY <1>1, <1>4, SameStream DEF Handled
  <2>2. Records'
    BY <1>1, <1>2, <1>4, <2>1, RecordsStay
  <2>3. Lines'
    BY <1>1, <1>2, <1>4, SameStream DEF Lines, flags
  <2> QED BY <1>1, <1>2, <1>4, <2>2, <2>3 DEF Reading, Errors
<1> QED BY <1>1, <1>3, <1>4

(* The record that is handled next comes after all that were. *)
LEMMA RecordIsNext ==
  ASSUME Typed, Reading, HasRecord, NEW S, NEW y \in Handled(S)
  PROVE  y \in Places /\ Before(y, ThisRow) /\ y # ThisRow
<1>1. pc = "records" /\ Lines
  BY DEF HasRecord, Reading, Fine
<1>2. lineNo \in Nat /\ lineNo - 1 \in 0 .. Len(input) /\ record \in Nat /\ lineNo > 0
  BY <1>1, StreamTyped DEF Typed, Lines
<1>3. CASE y \in RecordsWith(lineNo - 1, S)
  <2>1. y \in Places /\ y[1] <= lineNo - 1
    BY <1>2, <1>3, RecordsAreBefore DEF Typed
  <2> QED BY <1>2, <2>1 DEF Places, Before, ThisRow
<1>4. CASE y \in InLine(lineNo, record, S)
  <2>1. PICK q \in 1 .. record : y = <<lineNo, q>>
    BY <1>4 DEF InLine
  <2> QED BY <1>2, <2>1 DEF Places, Before, ThisRow
<1> QED BY <1>1, <1>3, <1>4 DEF Handled

LEMMA HandledGrows ==
  ASSUME Typed, HasRecord, UNCHANGED flags, UNCHANGED <<pc, lineNo>>, record' = record + 1, NEW S
  PROVE  Handled(S)' = IF Outcome \in S THEN Handled(S) \cup {ThisRow} ELSE Handled(S)
<1>1. pc = "records" /\ record \in Nat /\ Outcome = input[lineNo].records[record + 1]
  BY StreamTyped DEF HasRecord, Outcome, Line
<1>2. InLine(lineNo, record + 1, S) = IF Outcome \in S THEN InLine(lineNo, record, S) \cup {ThisRow}
                                      ELSE InLine(lineNo, record, S)
  <2>1. \A q : q \in 1 .. record + 1 <=> q \in 1 .. record \/ q = record + 1
    BY <1>1
  <2> QED BY <1>1, <2>1 DEF InLine, ThisRow
<1>3. Handled(S)' = RecordsWith(lineNo - 1, S) \cup InLine(lineNo, record + 1, S)
  BY <1>1, SameStream DEF Handled
<1> QED BY <1>1, <1>2, <1>3 DEF Handled

LEMMA OutcomesApart ==
  /\ "failed" \in Failures /\ "failed" \notin Rejects /\ "failed" \notin Rows
  /\ verify => "badRow" \in Rejects
  /\ "badRow" \notin Failures /\ "row" \notin Failures /\ "row" \notin Rejects
  /\ Rejects \cap Rows = {}
  /\ "row" \in Rows /\ (~verify => "badRow" \in Rows)
BY DEF Failures, Rejects, Rows

(* The counts of lines stay while a record is handled. *)
LEMMA LinesStay ==
  ASSUME Lines, UNCHANGED flags, lineNo' = lineNo, pc = "records", pc' \in {"scan", "records"},
         st'.lines = st.lines, st'.badLines = st.badLines
  PROVE  Lines'
BY SameStream DEF Lines, flags

LEMMA CountRecordKeeps ==
  ASSUME Typed, Reading, CountRecord
  PROVE  Reading'
<1>1. /\ UNCHANGED flags /\ UNCHANGED <<created, pc, lineNo, buffered, written, err>> /\ pc = "records"
      /\ HasRecord /\ record' = record + 1
      /\ \/ Outcome = "failed" /\ st' = [st EXCEPT !.failed = @ + 1]
         \/ Outcome = "badRow" /\ verify /\ st' = [st EXCEPT !.invalid = @ + 1]
  BY DEF CountRecord, CountAndGoTo, Rejected, HasRecord
<1>2. Lines /\ Records /\ created /\ err = "none" /\ st \in Counts
  BY <1>1 DEF Reading, Fine, Typed
<1>3. Lines'
  BY <1>1, <1>2, LinesStay DEF Counts
<1>4. \A S : Handled(S)' = IF Outcome \in S THEN Handled(S) \cup {ThisRow} ELSE Handled(S)
  BY <1>1, HandledGrows
<1>5. \A S : ThisRow \notin Handled(S)
  BY <1>1, RecordIsNext
<1>6. Failures' = Failures /\ Rejects' = Rejects /\ Rows' = Rows
  BY <1>1, SameStream
<1>7. Outcome \notin Rows
  BY <1>1, OutcomesApart
<1>8. Tally(Failures, st.failed)' /\ Tally(Rejects, st.invalid)'
  <2>1. CASE Outcome = "failed" /\ st' = [st EXCEPT !.failed = @ + 1]
    <3>1. st'.failed = st.failed + 1 /\ st'.invalid = st.invalid
      BY <1>2, <2>1 DEF Counts
    <3>2. Handled(Failures)' = Handled(Failures) \cup {ThisRow} /\ Handled(Rejects)' = Handled(Rejects)
      BY <1>4, <1>6, <2>1, OutcomesApart
    <3> QED BY <1>2, <1>5, <3>1, <3>2, FS_AddElement DEF Tally, Records
  <2>2. CASE Outcome = "badRow" /\ verify /\ st' = [st EXCEPT !.invalid = @ + 1]
    <3>1. st'.failed = st.failed /\ st'.invalid = st.invalid + 1
      BY <1>2, <2>2 DEF Counts
    <3>2. Handled(Failures)' = Handled(Failures) /\ Handled(Rejects)' = Handled(Rejects) \cup {ThisRow}
      BY <1>4, <1>6, <2>2, OutcomesApart
    <3> QED BY <1>2, <1>5, <3>1, <3>2, FS_AddElement DEF Tally, Records
  <2> QED BY <1>1, <2>1, <2>2
<1>9. Handled(Rows)' = Handled(Rows) /\ st'.rows = st.rows
  BY <1>1, <1>2, <1>4, <1>6, <1>7 DEF Counts
<1>10. Records'
  <2>1. Tally(Rows, st.rows)'
    BY <1>2, <1>9 DEF Records, Tally
  <2>2. InOrder(written \o buffered)' /\ Range(written \o buffered)' = Handled(Rows)'
    BY <1>1, <1>2, <1>9 DEF Records, InOrder, Before
  <2> QED BY <1>1, <1>8, <2>1, <2>2 DEF Records
<1> QED BY <1>1, <1>2, <1>3, <1>10 DEF Reading

LEMMA WriteRowKeeps ==
  ASSUME Typed, Reading, WriteRow
  PROVE  Reading'
<1> DEFINE x == ThisRow
           rows == written \o buffered
<1>1. /\ UNCHANGED flags /\ UNCHANGED <<created, pc, lineNo, err>> /\ pc = "records"
      /\ HasRecord /\ record' = record + 1 /\ IsRow /\ st' = [st EXCEPT !.rows = @ + 1]
      /\ \/ buffered' = Append(buffered, x) /\ written' = written
         \/ written' = written \o buffered /\ buffered' = <<x>>
  BY DEF WriteRow, HasRecord
<1>2. /\ Lines /\ Records /\ created /\ err = "none" /\ st \in Counts
      /\ written \in Seq(Places) /\ buffered \in Seq(Places) /\ rows \in Seq(Places)
  BY <1>1 DEF Reading, Fine, Typed
<1>3. Lines'
  BY <1>1, <1>2, LinesStay DEF Counts
<1>4. \A S : Handled(S)' = IF Outcome \in S THEN Handled(S) \cup {x} ELSE Handled(S)
  BY <1>1, HandledGrows
<1>5. \A S : \A y \in Handled(S) : Before(y, x) /\ y # x
  BY <1>1, RecordIsNext
<1>6. Failures' = Failures /\ Rejects' = Rejects /\ Rows' = Rows
  BY <1>1, SameStream
<1>7. Outcome \in Rows /\ Outcome \notin Failures /\ Outcome \notin Rejects
  BY <1>1, OutcomesApart DEF IsRow
<1>8. /\ Handled(Failures)' = Handled(Failures) /\ Handled(Rejects)' = Handled(Rejects)
      /\ Handled(Rows)' = Handled(Rows) \cup {x} /\ x \notin Handled(Rows)
  BY <1>4, <1>5, <1>6, <1>7
<1>9. Tally(Failures, st.failed)' /\ Tally(Rejects, st.invalid)' /\ Tally(Rows, st.rows)'
  <2>1. st'.failed = st.failed /\ st'.invalid = st.invalid /\ st'.rows = st.rows + 1
    BY <1>1, <1>2 DEF Counts
  <2> HIDE DEF x
  <2> QED BY <1>2, <1>8, <2>1, FS_AddElement DEF Tally, Records
<1>10. x \in Places
  BY <1>1, StreamTyped DEF ThisRow, Places
<1>11. written' \o buffered' = Append(rows, x)
  <2> HIDE DEF x
  <2>1. CASE buffered' = Append(buffered, x) /\ written' = written
    BY <1>2, <1>10, <2>1
  <2>2. CASE written' = written \o buffered /\ buffered' = <<x>>
    BY <1>2, <1>10, <2>2
  <2> QED BY <1>1, <2>1, <2>2
<1>12. InOrder(rows) /\ Range(rows) = Handled(Rows)
  BY <1>2 DEF Records
<1>13. InOrder(Append(rows, x)) /\ Range(Append(rows, x)) = Handled(Rows) \cup {x}
  <2> HIDE DEF x, rows
  <2>1. /\ Len(rows) \in Nat /\ DOMAIN rows = 1 .. Len(rows)
        /\ DOMAIN Append(rows, x) = 1 .. Len(rows) + 1
        /\ \A i \in 1 .. Len(rows) : Append(rows, x)[i] = rows[i]
        /\ Append(rows, x)[Len(rows) + 1] = x
        /\ \A i \in 1 .. Len(rows) + 1 : i \in 1 .. Len(rows) \/ i = Len(rows) + 1
    BY <1>2, <1>10
  <2>2. \A i \in 1 .. Len(rows) : rows[i] \in Handled(Rows)
    BY <1>12, <2>1 DEF Range
  <2>3. InOrder(Append(rows, x))
    <3>1. ASSUME NEW i \in 1 .. Len(rows) + 1, NEW j \in 1 .. Len(rows) + 1, i < j
          PROVE  Before(Append(rows, x)[i], Append(rows, x)[j])
      <4>1. i \in 1 .. Len(rows)
        BY <2>1, <3>1
      <4>2. CASE j \in 1 .. Len(rows)
        <5>1. Before(rows[i], rows[j])
          BY <1>12, <2>1, <3>1, <4>1, <4>2 DEF InOrder
        <5> QED BY <2>1, <4>1, <4>2, <5>1
      <4>3. CASE j = Len(rows) + 1
        <5>1. Before(rows[i], x)
          BY <1>5, <2>2, <4>1
        <5> QED BY <2>1, <4>1, <4>3, <5>1
      <4> QED BY <2>1, <4>2, <4>3
    <3> QED BY <2>1, <3>1 DEF InOrder
  <2>4. Range(Append(rows, x)) = Range(rows) \cup {x}
    BY <2>1 DEF Range
  <2> QED BY <1>12, <2>3, <2>4
<1>14. Records'
  <2>1. InOrder(written \o buffered)'
    <3> DEFINE after == written' \o buffered'
    <3>1. InOrder(after)
      BY <1>11, <1>13
    <3>2. InOrder(written \o buffered)' <=> InOrder(after)
      BY DEF InOrder, Before
    <3> QED BY <3>1, <3>2
  <2>2. Range(written \o buffered)' = Handled(Rows)'
    BY <1>8, <1>11, <1>13
  <2> QED BY <1>1, <1>9, <2>1, <2>2 DEF Records
<1> QED BY <1>1, <1>2, <1>3, <1>14 DEF Reading

LEMMA EndLineKeeps ==
  ASSUME Typed, Reading, EndLine
  PROVE  Reading'
<1>1. /\ UNCHANGED flags /\ UNCHANGED <<created, lineNo, record, st, buffered, written, err>>
      /\ pc = "records" /\ pc' = "scan" /\ record = Len(input[lineNo].records)
  BY DEF EndLine, Line
<1>2. Lines /\ Records /\ created /\ err = "none"
  BY <1>1 DEF Reading, Fine
<1>3. Lines'
  BY <1>1, <1>2, LinesStay
<1>4. ASSUME NEW S PROVE Handled(S)' = Handled(S)
  <2>1. lineNo - 1 \in 0 .. Len(input) - 1 /\ lineNo - 1 + 1 = lineNo /\ IsCounted(lineNo)
    BY <1>1, <1>2, StreamTyped DEF Lines, Typed
  <2>2. RecordsWith(lineNo, S) = RecordsWith(lineNo - 1, S) \cup InLine(lineNo, record, S)
    BY <1>1, <2>1, RecordsGrow DEF Typed
  <2> QED BY <1>1, <2>2, SameStream DEF Handled
<1>5. Records'
  BY <1>1, <1>2, <1>4, RecordsStay
<1> QED BY <1>1, <1>2, <1>3, <1>5 DEF Reading

(* Lines after the last one. *)
LEMMA LinesDone ==
  ASSUME Lines, UNCHANGED flags, UNCHANGED <<lineNo, st>>,
         pc \notin {"scan", "records"}, pc' \notin {"scan", "records"}
  PROVE  Lines'
BY SameStream DEF Lines, flags

LEMMA FlushKeeps ==
  ASSUME Typed, Reading, Flush
  PROVE  Reading'
<1>1. /\ UNCHANGED flags /\ UNCHANGED <<created, lineNo, record, st>> /\ pc = "flush" /\ pc' = "close"
      /\ \/ written' = written \o buffered /\ buffered' = <<>> /\ err' = "none"
         \/ err' = "output error"
  BY DEF Flush, Stop
<1>2. Lines /\ Records /\ created
  BY <1>1 DEF Reading, Fine
<1>3. CASE err' = "output error"
  BY <1>1, <1>2, <1>3 DEF Reading, Fine, Errors
<1>4. CASE written' = written \o buffered /\ buffered' = <<>> /\ err' = "none"
  <2>1. Lines'
    BY <1>1, <1>2, LinesDone
  <2>2. written' \o buffered' = written \o buffered
    <3>1. written \o buffered \in Seq(Places)
      BY DEF Typed
    <3> QED BY <1>4, <3>1, ConcatEmptySeq
  <2>3. Failures' = Failures /\ Rejects' = Rejects /\ Rows' = Rows
    BY <1>1, SameStream
  <2>4. /\ Handled(Failures)' = Handled(Failures) /\ Handled(Rejects)' = Handled(Rejects)
        /\ Handled(Rows)' = Handled(Rows)
    BY <1>1, <2>3, SameStream DEF Handled
  <2>5. Tally(Failures, st.failed)' /\ Tally(Rejects, st.invalid)' /\ Tally(Rows, st.rows)'
    BY <1>1, <1>2, <2>4 DEF Records, Tally
  <2>6. InOrder(written \o buffered)' /\ Range(written \o buffered)' = Handled(Rows)'
    <3> DEFINE rows == written \o buffered
               after == written' \o buffered'
    <3>1. InOrder(rows) /\ Range(rows) = Handled(Rows) /\ after = rows
      BY <1>2, <2>2 DEF Records
    <3> HIDE DEF rows, after
    <3>2. InOrder(after) /\ Range(after) = Handled(Rows)'
      BY <2>4, <3>1
    <3>3. InOrder(written \o buffered)' <=> InOrder(after)
      BY DEF InOrder, Before, after
    <3> QED BY <3>2, <3>3 DEF after
  <2>7. Records'
    BY <1>4, <2>5, <2>6 DEF Records
  <2> QED BY <1>1, <1>2, <1>4, <2>1, <2>7 DEF Reading, Errors
<1> QED BY <1>1, <1>3, <1>4

LEMMA CloseKeeps ==
  ASSUME Typed, Reading, Close
  PROVE  Reading'
<1>1. /\ UNCHANGED flags /\ UNCHANGED <<created, lineNo, record, st, buffered, written>>
      /\ pc = "close" /\ pc' = "exit"
      /\ err' \in {"none", "output error", "rows failed verification", err}
      /\ err' \in {"none", "rows failed verification"} => err \in {"none", "rows failed verification"}
  BY DEF Close, Stop
<1>2. created /\ err \in Errors
  BY <1>1 DEF Reading
<1>3. err' \in Errors
  BY <1>1, <1>2 DEF Errors
<1>4. ASSUME Fine' PROVE Lines' /\ Records'
  <2>1. Lines /\ Records
    BY <1>1, <1>4 DEF Reading, Fine
  <2>2. \A S : Handled(S)' = Handled(S)
    BY <1>1, SameStream DEF Handled
  <2>3. buffered = <<>>
    BY <1>1, <2>1 DEF Records
  <2> QED BY <1>1, <2>1, <2>2, <2>3, LinesDone, RecordsStay
<1> QED BY <1>1, <1>2, <1>3, <1>4 DEF Reading

LEMMA WriteFailsKeeps ==
  ASSUME Reading, WriteFails
  PROVE  Reading'
BY DEF WriteFails, HasRecord, Stop, Reading, Fine, Errors

LEMMA StutterKeeps ==
  ASSUME IInv, UNCHANGED vars
  PROVE  IInv'
<1>1. /\ UNCHANGED <<input, limit, verify, pc, created, lineNo, record, st, buffered, written, err>>
      /\ UNCHANGED flags
  BY DEF vars, flags
<1>2. Typed'
  BY <1>1 DEF IInv, Typed, Line
<1>3. Untouched => Untouched'
  BY <1>1 DEF Untouched
<1>4. ASSUME Reading PROVE Reading'
  <2>1. ASSUME Fine PROVE Lines' /\ Records'
    <3>1. Lines /\ Records
      BY <1>4, <2>1 DEF Reading
    <3>2. \A S : Handled(S)' = Handled(S)
      BY <1>1, SameStream DEF Handled
    <3>3. Lines'
      BY <1>1, <3>1, SameStream DEF Lines
    <3> QED BY <1>1, <3>1, <3>2, <3>3, RecordsStay DEF Records
  <2> QED BY <1>1, <1>4, <2>1 DEF Reading, Fine
<1> QED BY <1>2, <1>3, <1>4 DEF IInv

LEMMA InitHolds == Init => IInv
<1> SUFFICES ASSUME Init PROVE IInv
  OBVIOUS
<1>1. Len(input) \in Nat
  BY StreamFacts DEF Init
<1>2. Typed
  BY <1>1, InputsAssumption DEF Init, Typed, Counts
<1>3. Untouched
  BY DEF Init, Untouched
<1> QED BY <1>2, <1>3 DEF IInv

LEMMA StepKeeps == IInv /\ [Next]_vars => IInv'
<1> SUFFICES ASSUME IInv, Next PROVE IInv'
  BY StutterKeeps
<1>1. Typed'
  BY StepIsTyped DEF IInv
<1>2. Untouched' \/ Reading'
  <2>1. CASE ReadConfig \/ OpenInput \/ CreateOutput
    <3>1. Typed /\ Untouched
      BY <2>1 DEF ReadConfig, OpenInput, CreateOutput, IInv, Reading
    <3> QED BY <2>1, <3>1, BeginKeeps
  <2>2. CASE ScanEnds \/ ScanLine \/ CountRecord \/ WriteRow \/ WriteFails \/ EndLine \/ Flush \/ Close
    <3>1. pc \notin {"config", "open", "create", "exit"}
      <4>1. ScanLine => pc = "scan"
        BY ScanLineCases
      <4> QED BY <2>2, <4>1 DEF ScanEnds, CountRecord, CountAndGoTo, WriteRow, WriteFails, HasRecord,
                                EndLine, Flush, Close
    <3>2. Typed /\ Reading
      BY <3>1 DEF IInv, Untouched
    <3> QED BY <2>2, <3>2, ScanEndsKeeps, ScanLineKeeps, CountRecordKeeps, WriteRowKeeps, WriteFailsKeeps,
               EndLineKeeps, FlushKeeps, CloseKeeps
  <2> QED BY <2>1, <2>2 DEF Next
<1> QED BY <1>1, <1>2 DEF IInv

LEMMA Invariance == Spec => []IInv
BY InitHolds, StepKeeps, PTL DEF Spec

-----------------------------------------------------------------------------

(* The command's variables have their types: its place in the stream is one,*)
(* no counter falls below zero, and the buffer of the writer, which never   *)
(* holds more than its capacity, and the output hold rows (flatten).        *)
THEOREM NdjsonTypeCorrect == Spec => []TypeOK
<1>1. IInv => TypeOK
  <2> SUFFICES ASSUME IInv PROVE TypeOK
    OBVIOUS
  <2>1. pc \in {"config", "open", "create", "scan", "records", "flush", "close", "exit"}
    BY DEF IInv, Untouched, Reading
  <2>2. err \in StartErrors \cup {"none", "input error", "output error", "rows failed verification"}
    BY DEF IInv, Untouched, Reading, Errors
  <2> QED BY <2>1, <2>2 DEF IInv, Typed, Counts, Places, TypeOK
<1> QED BY <1>1, Invariance, PTL

(* A command that succeeds has written the rows of all the lines it was     *)
(* asked for, once each and in their order; one that cannot start leaves an *)
(* output file that was there before as it was (flatten, run).              *)
THEOREM SuccessCompletes == Spec => []SuccessIsComplete
<1>1. IInv => SuccessIsComplete
  <2> SUFFICES ASSUME IInv, pc = "exit" PROVE SuccessIsComplete
    BY DEF SuccessIsComplete
  <2>1. ASSUME err \in {"none", "rows failed verification"}
        PROVE  created /\ InOrder(written) /\ Range(written) = RecordsWith(Len(input), Rows)
    <3>1. created /\ Lines /\ Records
      BY <2>1 DEF IInv, Untouched, StartErrors, Reading, Fine
    <3>2. buffered = <<>> /\ Counted(Len(input)) = Counted(lineNo)
      BY <3>1 DEF Records, Lines
    <3>3. written \o buffered = written
      BY <3>2, ConcatEmptySeq DEF IInv, Typed
    <3>4. RecordsWith(Len(input), Rows) = RecordsWith(lineNo, Rows)
      BY <3>2 DEF RecordsWith
    <3> QED BY <3>1, <3>3, <3>4 DEF Records, Handled
  <2>2. ASSUME err \in StartErrors PROVE ~created /\ written = <<>>
    BY <2>2, ErrorsAreApart DEF IInv, Untouched, Reading
  <2> QED BY <2>1, <2>2 DEF SuccessIsComplete
<1> QED BY <1>1, Invariance, PTL

(* "a bad line or a bad record is counted and the run carries on": between  *)
(* two lines, and when the command succeeds, each count is that of the lines*)
(* read (flatten).                                                          *)
THEOREM CountsHold == Spec => []CountsAreTrue
<1>1. IInv => CountsAreTrue
  <2> SUFFICES ASSUME IInv, pc = "scan" \/ (pc = "exit" /\ err = "none") PROVE CountsAreTrue
    BY DEF CountsAreTrue
  <2>1. Lines /\ Records
    BY DEF IInv, Untouched, StartErrors, Reading, Fine
  <2>2. \A S : Handled(S) = RecordsWith(lineNo, S)
    BY DEF Handled
  <2> QED BY <2>1, <2>2 DEF CountsAreTrue, Lines, Records, Tally, Invalid
<1> QED BY <1>1, Invariance, PTL

=============================================================================
