--------------------------- MODULE NdjsonFlatten ---------------------------
(***************************************************************************)
(* The command of example/main.go: run and flatten read an NDJSON stream   *)
(* line by line, give every line to Each, and write the rows through a     *)
(* buffered writer.  The callback, the scanner and the writer share the    *)
(* statistics, which run prints whatever happened.                         *)
(*                                                                         *)
(* bufio.Scanner, bufio.Writer and the files are external: the config or   *)
(* the input may be unusable, the output may not be there to be created, a *)
(* scanner may stop with an error (a line longer than maxLine, a broken    *)
(* gzip stream), a write or the close of the file may fail at any time.    *)
(***************************************************************************)
EXTENDS Integers, Sequences, SequencesExt, FiniteSets

CONSTANTS
  Inputs,     (* the streams: sequences of lines                         *)
  Limits,     (* the values of -limit, 0 for none                        *)
  Capacity    (* rows the buffer of the writer holds: 1 << 20 bytes      *)

(* A line is blank, not JSON, unreadable, or the outcome of its records: a  *)
(* row, a failed record, or a row that -verify rejects.                     *)
Outcomes == {"row", "failed", "badRow"}

IsLine(line) ==
  /\ DOMAIN line = {"kind", "records"}
  /\ line.kind \in {"blank", "invalid", "unreadable", "json"}
  /\ line.records \in Seq(Outcomes)
  /\ line.kind # "json" => line.records = <<>>

ASSUME InputsAssumption ==
  /\ \A in \in Inputs : in \in Seq(Range(in)) /\ \A p \in DOMAIN in : IsLine(in[p])
  /\ Limits \subseteq Nat
  /\ Capacity \in Nat \ {0}

VARIABLES
  input, limit, verify,   (* the stream and the flags, fixed             *)
  pc,                     (* the step of run, then of flatten            *)
  created,                (* the output file is new, its old rows gone   *)
  lineNo,                 (* the lines read                              *)
  record,                 (* the records of the line handled so far      *)
  st,                     (* the statistics                              *)
  buffered,               (* the rows in the buffer of the writer        *)
  written,                (* the rows in the output                      *)
  err                     (* what flatten, then run, returns             *)

vars == <<input, limit, verify, pc, created, lineNo, record, st, buffered, written, err>>
flags == <<input, limit, verify>>
flattening == <<lineNo, record, st, buffered, written>>

Init ==
  /\ input \in Inputs
  /\ limit \in Limits
  /\ verify \in BOOLEAN
  /\ pc = "config"
  /\ created = FALSE
  /\ lineNo = 0
  /\ record = 0
  /\ st = [lines |-> 0, rows |-> 0, badLines |-> 0, failed |-> 0, invalid |-> 0]
  /\ buffered = <<>>
  /\ written = <<>>
  /\ err = "none"

Line == input[lineNo]
Stop(where, error) == pc' = where /\ err' = error

-----------------------------------------------------------------------------

(* run, before flatten: the config is read and compiled, the input opened,  *)
(* then the output created. Any of them may fail, and nothing more is done, *)
(* the statistics included.                                                 *)
GoOnOrExit(next, error) == (pc' = next /\ UNCHANGED err) \/ Stop("exit", error)

ReadConfig ==
  /\ pc = "config"
  /\ GoOnOrExit("open", "config error")
  /\ UNCHANGED <<flags, created, flattening>>

OpenInput ==
  /\ pc = "open"
  /\ GoOnOrExit("create", "no input")
  /\ UNCHANGED <<flags, created, flattening>>

CreateOutput ==
  /\ pc = "create"
  /\ GoOnOrExit("scan", "no output")
  /\ created' = (pc' = "scan")
  /\ UNCHANGED <<flags, flattening>>

(* The scanner reaches the end of the stream, or cannot go on: then flatten *)
(* returns at once.                                                         *)
ScanEnds ==
  /\ pc = "scan"
  /\ IF lineNo = Len(input) THEN Stop("flush", "none")
     ELSE input[lineNo + 1].kind = "unreadable" /\ Stop("close", "input error")
  /\ UNCHANGED <<flags, created, lineNo, record, st, buffered, written>>

IsAtLimit == limit > 0 /\ st.lines = limit

(* A reader that is ahead of the lines may have met what it cannot read. *)
MayHaveFailed == \E p \in lineNo + 2 .. Len(input) : input[p].kind = "unreadable"

(* A line is read. A blank one does not count; the one after the last that  *)
(* -limit allows ends the loop, after which the scanner is asked for its    *)
(* error: with one, flatten returns at once here too.                       *)
ScanLine ==
  /\ pc = "scan"
  /\ lineNo < Len(input)
  /\ input[lineNo + 1].kind # "unreadable"
  /\ lineNo' = lineNo + 1
  /\ LET kind == input[lineNo + 1].kind
     IN  \/ kind = "blank" /\ UNCHANGED <<pc, record, st, err>>
         \/ /\ kind # "blank" /\ IsAtLimit
            /\ \/ pc' = "flush" /\ UNCHANGED err
               \/ MayHaveFailed /\ Stop("close", "input error")
            /\ UNCHANGED <<record, st>>
         \/ /\ kind # "blank" /\ ~IsAtLimit
            /\ st' = [st EXCEPT !.lines = @ + 1,
                                !.badLines = IF kind = "invalid" THEN @ + 1 ELSE @]
            /\ pc' = IF kind = "json" THEN "records" ELSE "scan"
            /\ record' = 0
            /\ UNCHANGED err
  /\ UNCHANGED <<flags, created, buffered, written>>

HasRecord == pc = "records" /\ record < Len(Line.records)
Outcome == Line.records[record + 1]

\* A slip of the callback: a rejected row is taken off the rows, where it is
\* not counted yet.
RejectedIsNoRow == [st EXCEPT !.invalid = @ + 1, !.rows = @ - 1]

Rejected == [st EXCEPT !.invalid = @ + 1]

(* The callback, for a failed record and for a row that -verify rejects. *)
CountAndGoTo(next) ==
  /\ HasRecord
  /\ \/ /\ Outcome = "failed"
        /\ st' = [st EXCEPT !.failed = @ + 1]
     \/ /\ Outcome = "badRow" /\ verify
        /\ st' = Rejected
  /\ record' = next
  /\ UNCHANGED <<flags, created, pc, lineNo, buffered, written, err>>

\* A slip of the callback: the error of a record is returned, so Each stops.
CountRecordAndStop == CountAndGoTo(Len(Line.records))

CountRecord == CountAndGoTo(record + 1)

IsRow == Outcome = "row" \/ (Outcome = "badRow" /\ ~verify)
ThisRow == <<lineNo, record + 1>>

(* The callback writes a row; a buffer that is full goes out first. *)
WriteRow ==
  /\ HasRecord
  /\ IsRow
  /\ IF Len(buffered) < Capacity
     THEN /\ buffered' = Append(buffered, ThisRow)
          /\ UNCHANGED written
     ELSE /\ written' = written \o buffered
          /\ buffered' = <<ThisRow>>
  /\ st' = [st EXCEPT !.rows = @ + 1]
  /\ record' = record + 1
  /\ UNCHANGED <<flags, created, pc, lineNo, err>>

(* The output fails when the buffer goes out: the callback stops Each, and  *)
(* flatten returns. Some of the buffer may have got through.                *)
WriteFails ==
  /\ HasRecord
  /\ IsRow
  /\ Len(buffered) = Capacity
  /\ \E got \in 0 .. Len(buffered) - 1 : written' = written \o SubSeq(buffered, 1, got)
  /\ Stop("close", "output error")
  /\ UNCHANGED <<flags, created, lineNo, record, st, buffered>>

EndLine ==
  /\ pc = "records"
  /\ record = Len(Line.records)
  /\ pc' = "scan"
  /\ UNCHANGED <<flags, created, lineNo, record, st, buffered, written, err>>

\* A slip of flatten: it returns without a flush.
FlushForgotten ==
  /\ pc = "flush"
  /\ Stop("close", "none")
  /\ UNCHANGED <<flags, created, lineNo, record, st, buffered, written>>

Flush ==
  /\ pc = "flush"
  /\ \/ /\ written' = written \o buffered
        /\ buffered' = <<>>
        /\ Stop("close", "none")
     \/ /\ buffered # <<>>
        /\ \E got \in 0 .. Len(buffered) - 1 : written' = written \o SubSeq(buffered, 1, got)
        /\ Stop("close", "output error")
        /\ UNCHANGED buffered
  /\ UNCHANGED <<flags, created, lineNo, record, st>>

(* run closes the output, whose error counts unless there is one already;  *)
(* rows that failed verification are an error of their own.                 *)
Close ==
  /\ pc = "close"
  /\ \E closing \in {"none", "output error"} :
       LET e == IF err = "none" THEN closing ELSE err
       IN  Stop("exit", IF e = "none" /\ st.invalid > 0 THEN "rows failed verification" ELSE e)
  /\ UNCHANGED <<flags, created, lineNo, record, st, buffered, written>>

Next ==
  \/ ReadConfig \/ OpenInput \/ CreateOutput
  \/ ScanEnds \/ ScanLine
  \/ CountRecord \/ WriteRow \/ WriteFails \/ EndLine
  \/ Flush \/ Close

Spec == Init /\ [][Next]_vars

-----------------------------------------------------------------------------
(* The reference: what a stream should give, from its lines alone.          *)

(* The counted lines among the first n: those that are not blank, as many   *)
(* of them as -limit allows.                                                *)
NonBlank(n) == {p \in 1 .. n : input[p].kind # "blank"}
IsCounted(p) == p \in NonBlank(p) /\ (limit > 0 => Cardinality(NonBlank(p)) <= limit)
Counted(n) == {p \in 1 .. n : IsCounted(p)}

(* Their records with an outcome, each a line and a place in it. *)
RecordsWith(n, outcomes) ==
  UNION {{p} \X {q \in DOMAIN input[p].records : input[p].records[q] \in outcomes} :
         p \in Counted(n)}

Failures == {"failed"}
Rejects == IF verify THEN {"badRow"} ELSE {}
Rows == {"row", "badRow"} \ Rejects

(* In the order of the stream. *)
Before(x, y) == x[1] < y[1] \/ (x[1] = y[1] /\ x[2] < y[2])
InOrder(rows) == \A i, j \in DOMAIN rows : i < j => Before(rows[i], rows[j])

StartErrors == {"config error", "no input", "no output"}

(* The type of the command's variables: counters that are never taken below *)
(* zero, and rows, each a line and a place in it, in the buffer and in the  *)
(* output.                                                                  *)
TypeOK ==
  /\ input \in Inputs
  /\ limit \in Limits
  /\ pc \in {"config", "open", "create", "scan", "records", "flush", "close", "exit"}
  /\ lineNo \in 0 .. Len(input)
  /\ pc = "records" => record \in 0 .. Len(Line.records)
  /\ st \in [lines : Nat, rows : Nat, badLines : Nat, failed : Nat, invalid : Nat]
  /\ buffered \in Seq(Nat \X Nat) /\ Len(buffered) <= Capacity
  /\ written \in Seq(Nat \X Nat)
  /\ err \in StartErrors \cup {"none", "input error", "output error", "rows failed verification"}

(* When the command succeeds, but for rows that -verify rejects, the output *)
(* holds the rows of all the lines it was asked for, in their order, however *)
(* often the buffer went out on the way; when it cannot start, an output     *)
(* file that was there before is left as it was (flatten, run).              *)
SuccessIsComplete ==
  pc = "exit" =>
    /\ err \in {"none", "rows failed verification"} =>
         created /\ InOrder(written) /\ Range(written) = RecordsWith(Len(input), Rows)
    /\ err \in StartErrors => ~created /\ written = <<>>

(* A bad line or a bad record is counted and the run carries on (the        *)
(* comment of flatten): between two lines each count is that of the lines   *)
(* read, and nothing read is left out.                                      *)
CountsAreTrue ==
  pc = "scan" \/ (pc = "exit" /\ err = "none") =>
    /\ st.lines = Cardinality(Counted(lineNo))
    /\ st.badLines = Cardinality({p \in Counted(lineNo) : input[p].kind = "invalid"})
    /\ st.failed = Cardinality(RecordsWith(lineNo, Failures))
    /\ st.invalid = Cardinality(RecordsWith(lineNo, Rejects))
    /\ st.rows = Cardinality(RecordsWith(lineNo, Rows))

(* What run prints as "rows written" is in the output, unless the output    *)
(* itself failed: the comment of stats.rows. The code breaks it: flatten    *)
(* returns an input error without flushing the rows it has buffered.        *)
RowsWritten ==
  pc = "exit" /\ err # "output error" => st.rows = Len(written)

=============================================================================
