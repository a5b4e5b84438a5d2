----------------------------- MODULE Documents -----------------------------
(***************************************************************************)
(* The documents callers hand to a Transformer, and what the compiled      *)
(* config makes of each, as far as calls, callbacks and the pool can tell: *)
(* how long the input is, which source records it holds, and for each      *)
(* record whether it fails and how many rows it gives.  What is in a row   *)
(* is the subject of RowBuilder.                                           *)
(***************************************************************************)
EXTENDS Naturals, Sequences

CONSTANTS
  Docs,        (* the names of the documents                            *)
  shape,       (* what each document looks like to the engine           *)
  Options,     (* the Options callers may give to Each                  *)
  NoDoc,       (* a nil *fastjson.Value                                 *)
  NoVars,      (* a nil Options.Vars                                    *)
  Simple,      (* no input.explode and no outputs: Append is allowed    *)
  Naming,      (* "none": no outputs; "literal" or "derived" names      *)
  Junk         (* bytes a callback wrote over what it was shown         *)

(* What a source record does: err names the error build stops with, "none" *)
(* if there is none; rows counts the rows finished before that.            *)
SourceRecord ==
  [err : {"none", "ErrRootNotContainer", "ErrRequired", "ErrRow"},
   rows : Nat, readsNow : BOOLEAN]

(* batch tells what input.explode finds: nothing (or no input.explode), an *)
(* array, or something else. A document without a batch is one record.     *)
Shape ==
  [size : Nat, valid : BOOLEAN, batch : {"absent", "array", "other"},
   records : Seq(SourceRecord)]

(* The zero time.Time; the clock starts after it. *)
NoTime == 0

NoOptions == [now |-> NoTime, vars |-> NoVars]

ASSUME DocumentsAssumption ==
  /\ shape \in [Docs -> Shape]
  /\ \A d \in Docs : shape[d].batch = "absent" => Len(shape[d].records) = 1
  /\ NoDoc \notin Docs
  /\ NoOptions \in Options
  /\ \A o \in Options : DOMAIN o = {"now", "vars"} /\ o.now \in Nat
  /\ Naming \in {"none", "literal", "derived"}
  /\ Simple \in BOOLEAN
  /\ NoDoc \notin [doc : Docs, index : Nat, env : Docs \cup {NoDoc}]
  /\ Simple => /\ Naming = "none"
               /\ \A d \in Docs : shape[d].batch = "absent" /\ shape[d].records[1].rows <= 1

-----------------------------------------------------------------------------
(* The contents of a row, of the exposed fields and of a derived name: all *)
(* that they are computed from. Positions count from 0, as in the code.    *)

RecordAt(d, i) == shape[d].records[i + 1]

RowOf(d, i, k, env, opt, now) ==
  [doc |-> d, index |-> i, row |-> k, env |-> env, vars |-> opt.vars,
   now |-> IF RecordAt(d, i).readsNow THEN now ELSE NoTime]

FieldsOf(d, i, env) == [doc |-> d, index |-> i, env |-> env]
NameOf(d, i, opt)   == [doc |-> d, index |-> i, vars |-> opt.vars]

(* The error a record is reported with: a record without rows has none to  *)
(* show (ErrNoOutput).                                                     *)
ErrorOf(r) == IF r.err = "none" /\ r.rows = 0 THEN "ErrNoOutput" ELSE r.err

(* How often fn is called for a record: once for an error, else per row.   *)
Deliveries(d, i) ==
  IF ErrorOf(RecordAt(d, i)) # "none" THEN 1 ELSE RecordAt(d, i).rows

=============================================================================
