----------------------------- MODULE EachCalls -----------------------------
(***************************************************************************)
(* What a Transformer promises to concurrent callers (the comments of      *)
(* Append, Each and Record in transform.go): every call behaves as if it   *)
(* were alone and the Transformer had no memory of other calls.            *)
(*                                                                         *)
(*   - Each hands fn, record by record and row by row, exactly what its    *)
(*     own document, Vars and Now make, never part of a failed record.     *)
(*   - All the rows of a call carry one "$now": Options.Now, or the clock  *)
(*     at some moment of the call.                                         *)
(*   - Append appends one row to dst, or returns dst unchanged.            *)
(*   - A callback may write over what it is shown: the other rows of that  *)
(*     record may suffer, nothing else does.                               *)
(***************************************************************************)
EXTENDS Documents

CONSTANTS
  Callers,     (* goroutines, and calls nested in a callback            *)
  Times        (* the values of the clock                               *)

VARIABLES
  clock,       (* the wall clock                                        *)
  phase,       (* "idle", "running", "callback" or "stopped"            *)
  job,         (* what the call was given                               *)
  index, row,  (* the position of the next, or the shown, delivery      *)
  now,         (* "$now" of the call, NoTime until it is first needed   *)
  shown,       (* the Record the callback was last given                *)
  spoilt,      (* what callbacks wrote over in the current record       *)
  result,      (* what the last call returned                           *)
  buffer       (* the bytes the caller owns: dst, then Append's result  *)

vars == <<clock, phase, job, index, row, now, shown, spoilt, result, buffer>>

(* Append has no Options. *)
Jobs ==
  [op : {"each"}, doc : Docs, opt : Options]
  \cup (IF Simple THEN [op : {"append"}, doc : Docs, opt : {NoOptions}] ELSE {})

NoJob == [op |-> "none", doc |-> NoDoc, opt |-> NoOptions]

(* The envelope, seen by input.inherit and the expose sources. *)
Envelope(j) == IF shape[j.doc].batch = "array" THEN j.doc ELSE NoDoc

(* What fn is shown at a position. Fields and a derived name are shared by  *)
(* the rows of a record, so they stay as an earlier callback left them;     *)
(* a callback that wrote past the end of its row spoilt the next ones.      *)
Delivery(j, i, k, time, spoil) ==
  LET d   == j.doc
      r   == RecordAt(d, i)
      env == Envelope(j)
      bad == ErrorOf(r) # "none"
  IN  [index  |-> i,
       err    |-> ErrorOf(r),
       json   |-> IF bad THEN NoDoc
                  ELSE IF spoil = "past" THEN Junk
                  ELSE RowOf(d, i, k, env, j.opt, time),
       name   |-> IF bad \/ Naming = "none" THEN NoDoc
                  ELSE IF Naming = "literal" THEN "literal"
                  ELSE IF spoil # "no" THEN Junk ELSE NameOf(d, i, j.opt),
       fields |-> IF r.err = "ErrRootNotContainer" THEN NoDoc
                  ELSE IF spoil # "no" THEN Junk ELSE FieldsOf(d, i, env)]

NoDelivery == [index |-> 0, err |-> "none", json |-> NoDoc, name |-> NoDoc,
               fields |-> NoDoc]

-----------------------------------------------------------------------------

Init ==
  /\ clock = 1
  /\ phase = [c \in Callers |-> "idle"]
  /\ job = [c \in Callers |-> NoJob]
  /\ index = [c \in Callers |-> 0]
  /\ row = [c \in Callers |-> 0]
  /\ now = [c \in Callers |-> NoTime]
  /\ shown = [c \in Callers |-> NoDelivery]
  /\ spoilt = [c \in Callers |-> "no"]
  /\ result = [c \in Callers |-> "none"]
  /\ buffer = [c \in Callers |-> <<>>]

Tick ==
  /\ clock + 1 \in Times
  /\ clock' = clock + 1
  /\ UNCHANGED <<phase, job, index, row, now, shown, spoilt, result, buffer>>

(* The caller empties the buffer it appends to. *)
Recycle(c) ==
  /\ phase[c] = "idle"
  /\ buffer' = [buffer EXCEPT ![c] = <<>>]
  /\ UNCHANGED <<clock, phase, job, index, row, now, shown, spoilt, result>>

Start(c, j) ==
  /\ phase[c] = "idle"
  /\ phase' = [phase EXCEPT ![c] = "running"]
  /\ job' = [job EXCEPT ![c] = j]
  /\ index' = [index EXCEPT ![c] = 0]
  /\ row' = [row EXCEPT ![c] = 0]
  /\ spoilt' = [spoilt EXCEPT ![c] = "no"]
  /\ result' = [result EXCEPT ![c] = "none"]
  /\ UNCHANGED <<clock, shown, now, buffer>>

(* "$now" is needed for the first time in this call. *)
ReadClock(c) ==
  /\ phase[c] = "running"
  /\ now[c] = NoTime
  /\ now' = [now EXCEPT ![c] = IF job[c].opt.now # NoTime THEN job[c].opt.now ELSE clock]
  /\ UNCHANGED <<clock, phase, job, index, row, shown, spoilt, result, buffer>>

Exploded(j) == shape[j.doc].valid /\ shape[j.doc].batch # "other"

Deliver(c) ==
  /\ phase[c] = "running"
  /\ job[c].op = "each"
  /\ Exploded(job[c])
  /\ index[c] < Len(shape[job[c].doc].records)
  /\ RecordAt(job[c].doc, index[c]).readsNow
       /\ ErrorOf(RecordAt(job[c].doc, index[c])) = "none" => now[c] # NoTime
  /\ shown' = [shown EXCEPT ![c] =
       Delivery(job[c], index[c], row[c], now[c], spoilt[c])]
  /\ phase' = [phase EXCEPT ![c] = "callback"]
  /\ UNCHANGED <<clock, job, index, row, now, spoilt, result, buffer>>

(* fn writes over the slices it was given, or also past the end of JSON. *)
Scribble(c, how) ==
  /\ phase[c] = "callback"
  /\ spoilt' = [spoilt EXCEPT ![c] = IF @ = "past" THEN @ ELSE how]
  /\ UNCHANGED <<clock, phase, job, index, row, now, shown, result, buffer>>

Advance(c) ==
  IF row[c] + 1 < Deliveries(job[c].doc, index[c])
  THEN /\ row' = [row EXCEPT ![c] = @ + 1]
       /\ UNCHANGED <<index, spoilt>>
  ELSE /\ index' = [index EXCEPT ![c] = @ + 1]
       /\ row' = [row EXCEPT ![c] = 0]
       /\ spoilt' = [spoilt EXCEPT ![c] = "no"]

(* fn returns nil. *)
Return(c) ==
  /\ phase[c] = "callback"
  /\ phase' = [phase EXCEPT ![c] = "running"]
  /\ shown' = [shown EXCEPT ![c] = NoDelivery]
  /\ Advance(c)
  /\ UNCHANGED <<clock, job, now, result, buffer>>

(* fn returns an error: no further delivery. *)
ReturnError(c) ==
  /\ phase[c] = "callback"
  /\ phase' = [phase EXCEPT ![c] = "stopped"]
  /\ shown' = [shown EXCEPT ![c] = NoDelivery]
  /\ UNCHANGED <<clock, job, index, row, now, spoilt, result, buffer>>

Finish(c, r) ==
  /\ phase' = [phase EXCEPT ![c] = "idle"]
  /\ result' = [result EXCEPT ![c] = r]
  /\ now' = [now EXCEPT ![c] = NoTime]
  /\ job' = [job EXCEPT ![c] = NoJob]
  /\ index' = [index EXCEPT ![c] = 0]
  /\ row' = [row EXCEPT ![c] = 0]
  /\ spoilt' = [spoilt EXCEPT ![c] = "no"]
  /\ shown' = [shown EXCEPT ![c] = NoDelivery]
  /\ UNCHANGED clock

(* fn panics out of the call. *)
Panic(c) ==
  /\ phase[c] = "callback"
  /\ Finish(c, "panic")
  /\ UNCHANGED buffer

EndEach(c) ==
  /\ job[c].op = "each"
  /\ \/ /\ phase[c] = "stopped"
        /\ Finish(c, "callback error")
     \/ /\ phase[c] = "running"
        /\ ~Exploded(job[c])
        /\ Finish(c, IF shape[job[c].doc].valid THEN "ErrExplode" ELSE "parse error")
     \/ /\ phase[c] = "running"
        /\ Exploded(job[c])
        /\ index[c] = Len(shape[job[c].doc].records)
        /\ Finish(c, "ok")
  /\ UNCHANGED buffer

(* The one row of the document, or dst as it was. *)
EndAppend(c) ==
  /\ phase[c] = "running"
  /\ job[c].op = "append"
  /\ LET d   == job[c].doc
         err == IF shape[d].valid THEN ErrorOf(RecordAt(d, 0)) ELSE "parse error"
     IN  /\ shape[d].valid /\ RecordAt(d, 0).readsNow /\ err = "none" => now[c] # NoTime
         /\ Finish(c, IF err = "none" THEN "ok" ELSE err)
         /\ buffer' = IF err = "none"
                      THEN [buffer EXCEPT ![c] =
                             Append(@, RowOf(d, 0, 0, NoDoc, NoOptions, now[c]))]
                      ELSE buffer

(* Append of a config that may give any number of rows. *)
NotSimple(c) ==
  /\ ~Simple
  /\ phase[c] = "idle"
  /\ result' = [result EXCEPT ![c] = "ErrNotSimple"]
  /\ UNCHANGED <<clock, phase, job, index, row, now, shown, spoilt, buffer>>

Next ==
  \/ Tick
  \/ \E c \in Callers :
       \/ Recycle(c)
       \/ \E j \in Jobs : Start(c, j)
       \/ NotSimple(c)
       \/ ReadClock(c)
       \/ Deliver(c)
       \/ \E how \in {"own", "past"} : Scribble(c, how)
       \/ Return(c)
       \/ ReturnError(c)
       \/ Panic(c)
       \/ EndEach(c)
       \/ EndAppend(c)

Spec == Init /\ [][Next]_vars

=============================================================================
