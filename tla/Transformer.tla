---------------------------- MODULE Transformer ----------------------------
(***************************************************************************)
(* The engine of transform.go as its callers use it: Append and Each take  *)
(* a state from a pool, parse into it, build and deliver records with it,  *)
(* and put it back.  Calls interleave at every step below, callbacks run   *)
(* as long as they like and may start calls of their own (another member   *)
(* of Callers whose call lies within the callback), write over what they   *)
(* are shown, fail or panic, and the garbage collector may empty the pool  *)
(* at any time.                                                            *)
(*                                                                         *)
(* Memory is explicit as far as ownership goes: a state writes rows into   *)
(* the buffer its field out refers to, which is its own or the caller's.   *)
(***************************************************************************)
EXTENDS Documents, Pooling, FiniteSets

CONSTANTS
  Callers,      (* goroutines, and calls nested in a callback            *)
  States,       (* identities of state objects; bound: at most this many *)
  NoState,      (* no state                                              *)
  NoBuf,        (* a nil []byte                                          *)
  MaxClock,     (* bound: the last value of the clock                    *)
  MaxDst        (* bound: rows in the buffer given to Append             *)

ASSUME SizesAssumption ==
  /\ MaxClock \in Nat \ {0}
  /\ MaxDst \in Nat

ASSUME NamesAssumption ==
  /\ NoState \notin States
  /\ NoBuf \notin Callers \cup States
  /\ Callers \cap States = {}

Times == 1 .. MaxClock

VARIABLES
  clock,        (* time.Now()                                            *)
  pool,         (* the states sync.Pool holds                            *)
  st,           (* the fields of every state object                      *)
  mem,          (* the rows in each buffer, the callers' and the states' *)
  pc,           (* where each caller's call is                           *)
  held,         (* the state it works with                               *)
  job,          (* its arguments                                         *)
  i,            (* each: the index of the record                         *)
  row,          (* deliver: how many rows of the record fn has seen      *)
  err,          (* the error the call is about to return                 *)
  shown,        (* the Record as it was when fn was called               *)
  spoilt,       (* what fn wrote over in the current record              *)
  result        (* what the last call returned                           *)

vars == <<clock, pool, st, mem, pc, held, job, i, row, err, shown, spoilt, result>>

callVars == <<job, i, row, err, shown, spoilt, result>>

-----------------------------------------------------------------------------
(* The fields of a state that outlive one step. rec stands for the parsed   *)
(* document and the pointer into it: parse makes it, release drops it.      *)
(* slots and record stand for the document that what they hold points into *)
(* or was made from: the slots of merges, and the Record fn is called with. *)

NewState ==
  [out |-> NoBuf, buf |-> NoBuf, base |-> 0, rec |-> NoDoc, env |-> NoDoc,
   slots |-> NoDoc, record |-> NoDoc, opt |-> NoOptions, nowText |-> NoTime, fields |-> NoDoc,
   derived |-> NoDoc, rows |-> 0, err |-> "none", peak |-> 0, small |-> 0]

(* A call as its caller sees it: how far it is, its "$now", and the part of *)
(* memory that is the caller's.                                             *)
Phase ==
  [c \in Callers |->
    CASE pc[c] = "idle" -> "idle"
      [] pc[c] = "callback" -> "callback"
      [] pc[c] = "release" /\ err[c] = "callback error" -> "stopped"
      [] OTHER -> "running"]

NowText ==
  [c \in Callers |-> IF held[c] = NoState THEN NoTime ELSE st[held[c]].nowText]

Owned ==
  [c \in Callers |->
    IF pc[c] # "idle" /\ job[c].op = "append"
    THEN SubSeq(mem[c], 1, st[held[c]].base) ELSE mem[c]]

(* What calls promise, for its vocabulary: jobs and deliveries. *)
Calls == INSTANCE EachCalls WITH
  phase <- Phase, index <- i, now <- NowText, buffer <- Owned

Init ==
  /\ clock = 1
  /\ pool = {}
  /\ st = [s \in States |-> NewState]
  /\ mem = [b \in Callers \cup States |-> <<>>]
  /\ pc = [c \in Callers |-> "idle"]
  /\ held = [c \in Callers |-> NoState]
  /\ job = [c \in Callers |-> Calls!NoJob]
  /\ i = [c \in Callers |-> 0]
  /\ row = [c \in Callers |-> 0]
  /\ err = [c \in Callers |-> "none"]
  /\ shown = [c \in Callers |-> Calls!NoDelivery]
  /\ spoilt = [c \in Callers |-> "no"]
  /\ result = [c \in Callers |-> "none"]

Tick ==
  /\ clock < MaxClock
  /\ clock' = clock + 1
  /\ UNCHANGED <<pool, st, mem, pc, held, callVars>>

(* Nothing refers to a state any more: its identity can be used again. *)
Garbage(s) == st' = [st EXCEPT ![s] = NewState]

(* sync.Pool drops a state; nothing tells the engine. *)
Collect(s) ==
  /\ s \in pool
  /\ pool' = pool \ {s}
  /\ Garbage(s)
  /\ mem' = [mem EXCEPT ![s] = <<>>]
  /\ UNCHANGED <<clock, pc, held, callVars>>

(* The caller empties the buffer it appends to: buf[:0]. *)
Recycle(c) ==
  /\ pc[c] = "idle"
  /\ mem[c] # <<>>
  /\ mem' = [mem EXCEPT ![c] = <<>>]
  /\ UNCHANGED <<clock, pool, st, pc, held, callVars>>

(* Append of a config that is not simple returns before it takes a state. *)
NotSimple(c) ==
  /\ ~Simple
  /\ pc[c] = "idle"
  /\ result' = [result EXCEPT ![c] = "ErrNotSimple"]
  /\ UNCHANGED <<clock, pool, st, mem, pc, held, job, i, row, err, shown, spoilt>>

-----------------------------------------------------------------------------

InUse(s) == \E c \in Callers : held[c] = s

(* begin: out is dst for Append, and the state's own buffer, cut to length *)
(* 0, for Each. A state without a buffer gets one with its first row.      *)
BegunAt(now, s, f, c, j) ==
  LET out == IF j.op = "append" THEN c ELSE IF f.buf = NoBuf THEN s ELSE f.buf
  IN  [f EXCEPT !.out = out, !.base = IF j.op = "append" THEN Len(mem[c]) ELSE 0,
                !.opt = j.opt, !.env = NoDoc, !.nowText = now]

\* A slip of begin: "$now" of the former call stays in nowBuf.
BegunWithOldNow(s, f, c, j) == BegunAt(f.nowText, s, f, c, j)

Begun(s, f, c, j) == BegunAt(NoTime, s, f, c, j)

Take(c, s, f, j) ==
  /\ pc[c] = "idle"
  /\ j.op = "append" => Len(mem[c]) < MaxDst
  /\ st' = [st EXCEPT ![s] = Begun(s, f, c, j)]
  /\ held' = [held EXCEPT ![c] = s]
  /\ pc' = [pc EXCEPT ![c] = "parse"]
  /\ job' = [job EXCEPT ![c] = j]
  /\ i' = [i EXCEPT ![c] = 0]
  /\ row' = [row EXCEPT ![c] = 0]
  /\ err' = [err EXCEPT ![c] = "none"]
  /\ spoilt' = [spoilt EXCEPT ![c] = "no"]
  /\ result' = [result EXCEPT ![c] = "none"]
  /\ UNCHANGED shown

(* pool.Get with a hit. *)
GetPooled(c, s, j) ==
  /\ s \in pool
  /\ mem' = [mem EXCEPT ![s] = IF j.op = "each" THEN <<>> ELSE @]
  /\ Take(c, s, st[s], j)
  /\ UNCHANGED clock

\* A slip of the pool: the state handed out stays in it.
StartPooledTwice(c, s, j) == GetPooled(c, s, j) /\ UNCHANGED pool

StartPooled(c, s, j) == GetPooled(c, s, j) /\ pool' = pool \ {s}

(* pool.Get that finds nothing, or is not given what there is, calls New. *)
StartNew(c, s, j) ==
  /\ s \notin pool
  /\ ~InUse(s)
  /\ Take(c, s, NewState, j)
  /\ UNCHANGED <<clock, pool, mem>>

Goto(c, where) == pc' = [pc EXCEPT ![c] = where]

(* parse, and the start of each: where the source records are. Until then  *)
(* the document has no envelope.                                           *)
Parse(c) ==
  /\ pc[c] = "parse"
  /\ LET s == held[c]
         d == job[c].doc
         exploded == job[c].op = "each" /\ shape[d].batch = "array"
         failure == IF ~shape[d].valid THEN "parse error"
                    ELSE IF job[c].op = "each" /\ shape[d].batch = "other"
                    THEN "ErrExplode" ELSE "none"
     IN  /\ st' = [st EXCEPT ![s].rec = IF shape[d].valid THEN d ELSE @,
                             ![s].env = IF shape[d].valid /\ exploded THEN d ELSE @]
         /\ err' = [err EXCEPT ![c] = failure]
         /\ IF failure # "none" \/ Len(shape[d].records) = 0
            THEN Goto(c, "release") ELSE Goto(c, "build")
  /\ UNCHANGED <<clock, pool, mem, held, job, i, row, shown, spoilt, result>>

(* The rows build leaves behind: those finished before an error, and what  *)
(* was written of the one that failed.                                     *)
RowsBuilt(f, n) ==
  LET r == RecordAt(f.rec, n)
      whole == [k \in 1 .. r.rows |->
                 RowOf(f.rec, n, k - 1, f.env, f.opt, f.nowText)]
  IN  IF r.err \in {"ErrRootNotContainer", "ErrRequired"} THEN <<>>
      ELSE IF r.err = "ErrRow" THEN Append(whole, Junk) ELSE whole

(* build: everything it leaves in a state whose fields are cleared. A root *)
(* that is no container stops it before the fields and the derived values  *)
(* are computed; the slots are filled anew by the first row that is opened. *)
BuiltFrom(f, n, time) ==
  LET r == RecordAt(f.rec, n)
      cleared == [f EXCEPT !.err = "none", !.rows = 0]
      resolved == [cleared EXCEPT
        !.fields = FieldsOf(f.rec, n, f.env),
        !.derived = NameOf(f.rec, n, f.opt),
        !.nowText = IF r.readsNow /\ @ = NoTime
                    THEN IF f.opt.now # NoTime THEN f.opt.now ELSE time
                    ELSE @]
      opened == IF RowsBuilt(resolved, n) = <<>> THEN resolved
                ELSE [resolved EXCEPT !.slots = f.rec]
  IN  IF r.err = "ErrRootNotContainer" THEN [cleared EXCEPT !.err = r.err]
      ELSE IF r.err = "ErrRequired" THEN [resolved EXCEPT !.err = r.err]
      ELSE [opened EXCEPT !.rows = r.rows, !.err = ErrorOf(r)]

\* A slip of build: the fields of the former record are not cleared first.
BuiltWithOldFields(f, n, time) == BuiltFrom(f, n, time)

Built(f, n, time) == BuiltFrom([f EXCEPT !.fields = NoDoc], n, time)

Build(c) ==
  /\ pc[c] = "build"
  /\ LET s == held[c]
         f == Built(st[s], i[c], clock)
     IN  /\ st' = [st EXCEPT ![s] = f]
         /\ mem' = [mem EXCEPT ![f.out] =
                     SubSeq(@, 1, f.base) \o RowsBuilt(f, i[c])]
         /\ IF job[c].op = "append"
            THEN /\ err' = [err EXCEPT ![c] = f.err]
                 /\ Goto(c, "release")
            ELSE /\ err' = err
                 /\ Goto(c, "deliver")
  /\ UNCHANGED <<clock, pool, held, job, i, row, shown, spoilt, result>>

(* The k-th row of a build, as long as the buffer holds it. *)
RowAt(f, k) ==
  LET p == f.base + k + 1
  IN  IF f.out # NoBuf /\ p \in DOMAIN mem[f.out] THEN mem[f.out][p] ELSE NoDoc

(* What the Record of caller c reads at this moment: its slices point into *)
(* the state.                                                              *)
View(c) ==
  LET f == st[held[c]]
  IN  [index  |-> i[c],
       err    |-> f.err,
       json   |-> IF f.err # "none" THEN NoDoc ELSE RowAt(f, row[c]),
       name   |-> IF f.err # "none" \/ Naming = "none" THEN NoDoc
                  ELSE IF Naming = "literal" THEN "literal" ELSE f.derived,
       fields |-> f.fields]

(* deliver calls fn. *)
ShowRecord(c) ==
  /\ pc[c] = "deliver"
  /\ shown' = [shown EXCEPT ![c] = View(c)]
  /\ st' = [st EXCEPT ![held[c]].record = st[held[c]].rec]
  /\ Goto(c, "callback")
  /\ UNCHANGED <<clock, mem, held, job, i, row, err, spoilt, result>>

\* A slip of deliver: the state is put back as soon as the row is made.
DeliverReleased(c) == ShowRecord(c) /\ pool' = pool \cup {held[c]}

Deliver(c) == ShowRecord(c) /\ UNCHANGED pool

(* What a Record has from the state, written over. *)
Scribbled(f) ==
  [f EXCEPT !.fields = IF @ = NoDoc THEN @ ELSE Junk,
            !.derived = IF f.err = "none" THEN Junk ELSE @]

(* fn writes over Fields, Name and JSON; "past": it appends to JSON, whose *)
(* capacity reaches into the rows that follow.                             *)
Scribble(c, how) ==
  /\ pc[c] = "callback"
  /\ LET s == held[c]
         f == st[s]
         own == f.base + row[c] + 1
         last == IF how = "past" THEN Len(mem[f.out]) ELSE own
     IN  /\ mem' = IF f.err # "none" THEN mem
                   ELSE [mem EXCEPT ![f.out] =
                          [k \in DOMAIN @ |-> IF k \in own .. last THEN Junk ELSE @[k]]]
         /\ st' = [st EXCEPT ![s] = Scribbled(f)]
  /\ spoilt' = [spoilt EXCEPT ![c] = IF @ = "past" THEN @ ELSE how]
  /\ UNCHANGED <<clock, pool, pc, held, job, i, row, err, shown, result>>

(* The Record is valid only until fn returns. *)
Forget(c) == shown' = [shown EXCEPT ![c] = Calls!NoDelivery]

(* fn returns nil: the next row, record number next, or the end. *)
GoOn(c, next) ==
  /\ pc[c] = "callback"
  /\ LET f == st[held[c]]
     IN  IF f.err = "none" /\ row[c] + 1 < f.rows
         THEN /\ row' = [row EXCEPT ![c] = @ + 1]
              /\ Goto(c, "deliver")
              /\ UNCHANGED <<i, spoilt>>
         ELSE /\ row' = [row EXCEPT ![c] = 0]
              /\ i' = [i EXCEPT ![c] = next]
              /\ spoilt' = [spoilt EXCEPT ![c] = "no"]
              /\ Goto(c, IF next < Len(shape[f.rec].records)
                         THEN "build" ELSE "release")
  /\ Forget(c)
  /\ UNCHANGED <<clock, pool, st, mem, held, job, err, result>>

\* A slip of each: a record that failed is tried again.
ReturnToFailed(c) == GoOn(c, IF st[held[c]].err = "none" THEN i[c] + 1 ELSE i[c])

Return(c) == GoOn(c, i[c] + 1)

(* fn returns an error, which stops the iteration. *)
ReturnError(c) ==
  /\ pc[c] = "callback"
  /\ err' = [err EXCEPT ![c] = "callback error"]
  /\ Goto(c, "release")
  /\ Forget(c)
  /\ UNCHANGED <<clock, pool, st, mem, held, job, i, row, spoilt, result>>

(* The call is over: its variables are gone. *)
Leave(c, outcome) ==
  /\ held' = [held EXCEPT ![c] = NoState]
  /\ job' = [job EXCEPT ![c] = Calls!NoJob]
  /\ i' = [i EXCEPT ![c] = 0]
  /\ row' = [row EXCEPT ![c] = 0]
  /\ err' = [err EXCEPT ![c] = "none"]
  /\ spoilt' = [spoilt EXCEPT ![c] = "no"]
  /\ result' = [result EXCEPT ![c] = outcome]
  /\ Goto(c, "idle")

(* fn panics: nothing is released, the state becomes garbage. *)
Panic(c) ==
  /\ pc[c] = "callback"
  /\ Garbage(held[c])
  /\ mem' = [mem EXCEPT ![held[c]] = <<>>]
  /\ Forget(c)
  /\ Leave(c, "panic")
  /\ UNCHANGED <<clock, pool>>

-----------------------------------------------------------------------------
\* A slip of release: the slots of merges keep pointing into the document.
ClearedButSlots(f) ==
  [f EXCEPT !.out = NoBuf, !.rec = NoDoc, !.env = NoDoc, !.record = NoDoc,
            !.opt = NoOptions, !.err = "none"]

(* release drops what points into the document or to the caller. *)
Cleared(f) ==
  [f EXCEPT !.out = NoBuf, !.rec = NoDoc, !.env = NoDoc, !.slots = NoDoc,
            !.record = NoDoc, !.opt = NoOptions, !.err = "none"]

(* What the code writes to s.buf: Each keeps the buffer its rows went to. *)
Kept(c) == IF job[c].op = "each" THEN st[held[c]].out ELSE st[held[c]].buf

(* What an Append that succeeds returns: the rows of the buffer it took out *)
(* of its state, nil included. One that fails returns dst, as it was.       *)
Returned(c, out) ==
  IF err[c] # "none" THEN SubSeq(mem[c], 1, st[held[c]].base)
  ELSE IF out = NoBuf THEN <<>> ELSE mem[out]

(* The end of a call, with the buffer the state keeps and the one an Append *)
(* returns. A state with an input that is too large is not even weighed.    *)
ReleaseWith(c, buf, out) ==
  /\ pc[c] = "release"
  /\ LET s == held[c]
         n == shape[job[c].doc].size
         f == Weighed([st[s] EXCEPT !.buf = buf], n)
         drop == GivesUp(f, n)
         cut == IF job[c].op = "append"
                THEN [mem EXCEPT ![c] = Returned(c, out)] ELSE mem
     IN  /\ IF drop
            THEN Garbage(s) /\ pool' = pool
            ELSE st' = [st EXCEPT ![s] = Cleared(f)] /\ pool' = pool \cup {s}
         /\ mem' = IF drop THEN [cut EXCEPT ![s] = <<>>] ELSE cut
  /\ Leave(c, IF err[c] = "none" THEN "ok" ELSE err[c])
  /\ UNCHANGED <<clock, shown>>

\* Slips: Append, too, leaves the buffer its rows went to in the state; Append
\* reads s.out when release has cleared it.
ReleaseWithDst(c) == ReleaseWith(c, st[held[c]].out, st[held[c]].out)
ReleaseBeforeOut(c) == ReleaseWith(c, Kept(c), Cleared(st[held[c]]).out)

Release(c) == ReleaseWith(c, Kept(c), st[held[c]].out)

Step(c) ==
  Parse(c) \/ Build(c) \/ Deliver(c) \/ Return(c) \/ ReturnError(c) \/ Panic(c) \/ Release(c)

Next ==
  \/ Tick
  \/ \E s \in States : Collect(s)
  \/ \E c \in Callers :
       \/ Recycle(c)
       \/ NotSimple(c)
       \/ \E s \in States, j \in Calls!Jobs : StartPooled(c, s, j) \/ StartNew(c, s, j)
       \/ \E how \in {"own", "past"} : Scribble(c, how)
       \/ Step(c)

Spec == Init /\ [][Next]_vars

(* A call waits for nothing but its callbacks: each of its goroutine's steps *)
(* comes in time if the callbacks return.                                   *)
FairSpec == Spec /\ \A c \in Callers : WF_vars(Step(c))

-----------------------------------------------------------------------------

StateFields ==
  {"out", "buf", "base", "rec", "env", "slots", "record", "opt", "nowText", "fields", "derived",
   "rows", "err", "peak", "small"}

(* The type of the engine's variables. *)
TypeOK ==
  /\ clock \in Times
  /\ pool \subseteq States
  /\ DOMAIN st = States
  /\ \A s \in States :
       /\ DOMAIN st[s] = StateFields
       /\ st[s].out \in Callers \cup States \cup {NoBuf}
       /\ st[s].buf \in Callers \cup States \cup {NoBuf}
       /\ st[s].base \in Nat /\ st[s].rows \in Nat
       /\ st[s].peak \in Nat /\ st[s].small \in Nat
  /\ DOMAIN mem = Callers \cup States
  /\ pc \in [Callers -> {"idle", "parse", "build", "deliver", "callback", "release"}]
  /\ held \in [Callers -> States \cup {NoState}]
  /\ DOMAIN job = Callers
  /\ i \in [Callers -> Nat]
  /\ row \in [Callers -> Nat]
  /\ DOMAIN err = Callers
  /\ DOMAIN shown = Callers
  /\ spoilt \in [Callers -> {"no", "own", "past"}]
  /\ DOMAIN result = Callers

(* A state serves one call at a time, no call holds a state another call    *)
(* could get from the pool, and the buffers go with the states: no state    *)
(* keeps or writes memory of a caller other than the one it serves          *)
(* (Append, Each, release).                                                 *)
ExclusiveOwnership ==
  /\ \A c \in Callers : held[c] = NoState <=> pc[c] = "idle"
  /\ \A a, b \in Callers : held[a] = held[b] /\ held[a] # NoState => a = b
  /\ \A c \in Callers : held[c] \notin pool
  /\ \A s \in States : st[s].buf \in {NoBuf, s}
  /\ \A c \in Callers : held[c] # NoState =>
       st[held[c]].out = IF job[c].op = "append" THEN c ELSE held[c]

(* While fn runs, what its Record refers to is what it was shown, whatever  *)
(* the other calls do meanwhile (the comment of Record: its slices are      *)
(* valid until the callback returns).                                       *)
StableDuringCallback ==
  \A c \in Callers : pc[c] = "callback" /\ spoilt[c] = "no" => View(c) = shown[c]

(* Whatever a state refers to of a document or of a caller is of the call   *)
(* that works with it at the moment: the record, the envelope, the slots,   *)
(* the Record and the Options of a held state are those of its call, and    *)
(* nothing outlives the call, however it ends (begin, build, deliver,       *)
(* release: "drops what points into the parsed document or to the caller"). *)
NothingOutlivesItsCall ==
  \A s \in States :
    \/ \E c \in Callers :
         /\ held[c] = s
         /\ {st[s].rec, st[s].env, st[s].slots, st[s].record} \subseteq {NoDoc, job[c].doc}
         /\ st[s].opt = job[c].opt
    \/ /\ \A c \in Callers : held[c] # s
       /\ {st[s].rec, st[s].env, st[s].slots, st[s].record} = {NoDoc}
       /\ st[s].out = NoBuf /\ st[s].opt = NoOptions

(* Calls that share a pool, and states that are used again and again, behave *)
(* as calls that share nothing: the deliveries, errors, results and "$now"   *)
(* of each are those of EachCalls (Append, Each, build, deliver).            *)
ImplementsEachCalls == Calls!Spec

(* Every call ends, however the others interleave with it (each, deliver). *)
CallsReturn == \A c \in Callers : pc[c] # "idle" ~> pc[c] = "idle"

=============================================================================
