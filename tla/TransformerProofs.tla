------------------------- MODULE TransformerProofs -------------------------
(***************************************************************************)
(* Proofs about Transformer: a state serves one call at a time and keeps   *)
(* no memory of a caller, and each call does what it would do alone, for   *)
(* any number of callers, states and documents.                            *)
(*                                                                         *)
(* ExclusiveOwnership is inductive given the shapes of the variables it    *)
(* reads (Shaped, a part of TypeOK): a state that leaves the pool is held by *)
(* nobody because no caller holds a pooled state; it starts an Each with   *)
(* its own buffer because a state never keeps another; and it goes back to *)
(* the pool with its own buffer because out is that of the call it serves. *)
(*                                                                         *)
(* The rest builds on it.  What a state refers to is of the call it serves *)
(* (NothingOutlivesItsCall).  What each call is at is a function of its own *)
(* job and position (Follows); that no other call disturbs it, because the *)
(* state and the buffer are its own, is the refinement of EachCalls.       *)
(***************************************************************************)
EXTENDS Transformer, SequenceTheorems, TLAPS

(* What the proof needs to know of the types. *)
Shaped ==
  /\ pool \subseteq States
  /\ DOMAIN st = States
  /\ \A s \in States : DOMAIN st[s] = StateFields
  /\ pc \in [Callers -> {"idle", "parse", "build", "deliver", "callback", "release"}]
  /\ held \in [Callers -> States \cup {NoState}]
  /\ DOMAIN job = Callers

OwnInv == Shaped /\ ExclusiveOwnership

-----------------------------------------------------------------------------
(* The records the steps make of a state, as far as ownership goes.         *)

(* f has the fields of a state; out and buf are what ownership is about. *)
IsState(f) == DOMAIN f = StateFields

LEMMA NewStateFields ==
  IsState(NewState) /\ NewState.out = NoBuf /\ NewState.buf = NoBuf
  BY DEF IsState, StateFields, NewState

LEMMA BegunFields ==
  ASSUME NEW s, NEW f, NEW c, NEW j, IsState(f)
  PROVE  /\ IsState(Begun(s, f, c, j))
         /\ Begun(s, f, c, j).buf = f.buf
         /\ Begun(s, f, c, j).out = IF j.op = "append" THEN c
                                    ELSE IF f.buf = NoBuf THEN s ELSE f.buf
  BY DEF IsState, StateFields, Begun, BegunAt

LEMMA BuiltFields ==
  ASSUME NEW f, NEW n, NEW time, IsState(f)
  PROVE  /\ IsState(Built(f, n, time))
         /\ Built(f, n, time).buf = f.buf
         /\ Built(f, n, time).out = f.out
  BY DEF IsState, StateFields, Built, BuiltFrom

LEMMA ScribbledFields ==
  ASSUME NEW f, IsState(f)
  PROVE  /\ IsState(Scribbled(f))
         /\ \A field \in StateFields \ {"fields", "derived"} : Scribbled(f)[field] = f[field]
  BY DEF IsState, StateFields, Scribbled

(* What a callback that writes over its Record changes of the model's state. *)
LEMMA ScribbleEffect ==
  ASSUME NEW c, \E how \in {"own", "past"} : Scribble(c, how)
  PROVE  /\ pc[c] = "callback"
         /\ st' = [st EXCEPT ![held[c]] = Scribbled(st[held[c]])]
         /\ mem' = mem \/ \E f : mem' = [mem EXCEPT ![st[held[c]].out] = f]
         /\ \E mark : spoilt' = [spoilt EXCEPT ![c] = mark]
         /\ UNCHANGED <<clock, pool, pc, held, job, i, row, err, shown, result>>
<1> PICK how \in {"own", "past"} : Scribble(c, how)
  OBVIOUS
<1>1. mem' = mem \/ \E f : mem' = [mem EXCEPT ![st[held[c]].out] = f]
  BY DEF Scribble
<1>2. \E mark : spoilt' = [spoilt EXCEPT ![c] = mark]
  BY DEF Scribble
<1>3. /\ pc[c] = "callback"
      /\ UNCHANGED <<clock, pool, pc, held, job, i, row, err, shown, result>>
  BY DEF Scribble
<1>4. st' = [st EXCEPT ![held[c]] = Scribbled(st[held[c]])]
  BY DEF Scribble
<1> QED BY <1>1, <1>2, <1>3, <1>4

LEMMA WeighedFields ==
  ASSUME NEW f, NEW n, IsState(f)
  PROVE  IsState(Weighed(f, n)) /\ Weighed(f, n).buf = f.buf
  BY DEF IsState, StateFields, Weighed, WeighedTo

LEMMA ClearedFields ==
  ASSUME NEW f, IsState(f)
  PROVE  IsState(Cleared(f)) /\ Cleared(f).buf = f.buf
  BY DEF IsState, StateFields, Cleared

-----------------------------------------------------------------------------
(* One lemma per group of steps.                                            *)

LEMMA InitOwns == Init => OwnInv
  BY NewStateFields, NamesAssumption
  DEF Init, OwnInv, Shaped, ExclusiveOwnership, IsState

(* begin: the state that is taken was nobody's. *)
LEMMA TakeOwns ==
  ASSUME OwnInv, NEW c \in Callers, NEW s \in States, NEW f, NEW j,
         IsState(f), f.buf \in {NoBuf, s},
         \A a \in Callers : held[a] # s,
         Take(c, s, f, j), pool' = pool \ {s}
  PROVE  OwnInv'
<1>1. /\ st' = [st EXCEPT ![s] = Begun(s, f, c, j)]
      /\ held' = [held EXCEPT ![c] = s]
      /\ pc' = [pc EXCEPT ![c] = "parse"]
      /\ job' = [job EXCEPT ![c] = j]
      /\ held[c] = NoState
  BY DEF Take, OwnInv, ExclusiveOwnership
<1>2. /\ IsState(Begun(s, f, c, j))
      /\ Begun(s, f, c, j).buf \in {NoBuf, s}
      /\ Begun(s, f, c, j).out = IF j.op = "append" THEN c ELSE s
  BY BegunFields
<1>3. Shaped'
  BY <1>1, <1>2 DEF OwnInv, Shaped, IsState
<1>4. ExclusiveOwnership'
  BY <1>1, <1>2, NamesAssumption DEF OwnInv, Shaped, ExclusiveOwnership
<1> QED BY <1>3, <1>4 DEF OwnInv

LEMMA StartOwns ==
  ASSUME OwnInv, NEW c \in Callers, NEW s \in States, NEW j,
         StartPooled(c, s, j) \/ StartNew(c, s, j)
  PROVE  OwnInv'
<1>1. CASE StartPooled(c, s, j)
  <2>1. IsState(st[s]) /\ st[s].buf \in {NoBuf, s}
    BY DEF OwnInv, Shaped, ExclusiveOwnership, IsState
  <2>2. \A a \in Callers : held[a] # s
    BY <1>1 DEF StartPooled, GetPooled, OwnInv, ExclusiveOwnership
  <2> QED BY <1>1, <2>1, <2>2, TakeOwns DEF StartPooled, GetPooled
<1>2. CASE StartNew(c, s, j)
  <2>1. \A a \in Callers : held[a] # s
    BY <1>2 DEF StartNew, InUse
  <2>2. pool' = pool \ {s}
    BY <1>2 DEF StartNew
  <2> QED BY <1>2, <2>1, <2>2, TakeOwns, NewStateFields DEF StartNew
<1> QED BY <1>1, <1>2

(* The steps of a call before it ends keep the state and both its buffers. *)
LEMMA KeepOwns ==
  ASSUME OwnInv,
         UNCHANGED <<pool, held, job>>,
         pc' \in [Callers -> {"idle", "parse", "build", "deliver", "callback", "release"}],
         \A c \in Callers : pc'[c] = "idle" <=> pc[c] = "idle",
         DOMAIN st' = States,
         \A s \in States : /\ IsState(st'[s])
                           /\ st'[s].out = st[s].out /\ st'[s].buf = st[s].buf
  PROVE  OwnInv'
  BY DEF OwnInv, Shaped, ExclusiveOwnership, IsState

(* deliver changes one field of the state, which nothing else reads. *)
LEMMA DeliverEffect ==
  ASSUME OwnInv, NEW c \in Callers, Deliver(c)
  PROVE  /\ held[c] \in States /\ DOMAIN st' = States
         /\ \A s \in States \ {held[c]} : st'[s] = st[s]
         /\ \A s \in States :
              /\ IsState(st'[s])
              /\ \A field \in StateFields \ {"record"} : st'[s][field] = st[s][field]
<1>1. held[c] \in States
  BY DEF Deliver, ShowRecord, OwnInv, Shaped, ExclusiveOwnership
<1>2. /\ DOMAIN st = States /\ \A s \in States : IsState(st[s])
      /\ st' = [st EXCEPT ![held[c]] = [@ EXCEPT !.record = st[held[c]].rec]]
  BY DEF Deliver, ShowRecord, OwnInv, Shaped, IsState
<1>3. DOMAIN st' = States /\ \A s \in States \ {held[c]} : st'[s] = st[s]
  BY <1>2
<1>4. st'[held[c]] = [st[held[c]] EXCEPT !.record = st[held[c]].rec]
  BY <1>1, <1>2
<1>5. /\ IsState(st'[held[c]])
      /\ \A field \in StateFields \ {"record"} : st'[held[c]][field] = st[held[c]][field]
  BY <1>1, <1>2, <1>4 DEF IsState
<1> QED BY <1>1, <1>2, <1>3, <1>5

LEMMA CallOwns ==
  ASSUME OwnInv, NEW c \in Callers,
         Parse(c) \/ Build(c) \/ Deliver(c) \/ Return(c) \/ ReturnError(c)
           \/ (\E how \in {"own", "past"} : Scribble(c, how))
  PROVE  OwnInv'
<1> DEFINE Keeps ==
      /\ UNCHANGED <<pool, held, job>>
      /\ pc' \in [Callers -> {"idle", "parse", "build", "deliver", "callback", "release"}]
      /\ \A a \in Callers : pc'[a] = "idle" <=> pc[a] = "idle"
      /\ DOMAIN st' = States
      /\ \A s \in States : /\ IsState(st'[s])
                           /\ st'[s].out = st[s].out /\ st'[s].buf = st[s].buf
<1>1. CASE Parse(c)
  <2>1. held[c] \in States
    BY <1>1 DEF Parse, OwnInv, Shaped, ExclusiveOwnership
  <2>2. pc' = [pc EXCEPT ![c] = "release"] \/ pc' = [pc EXCEPT ![c] = "build"]
    BY <1>1 DEF Parse, Goto
  <2>3. DOMAIN st' = States
    BY <1>1 DEF Parse, OwnInv, Shaped
  <2>4. ASSUME NEW s \in States
        PROVE  IsState(st'[s]) /\ st'[s].out = st[s].out /\ st'[s].buf = st[s].buf
    <3>1. "out" \in DOMAIN st[s] /\ "buf" \in DOMAIN st[s]
      BY DEF OwnInv, Shaped, StateFields
    <3>2. CASE s = held[c]
      BY <1>1, <2>1, <3>1, <3>2 DEF Parse, OwnInv, Shaped, IsState
    <3>3. CASE s # held[c]
      BY <1>1, <2>1, <3>3 DEF Parse, OwnInv, Shaped, IsState
    <3> QED BY <3>2, <3>3
  <2>5. UNCHANGED <<pool, held, job>> /\ pc[c] = "parse"
    BY <1>1 DEF Parse
  <2>6. Keeps
    BY <2>2, <2>3, <2>4, <2>5 DEF OwnInv, Shaped
  <2> QED BY <2>6, KeepOwns
<1>2. CASE Build(c)
  <2>1. held[c] \in States
    BY <1>2 DEF Build, OwnInv, Shaped, ExclusiveOwnership
  <2>2. pc' = [pc EXCEPT ![c] = "release"] \/ pc' = [pc EXCEPT ![c] = "deliver"]
    BY <1>2 DEF Build, Goto
  <2>3. st' = [st EXCEPT ![held[c]] = Built(st[held[c]], i[c], clock)]
    BY <1>2 DEF Build
  <2>4. /\ IsState(Built(st[held[c]], i[c], clock))
        /\ Built(st[held[c]], i[c], clock).out = st[held[c]].out
        /\ Built(st[held[c]], i[c], clock).buf = st[held[c]].buf
    BY <2>1, BuiltFields DEF OwnInv, Shaped, IsState
  <2>5. Keeps
    BY <1>2, <2>1, <2>2, <2>3, <2>4 DEF Build, OwnInv, Shaped, IsState
  <2> QED BY <2>5, KeepOwns
<1>3. CASE Deliver(c)
  <2>1. UNCHANGED <<pool, held, job>> /\ pc' = [pc EXCEPT ![c] = "callback"] /\ pc[c] = "deliver"
    BY <1>3 DEF Deliver, ShowRecord, Goto
  <2>2. DOMAIN st' = States
    BY <1>3, DeliverEffect
  <2>3. ASSUME NEW s \in States
        PROVE  IsState(st'[s]) /\ st'[s].out = st[s].out /\ st'[s].buf = st[s].buf
    <3>1. {"out", "buf"} \subseteq StateFields \ {"record"}
      BY DEF StateFields
    <3> QED BY <1>3, <3>1, DeliverEffect
  <2>4. Keeps
    BY <2>1, <2>2, <2>3 DEF OwnInv, Shaped
  <2> QED BY <2>4, KeepOwns
<1>4. CASE Return(c)
  <2>1. \/ pc' = [pc EXCEPT ![c] = "deliver"]
        \/ pc' = [pc EXCEPT ![c] = "build"]
        \/ pc' = [pc EXCEPT ![c] = "release"]
    BY <1>4 DEF Return, GoOn, Goto
  <2>2. Keeps
    BY <1>4, <2>1 DEF Return, GoOn, OwnInv, Shaped, IsState
  <2> QED BY <2>2, KeepOwns
<1>5. CASE ReturnError(c)
  <2>1. Keeps
    BY <1>5 DEF ReturnError, Goto, OwnInv, Shaped, IsState
  <2> QED BY <2>1, KeepOwns
<1>6. CASE \E how \in {"own", "past"} : Scribble(c, how)
  <2>1. /\ pc[c] = "callback" /\ UNCHANGED <<pool, held, job, pc>>
        /\ st' = [st EXCEPT ![held[c]] = Scribbled(st[held[c]])]
    BY <1>6, ScribbleEffect
  <2>2. held[c] \in States
    BY <2>1 DEF OwnInv, Shaped, ExclusiveOwnership
  <2>3. DOMAIN st' = States
    BY <2>1 DEF OwnInv, Shaped
  <2>4. ASSUME NEW s \in States
        PROVE  IsState(st'[s]) /\ st'[s].out = st[s].out /\ st'[s].buf = st[s].buf
    <3>1. IsState(st[s]) /\ {"out", "buf"} \subseteq StateFields \ {"fields", "derived"}
      BY DEF OwnInv, Shaped, IsState, StateFields
    <3>2. CASE s = held[c]
      BY <2>1, <3>1, <3>2, ScribbledFields DEF OwnInv, Shaped
    <3>3. CASE s # held[c]
      BY <2>1, <3>1, <3>3 DEF OwnInv, Shaped
    <3> QED BY <3>2, <3>3
  <2>5. Keeps
    BY <2>1, <2>3, <2>4 DEF OwnInv, Shaped
  <2> QED BY <2>5, KeepOwns
<1> QED BY <1>1, <1>2, <1>3, <1>4, <1>5, <1>6

(* The end of a call: the state is nobody's again, and what it keeps is its *)
(* own buffer or none.                                                      *)
LEMMA EndOwns ==
  ASSUME OwnInv, NEW c \in Callers, held[c] \in States, NEW f,
         IsState(f), f.buf \in {NoBuf, held[c]},
         st' = [st EXCEPT ![held[c]] = f],
         pool' = pool \/ pool' = pool \cup {held[c]},
         \E outcome : Leave(c, outcome)
  PROVE  OwnInv'
<1>1. /\ held' = [held EXCEPT ![c] = NoState]
      /\ pc' = [pc EXCEPT ![c] = "idle"]
      /\ \E v : job' = [job EXCEPT ![c] = v]
  BY DEF Leave, Goto
<1>2. Shaped'
  BY <1>1 DEF OwnInv, Shaped, IsState
<1>3. ExclusiveOwnership'
  BY <1>1, NamesAssumption DEF OwnInv, Shaped, ExclusiveOwnership
<1> QED BY <1>2, <1>3 DEF OwnInv

LEMMA PanicOwns ==
  ASSUME OwnInv, NEW c \in Callers, Panic(c)
  PROVE  OwnInv'
<1>1. held[c] \in States
  BY DEF Panic, OwnInv, Shaped, ExclusiveOwnership
<1>2. st' = [st EXCEPT ![held[c]] = NewState]
  BY DEF Panic, Garbage
<1>3. pool' = pool /\ \E outcome : Leave(c, outcome)
  BY DEF Panic
<1> QED BY <1>1, <1>2, <1>3, EndOwns, NewStateFields

LEMMA ReleaseOwns ==
  ASSUME OwnInv, NEW c \in Callers, Release(c)
  PROVE  OwnInv'
<1> DEFINE s == held[c]
           n == shape[job[c].doc].size
           kept == [st[s] EXCEPT !.buf = Kept(c)]
           f == Weighed(kept, n)
<1>1. s \in States
  BY DEF Release, ReleaseWith, OwnInv, Shaped, ExclusiveOwnership
<1>2. Kept(c) \in {NoBuf, s}
  <2>1. s # NoState
    BY <1>1, NamesAssumption
  <2>2. CASE job[c].op = "each"
    <3>1. st[s].out = s
      BY <2>1, <2>2 DEF OwnInv, ExclusiveOwnership
    <3> QED BY <2>2, <3>1 DEF Kept
  <2>3. CASE job[c].op # "each"
    <3>1. st[s].buf \in {NoBuf, s}
      BY <1>1 DEF OwnInv, ExclusiveOwnership
    <3> QED BY <2>3, <3>1 DEF Kept
  <2> QED BY <2>2, <2>3
<1>3. IsState(kept) /\ kept.buf = Kept(c)
  BY <1>1 DEF OwnInv, Shaped, IsState, StateFields
<1>4. IsState(Cleared(f)) /\ Cleared(f).buf \in {NoBuf, s}
  BY <1>2, <1>3, WeighedFields, ClearedFields
<1>5. \E outcome : Leave(c, outcome)
  BY DEF Release, ReleaseWith
<1>6. \/ st' = [st EXCEPT ![s] = NewState] /\ pool' = pool
      \/ st' = [st EXCEPT ![s] = Cleared(f)] /\ pool' = pool \cup {s}
  BY DEF Release, ReleaseWith, Garbage
<1>7. CASE st' = [st EXCEPT ![s] = NewState] /\ pool' = pool
  BY <1>1, <1>5, <1>7, EndOwns, NewStateFields
<1>8. CASE st' = [st EXCEPT ![s] = Cleared(f)] /\ pool' = pool \cup {s}
  BY <1>1, <1>4, <1>5, <1>8, EndOwns
<1> QED BY <1>6, <1>7, <1>8

(* A pooled state is held by nobody, so the collector may have it. *)
LEMMA CollectOwns ==
  ASSUME OwnInv, NEW s \in States, Collect(s)
  PROVE  OwnInv'
<1>1. /\ s \in pool
      /\ pool' = pool \ {s}
      /\ st' = [st EXCEPT ![s] = NewState]
      /\ UNCHANGED <<pc, held, job>>
  BY DEF Collect, Garbage, callVars
<1>2. Shaped'
  BY <1>1, NewStateFields DEF OwnInv, Shaped, IsState
<1>3. ExclusiveOwnership'
  BY <1>1, NewStateFields DEF OwnInv, Shaped, ExclusiveOwnership
<1> QED BY <1>2, <1>3 DEF OwnInv

(* The clock, the callers' own buffers and a refused Append change nothing  *)
(* that ownership is about.                                                 *)
LEMMA IdleOwns ==
  ASSUME OwnInv, UNCHANGED <<pool, st, pc, held, job>>
  PROVE  OwnInv'
  BY DEF OwnInv, Shaped, ExclusiveOwnership

-----------------------------------------------------------------------------

LEMMA OwnInvInvariant == Spec => []OwnInv
<1>1. OwnInv /\ [Next]_vars => OwnInv'
  <2> SUFFICES ASSUME OwnInv, [Next]_vars PROVE OwnInv'
    OBVIOUS
  <2>1. CASE Tick
    BY <2>1, IdleOwns DEF Tick, callVars
  <2>2. ASSUME NEW s \in States, Collect(s) PROVE OwnInv'
    BY <2>2, CollectOwns
  <2>3. ASSUME NEW c \in Callers, Recycle(c) PROVE OwnInv'
    BY <2>3, IdleOwns DEF Recycle, callVars
  <2>4. ASSUME NEW c \in Callers, NotSimple(c) PROVE OwnInv'
    BY <2>4, IdleOwns DEF NotSimple
  <2>5. ASSUME NEW c \in Callers, NEW s \in States, NEW j \in Calls!Jobs,
               StartPooled(c, s, j) \/ StartNew(c, s, j)
        PROVE OwnInv'
    BY <2>5, StartOwns
  <2>6. ASSUME NEW c \in Callers, \E how \in {"own", "past"} : Scribble(c, how)
        PROVE OwnInv'
    BY <2>6, CallOwns
  <2>7. ASSUME NEW c \in Callers, Step(c) PROVE OwnInv'
    BY <2>7, CallOwns, PanicOwns, ReleaseOwns DEF Step
  <2>8. CASE UNCHANGED vars
    BY <2>8, IdleOwns DEF vars
  <2> QED BY <2>1, <2>2, <2>3, <2>4, <2>5, <2>6, <2>7, <2>8 DEF Next
<1> QED BY <1>1, InitOwns, PTL DEF Spec

(* A state serves one call at a time, the pool holds no state in use, and   *)
(* no state keeps or writes memory of a caller it does not serve (Append,   *)
(* Each, begin, release), whatever the callbacks and the collector do.      *)
THEOREM OwnershipHolds == Spec => []ExclusiveOwnership
<1>1. OwnInv => ExclusiveOwnership
  BY DEF OwnInv
<1> QED BY <1>1, OwnInvInvariant, PTL

-----------------------------------------------------------------------------
(* What a step does to the states and buffers of the other calls. It is     *)
(* needed twice: a pooled state is of no call, and what a callback is shown *)
(* is of another one.                                                       *)

(* The shapes of the variables of calls, and of the counters of states.     *)
Weighs(f) == f.small \in Nat /\ f.peak \in Nat

CallShaped ==
  /\ DOMAIN i = Callers /\ DOMAIN row = Callers
  /\ DOMAIN spoilt = Callers /\ DOMAIN shown = Callers
  /\ DOMAIN mem = Callers \cup States
  /\ \A s \in States : Weighs(st[s])
  /\ \A c \in Callers : pc[c] # "idle" => job[c] \in Calls!Jobs

CallInv == OwnInv /\ CallShaped

(* The steps of a call that neither take nor give up its state. *)
Works(c) ==
  \/ Parse(c) \/ Build(c) \/ Deliver(c) \/ Return(c) \/ ReturnError(c)
  \/ \E how \in {"own", "past"} : Scribble(c, how)

(* A step of a call at work moves that call's program counter and no other. *)
LEMMA WorksMoves ==
  ASSUME NEW c, Works(c)
  PROVE  /\ pc[c] # "idle" /\ UNCHANGED <<held, job>>
         /\ pc' = pc \/ \E to : pc' = [pc EXCEPT ![c] = to]
<1>1. CASE Parse(c)
  BY <1>1 DEF Parse, Goto
<1>2. CASE Build(c)
  BY <1>2 DEF Build, Goto
<1>3. CASE Deliver(c)
  BY <1>3 DEF Deliver, ShowRecord, Goto
<1>4. CASE Return(c)
  BY <1>4 DEF Return, GoOn, Goto
<1>5. CASE ReturnError(c)
  BY <1>5 DEF ReturnError, Goto
<1>6. CASE \E how \in {"own", "past"} : Scribble(c, how)
  BY <1>6, ScribbleEffect
<1> QED BY <1>1, <1>2, <1>3, <1>4, <1>5, <1>6 DEF Works

(* Parse, Build, Deliver and the error leave the call's counters alone, and *)
(* show at most its own Record.                                             *)
LEMMA WorksShows ==
  ASSUME NEW c, Parse(c) \/ Build(c) \/ Deliver(c) \/ ReturnError(c)
  PROVE  /\ UNCHANGED <<spoilt, i, row>>
         /\ shown' = shown \/ \E rec : shown' = [shown EXCEPT ![c] = rec]
         /\ Works(c)
<1>1. CASE Parse(c)
  BY <1>1 DEF Parse, Works
<1>2. CASE Build(c)
  BY <1>2 DEF Build, Works
<1>3. CASE Deliver(c)
  BY <1>3 DEF Deliver, ShowRecord, Works
<1>4. CASE ReturnError(c)
  BY <1>4 DEF ReturnError, Forget, Works
<1> QED BY <1>1, <1>2, <1>3, <1>4

LEMMA WorksAlone ==
  ASSUME OwnInv, NEW c \in Callers, Works(c)
  PROVE  /\ pool' = pool /\ held[c] \in States
         /\ \A s \in States \ {held[c]} : st'[s] = st[s]
<1>1. held[c] \in States
  BY WorksMoves DEF OwnInv, Shaped, ExclusiveOwnership
<1>2. DOMAIN st = States
  BY DEF OwnInv, Shaped
<1>3. CASE Parse(c)
  BY <1>1, <1>2, <1>3 DEF Parse
<1>4. CASE Build(c)
  BY <1>1, <1>2, <1>4 DEF Build
<1>5. CASE Deliver(c) \/ Return(c) \/ ReturnError(c)
  BY <1>1, <1>5, DeliverEffect DEF Deliver, ShowRecord, Return, GoOn, ReturnError
<1>6. CASE \E how \in {"own", "past"} : Scribble(c, how)
  BY <1>1, <1>2, <1>6, ScribbleEffect
<1> QED BY <1>1, <1>3, <1>4, <1>5, <1>6 DEF Works

(* What release leaves of a state it does not drop. *)
LEMMA ReleaseMakes ==
  ASSUME OwnInv, NEW c \in Callers, Release(c)
  PROVE  LET n == shape[job[c].doc].size
             f == Weighed([st[held[c]] EXCEPT !.buf = Kept(c)], n)
         IN  /\ held[c] \in States
             /\ \/ st' = [st EXCEPT ![held[c]] = NewState] /\ pool' = pool
                \/ /\ st' = [st EXCEPT ![held[c]] = Cleared(f)]
                   /\ pool' = pool \cup {held[c]}
<1>1. held[c] \in States
  BY DEF Release, ReleaseWith, OwnInv, Shaped, ExclusiveOwnership
<1> QED BY <1>1 DEF Release, ReleaseWith, Garbage

-----------------------------------------------------------------------------
(* NothingOutlivesItsCall.                                                  *)

(* What a state refers to of documents; nothing at all; and what it refers  *)
(* to when it serves a call with job j.                                     *)
Refers(f) == {f.rec, f.env, f.slots, f.record}

Bare(f) == Refers(f) = {NoDoc} /\ f.out = NoBuf /\ f.opt = NoOptions

ServesJob(f, j) == Refers(f) \subseteq {NoDoc, j.doc} /\ f.opt = j.opt

LEMMA OutlivesRestated ==
  NothingOutlivesItsCall
  <=> \A s \in States :
        \/ \E c \in Callers : held[c] = s /\ ServesJob(st[s], job[c])
        \/ (\A c \in Callers : held[c] # s) /\ Bare(st[s])
  BY DEF NothingOutlivesItsCall, ServesJob, Bare, Refers

LEMMA NewStateIsBare == Bare(NewState)
  BY DEF NewState, Bare, Refers

LEMMA ClearedIsBare ==
  ASSUME NEW f, IsState(f)
  PROVE  Bare(Cleared(f))
  BY DEF IsState, StateFields, Cleared, Bare, Refers

LEMMA BegunServes ==
  ASSUME NEW s, NEW f, NEW c, NEW j, IsState(f), Bare(f)
  PROVE  ServesJob(Begun(s, f, c, j), j)
<1>1. /\ Begun(s, f, c, j).rec = f.rec
      /\ Begun(s, f, c, j).slots = f.slots
      /\ Begun(s, f, c, j).record = f.record
      /\ Begun(s, f, c, j).env = NoDoc
      /\ Begun(s, f, c, j).opt = j.opt
  BY DEF IsState, StateFields, Begun, BegunAt
<1> QED BY <1>1 DEF Bare, ServesJob, Refers

(* build and deliver take what they refer to from the document at hand. *)
LEMMA BuiltServes ==
  ASSUME NEW f, NEW n, NEW time, NEW j, IsState(f), ServesJob(f, j)
  PROVE  ServesJob(Built(f, n, time), j)
<1> DEFINE b == Built(f, n, time)
<1>1. /\ b.rec = f.rec /\ b.env = f.env /\ b.record = f.record /\ b.opt = f.opt
      /\ b.slots \in {f.slots, f.rec}
  BY DEF IsState, StateFields, Built, BuiltFrom
<1> HIDE DEF b
<1>2. ServesJob(b, j)
  BY <1>1 DEF ServesJob, Refers
<1> QED BY <1>2 DEF b

LEMMA ScribbledServes ==
  ASSUME NEW f, NEW j, IsState(f), ServesJob(f, j)
  PROVE  ServesJob(Scribbled(f), j)
<1>1. {"rec", "env", "slots", "record", "opt"} \subseteq StateFields \ {"fields", "derived"}
  BY DEF StateFields
<1>2. /\ Scribbled(f).rec = f.rec /\ Scribbled(f).env = f.env /\ Scribbled(f).slots = f.slots
      /\ Scribbled(f).record = f.record /\ Scribbled(f).opt = f.opt
  BY <1>1, ScribbledFields
<1> QED BY <1>2 DEF ServesJob, Refers

(* The call that holds a state is the one it serves. *)
LEMMA HolderServed ==
  ASSUME OwnInv, NothingOutlivesItsCall, NEW c \in Callers, held[c] \in States
  PROVE  ServesJob(st[held[c]], job[c])
<1>1. PICK a \in Callers : held[a] = held[c] /\ ServesJob(st[held[c]], job[a])
  BY OutlivesRestated
<1>2. a = c
  BY <1>1, NamesAssumption DEF OwnInv, ExclusiveOwnership
<1> QED BY <1>1, <1>2

LEMMA WorksServes ==
  ASSUME OwnInv, NothingOutlivesItsCall, NEW c \in Callers, Works(c)
  PROVE  ServesJob(st'[held[c]], job[c])
<1>1. held[c] \in States /\ IsState(st[held[c]]) /\ DOMAIN st = States
  BY WorksAlone DEF OwnInv, Shaped, IsState
<1>2. ServesJob(st[held[c]], job[c])
  BY <1>1, HolderServed
<1>3. CASE Parse(c)
  <2>1. /\ st'[held[c]].rec \in {st[held[c]].rec, job[c].doc}
        /\ st'[held[c]].env \in {st[held[c]].env, job[c].doc}
        /\ st'[held[c]].slots = st[held[c]].slots
        /\ st'[held[c]].record = st[held[c]].record
        /\ st'[held[c]].opt = st[held[c]].opt
    BY <1>1, <1>3 DEF Parse, IsState, StateFields
  <2> QED BY <1>2, <2>1 DEF ServesJob, Refers
<1>4. CASE Build(c)
  <2>1. st'[held[c]] = Built(st[held[c]], i[c], clock)
    BY <1>1, <1>4 DEF Build
  <2> QED BY <1>1, <1>2, <2>1, BuiltServes
<1>5. CASE Deliver(c)
  <2>1. /\ st'[held[c]].record = st[held[c]].rec
        /\ st'[held[c]].rec = st[held[c]].rec
        /\ st'[held[c]].env = st[held[c]].env
        /\ st'[held[c]].slots = st[held[c]].slots
        /\ st'[held[c]].opt = st[held[c]].opt
    BY <1>1, <1>5 DEF Deliver, ShowRecord, IsState, StateFields
  <2> QED BY <1>2, <2>1 DEF ServesJob, Refers
<1>6. CASE Return(c) \/ ReturnError(c)
  BY <1>2, <1>6 DEF Return, GoOn, ReturnError
<1>7. CASE \E how \in {"own", "past"} : Scribble(c, how)
  <2>1. st'[held[c]] = Scribbled(st[held[c]])
    BY <1>1, <1>7, ScribbleEffect
  <2> QED BY <1>1, <1>2, <2>1, ScribbledServes
<1> QED BY <1>3, <1>4, <1>5, <1>6, <1>7 DEF Works

(* The end of a call, which leaves f of its state. *)
LEMMA EndOutlives ==
  ASSUME OwnInv, NothingOutlivesItsCall, NEW c \in Callers, held[c] \in States,
         NEW f, Bare(f),
         st' = [st EXCEPT ![held[c]] = f],
         \E outcome : Leave(c, outcome)
  PROVE  NothingOutlivesItsCall'
<1>1. held' = [held EXCEPT ![c] = NoState] /\ \E v : job' = [job EXCEPT ![c] = v]
  BY DEF Leave
<1>2. DOMAIN held = Callers /\ DOMAIN job = Callers /\ DOMAIN st = States
  BY DEF OwnInv, Shaped
<1>3. ASSUME NEW s \in States
      PROVE  \/ \E a \in Callers : held'[a] = s /\ ServesJob(st'[s], job'[a])
             \/ (\A a \in Callers : held'[a] # s) /\ Bare(st'[s])
  <2>1. CASE s = held[c]
    <3>1. \A a \in Callers : held'[a] # s
      BY <1>1, <1>2, <2>1, NamesAssumption DEF OwnInv, ExclusiveOwnership
    <3> QED BY <1>2, <2>1, <3>1
  <2>2. CASE s # held[c]
    <3>1. st'[s] = st[s]
      BY <1>2, <2>2
    <3>2. CASE \E a \in Callers : held[a] = s /\ ServesJob(st[s], job[a])
      BY <1>1, <1>2, <2>2, <3>1, <3>2
    <3>3. CASE (\A a \in Callers : held[a] # s) /\ Bare(st[s])
      BY <1>1, <1>2, <3>1, <3>3, NamesAssumption
    <3> QED BY <3>2, <3>3, OutlivesRestated
  <2> QED BY <2>1, <2>2
<1> QED BY <1>3 DEF NothingOutlivesItsCall, ServesJob, Bare, Refers

LEMMA TakeOutlives ==
  ASSUME OwnInv, NothingOutlivesItsCall, NEW c \in Callers, NEW s \in States, NEW f, NEW j,
         IsState(f), Bare(f), \A a \in Callers : held[a] # s, Take(c, s, f, j)
  PROVE  NothingOutlivesItsCall'
<1>1. /\ held' = [held EXCEPT ![c] = s] /\ job' = [job EXCEPT ![c] = j]
      /\ st' = [st EXCEPT ![s] = Begun(s, f, c, j)]
      /\ held[c] = NoState
  BY DEF Take, OwnInv, ExclusiveOwnership
<1>2. DOMAIN held = Callers /\ DOMAIN job = Callers /\ DOMAIN st = States
  BY DEF OwnInv, Shaped
<1>3. ASSUME NEW x \in States
      PROVE  \/ \E a \in Callers : held'[a] = x /\ ServesJob(st'[x], job'[a])
             \/ (\A a \in Callers : held'[a] # x) /\ Bare(st'[x])
  <2>1. CASE x = s
    <3>1. held'[c] = s /\ job'[c] = j /\ st'[s] = Begun(s, f, c, j)
      BY <1>1, <1>2
    <3> QED BY <2>1, <3>1, BegunServes
  <2>2. CASE x # s
    <3>1. st'[x] = st[x]
      BY <1>1, <1>2, <2>2
    <3>2. CASE \E a \in Callers : held[a] = x /\ ServesJob(st[x], job[a])
      <4>1. PICK a \in Callers : held[a] = x /\ ServesJob(st[x], job[a])
        BY <3>2
      <4>2. a # c
        BY <1>1, <4>1, NamesAssumption
      <4>3. held'[a] = x /\ job'[a] = job[a]
        BY <1>1, <1>2, <4>1, <4>2
      <4> QED BY <3>1, <4>1, <4>3
    <3>3. CASE (\A a \in Callers : held[a] # x) /\ Bare(st[x])
      BY <1>1, <1>2, <2>2, <3>1, <3>3
    <3> QED BY <3>2, <3>3, OutlivesRestated
  <2> QED BY <2>1, <2>2
<1> QED BY <1>3 DEF NothingOutlivesItsCall, ServesJob, Bare, Refers

LEMMA OutlivesStep ==
  ASSUME OwnInv, NothingOutlivesItsCall, [Next]_vars
  PROVE  NothingOutlivesItsCall'
<1>1. DOMAIN held = Callers /\ DOMAIN job = Callers /\ DOMAIN st = States
  BY DEF OwnInv, Shaped
<1>2. CASE Tick \/ UNCHANGED vars \/ \E c \in Callers : Recycle(c) \/ NotSimple(c)
  <2>1. UNCHANGED <<st, held, job>>
    BY <1>2 DEF Tick, Recycle, NotSimple, vars, callVars
  <2> QED BY <2>1 DEF NothingOutlivesItsCall
<1>3. ASSUME NEW s \in States, Collect(s) PROVE NothingOutlivesItsCall'
  <2>1. UNCHANGED <<held, job>> /\ st' = [st EXCEPT ![s] = NewState]
    BY <1>3 DEF Collect, Garbage, callVars
  <2>2. \A c \in Callers : held[c] # s
    BY <1>3 DEF Collect, OwnInv, ExclusiveOwnership
  <2>3. ASSUME NEW x \in States
        PROVE  \/ \E a \in Callers : held'[a] = x /\ ServesJob(st'[x], job'[a])
               \/ (\A a \in Callers : held'[a] # x) /\ Bare(st'[x])
    <3>1. CASE x = s
      BY <1>1, <2>1, <2>2, <3>1, NewStateIsBare
    <3>2. CASE x # s
      BY <1>1, <2>1, <3>2, OutlivesRestated
    <3> QED BY <3>1, <3>2
  <2> QED BY <2>3 DEF NothingOutlivesItsCall, ServesJob, Bare, Refers
<1>4. ASSUME NEW c \in Callers, NEW s \in States, NEW j, StartPooled(c, s, j) \/ StartNew(c, s, j)
      PROVE  NothingOutlivesItsCall'
  <2>1. CASE StartPooled(c, s, j)
    <3>1. \A a \in Callers : held[a] # s
      BY <2>1 DEF StartPooled, GetPooled, OwnInv, ExclusiveOwnership
    <3>2. Bare(st[s]) /\ IsState(st[s])
      BY <3>1, OutlivesRestated DEF OwnInv, Shaped, IsState
    <3> QED BY <2>1, <3>1, <3>2, TakeOutlives DEF StartPooled, GetPooled
  <2>2. CASE StartNew(c, s, j)
    <3>1. \A a \in Callers : held[a] # s
      BY <2>2 DEF StartNew, InUse
    <3> QED BY <2>2, <3>1, NewStateFields, NewStateIsBare, TakeOutlives DEF StartNew
  <2> QED BY <1>4, <2>1, <2>2
<1>5. ASSUME NEW c \in Callers, Works(c) PROVE NothingOutlivesItsCall'
  <2>1. /\ UNCHANGED <<held, job>> /\ held[c] \in States
        /\ \A s \in States \ {held[c]} : st'[s] = st[s]
    BY <1>5, WorksMoves, WorksAlone
  <2>2. ServesJob(st'[held[c]], job[c])
    BY <1>5, WorksServes
  <2>3. ASSUME NEW s \in States
        PROVE  \/ \E a \in Callers : held'[a] = s /\ ServesJob(st'[s], job'[a])
               \/ (\A a \in Callers : held'[a] # s) /\ Bare(st'[s])
    <3>1. CASE s = held[c]
      BY <2>1, <2>2, <3>1
    <3>2. CASE s # held[c]
      BY <2>1, <3>2, OutlivesRestated
    <3> QED BY <3>1, <3>2
  <2> QED BY <2>3 DEF NothingOutlivesItsCall, ServesJob, Bare, Refers
<1>6. ASSUME NEW c \in Callers, Panic(c) PROVE NothingOutlivesItsCall'
  <2>1. held[c] \in States
    BY <1>6 DEF Panic, OwnInv, Shaped, ExclusiveOwnership
  <2> QED BY <1>6, <2>1, EndOutlives, NewStateIsBare DEF Panic, Garbage
<1>7. ASSUME NEW c \in Callers, Release(c) PROVE NothingOutlivesItsCall'
  <2> DEFINE kept == [st[held[c]] EXCEPT !.buf = Kept(c)]
             f == Weighed(kept, shape[job[c].doc].size)
  <2>1. held[c] \in States
    BY <1>7, ReleaseMakes
  <2>2. IsState(f)
    BY <2>1, WeighedFields DEF OwnInv, Shaped, IsState, StateFields
  <2>3. Bare(Cleared(f))
    BY <2>2, ClearedIsBare
  <2>4. \E outcome : Leave(c, outcome)
    BY <1>7 DEF Release, ReleaseWith
  <2>5. CASE st' = [st EXCEPT ![held[c]] = NewState]
    BY <2>1, <2>4, <2>5, EndOutlives, NewStateIsBare
  <2>6. CASE st' = [st EXCEPT ![held[c]] = Cleared(f)]
    BY <2>1, <2>3, <2>4, <2>6, EndOutlives
  <2> QED BY <1>7, <2>5, <2>6, ReleaseMakes
<1> QED BY <1>2, <1>3, <1>4, <1>5, <1>6, <1>7 DEF Next, Step, Works

(* What a state refers to of a document or of a caller is of the call it    *)
(* serves, and nothing of it outlives the call: no record, no slot, no      *)
(* Record, no envelope, no buffer and no Options, however the calls, their  *)
(* callbacks and the collector interleave (begin, build, deliver, release). *)
THEOREM NothingOutlivesHolds == Spec => []NothingOutlivesItsCall
<1>1. Init => NothingOutlivesItsCall
  <2> SUFFICES ASSUME Init PROVE NothingOutlivesItsCall
    OBVIOUS
  <2>1. \A s \in States : (\A c \in Callers : held[c] # s) /\ Bare(st[s])
    BY NewStateIsBare, NamesAssumption DEF Init
  <2> QED BY <2>1, OutlivesRestated
<1>2. OwnInv /\ NothingOutlivesItsCall /\ [Next]_vars => NothingOutlivesItsCall'
  BY OutlivesStep
<1> QED BY <1>1, <1>2, OwnInvInvariant, PTL DEF Spec

-----------------------------------------------------------------------------
(* CallShaped is an invariant beside OwnInv.                                 *)

LEMMA NewStateWeighs == Weighs(NewState)
  BY DEF NewState, Weighs

LEMMA BegunWeighs ==
  ASSUME NEW s, NEW f, NEW c, NEW j, IsState(f), Weighs(f)
  PROVE  Weighs(Begun(s, f, c, j))
  BY DEF IsState, StateFields, Begun, BegunAt, Weighs

LEMMA BuiltWeighs ==
  ASSUME NEW f, NEW n, NEW time, IsState(f), Weighs(f)
  PROVE  Weighs(Built(f, n, time))
  BY DEF IsState, StateFields, Built, BuiltFrom, Weighs

LEMMA WeighedWeighs ==
  ASSUME NEW f, NEW n \in Nat, IsState(f), Weighs(f)
  PROVE  Weighs(Weighed(f, n))
  BY DEF IsState, StateFields, Weighed, WeighedTo, Weighs

LEMMA ClearedWeighs ==
  ASSUME NEW f, IsState(f)
  PROVE  /\ Weighs(f) => Weighs(Cleared(f))
         /\ Cleared(f).small = f.small
  BY DEF IsState, StateFields, Cleared, Weighs

LEMMA DocOfJob ==
  ASSUME NEW j \in Calls!Jobs
  PROVE  shape[j.doc].size \in Nat
<1>1. j.doc \in Docs
  BY DEF Calls!Jobs
<1> QED BY <1>1, DocumentsAssumption DEF Shape

(* Steps that keep the counters of all states, the jobs and who is idle. *)
LEMMA KeepShaped ==
  ASSUME CallShaped,
         DOMAIN i' = Callers, DOMAIN row' = Callers,
         DOMAIN spoilt' = Callers, DOMAIN shown' = Callers,
         DOMAIN mem' = Callers \cup States,
         \A s \in States : Weighs(st'[s]),
         job' = job,
         \A c \in Callers : pc'[c] # "idle" => pc[c] # "idle"
  PROVE  CallShaped'
  BY DEF CallShaped, Weighs

LEMMA TakeShaped ==
  ASSUME CallInv, NEW c \in Callers, NEW s \in States, NEW f, NEW j \in Calls!Jobs,
         IsState(f), Weighs(f), Take(c, s, f, j), DOMAIN mem' = Callers \cup States
  PROVE  CallShaped'
<1>1. Weighs(Begun(s, f, c, j))
  BY BegunWeighs
<1>2. \A x \in States : Weighs(st'[x])
  BY <1>1 DEF Take, CallInv, OwnInv, Shaped, CallShaped
<1>3. \A a \in Callers : pc'[a] # "idle" => job'[a] \in Calls!Jobs
  BY DEF Take, CallInv, OwnInv, Shaped, CallShaped
<1> QED BY <1>2, <1>3 DEF Take, CallInv, CallShaped, Weighs

LEMMA WorksShaped ==
  ASSUME CallInv, NEW c \in Callers, Works(c)
  PROVE  CallShaped'
<1> DEFINE Domains == /\ DOMAIN i' = Callers /\ DOMAIN row' = Callers
                      /\ DOMAIN spoilt' = Callers /\ DOMAIN shown' = Callers
                      /\ DOMAIN mem' = Callers \cup States
                      /\ job' = job
<1>1. Domains
  <2>1. CASE Parse(c) \/ Build(c) \/ Deliver(c) \/ ReturnError(c)
    <3>1. DOMAIN shown' = DOMAIN shown /\ UNCHANGED <<i, row, spoilt, job>>
      BY <2>1, WorksShows, WorksMoves
    <3>2. DOMAIN mem' = DOMAIN mem
      <4>1. CASE Build(c)
        BY <4>1 DEF Build
      <4>2. CASE Parse(c) \/ Deliver(c) \/ ReturnError(c)
        BY <4>2 DEF Parse, Deliver, ShowRecord, ReturnError
      <4> QED BY <2>1, <4>1, <4>2
    <3> QED BY <3>1, <3>2 DEF CallInv, CallShaped
  <2>3. CASE Return(c)
    <3>1. /\ DOMAIN i' = DOMAIN i /\ DOMAIN row' = DOMAIN row
          /\ DOMAIN spoilt' = DOMAIN spoilt
      BY <2>3 DEF Return, GoOn
    <3>2. DOMAIN shown' = DOMAIN shown /\ UNCHANGED <<mem, job>>
      BY <2>3 DEF Return, GoOn, Forget
    <3> QED BY <3>1, <3>2 DEF CallInv, CallShaped
  <2>4. CASE \E how \in {"own", "past"} : Scribble(c, how)
    <3>1. /\ DOMAIN mem' = DOMAIN mem /\ DOMAIN spoilt' = DOMAIN spoilt
          /\ UNCHANGED <<i, row, shown, job>>
      BY <2>4, ScribbleEffect
    <3> QED BY <3>1 DEF CallInv, CallShaped
  <2> QED BY <2>1, <2>3, <2>4 DEF Works
<1>2. pc[c] # "idle" /\ \A a \in Callers \ {c} : pc'[a] = pc[a]
  <2>1. DOMAIN pc = Callers
    BY DEF CallInv, OwnInv, Shaped
  <2>2. pc[c] # "idle" /\ (pc' = pc \/ \E to : pc' = [pc EXCEPT ![c] = to])
    BY WorksMoves
  <2> QED BY <2>1, <2>2
<1>3. \A a \in Callers : pc'[a] # "idle" => pc[a] # "idle"
  BY <1>2
<1>4. held[c] \in States /\ \A s \in States \ {held[c]} : st'[s] = st[s]
  BY WorksAlone DEF CallInv
<1>5. IsState(st[held[c]]) /\ Weighs(st[held[c]]) /\ DOMAIN st = States
  BY <1>4 DEF CallInv, CallShaped, OwnInv, Shaped, IsState
<1>6. Weighs(st'[held[c]])
  <2>1. CASE Parse(c)
    BY <1>4, <1>5, <2>1 DEF Parse, Weighs, IsState, StateFields
  <2>2. CASE Build(c)
    BY <1>4, <1>5, <2>2, BuiltWeighs DEF Build
  <2>3. CASE Deliver(c)
    <3>1. {"small", "peak"} \subseteq StateFields \ {"record"}
      BY DEF StateFields
    <3> QED BY <1>4, <1>5, <2>3, <3>1, DeliverEffect DEF CallInv, Weighs
  <2>5. CASE Return(c) \/ ReturnError(c)
    BY <1>5, <2>5 DEF Return, GoOn, ReturnError
  <2>4. CASE \E how \in {"own", "past"} : Scribble(c, how)
    <3>1. {"small", "peak"} \subseteq StateFields \ {"fields", "derived"}
      BY DEF StateFields
    <3> QED BY <1>4, <1>5, <2>4, <3>1, ScribbleEffect, ScribbledFields DEF Weighs
  <2> QED BY <2>1, <2>2, <2>3, <2>4, <2>5 DEF Works
<1>7. \A s \in States : Weighs(st'[s])
  BY <1>4, <1>6 DEF CallInv, CallShaped, Weighs
<1> QED BY <1>1, <1>3, <1>7, KeepShaped DEF CallInv

(* The end of a call, which leaves f of its state. *)
LEMMA EndShaped ==
  ASSUME CallInv, NEW c \in Callers, held[c] \in States, NEW f, Weighs(f),
         st' = [st EXCEPT ![held[c]] = f],
         \E outcome : Leave(c, outcome),
         DOMAIN shown' = Callers, DOMAIN mem' = Callers \cup States
  PROVE  CallShaped'
<1>1. \A s \in States : Weighs(st'[s])
  BY DEF CallInv, CallShaped, OwnInv, Shaped
<1>2. \A a \in Callers : pc'[a] # "idle" => job'[a] \in Calls!Jobs
  BY DEF Leave, Goto, CallInv, CallShaped, OwnInv, Shaped
<1> QED BY <1>1, <1>2 DEF Leave, CallInv, CallShaped, Weighs

LEMMA ReleaseWeighs ==
  ASSUME CallInv, NEW c \in Callers, Release(c)
  PROVE  LET n == shape[job[c].doc].size
             f == Weighed([st[held[c]] EXCEPT !.buf = Kept(c)], n)
         IN  n \in Nat /\ IsState(f) /\ Weighs(f)
<1> DEFINE n == shape[job[c].doc].size
           kept == [st[held[c]] EXCEPT !.buf = Kept(c)]
<1>1. held[c] \in States
  BY ReleaseMakes DEF CallInv
<1>2. n \in Nat
  BY DocOfJob DEF Release, ReleaseWith, CallInv, CallShaped
<1>3. IsState(kept) /\ Weighs(kept)
  BY <1>1 DEF CallInv, CallShaped, OwnInv, Shaped, IsState, StateFields, Weighs
<1> HIDE DEF n, kept
<1>4. IsState(Weighed(kept, n)) /\ Weighs(Weighed(kept, n))
  BY <1>2, <1>3, WeighedFields, WeighedWeighs
<1> QED BY <1>2, <1>4 DEF n, kept

LEMMA ShapedStep ==
  ASSUME CallInv, [Next]_vars
  PROVE  CallShaped'
<1>1. CASE Tick \/ UNCHANGED vars \/ \E c \in Callers : Recycle(c) \/ NotSimple(c)
  <2>1. UNCHANGED <<st, pc, job, i, row, spoilt, shown>> /\ DOMAIN mem' = DOMAIN mem
    BY <1>1 DEF Tick, Recycle, NotSimple, vars, callVars
  <2> QED BY <2>1 DEF CallInv, CallShaped, Weighs
<1>2. ASSUME NEW s \in States, Collect(s) PROVE CallShaped'
  <2>1. UNCHANGED <<pc, job, i, row, spoilt, shown>> /\ DOMAIN mem' = DOMAIN mem
    BY <1>2 DEF Collect, callVars
  <2>2. \A x \in States : Weighs(st'[x])
    BY <1>2, NewStateWeighs DEF Collect, Garbage, CallInv, CallShaped, OwnInv, Shaped
  <2> QED BY <2>1, <2>2 DEF CallInv, CallShaped
<1>3. ASSUME NEW c \in Callers, NEW s \in States, NEW j \in Calls!Jobs,
             StartPooled(c, s, j) \/ StartNew(c, s, j)
      PROVE CallShaped'
  <2>1. CASE StartPooled(c, s, j)
    <3>1. DOMAIN mem' = Callers \cup States
      BY <2>1 DEF StartPooled, GetPooled, CallInv, CallShaped
    <3>2. IsState(st[s]) /\ Weighs(st[s])
      BY DEF CallInv, CallShaped, OwnInv, Shaped, IsState
    <3> QED BY <2>1, <3>1, <3>2, TakeShaped DEF StartPooled, GetPooled
  <2>2. CASE StartNew(c, s, j)
    <3>1. DOMAIN mem' = Callers \cup States
      BY <2>2 DEF StartNew, CallInv, CallShaped
    <3> QED BY <2>2, <3>1, NewStateFields, NewStateWeighs, TakeShaped DEF StartNew
  <2> QED BY <1>3, <2>1, <2>2
<1>4. ASSUME NEW c \in Callers, Works(c) PROVE CallShaped'
  BY <1>4, WorksShaped
<1>5. ASSUME NEW c \in Callers, Panic(c) PROVE CallShaped'
  <2>1. held[c] \in States
    BY <1>5 DEF Panic, CallInv, OwnInv, Shaped, ExclusiveOwnership
  <2>2. DOMAIN shown' = Callers /\ DOMAIN mem' = Callers \cup States
    BY <1>5 DEF Panic, Forget, CallInv, CallShaped
  <2> QED BY <1>5, <2>1, <2>2, EndShaped, NewStateWeighs DEF Panic, Garbage
<1>6. ASSUME NEW c \in Callers, Release(c) PROVE CallShaped'
  <2> DEFINE f == Weighed([st[held[c]] EXCEPT !.buf = Kept(c)], shape[job[c].doc].size)
  <2>1. DOMAIN shown' = Callers /\ DOMAIN mem' = Callers \cup States
    BY <1>6 DEF Release, ReleaseWith, CallInv, CallShaped
  <2>2. \E outcome : Leave(c, outcome)
    BY <1>6 DEF Release, ReleaseWith
  <2>3. Weighs(Cleared(f))
    BY <1>6, ReleaseWeighs, ClearedWeighs
  <2>4. /\ held[c] \in States
        /\ st' = [st EXCEPT ![held[c]] = NewState] \/ st' = [st EXCEPT ![held[c]] = Cleared(f)]
    BY <1>6, ReleaseMakes DEF CallInv
  <2> HIDE DEF f
  <2> QED BY <2>1, <2>2, <2>3, <2>4, EndShaped, NewStateWeighs
<1> QED BY <1>1, <1>2, <1>3, <1>4, <1>5, <1>6 DEF Next, Step, Works

LEMMA CallInvInvariant == Spec => []CallInv
<1>1. Init => CallShaped
  BY NewStateWeighs DEF Init, CallShaped
<1>2. OwnInv /\ CallShaped /\ [Next]_vars => CallShaped'
  BY ShapedStep DEF CallInv
<1>3. CallInv <=> OwnInv /\ CallShaped
  BY DEF CallInv
<1> QED BY <1>1, <1>2, <1>3, OwnInvInvariant, PTL DEF Spec

-----------------------------------------------------------------------------
(* StableDuringCallback.                                                    *)

(* A step leaves alone all that the Record of caller a refers to. *)
Leaves(a) ==
  /\ pc'[a] = pc[a] /\ held'[a] = held[a] /\ shown'[a] = shown[a]
  /\ spoilt'[a] = spoilt[a] /\ i'[a] = i[a] /\ row'[a] = row[a]
  /\ st'[held[a]] = st[held[a]]
  /\ \A b \in {a, held[a]} : mem'[b] = mem[b]

InCallback(a) == pc[a] = "callback" /\ spoilt[a] = "no"

(* The buffer a Record is in belongs to its call. *)
LEMMA LeftIsStable ==
  ASSUME CallInv, StableDuringCallback, NEW a \in Callers, InCallback(a)', Leaves(a)
  PROVE  View(a)' = shown'[a]
<1>1. held[a] # NoState /\ st[held[a]].out \in {a, held[a]}
  BY DEF InCallback, Leaves, CallInv, OwnInv, ExclusiveOwnership
<1>2. View(a) = shown[a]
  BY DEF InCallback, Leaves, StableDuringCallback
<1>3. mem'[st[held[a]].out] = mem[st[held[a]].out]
  BY <1>1 DEF Leaves
<1>4. RowAt(st[held[a]], row[a])' = RowAt(st[held[a]], row[a])
  BY <1>3 DEF RowAt, Leaves
<1>5. View(a)' = View(a)
  BY <1>4 DEF View, Leaves
<1> QED BY <1>2, <1>5 DEF Leaves

(* The steps of a call change none of what another caller is shown. *)
LEMMA WorksLeaves ==
  ASSUME CallInv, NEW c \in Callers, Works(c), NEW a \in Callers \ {c}, held[a] \in States
  PROVE  Leaves(a)
<1>1. held[c] \in States /\ \A s \in States \ {held[c]} : st'[s] = st[s]
  BY WorksAlone DEF CallInv
<1>2. held[a] # held[c] /\ held[c] # NoState
  BY <1>1, NamesAssumption DEF CallInv, OwnInv, ExclusiveOwnership
<1>3. st[held[c]].out \in {c, held[c]}
  BY <1>2 DEF CallInv, OwnInv, ExclusiveOwnership
<1>4. Built(st[held[c]], i[c], clock).out = st[held[c]].out
  BY <1>1, BuiltFields DEF CallInv, OwnInv, Shaped, IsState
<1>5. \A b \in {a, held[a]} : b \in DOMAIN mem /\ b \notin {c, held[c]}
  BY <1>1, <1>2, NamesAssumption DEF CallInv, CallShaped
<1>6. \A b \in {a, held[a]} : mem'[b] = mem[b]
  <2>1. CASE Build(c)
    BY <1>3, <1>4, <1>5, <2>1 DEF Build
  <2>2. CASE \E how \in {"own", "past"} : Scribble(c, how)
    <3>1. \/ mem' = mem
          \/ \E f : mem' = [mem EXCEPT ![st[held[c]].out] = f]
      BY <2>2, ScribbleEffect
    <3> QED BY <1>3, <1>5, <3>1
  <2>3. CASE Parse(c) \/ Deliver(c) \/ Return(c) \/ ReturnError(c)
    BY <2>3 DEF Parse, Deliver, ShowRecord, Return, GoOn, ReturnError
  <2> QED BY <2>1, <2>2, <2>3 DEF Works
<1>7. pc'[a] = pc[a] /\ held'[a] = held[a]
  <2>1. DOMAIN pc = Callers
    BY DEF CallInv, OwnInv, Shaped
  <2> QED BY <2>1, WorksMoves
<1>8. /\ shown'[a] = shown[a] /\ spoilt'[a] = spoilt[a]
      /\ i'[a] = i[a] /\ row'[a] = row[a]
  <2>1. CASE Parse(c) \/ Build(c) \/ Deliver(c) \/ ReturnError(c)
    <3>1. DOMAIN shown = Callers
      BY DEF CallInv, CallShaped
    <3> QED BY <2>1, <3>1, WorksShows
  <2>2. CASE Return(c)
    BY <2>2 DEF Return, GoOn, Forget, CallInv, CallShaped
  <2>3. CASE \E how \in {"own", "past"} : Scribble(c, how)
    <3>1. UNCHANGED <<shown, i, row>> /\ \E mark : spoilt' = [spoilt EXCEPT ![c] = mark]
      BY <2>3, ScribbleEffect
    <3>2. DOMAIN spoilt = Callers
      BY DEF CallInv, CallShaped
    <3> QED BY <3>1, <3>2
  <2> QED BY <2>1, <2>2, <2>3 DEF Works
<1> QED BY <1>1, <1>2, <1>6, <1>7, <1>8 DEF Leaves

(* Of a call's own steps, only the start of a callback makes it one that    *)
(* has not written to what it is shown.                                     *)
LEMMA OwnStepIsStable ==
  ASSUME CallInv, NEW c \in Callers, Works(c), InCallback(c)'
  PROVE  View(c)' = shown'[c]
<1>1. c \in DOMAIN pc /\ c \in DOMAIN spoilt /\ c \in DOMAIN shown
  BY DEF CallInv, CallShaped, OwnInv, Shaped
<1>2. ~(Parse(c) \/ Build(c) \/ ReturnError(c) \/ Return(c))
  BY <1>1 DEF InCallback, Parse, Build, ReturnError, Return, GoOn, Goto
<1>3. ~ \E how \in {"own", "past"} : Scribble(c, how)
  BY <1>1 DEF InCallback, Scribble
<1>4. Deliver(c)
  BY <1>2, <1>3 DEF Works
<1>5. UNCHANGED <<mem, held, i, row>> /\ shown'[c] = View(c)
  BY <1>1, <1>4 DEF Deliver, ShowRecord
<1>6. {"out", "base", "derived", "fields", "err"} \subseteq StateFields \ {"record"}
  BY DEF StateFields
<1>7. /\ st'[held[c]].out = st[held[c]].out /\ st'[held[c]].base = st[held[c]].base
      /\ st'[held[c]].derived = st[held[c]].derived /\ st'[held[c]].fields = st[held[c]].fields
      /\ st'[held[c]].err = st[held[c]].err
  BY <1>4, <1>6, DeliverEffect DEF CallInv
<1> QED BY <1>5, <1>7 DEF View, RowAt

(* The start and the end of a call, seen by another: they write to the      *)
(* state s and to the buffers of that state and of the caller c.            *)
LEMMA StartLeaves ==
  ASSUME CallInv, NEW c \in Callers, NEW s \in States, NEW j,
         StartPooled(c, s, j) \/ StartNew(c, s, j),
         NEW a \in Callers \ {c}, held[a] \in States
  PROVE  Leaves(a)
<1>1. s # held[a]
  BY DEF StartPooled, GetPooled, StartNew, InUse, CallInv, OwnInv, ExclusiveOwnership
<1>2. mem' = mem \/ \E v : mem' = [mem EXCEPT ![s] = v]
  BY DEF StartPooled, GetPooled, StartNew
<1>3. \A b \in {a, held[a]} : mem'[b] = mem[b]
  BY <1>1, <1>2, NamesAssumption DEF CallInv, CallShaped
<1>4. \E f : Take(c, s, f, j)
  BY DEF StartPooled, GetPooled, StartNew
<1>5. /\ pc'[a] = pc[a] /\ held'[a] = held[a] /\ st'[held[a]] = st[held[a]]
      /\ shown' = shown
  BY <1>1, <1>4 DEF Take, CallInv, OwnInv, Shaped
<1>6. i'[a] = i[a] /\ row'[a] = row[a] /\ spoilt'[a] = spoilt[a]
  BY <1>4 DEF Take, CallInv, CallShaped
<1> QED BY <1>3, <1>5, <1>6 DEF Leaves

LEMMA EndLeaves ==
  ASSUME CallInv, NEW c \in Callers, Panic(c) \/ Release(c),
         NEW a \in Callers \ {c}, held[a] \in States
  PROVE  Leaves(a)
<1>1. held[c] \in States
  BY DEF Panic, Release, ReleaseWith, CallInv, OwnInv, Shaped, ExclusiveOwnership
<1>2. held[a] # held[c]
  BY <1>1, NamesAssumption DEF CallInv, OwnInv, ExclusiveOwnership
<1>3. \E f : st' = [st EXCEPT ![held[c]] = f]
  <2>1. CASE Panic(c)
    BY <2>1 DEF Panic, Garbage
  <2>2. CASE Release(c)
    BY <2>2, ReleaseMakes DEF CallInv
  <2> QED BY <2>1, <2>2
<1>4. \A b \in {a, held[a]} : mem'[b] = mem[b]
  <2>1. \A b \in {a, held[a]} : b \in DOMAIN mem /\ b \notin {c, held[c]}
    BY <1>1, <1>2, NamesAssumption DEF CallInv, CallShaped
  <2>2. CASE Panic(c)
    BY <2>1, <2>2 DEF Panic
  <2>3. CASE Release(c)
    <3>1. PICK cut : /\ cut = mem \/ \E v : cut = [mem EXCEPT ![c] = v]
                     /\ mem' = cut \/ mem' = [cut EXCEPT ![held[c]] = <<>>]
      BY <2>3 DEF Release, ReleaseWith
    <3>2. DOMAIN cut = DOMAIN mem /\ \A b \in {a, held[a]} : cut[b] = mem[b]
      BY <2>1, <3>1
    <3> QED BY <2>1, <3>1, <3>2
  <2> QED BY <2>2, <2>3
<1>5. shown'[a] = shown[a]
  BY DEF Panic, Forget, Release, ReleaseWith, CallInv, CallShaped
<1>6. \E outcome : Leave(c, outcome)
  BY DEF Panic, Release, ReleaseWith
<1>7. /\ pc'[a] = pc[a] /\ held'[a] = held[a]
      /\ i'[a] = i[a] /\ row'[a] = row[a] /\ spoilt'[a] = spoilt[a]
  BY <1>6 DEF Leave, Goto, CallInv, CallShaped, OwnInv, Shaped
<1>8. st'[held[a]] = st[held[a]]
  BY <1>2, <1>3 DEF CallInv, OwnInv, Shaped
<1> QED BY <1>4, <1>5, <1>7, <1>8 DEF Leaves

(* The collector and a caller that empties its buffer between two calls. *)
LEMMA IdleLeaves ==
  ASSUME CallInv, NEW a \in Callers, held[a] \in States,
         \/ Tick \/ UNCHANGED vars
         \/ \E s \in States : Collect(s)
         \/ \E c \in Callers : Recycle(c) \/ NotSimple(c)
  PROVE  Leaves(a)
<1>1. pc[a] # "idle" /\ held[a] \notin pool
  BY NamesAssumption DEF CallInv, OwnInv, ExclusiveOwnership
<1>2. UNCHANGED <<pc, held, i, row, shown, spoilt>>
  BY DEF Tick, Collect, Recycle, NotSimple, vars, callVars
<1>3. CASE Tick \/ UNCHANGED vars
  BY <1>2, <1>3 DEF Tick, vars, Leaves
<1>4. ASSUME NEW s \in States, Collect(s) PROVE Leaves(a)
  <2>1. s # held[a] /\ s # a
    BY <1>1, <1>4, NamesAssumption DEF Collect
  <2>2. st'[held[a]] = st[held[a]] /\ \A b \in {a, held[a]} : mem'[b] = mem[b]
    BY <1>4, <2>1 DEF Collect, Garbage, CallInv, CallShaped, OwnInv, Shaped
  <2> QED BY <1>2, <2>2 DEF Leaves
<1>5. ASSUME NEW c \in Callers, Recycle(c) \/ NotSimple(c) PROVE Leaves(a)
  <2>1. c # held[a] /\ (Recycle(c) => c # a)
    BY <1>1, NamesAssumption DEF Recycle
  <2>2. st' = st /\ \A b \in {a, held[a]} : mem'[b] = mem[b]
    BY <1>5, <2>1 DEF Recycle, NotSimple, CallInv, CallShaped
  <2> QED BY <1>2, <2>2 DEF Leaves
<1> QED BY <1>3, <1>4, <1>5

LEMMA StableStep ==
  ASSUME CallInv, CallInv', StableDuringCallback, [Next]_vars
  PROVE  StableDuringCallback'
<1> SUFFICES ASSUME NEW a \in Callers, InCallback(a)' PROVE View(a)' = shown'[a]
  BY DEF StableDuringCallback, InCallback
<1>1. held'[a] \in States
  BY DEF InCallback, CallInv, OwnInv, Shaped, ExclusiveOwnership
<1>2. CASE held[a] \in States
  <2>1. Leaves(a) => View(a)' = shown'[a]
    BY LeftIsStable
  <2>2. CASE Works(a)
    BY <2>2, OwnStepIsStable
  <2>3. CASE \E c \in Callers \ {a} : Works(c)
    BY <1>2, <2>1, <2>3, WorksLeaves
  <2>4. CASE \E c \in Callers \ {a}, s \in States, j \in Calls!Jobs :
               StartPooled(c, s, j) \/ StartNew(c, s, j)
    BY <1>2, <2>1, <2>4, StartLeaves
  <2>5. CASE \E c \in Callers \ {a} : Panic(c) \/ Release(c)
    BY <1>2, <2>1, <2>5, EndLeaves
  <2>6. CASE \/ Tick \/ UNCHANGED vars
             \/ \E s \in States : Collect(s)
             \/ \E c \in Callers : Recycle(c) \/ NotSimple(c)
    BY <1>2, <2>1, <2>6, IdleLeaves
  <2>7. ~ (Panic(a) \/ Release(a))
    BY DEF InCallback, Panic, Release, ReleaseWith, Leave, Goto, CallInv, OwnInv, Shaped
  <2>8. ~ \E s \in States, j \in Calls!Jobs : StartPooled(a, s, j) \/ StartNew(a, s, j)
    BY DEF InCallback, StartPooled, GetPooled, StartNew, Take, CallInv, OwnInv, Shaped
  <2> QED BY <2>2, <2>3, <2>4, <2>5, <2>6, <2>7, <2>8 DEF Next, Step, Works
<1>3. CASE held[a] \notin States
  <2>1. pc[a] = "idle"
    BY <1>3 DEF CallInv, OwnInv, Shaped, ExclusiveOwnership
  <2>2. pc'[a] # "callback"
    <3>1. DOMAIN pc = Callers
      BY DEF CallInv, OwnInv, Shaped
    <3>2. ASSUME NEW c \in Callers, Works(c) PROVE pc'[a] # "callback"
      <4>1. c # a
        BY <2>1, <3>2, WorksMoves
      <4> QED BY <2>1, <3>1, <3>2, <4>1, WorksMoves
    <3>3. ASSUME NEW c \in Callers, NEW s \in States, NEW j,
                 StartPooled(c, s, j) \/ StartNew(c, s, j)
          PROVE pc'[a] # "callback"
      BY <2>1, <3>1, <3>3 DEF StartPooled, GetPooled, StartNew, Take
    <3>4. ASSUME NEW c \in Callers, Panic(c) \/ Release(c) PROVE pc'[a] # "callback"
      BY <2>1, <3>1, <3>4 DEF Panic, Release, ReleaseWith, Leave, Goto
    <3>5. CASE \/ Tick \/ UNCHANGED vars
               \/ \E s \in States : Collect(s)
               \/ \E c \in Callers : Recycle(c) \/ NotSimple(c)
      BY <2>1, <3>5 DEF Tick, Collect, Recycle, NotSimple, vars
    <3> QED BY <3>2, <3>3, <3>4, <3>5 DEF Next, Step, Works
  <2> QED BY <2>2 DEF InCallback
<1> QED BY <1>2, <1>3

(* While a callback runs and writes to nothing it is shown, its Record stays *)
(* what it was, whatever other calls, other callbacks and the collector do   *)
(* (deliver; the comment of Record).                                         *)
THEOREM StableHolds == Spec => []StableDuringCallback
<1>1. Init => StableDuringCallback
  BY DEF Init, StableDuringCallback
<1>2. CallInv /\ CallInv' /\ StableDuringCallback /\ [Next]_vars => StableDuringCallback'
  BY StableStep
<1> QED BY <1>1, <1>2, CallInvInvariant, PTL DEF Spec

-----------------------------------------------------------------------------
(* The refinement. A call behaves as if it were alone because at each step  *)
(* its state and its buffer are what its own job and position make of them. *)

Contents ==
  [doc : Docs, index : Nat, row : Nat, env : Docs \cup {NoDoc},
   vars : {o.vars : o \in Options}, now : Nat] \cup {Junk}

Sized(f) ==
  f.out \in Callers \cup States \cup {NoBuf} /\ f.base \in Nat /\ f.rows \in Nat

Typed ==
  /\ clock \in Times
  /\ \A b \in Callers \cup States : mem[b] \in Seq(Contents)
  /\ i \in [Callers -> Nat] /\ row \in [Callers -> Nat]
  /\ spoilt \in [Callers -> {"no", "own", "past"}]
  /\ DOMAIN err = Callers /\ DOMAIN result = Callers
  /\ shown = [c \in Callers |-> shown[c]]
  /\ \A s \in States : Sized(st[s])

(* The state that serves a call, the buffer it writes to, and the record it *)
(* is at.                                                                   *)
Serving(c) == st[held[c]]
Buffer(c) == mem[Serving(c).out]
Doc(c) == job[c].doc
Current(c) == RecordAt(Doc(c), i[c])

Begins(c) ==
  /\ i[c] = 0 /\ row[c] = 0 /\ err[c] = "none" /\ spoilt[c] = "no"
  /\ Serving(c).env = NoDoc

InCall(c) ==
  /\ Serving(c).opt = job[c].opt
  /\ Serving(c).nowText \in Nat
  /\ Serving(c).base <= Len(Buffer(c))
  /\ job[c].op = "each" => Serving(c).base = 0

AtRecord(c) ==
  /\ Calls!Exploded(job[c])
  /\ i[c] < Len(shape[Doc(c)].records)
  /\ Serving(c).rec = Doc(c)
  /\ Serving(c).env = Calls!Envelope(job[c])
  /\ err[c] = "none"

ToBuild(c) ==
  /\ AtRecord(c)
  /\ row[c] = 0 /\ spoilt[c] = "no"
  /\ job[c].op = "append" => i[c] = 0

(* The rows from the given one on are as build made them, unless a callback *)
(* wrote past the end of its own.                                           *)
RowsFrom(c, first) ==
  \A k \in Nat : first <= k /\ k < Current(c).rows =>
    Buffer(c)[k + 1] = IF spoilt[c] = "past" THEN Junk
                       ELSE RowOf(Doc(c), i[c], k, Serving(c).env, Serving(c).opt,
                                  Serving(c).nowText)

NowIsRead(c, r) == r.readsNow => Serving(c).nowText # NoTime

Shows(c) ==
  /\ job[c].op = "each"
  /\ AtRecord(c)
  /\ Serving(c).err = ErrorOf(Current(c))
  /\ row[c] < Deliveries(Doc(c), i[c])
  /\ Serving(c).err = "none" =>
       /\ Serving(c).rows = Current(c).rows /\ Len(Buffer(c)) = Current(c).rows
       /\ NowIsRead(c, Current(c))
       /\ Serving(c).derived = IF spoilt[c] = "no" THEN NameOf(Doc(c), i[c], Serving(c).opt)
                               ELSE Junk
       /\ RowsFrom(c, IF pc[c] = "callback" THEN row[c] + 1 ELSE row[c])
  /\ Serving(c).fields = IF Current(c).err = "ErrRootNotContainer" THEN NoDoc
                         ELSE IF spoilt[c] # "no" THEN Junk
                         ELSE FieldsOf(Doc(c), i[c], Serving(c).env)

(* How a call ends, and the row that Append leaves. *)
EndsEach(c) ==
  /\ job[c].op = "each"
  /\ \/ err[c] = "callback error"
     \/ ~Calls!Exploded(job[c])
        /\ err[c] = IF shape[Doc(c)].valid THEN "ErrExplode" ELSE "parse error"
     \/ Calls!Exploded(job[c]) /\ err[c] = "none" /\ i[c] = Len(shape[Doc(c)].records)

EndsAppend(c) ==
  /\ job[c].op = "append"
  /\ err[c] = IF shape[Doc(c)].valid THEN ErrorOf(RecordAt(Doc(c), 0)) ELSE "parse error"
  /\ err[c] = "none" =>
       /\ NowIsRead(c, RecordAt(Doc(c), 0))
       /\ Buffer(c) = Append(SubSeq(Buffer(c), 1, Serving(c).base),
                             RowOf(Doc(c), 0, 0, NoDoc, NoOptions, Serving(c).nowText))

Follows(c) ==
  /\ pc[c] # "callback" => shown[c] = Calls!NoDelivery
  /\ pc[c] # "idle" => InCall(c)
  /\ pc[c] = "parse" => Begins(c)
  /\ pc[c] = "build" => ToBuild(c)
  /\ pc[c] \in {"deliver", "callback"} => Shows(c)
  /\ pc[c] = "release" => EndsEach(c) \/ EndsAppend(c)

FollowInv == CallInv /\ Typed /\ \A c \in Callers : Follows(c)

-----------------------------------------------------------------------------
(* Documents, and what build makes of their records.                        *)

(* EachCalls reads documents as Transformer does. *)
LEMMA SameDocuments ==
  /\ Calls!NoTime = NoTime /\ Calls!NoOptions = NoOptions
  /\ \A d, n : Calls!RecordAt(d, n) = RecordAt(d, n) /\ Calls!Deliveries(d, n) = Deliveries(d, n)
  /\ \A r : Calls!ErrorOf(r) = ErrorOf(r)
  /\ \A d, n, k, env, o, now : Calls!RowOf(d, n, k, env, o, now) = RowOf(d, n, k, env, o, now)
  /\ \A d, n, env : Calls!FieldsOf(d, n, env) = FieldsOf(d, n, env)
  /\ \A d, n, o : Calls!NameOf(d, n, o) = NameOf(d, n, o)
<1>1. Calls!NoTime = NoTime /\ Calls!NoOptions = NoOptions
  BY DEF Calls!NoTime, NoTime, Calls!NoOptions, NoOptions
<1>2. \A d, n : Calls!RecordAt(d, n) = RecordAt(d, n)
  BY DEF Calls!RecordAt, RecordAt
<1>3. \A r : Calls!ErrorOf(r) = ErrorOf(r)
  BY DEF Calls!ErrorOf, ErrorOf
<1>4. \A d, n : Calls!Deliveries(d, n) = Deliveries(d, n)
  BY <1>2, <1>3 DEF Calls!Deliveries, Deliveries
<1>5. \A d, n, k, env, o, now : Calls!RowOf(d, n, k, env, o, now) = RowOf(d, n, k, env, o, now)
  BY <1>1, <1>2 DEF Calls!RowOf, RowOf
<1>6. /\ \A d, n, env : Calls!FieldsOf(d, n, env) = FieldsOf(d, n, env)
      /\ \A d, n, o : Calls!NameOf(d, n, o) = NameOf(d, n, o)
  BY DEF Calls!FieldsOf, FieldsOf, Calls!NameOf, NameOf
<1> QED BY <1>1, <1>2, <1>3, <1>4, <1>5, <1>6

LEMMA RecordTyped ==
  ASSUME NEW d \in Docs
  PROVE  /\ shape[d].valid \in BOOLEAN /\ shape[d].batch \in {"absent", "array", "other"}
         /\ Len(shape[d].records) \in Nat
         /\ \A n \in Nat : n < Len(shape[d].records) => RecordAt(d, n) \in SourceRecord
         /\ Simple => /\ shape[d].batch = "absent" /\ Len(shape[d].records) = 1
                      /\ RecordAt(d, 0).rows <= 1
<1>1. shape[d] \in Shape
  BY DocumentsAssumption
<1> DEFINE records == shape[d].records
<1>2. records \in Seq(SourceRecord)
  BY <1>1 DEF Shape
<1> HIDE DEF records
<1>3. ASSUME NEW n \in Nat, n < Len(records) PROVE records[n + 1] \in SourceRecord
  BY <1>2, <1>3
<1>4. Len(records) \in Nat
  BY <1>2
<1>5. Simple => shape[d].batch = "absent" /\ Len(records) = 1 /\ records[0 + 1].rows <= 1
  BY DocumentsAssumption DEF records
<1>6. shape[d].valid \in BOOLEAN /\ shape[d].batch \in {"absent", "array", "other"}
  BY <1>1 DEF Shape
<1> QED BY <1>3, <1>4, <1>5, <1>6 DEF RecordAt, records

LEMMA OptionTyped ==
  ASSUME NEW o \in Options
  PROVE  o.now \in Nat /\ o.vars \in {x.vars : x \in Options}
  BY DocumentsAssumption

LEMMA JobTyped ==
  ASSUME NEW j \in Calls!Jobs
  PROVE  /\ j.doc \in Docs /\ j.opt \in Options
         /\ j.op \in {"each", "append"}
         /\ j.op = "append" => Simple /\ j.opt = NoOptions
         /\ Calls!Envelope(j) \in Docs \cup {NoDoc}
         /\ j.op = "append" => Calls!Envelope(j) = NoDoc
         /\ j.op = "append" /\ shape[j.doc].valid => Calls!Exploded(j)
<1>1. /\ j.doc \in Docs /\ j.opt \in Options
      /\ j.op \in {"each", "append"}
      /\ j.op = "append" => Simple /\ j.opt = NoOptions
  <2>1. NoOptions \in Options /\ Calls!NoOptions = NoOptions
    BY DocumentsAssumption, SameDocuments
  <2>2. \/ j \in [op : {"each"}, doc : Docs, opt : Options]
        \/ Simple /\ j \in [op : {"append"}, doc : Docs, opt : {NoOptions}]
    BY <2>1 DEF Calls!Jobs
  <2>3. CASE j \in [op : {"each"}, doc : Docs, opt : Options]
    BY <2>3
  <2>4. CASE Simple /\ j \in [op : {"append"}, doc : Docs, opt : {NoOptions}]
    BY <2>1, <2>4
  <2> QED BY <2>2, <2>3, <2>4
<1> QED BY <1>1, RecordTyped DEF Calls!Envelope, Calls!Exploded

LEMMA RowTyped ==
  ASSUME NEW d \in Docs, NEW n \in Nat, NEW k \in Nat, NEW env \in Docs \cup {NoDoc},
         NEW o \in Options, NEW now \in Nat
  PROVE  RowOf(d, n, k, env, o, now) \in Contents
<1> DEFINE Vars == {x.vars : x \in Options}
           time == IF RecordAt(d, n).readsNow THEN now ELSE NoTime
<1>1. o.vars \in Vars
  OBVIOUS
<1>2. time \in Nat
  BY DEF NoTime
<1>3. RowOf(d, n, k, env, o, now)
      = [doc |-> d, index |-> n, row |-> k, env |-> env, vars |-> o.vars, now |-> time]
  BY DEF RowOf
<1> HIDE DEF Vars, time
<1>4. RowOf(d, n, k, env, o, now)
      \in [doc : Docs, index : Nat, row : Nat, env : Docs \cup {NoDoc}, vars : Vars, now : Nat]
  BY <1>1, <1>2, <1>3
<1> QED BY <1>4 DEF Contents, Vars

LEMMA RowsBuiltTyped ==
  ASSUME NEW f, f.rec \in Docs, f.env \in Docs \cup {NoDoc}, f.opt \in Options,
         f.nowText \in Nat, NEW n \in Nat, n < Len(shape[f.rec].records)
  PROVE  LET r == RecordAt(f.rec, n)
         IN  /\ RowsBuilt(f, n) \in Seq(Contents)
             /\ r.err = "none" =>
                  /\ Len(RowsBuilt(f, n)) = r.rows
                  /\ \A k \in Nat : k < r.rows =>
                       RowsBuilt(f, n)[k + 1] = RowOf(f.rec, n, k, f.env, f.opt, f.nowText)
<1> DEFINE r == RecordAt(f.rec, n)
           Row(k) == RowOf(f.rec, n, k - 1, f.env, f.opt, f.nowText)
           whole == [k \in 1 .. r.rows |-> Row(k)]
<1>1. r.rows \in Nat
  <2>1. r \in SourceRecord
    BY RecordTyped
  <2> QED BY <2>1 DEF SourceRecord
<1>2. RowsBuilt(f, n) = IF r.err \in {"ErrRootNotContainer", "ErrRequired"} THEN <<>>
                        ELSE IF r.err = "ErrRow" THEN Append(whole, Junk) ELSE whole
  BY DEF RowsBuilt
<1>3. \A k \in 1 .. r.rows : Row(k) \in Contents
  <2>1. ASSUME NEW k \in 1 .. r.rows PROVE Row(k) \in Contents
    <3>1. k - 1 \in Nat
      BY <1>1
    <3> QED BY <3>1, RowTyped
  <2> QED BY <2>1
<1>4. Junk \in Contents
  BY DEF Contents
<1>5. \A k \in Nat : k < r.rows => Row(k + 1) = RowOf(f.rec, n, k, f.env, f.opt, f.nowText)
  <2>1. \A k \in Nat : (k + 1) - 1 = k
    OBVIOUS
  <2> QED BY <2>1
<1> HIDE DEF r, Row
<1>6. whole \in Seq(Contents) /\ Len(whole) = r.rows
  BY <1>1, <1>3
<1>7. \A k \in Nat : k < r.rows => whole[k + 1] = Row(k + 1)
  BY <1>1
<1> HIDE DEF whole
<1>8. RowsBuilt(f, n) \in Seq(Contents)
  BY <1>2, <1>4, <1>6
<1> QED BY <1>2, <1>5, <1>6, <1>7, <1>8 DEF r

(* The fields of a state after build. *)
LEMMA BuiltMakes ==
  ASSUME NEW f, IsState(f), NEW n \in Nat, f.rec \in Docs, n < Len(shape[f.rec].records),
         NEW time
  PROVE  LET r == RecordAt(f.rec, n)
             g == Built(f, n, time)
         IN  /\ g.rec = f.rec /\ g.env = f.env /\ g.opt = f.opt /\ g.base = f.base
             /\ g.out = f.out
             /\ g.err = ErrorOf(r)
             /\ g.rows = IF r.err \in {"ErrRootNotContainer", "ErrRequired"} THEN 0 ELSE r.rows
             /\ g.fields = IF r.err = "ErrRootNotContainer" THEN NoDoc
                           ELSE FieldsOf(f.rec, n, f.env)
             /\ r.err # "ErrRootNotContainer" => g.derived = NameOf(f.rec, n, f.opt)
             /\ g.nowText =
                  IF r.err # "ErrRootNotContainer" /\ r.readsNow /\ f.nowText = NoTime
                  THEN IF f.opt.now # NoTime THEN f.opt.now ELSE time
                  ELSE f.nowText
<1> DEFINE r == RecordAt(f.rec, n)
           h == [f EXCEPT !.fields = NoDoc]
           cleared == [h EXCEPT !.err = "none", !.rows = 0]
           resolved == [cleared EXCEPT
             !.fields = FieldsOf(f.rec, n, f.env),
             !.derived = NameOf(f.rec, n, f.opt),
             !.nowText = IF r.readsNow /\ @ = NoTime
                         THEN IF f.opt.now # NoTime THEN f.opt.now ELSE time
                         ELSE @]
           opened == IF RowsBuilt(resolved, n) = <<>> THEN resolved
                     ELSE [resolved EXCEPT !.slots = f.rec]
<1>1. /\ h.rec = f.rec /\ h.env = f.env /\ h.opt = f.opt
  BY DEF IsState, StateFields
<1>2. Built(f, n, time) =
        IF r.err = "ErrRootNotContainer" THEN [cleared EXCEPT !.err = r.err]
        ELSE IF r.err = "ErrRequired" THEN [resolved EXCEPT !.err = r.err]
        ELSE [opened EXCEPT !.rows = r.rows, !.err = ErrorOf(r)]
  BY <1>1 DEF Built, BuiltFrom
<1>3. IsState(cleared) /\ cleared.rows = 0 /\ cleared.fields = NoDoc /\ cleared.nowText = f.nowText
      /\ cleared.rec = f.rec /\ cleared.env = f.env /\ cleared.opt = f.opt
      /\ cleared.base = f.base /\ cleared.out = f.out
  BY DEF IsState, StateFields
<1>4. r.err \in {"ErrRootNotContainer", "ErrRequired"} => ErrorOf(r) = r.err
  BY DEF ErrorOf
<1> HIDE DEF cleared, r, h
<1>5. /\ IsState(resolved) /\ resolved.rows = 0
      /\ resolved.rec = f.rec /\ resolved.env = f.env /\ resolved.opt = f.opt
      /\ resolved.base = f.base /\ resolved.out = f.out
      /\ resolved.fields = FieldsOf(f.rec, n, f.env)
      /\ resolved.derived = NameOf(f.rec, n, f.opt)
      /\ resolved.nowText = IF r.readsNow /\ f.nowText = NoTime
                            THEN IF f.opt.now # NoTime THEN f.opt.now ELSE time
                            ELSE f.nowText
  BY <1>3 DEF IsState, StateFields
<1> HIDE DEF resolved
<1>9. /\ IsState(opened)
      /\ opened.rec = f.rec /\ opened.env = f.env /\ opened.opt = f.opt
      /\ opened.base = f.base /\ opened.out = f.out
      /\ opened.fields = resolved.fields /\ opened.derived = resolved.derived
      /\ opened.nowText = resolved.nowText
  BY <1>5 DEF IsState, StateFields
<1> HIDE DEF opened
<1>6. CASE r.err = "ErrRootNotContainer"
  BY <1>2, <1>3, <1>4, <1>6 DEF IsState, StateFields, r
<1>7. CASE r.err = "ErrRequired"
  BY <1>2, <1>4, <1>5, <1>7 DEF IsState, StateFields, r
<1>8. CASE r.err \notin {"ErrRootNotContainer", "ErrRequired"}
  BY <1>2, <1>5, <1>8, <1>9 DEF IsState, StateFields, r
<1> QED BY <1>6, <1>7, <1>8

-----------------------------------------------------------------------------
(* The calls a step does not belong to.                                     *)

Untouched(a) ==
  /\ pc'[a] = pc[a] /\ held'[a] = held[a] /\ shown'[a] = shown[a] /\ mem'[a] = mem[a]
  /\ held[a] \in States => Leaves(a) /\ job'[a] = job[a] /\ err'[a] = err[a]

LEMMA BufferOf ==
  ASSUME CallInv, NEW a \in Callers, pc[a] # "idle"
  PROVE  /\ held[a] \in States
         /\ Serving(a).out = IF job[a].op = "append" THEN a ELSE held[a]
         /\ Serving(a).out \in {a, held[a]}
         /\ job[a] \in Calls!Jobs
  BY NamesAssumption DEF CallInv, CallShaped, OwnInv, Shaped, ExclusiveOwnership, Serving

LEMMA UntouchedFollows ==
  ASSUME CallInv, NEW a \in Callers, Follows(a), Untouched(a)
  PROVE  /\ Follows(a)'
         /\ Phase'[a] = Phase[a] /\ NowText'[a] = NowText[a] /\ Owned'[a] = Owned[a]
<1>1. CASE pc[a] = "idle"
  <2>1. held[a] = NoState
    BY <1>1 DEF CallInv, OwnInv, ExclusiveOwnership
  <2> QED BY <1>1, <2>1 DEF Untouched, Follows, Phase, NowText, Owned
<1>2. CASE pc[a] # "idle"
  <2>1. /\ pc'[a] = pc[a] /\ held'[a] = held[a] /\ shown'[a] = shown[a]
        /\ spoilt'[a] = spoilt[a] /\ i'[a] = i[a] /\ row'[a] = row[a]
        /\ job'[a] = job[a] /\ err'[a] = err[a] /\ mem'[a] = mem[a]
        /\ Serving(a)' = Serving(a)
    BY <1>2, BufferOf DEF Untouched, Leaves, Serving
  <2>2. Buffer(a)' = Buffer(a)
    BY <1>2, <2>1, BufferOf DEF Untouched, Leaves, Buffer
  <2>3. Doc(a)' = Doc(a) /\ Current(a)' = Current(a)
    BY <2>1 DEF Doc, Current
  <2>4. /\ Calls!Exploded(job[a])' = Calls!Exploded(job[a])
        /\ Calls!Envelope(job[a])' = Calls!Envelope(job[a])
    BY <2>1 DEF Calls!Exploded, Calls!Envelope
  <2>5. InCall(a) => InCall(a)'
    BY <2>1, <2>2 DEF InCall
  <2>6. Begins(a) => Begins(a)'
    BY <2>1 DEF Begins
  <2>7. AtRecord(a) => AtRecord(a)'
    BY <2>1, <2>3, <2>4 DEF AtRecord
  <2>8. ToBuild(a) => ToBuild(a)'
    BY <2>1, <2>7 DEF ToBuild
  <2>9. ASSUME NEW first, RowsFrom(a, first) PROVE RowsFrom(a, first)'
    BY <2>1, <2>2, <2>3, <2>9 DEF RowsFrom
  <2>10. ASSUME NEW r PROVE NowIsRead(a, r)' = NowIsRead(a, r)
    BY <2>1 DEF NowIsRead
  <2>11. Shows(a) => Shows(a)'
    BY <2>1, <2>2, <2>3, <2>7, <2>9, <2>10 DEF Shows
  <2>12. EndsEach(a) => EndsEach(a)'
    BY <2>1, <2>3, <2>4 DEF EndsEach
  <2>13. EndsAppend(a) => EndsAppend(a)'
    BY <2>1, <2>2, <2>3, <2>10 DEF EndsAppend
  <2>14. Follows(a)'
    BY <1>2, <2>1, <2>5, <2>6, <2>8, <2>11, <2>12, <2>13 DEF Follows
  <2>15. held[a] # NoState /\ held'[a] # NoState
    BY <1>2, <2>1, BufferOf, NamesAssumption
  <2>16. Phase'[a] = Phase[a] /\ NowText'[a] = NowText[a] /\ Owned'[a] = Owned[a]
    BY <2>1, <2>15 DEF Phase, NowText, Owned, Serving
  <2> QED BY <2>14, <2>16
<1> QED BY <1>1, <1>2

LEMMA WorksUntouched ==
  ASSUME CallInv, DOMAIN err = Callers, NEW c \in Callers, Works(c), NEW a \in Callers \ {c}
  PROVE  Untouched(a)
<1>1. DOMAIN pc = Callers /\ DOMAIN shown = Callers /\ DOMAIN mem = Callers \cup States
  BY DEF CallInv, CallShaped, OwnInv, Shaped
<1>2. pc'[a] = pc[a] /\ held' = held /\ job' = job
  BY <1>1, WorksMoves
<1>3. held[c] \in States /\ st[held[c]].out \in {c, held[c]}
  BY WorksMoves, BufferOf DEF Serving
<1>4. Built(st[held[c]], i[c], clock).out = st[held[c]].out
  BY <1>3, BuiltFields DEF CallInv, OwnInv, Shaped, IsState
<1>5. a \in DOMAIN mem /\ a \notin {c, held[c]}
  BY <1>1, <1>3, NamesAssumption
<1>6. CASE Parse(c)
  <2>1. shown'[a] = shown[a] /\ mem'[a] = mem[a] /\ err'[a] = err[a]
    BY <1>6 DEF Parse
  <2> QED BY <1>2, <2>1, WorksLeaves DEF Untouched
<1>7. CASE Build(c)
  <2>1. shown'[a] = shown[a] /\ err'[a] = err[a]
    BY <1>7 DEF Build
  <2>2. mem'[a] = mem[a]
    BY <1>3, <1>4, <1>5, <1>7 DEF Build
  <2> QED BY <1>2, <2>1, <2>2, WorksLeaves DEF Untouched
<1>8. CASE Deliver(c)
  <2>1. shown'[a] = shown[a] /\ mem'[a] = mem[a] /\ err'[a] = err[a]
    BY <1>1, <1>8 DEF Deliver, ShowRecord
  <2> QED BY <1>2, <2>1, WorksLeaves DEF Untouched
<1>9. CASE Return(c)
  <2>1. shown'[a] = shown[a] /\ mem'[a] = mem[a] /\ err'[a] = err[a]
    BY <1>1, <1>9 DEF Return, GoOn, Forget
  <2> QED BY <1>2, <2>1, WorksLeaves DEF Untouched
<1>10. CASE ReturnError(c)
  <2>1. shown'[a] = shown[a] /\ mem'[a] = mem[a] /\ err'[a] = err[a]
    BY <1>1, <1>10 DEF ReturnError, Forget
  <2> QED BY <1>2, <2>1, WorksLeaves DEF Untouched
<1>11. CASE \E how \in {"own", "past"} : Scribble(c, how)
  <2>1. shown' = shown /\ err' = err /\ mem'[a] = mem[a]
    BY <1>3, <1>5, <1>11, ScribbleEffect
  <2> QED BY <1>2, <2>1, WorksLeaves DEF Untouched
<1> QED BY <1>6, <1>7, <1>8, <1>9, <1>10, <1>11 DEF Works

LEMMA StartUntouched ==
  ASSUME CallInv, DOMAIN err = Callers, NEW c \in Callers, NEW s \in States, NEW j,
         StartPooled(c, s, j) \/ StartNew(c, s, j), NEW a \in Callers \ {c}
  PROVE  Untouched(a)
<1>1. PICK f : Take(c, s, f, j)
  BY DEF StartPooled, GetPooled, StartNew
<1>2. /\ pc'[a] = pc[a] /\ held'[a] = held[a] /\ shown'[a] = shown[a]
      /\ job'[a] = job[a] /\ err'[a] = err[a]
  BY <1>1 DEF Take, CallInv, OwnInv, Shaped
<1>3. mem'[a] = mem[a]
  BY NamesAssumption DEF StartPooled, GetPooled, StartNew, CallInv, CallShaped
<1> QED BY <1>2, <1>3, StartLeaves DEF Untouched

LEMMA EndUntouched ==
  ASSUME CallInv, DOMAIN err = Callers, NEW c \in Callers, Panic(c) \/ Release(c),
         NEW a \in Callers \ {c}
  PROVE  Untouched(a)
<1>1. PICK outcome : Leave(c, outcome)
  BY DEF Panic, Release, ReleaseWith
<1>2. pc'[a] = pc[a] /\ held'[a] = held[a] /\ job'[a] = job[a] /\ err'[a] = err[a]
  BY <1>1 DEF Leave, Goto, CallInv, OwnInv, Shaped
<1>3. shown'[a] = shown[a]
  BY DEF Panic, Forget, Release, ReleaseWith, CallInv, CallShaped
<1>4. held[c] \in States /\ a \in DOMAIN mem /\ a \notin {c, held[c]}
  BY NamesAssumption
  DEF Panic, Release, ReleaseWith, CallInv, CallShaped, OwnInv, Shaped, ExclusiveOwnership
<1>5. mem'[a] = mem[a]
  <2>1. CASE Panic(c)
    BY <1>4, <2>1 DEF Panic
  <2>2. CASE Release(c)
    <3>1. PICK cut : /\ cut = mem \/ \E v : cut = [mem EXCEPT ![c] = v]
                     /\ mem' = cut \/ mem' = [cut EXCEPT ![held[c]] = <<>>]
      BY <2>2 DEF Release, ReleaseWith
    <3> QED BY <1>4, <3>1
  <2> QED BY <2>1, <2>2
<1> QED BY <1>2, <1>3, <1>5, EndLeaves DEF Untouched

LEMMA IdleUntouched ==
  ASSUME CallInv, NEW a \in Callers,
         \/ Tick \/ UNCHANGED vars
         \/ \E s \in States : Collect(s)
         \/ \E c \in Callers \ {a} : Recycle(c)
         \/ \E c \in Callers : NotSimple(c)
  PROVE  Untouched(a)
<1>1. UNCHANGED <<pc, held, shown, job, err>>
  BY DEF Tick, Collect, Recycle, NotSimple, vars, callVars
<1>2. mem'[a] = mem[a]
  BY NamesAssumption DEF Tick, Collect, Recycle, NotSimple, vars, CallInv, CallShaped
<1>3. held[a] \in States => Leaves(a)
  BY IdleLeaves
<1> QED BY <1>1, <1>2, <1>3 DEF Untouched

-----------------------------------------------------------------------------
(* Types.                                                                   *)

LEMMA KeepSized ==
  ASSUME NEW f, IsState(f), Sized(f)
  PROVE  /\ Sized(Scribbled(f)) /\ Sized(Cleared(f))
         /\ \A n : Sized(Weighed(f, n))
         /\ \A b : Sized([f EXCEPT !.buf = b]) /\ IsState([f EXCEPT !.buf = b])
         /\ \A d, e : Sized([f EXCEPT !.rec = d, !.env = e])
         /\ \A d : Sized([f EXCEPT !.record = d])
  BY DEF IsState, StateFields, Sized, Scribbled, Cleared, Weighed, WeighedTo

LEMMA NewStateSized == Sized(NewState)
  BY DEF Sized, NewState

LEMMA BegunSized ==
  ASSUME NEW s \in States, NEW f, IsState(f), Sized(f), f.buf \in {NoBuf, s},
         NEW c \in Callers, NEW j, Len(mem[c]) \in Nat
  PROVE  Sized(Begun(s, f, c, j))
  BY DEF IsState, StateFields, Sized, Begun, BegunAt

LEMMA MemTyped ==
  ASSUME Typed, NEW b \in Callers \cup States
  PROVE  mem[b] \in Seq(Contents) /\ Len(mem[b]) \in Nat /\ DOMAIN mem[b] = 1 .. Len(mem[b])
<1>1. mem[b] \in Seq(Contents)
  BY DEF Typed
<1> QED BY <1>1

(* The call in front of a record. *)
LEMMA BuildFacts ==
  ASSUME CallInv, Typed, NEW c \in Callers, Follows(c), Build(c)
  PROVE  /\ IsState(Serving(c)) /\ Sized(Serving(c))
         /\ Serving(c).rec = Doc(c) /\ Doc(c) \in Docs
         /\ Serving(c).env = Calls!Envelope(job[c]) /\ Serving(c).env \in Docs \cup {NoDoc}
         /\ Serving(c).opt = job[c].opt /\ Serving(c).opt \in Options
         /\ Serving(c).nowText \in Nat
         /\ i[c] \in Nat /\ i[c] < Len(shape[Doc(c)].records)
         /\ Current(c) \in SourceRecord
         /\ ToBuild(c) /\ InCall(c)
<1>1. pc[c] = "build" /\ pc[c] # "idle"
  BY DEF Build
<1>2. ToBuild(c) /\ InCall(c) /\ AtRecord(c)
  BY <1>1 DEF Follows, ToBuild
<1>3. held[c] \in States /\ job[c] \in Calls!Jobs
  BY <1>1, BufferOf
<1>4. IsState(Serving(c)) /\ Sized(Serving(c)) /\ i[c] \in Nat
  BY <1>3 DEF Serving, IsState, CallInv, OwnInv, Shaped, Typed
<1>5. Doc(c) \in Docs /\ job[c].opt \in Options /\ Calls!Envelope(job[c]) \in Docs \cup {NoDoc}
  BY <1>3, JobTyped DEF Doc
<1>6. Current(c) \in SourceRecord
  BY <1>2, <1>4, <1>5, RecordTyped DEF Current, AtRecord
<1> QED BY <1>2, <1>4, <1>5, <1>6 DEF AtRecord, InCall

(* What Build leaves in the state and in the buffer. *)
LEMMA BuildMakes ==
  ASSUME CallInv, Typed, NEW c \in Callers, Follows(c), Build(c)
  PROVE  /\ Serving(c)' = Built(Serving(c), i[c], clock)
         /\ st' = [st EXCEPT ![held[c]] = Serving(c)']
         /\ Serving(c)'.nowText \in Nat
         /\ mem' = [mem EXCEPT ![Serving(c).out] =
              SubSeq(Buffer(c), 1, Serving(c).base) \o RowsBuilt(Serving(c)', i[c])]
         /\ RowsBuilt(Serving(c)', i[c]) \in Seq(Contents)
         /\ Sized(Serving(c)')
         /\ UNCHANGED <<clock, pool, held, job, i, row, shown, spoilt, result>>
<1> DEFINE f == Serving(c)
           g == Built(f, i[c], clock)
<1>1. held[c] \in States /\ DOMAIN st = States /\ pc[c] # "idle"
  BY BufferOf DEF Build, CallInv, OwnInv, Shaped
<1>2. /\ st' = [st EXCEPT ![held[c]] = Built(st[held[c]], i[c], clock)]
      /\ mem' = [mem EXCEPT ![Built(st[held[c]], i[c], clock).out] =
           SubSeq(@, 1, Built(st[held[c]], i[c], clock).base)
             \o RowsBuilt(Built(st[held[c]], i[c], clock), i[c])]
      /\ UNCHANGED <<clock, pool, held, job, i, row, shown, spoilt, result>>
  BY DEF Build
<1>3. Serving(c)' = g /\ st' = [st EXCEPT ![held[c]] = g]
  BY <1>1, <1>2 DEF Serving
<1>4. /\ g.rec = f.rec /\ g.env = f.env /\ g.opt = f.opt /\ g.base = f.base /\ g.out = f.out
      /\ g.rows \in Nat /\ g.nowText \in Nat
  <2>1. clock \in Nat /\ f.opt.now \in Nat
    <3>1. clock \in Nat
      BY SizesAssumption DEF Typed, Times
    <3>2. f.opt \in Options
      BY BuildFacts
    <3> QED BY <3>1, <3>2, OptionTyped
  <2>2. Current(c).rows \in Nat
    BY BuildFacts DEF SourceRecord
  <2>3. IsState(f) /\ f.rec = Doc(c) /\ Doc(c) \in Docs /\ f.nowText \in Nat
        /\ i[c] \in Nat /\ i[c] < Len(shape[Doc(c)].records)
    BY BuildFacts
  <2>4. RecordAt(f.rec, i[c]) = Current(c)
    BY <2>3 DEF Current
  <2> HIDE DEF f
  <2>5. /\ g.rec = f.rec /\ g.env = f.env /\ g.opt = f.opt /\ g.base = f.base /\ g.out = f.out
        /\ g.rows \in {0, Current(c).rows}
        /\ g.nowText \in {f.nowText, f.opt.now, clock}
    BY <2>3, <2>4, BuiltMakes
  <2> QED BY <2>1, <2>2, <2>3, <2>5
<1>5. RowsBuilt(g, i[c]) \in Seq(Contents)
  BY <1>4, BuildFacts, RowsBuiltTyped
<1>6. Sized(g)
  BY <1>4, BuildFacts DEF Sized
<1>7. mem' = [mem EXCEPT ![f.out] = SubSeq(Buffer(c), 1, f.base) \o RowsBuilt(g, i[c])]
  BY <1>2, <1>4 DEF Serving, Buffer
<1> QED BY <1>2, <1>3, <1>4, <1>5, <1>6, <1>7, Zenon

(* The types of the counters, and those of the memory and of the states.    *)
CountersTyped ==
  /\ clock \in Times
  /\ i \in [Callers -> Nat] /\ row \in [Callers -> Nat]
  /\ spoilt \in [Callers -> {"no", "own", "past"}]
  /\ DOMAIN err = Callers /\ DOMAIN result = Callers
  /\ shown = [c \in Callers |-> shown[c]]

MemoryTyped ==
  /\ \A b \in Callers \cup States : mem[b] \in Seq(Contents)
  /\ \A s \in States : Sized(st[s])

LEMMA TypedParts == Typed <=> CountersTyped /\ MemoryTyped
  BY DEF Typed, CountersTyped, MemoryTyped

LEMMA OneIsShown ==
  ASSUME Typed, NEW c, shown' = shown \/ \E rec : shown' = [shown EXCEPT ![c] = rec]
  PROVE  shown' = [a \in Callers |-> shown'[a]]
<1>1. shown = [a \in Callers |-> shown[a]]
  BY DEF Typed
<1>2. ASSUME NEW rec, shown' = [shown EXCEPT ![c] = rec]
      PROVE  shown' = [a \in Callers |-> shown'[a]]
  BY <1>1, <1>2
<1> QED BY <1>1, <1>2

LEMMA CountersStep ==
  ASSUME Typed, [Next]_vars
  PROVE  CountersTyped'
<1>1. CASE Tick
  <2>1. clock' \in Times
    BY <1>1, SizesAssumption DEF Tick, Times, Typed
  <2> QED BY <1>1, <2>1 DEF Tick, callVars, Typed, CountersTyped
<1>2. CASE UNCHANGED vars \/ (\E s \in States : Collect(s)) \/ \E c \in Callers : Recycle(c)
  BY <1>2 DEF vars, Collect, Recycle, callVars, Typed, CountersTyped
<1>3. ASSUME NEW c \in Callers, NotSimple(c) PROVE CountersTyped'
  BY <1>3 DEF NotSimple, Typed, CountersTyped
<1>4. ASSUME NEW c \in Callers, NEW s \in States, NEW j, StartPooled(c, s, j) \/ StartNew(c, s, j)
      PROVE CountersTyped'
  <2>1. clock' = clock /\ \E f : Take(c, s, f, j)
    BY <1>4 DEF StartPooled, GetPooled, StartNew
  <2> QED BY <2>1 DEF Take, Typed, CountersTyped
<1>5. ASSUME NEW c \in Callers, NEW how \in {"own", "past"}, Scribble(c, how)
      PROVE CountersTyped'
  <2>1. UNCHANGED <<clock, i, row, err, result, shown>>
    BY <1>5 DEF Scribble
  <2>2. spoilt' = [spoilt EXCEPT ![c] = IF @ = "past" THEN @ ELSE how]
    BY <1>5 DEF Scribble
  <2> QED BY <2>1, <2>2 DEF Typed, CountersTyped
<1>6. ASSUME NEW c \in Callers, Parse(c) \/ Build(c) \/ Deliver(c) \/ ReturnError(c)
      PROVE CountersTyped'
  <2> DEFINE Steady == UNCHANGED <<clock, i, row, spoilt, result>> /\ DOMAIN err' = DOMAIN err
  <2>1. Parse(c) => Steady
    BY DEF Parse
  <2>2. Build(c) => Steady
    BY DEF Build
  <2>3. Deliver(c) => Steady
    BY DEF Deliver, ShowRecord
  <2>4. ReturnError(c) => Steady
    BY DEF ReturnError
  <2>5. Steady
    BY <1>6, <2>1, <2>2, <2>3, <2>4
  <2>6. shown' = [a \in Callers |-> shown'[a]]
    BY <1>6, WorksShows, OneIsShown
  <2> QED BY <2>5, <2>6 DEF Typed, CountersTyped
<1>7. ASSUME NEW c \in Callers, Return(c) PROVE CountersTyped'
  <2>1. UNCHANGED <<clock, err, result>>
    BY <1>7 DEF Return, GoOn
  <2>2. i[c] + 1 \in Nat /\ row[c] + 1 \in Nat
    BY DEF Typed
  <2>3. /\ i' = i \/ i' = [i EXCEPT ![c] = i[c] + 1]
        /\ row' = [row EXCEPT ![c] = 0] \/ row' = [row EXCEPT ![c] = row[c] + 1]
        /\ spoilt' = spoilt \/ spoilt' = [spoilt EXCEPT ![c] = "no"]
    <3>1. \/ /\ row' = [row EXCEPT ![c] = @ + 1]
             /\ UNCHANGED <<i, spoilt>>
          \/ /\ row' = [row EXCEPT ![c] = 0]
             /\ i' = [i EXCEPT ![c] = i[c] + 1]
             /\ spoilt' = [spoilt EXCEPT ![c] = "no"]
      BY <1>7 DEF Return, GoOn
    <3> QED BY <3>1
  <2>4. i' \in [Callers -> Nat]
    BY <2>2, <2>3 DEF Typed
  <2>5. row' \in [Callers -> Nat]
    <3>1. \E n \in Nat : row' = [row EXCEPT ![c] = n]
      BY <2>2, <2>3
    <3> QED BY <3>1 DEF Typed
  <2>6. spoilt' \in [Callers -> {"no", "own", "past"}]
    BY <2>3 DEF Typed
  <2>7. shown' = [a \in Callers |-> shown'[a]]
    BY <1>7, OneIsShown DEF Return, GoOn, Forget
  <2> QED BY <2>1, <2>4, <2>5, <2>6, <2>7 DEF Typed, CountersTyped
<1>8. ASSUME NEW c \in Callers, Panic(c) \/ Release(c) PROVE CountersTyped'
  <2>1. clock' = clock /\ \E outcome : Leave(c, outcome)
    BY <1>8 DEF Panic, Release, ReleaseWith
  <2>2. shown' = [a \in Callers |-> shown'[a]]
    BY <1>8, OneIsShown DEF Panic, Forget, Release, ReleaseWith
  <2>3. \E outcome : /\ i' = [i EXCEPT ![c] = 0] /\ row' = [row EXCEPT ![c] = 0]
                     /\ err' = [err EXCEPT ![c] = "none"]
                     /\ spoilt' = [spoilt EXCEPT ![c] = "no"]
                     /\ result' = [result EXCEPT ![c] = outcome]
    BY <2>1 DEF Leave
  <2>4. i' \in [Callers -> Nat] /\ row' \in [Callers -> Nat]
    BY <2>3 DEF Typed
  <2>5. spoilt' \in [Callers -> {"no", "own", "past"}]
    BY <2>3 DEF Typed
  <2>6. DOMAIN err' = Callers /\ DOMAIN result' = Callers /\ clock' \in Times
    BY <2>1, <2>3 DEF Typed
  <2> QED BY <2>2, <2>4, <2>5, <2>6 DEF CountersTyped
<1>9. ASSUME NEW c \in Callers, Step(c) PROVE CountersTyped'
  BY <1>6, <1>7, <1>8, <1>9 DEF Step
<1> QED BY <1>1, <1>2, <1>3, <1>4, <1>5, <1>9 DEF Next

(* One state and one buffer are written. *)
LEMMA OneStateWritten ==
  ASSUME CallInv, Typed, NEW s \in States, NEW f, Sized(f), st' = [st EXCEPT ![s] = f]
  PROVE  \A x \in States : Sized(st'[x])
  BY DEF CallInv, OwnInv, Shaped, Typed

LEMMA OneBufferWritten ==
  ASSUME CallInv, Typed, NEW b, NEW v \in Seq(Contents), mem' = [mem EXCEPT ![b] = v]
  PROVE  \A x \in Callers \cup States : mem'[x] \in Seq(Contents)
  BY DEF CallInv, CallShaped, Typed

LEMMA SameSized ==
  ASSUME Typed, st' = st
  PROVE  \A x \in States : Sized(st'[x])
  BY DEF Typed

LEMMA SameMem ==
  ASSUME Typed, mem' = mem
  PROVE  \A x \in Callers \cup States : mem'[x] \in Seq(Contents)
  BY DEF Typed

LEMMA SpoiltTyped ==
  ASSUME NEW m \in Seq(Contents), NEW own, NEW last
  PROVE  [k \in DOMAIN m |-> IF k \in own .. last THEN Junk ELSE m[k]] \in Seq(Contents)
<1>1. Junk \in Contents
  BY DEF Contents
<1>2. Len(m) \in Nat /\ DOMAIN m = 1 .. Len(m) /\ \A k \in DOMAIN m : m[k] \in Contents
  OBVIOUS
<1> QED BY <1>1, <1>2

LEMMA CutTyped ==
  ASSUME NEW m \in Seq(Contents), NEW n \in Nat, n <= Len(m)
  PROVE  SubSeq(m, 1, n) \in Seq(Contents) /\ Len(SubSeq(m, 1, n)) = n
  OBVIOUS

(* What release leaves in the buffer of the caller: an Append that succeeds *)
(* returns the buffer it took out of its state, which is dst grown.          *)
LEMMA ReleaseCuts ==
  ASSUME CallInv, NEW c \in Callers, Release(c)
  PROVE  \E cut : /\ DOMAIN cut = Callers \cup States
                  /\ \A x \in (Callers \cup States) \ {c} : cut[x] = mem[x]
                  /\ cut[c] = IF job[c].op = "append" /\ err[c] # "none"
                              THEN SubSeq(mem[c], 1, st[held[c]].base) ELSE mem[c]
                  /\ mem' = cut \/ mem' = [cut EXCEPT ![held[c]] = <<>>]
<1> DEFINE cut == IF job[c].op = "append"
                  THEN [mem EXCEPT ![c] = Returned(c, st[held[c]].out)] ELSE mem
<1>1. DOMAIN mem = Callers \cup States
  BY DEF CallInv, CallShaped
<1>2. job[c].op = "append" => st[held[c]].out = c /\ c # NoBuf
  BY BufferOf, NamesAssumption DEF Release, ReleaseWith, Serving
<1>3. job[c].op = "append" =>
        Returned(c, st[held[c]].out) =
          IF err[c] # "none" THEN SubSeq(mem[c], 1, st[held[c]].base) ELSE mem[c]
  BY <1>2 DEF Returned
<1>4. mem' = cut \/ mem' = [cut EXCEPT ![held[c]] = <<>>]
  BY DEF Release, ReleaseWith
<1>5. DOMAIN cut = Callers \cup States /\ \A x \in (Callers \cup States) \ {c} : cut[x] = mem[x]
  BY <1>1
<1>6. cut[c] = IF job[c].op = "append" /\ err[c] # "none"
               THEN SubSeq(mem[c], 1, st[held[c]].base) ELSE mem[c]
  BY <1>1, <1>3
<1> HIDE DEF cut
<1> QED BY <1>4, <1>5, <1>6

LEMMA ReleaseLeavesMem ==
  ASSUME CallInv, NEW c \in Callers, Release(c)
  PROVE  mem'[c] = IF job[c].op = "append" /\ err[c] # "none"
                   THEN SubSeq(mem[c], 1, Serving(c).base) ELSE mem[c]
<1>1. held[c] \in States /\ c # held[c]
  BY BufferOf, NamesAssumption DEF Release, ReleaseWith
<1> QED BY <1>1, ReleaseCuts DEF Serving

(* What Parse leaves of the state, and a callback of the rows.               *)
LEMMA ParseMakes ==
  ASSUME CallInv, NEW c \in Callers, Parse(c)
  PROVE  LET d == Doc(c)
             exploded == job[c].op = "each" /\ shape[d].batch = "array"
             f == [Serving(c) EXCEPT
                    !.rec = IF shape[d].valid THEN d ELSE Serving(c).rec,
                    !.env = IF shape[d].valid /\ exploded THEN d ELSE Serving(c).env]
         IN  Serving(c)' = f /\ st' = [st EXCEPT ![held[c]] = f]
<1> DEFINE s == held[c]
           valid == shape[Doc(c)].valid
           exploded == job[c].op = "each" /\ shape[Doc(c)].batch = "array"
           parsed == [st EXCEPT ![s] = [st[s] EXCEPT !.rec = IF valid THEN Doc(c) ELSE st[s].rec]]
           env == IF valid /\ exploded THEN Doc(c) ELSE st[s].env
<1>1. s \in States /\ DOMAIN st = States /\ IsState(st[s])
  BY BufferOf DEF Parse, CallInv, OwnInv, Shaped, IsState
<1>2. held' = held
  BY DEF Parse
<1>3. st' = [st EXCEPT ![held[c]].rec = IF shape[job[c].doc].valid THEN job[c].doc ELSE @,
                       ![held[c]].env =
                          IF shape[job[c].doc].valid
                             /\ (job[c].op = "each" /\ shape[job[c].doc].batch = "array")
                          THEN job[c].doc ELSE @]
  BY DEF Parse
<1>4. parsed[s].env = st[s].env /\ DOMAIN parsed = States
  BY <1>1 DEF IsState, StateFields
<1>5. st' = [parsed EXCEPT ![s].env = IF valid /\ exploded THEN Doc(c) ELSE @]
  BY <1>3 DEF Doc
<1>6. st' = [parsed EXCEPT ![s] = [parsed[s] EXCEPT !.env = env]]
  BY <1>4, <1>5
<1>7. parsed[s] = [st[s] EXCEPT !.rec = IF valid THEN Doc(c) ELSE st[s].rec]
  BY <1>1
<1>8. st' = [st EXCEPT ![s] = [parsed[s] EXCEPT !.env = env]]
  BY <1>4, <1>6
<1>9. st' = [st EXCEPT ![s] = [st[s] EXCEPT !.rec = IF valid THEN Doc(c) ELSE st[s].rec,
                                            !.env = env]]
  BY <1>7, <1>8
<1> QED BY <1>1, <1>2, <1>9 DEF Serving

Overwritten(c, how) ==
  LET own == Serving(c).base + row[c] + 1
      last == IF how = "past" THEN Len(Buffer(c)) ELSE own
  IN  [k \in DOMAIN Buffer(c) |-> IF k \in own .. last THEN Junk ELSE Buffer(c)[k]]

LEMMA ScribbleMakes ==
  ASSUME NEW c, NEW how, Scribble(c, how)
  PROVE  mem' = IF Serving(c).err # "none" THEN mem
                ELSE [mem EXCEPT ![Serving(c).out] = Overwritten(c, how)]
  BY DEF Scribble, Serving, Buffer, Overwritten

LEMMA MemoryStep ==
  ASSUME CallInv, Typed, \A c \in Callers : Follows(c), [Next]_vars
  PROVE  MemoryTyped'
<1> DEFINE Sizes == \A x \in States : Sized(st'[x])
           Rows == \A x \in Callers \cup States : mem'[x] \in Seq(Contents)
<1> SUFFICES Sizes /\ Rows
  BY DEF MemoryTyped, Sized
<1>1. CASE Tick \/ UNCHANGED vars \/ \E c \in Callers : NotSimple(c)
  <2>1. UNCHANGED <<st, mem>>
    BY <1>1 DEF Tick, vars, NotSimple
  <2> QED BY <2>1, SameSized, SameMem
<1>2. <<>> \in Seq(Contents)
  OBVIOUS
<1>3. ASSUME NEW s \in States, Collect(s) PROVE Sizes /\ Rows
  <2>1. st' = [st EXCEPT ![s] = NewState] /\ mem' = [mem EXCEPT ![s] = <<>>]
    BY <1>3 DEF Collect, Garbage
  <2> QED BY <1>2, <2>1, NewStateSized, OneStateWritten, OneBufferWritten
<1>4. ASSUME NEW c \in Callers, Recycle(c) PROVE Sizes /\ Rows
  <2>1. st' = st /\ mem' = [mem EXCEPT ![c] = <<>>]
    BY <1>4 DEF Recycle
  <2> QED BY <1>2, <2>1, SameSized, OneBufferWritten
<1>5. ASSUME NEW c \in Callers, NEW s \in States, NEW j, StartPooled(c, s, j) PROVE Sizes /\ Rows
  <2>1. IsState(st[s]) /\ Sized(st[s]) /\ st[s].buf \in {NoBuf, s}
    BY DEF CallInv, OwnInv, Shaped, IsState, ExclusiveOwnership, Typed
  <2>2. Sized(Begun(s, st[s], c, j))
    BY <2>1, BegunSized, MemTyped
  <2>3. st' = [st EXCEPT ![s] = Begun(s, st[s], c, j)]
    BY <1>5 DEF StartPooled, GetPooled, Take
  <2>4. mem' = [mem EXCEPT ![s] = IF j.op = "each" THEN <<>> ELSE mem[s]]
    BY <1>5 DEF StartPooled, GetPooled
  <2>5. (IF j.op = "each" THEN <<>> ELSE mem[s]) \in Seq(Contents)
    BY <1>2, MemTyped
  <2> QED BY <2>2, <2>3, <2>4, <2>5, OneStateWritten, OneBufferWritten
<1>6. ASSUME NEW c \in Callers, NEW s \in States, NEW j, StartNew(c, s, j) PROVE Sizes /\ Rows
  <2>1. Sized(Begun(s, NewState, c, j))
    BY NewStateSized, NewStateFields, BegunSized, MemTyped
  <2>2. st' = [st EXCEPT ![s] = Begun(s, NewState, c, j)] /\ mem' = mem
    BY <1>6 DEF StartNew, Take
  <2> QED BY <2>1, <2>2, OneStateWritten, SameMem
<1>7. ASSUME NEW c \in Callers, NEW how \in {"own", "past"}, Scribble(c, how) PROVE Sizes /\ Rows
  <2>1. st' = [st EXCEPT ![held[c]] = Scribbled(st[held[c]])] /\ pc[c] # "idle"
    BY <1>7 DEF Scribble
  <2>2. held[c] \in States /\ Serving(c).out \in Callers \cup States
    BY <2>1, BufferOf
  <2>3. IsState(st[held[c]]) /\ Sized(st[held[c]])
    BY <2>2 DEF CallInv, OwnInv, Shaped, IsState, Typed
  <2>4. Sized(Scribbled(st[held[c]]))
    BY <2>3, KeepSized
  <2>5. Overwritten(c, how) \in Seq(Contents)
    <3>1. Buffer(c) \in Seq(Contents)
      BY <2>2, MemTyped DEF Buffer
    <3> QED BY <3>1, SpoiltTyped, Zenon DEF Overwritten
  <2>6. mem' = mem \/ mem' = [mem EXCEPT ![Serving(c).out] = Overwritten(c, how)]
    BY <1>7, ScribbleMakes
  <2>7. mem' = mem \/ \E v \in Seq(Contents) : mem' = [mem EXCEPT ![Serving(c).out] = v]
    BY <2>5, <2>6
  <2> QED BY <2>1, <2>2, <2>4, <2>7, OneStateWritten, OneBufferWritten, SameMem
<1>8. ASSUME NEW c \in Callers, Parse(c) PROVE Sizes /\ Rows
  <2> DEFINE d == IF shape[Doc(c)].valid THEN Doc(c) ELSE st[held[c]].rec
             e == IF shape[Doc(c)].valid /\ (job[c].op = "each" /\ shape[Doc(c)].batch = "array")
                  THEN Doc(c) ELSE st[held[c]].env
  <2>1. held[c] \in States /\ mem' = mem
    BY <1>8, BufferOf DEF Parse
  <2>2. st' = [st EXCEPT ![held[c]] = [st[held[c]] EXCEPT !.rec = d, !.env = e]]
    BY <1>8, ParseMakes DEF Serving
  <2>3. IsState(st[held[c]]) /\ Sized(st[held[c]])
    BY <2>1 DEF CallInv, OwnInv, Shaped, IsState, Typed
  <2>4. Sized([st[held[c]] EXCEPT !.rec = d, !.env = e])
    BY <2>3, KeepSized
  <2> QED BY <2>1, <2>2, <2>4, OneStateWritten, SameMem
<1>9. ASSUME NEW c \in Callers, Build(c) PROVE Sizes /\ Rows
  <2>1. held[c] \in States /\ Serving(c).out \in Callers \cup States
    BY <1>9, BufferOf DEF Build
  <2>2. st' = [st EXCEPT ![held[c]] = Serving(c)']
    BY <1>9, BuildMakes
  <2>3. Buffer(c) \in Seq(Contents) /\ Serving(c).base \in Nat /\ Serving(c).base <= Len(Buffer(c))
    BY <1>9, <2>1, MemTyped, BuildFacts DEF Buffer, InCall, Sized
  <2>4. SubSeq(Buffer(c), 1, Serving(c).base) \o RowsBuilt(Serving(c)', i[c]) \in Seq(Contents)
    BY <1>9, <2>3, CutTyped, BuildMakes
  <2> QED BY <1>9, <2>1, <2>2, <2>4, BuildMakes, OneStateWritten, OneBufferWritten
<1>10. ASSUME NEW c \in Callers, Return(c) \/ ReturnError(c) PROVE Sizes /\ Rows
  <2>1. UNCHANGED <<st, mem>>
    BY <1>10 DEF Return, GoOn, ReturnError
  <2> QED BY <2>1, SameSized, SameMem
<1>13. ASSUME NEW c \in Callers, Deliver(c) PROVE Sizes /\ Rows
  <2>1. held[c] \in States /\ IsState(st[held[c]]) /\ Sized(st[held[c]])
    BY <1>13, DeliverEffect DEF CallInv, OwnInv, Shaped, IsState, Typed
  <2>2. st' = [st EXCEPT ![held[c]] = [st[held[c]] EXCEPT !.record = st[held[c]].rec]]
    BY <1>13 DEF Deliver, ShowRecord
  <2>3. mem' = mem
    BY <1>13 DEF Deliver, ShowRecord
  <2> QED BY <2>1, <2>2, <2>3, KeepSized, OneStateWritten, SameMem
<1>11. ASSUME NEW c \in Callers, Panic(c) PROVE Sizes /\ Rows
  <2>1. held[c] \in States
    BY <1>11, BufferOf DEF Panic
  <2>2. st' = [st EXCEPT ![held[c]] = NewState] /\ mem' = [mem EXCEPT ![held[c]] = <<>>]
    BY <1>11 DEF Panic, Garbage
  <2> QED BY <1>2, <2>1, <2>2, NewStateSized, OneStateWritten, OneBufferWritten
<1>12. ASSUME NEW c \in Callers, Release(c) PROVE Sizes /\ Rows
  <2> DEFINE kept == [st[held[c]] EXCEPT !.buf = Kept(c)]
             f == Weighed(kept, shape[job[c].doc].size)
  <2>1. held[c] \in States /\ InCall(c)
    BY <1>12, BufferOf DEF Release, ReleaseWith, Follows
  <2>2. IsState(st[held[c]]) /\ Sized(st[held[c]])
    BY <2>1 DEF CallInv, OwnInv, Shaped, IsState, Typed
  <2>3. IsState(kept) /\ Sized(kept)
    BY <2>2, KeepSized
  <2>4. IsState(f) /\ Sized(f)
    BY <2>3, KeepSized, WeighedFields
  <2>5. Sized(Cleared(f))
    BY <2>4, KeepSized
  <2>6. st' = [st EXCEPT ![held[c]] = NewState] \/ st' = [st EXCEPT ![held[c]] = Cleared(f)]
    BY <1>12, ReleaseMakes DEF CallInv
  <2>7. Sizes
    BY <2>1, <2>5, <2>6, NewStateSized, OneStateWritten
  <2>8. PICK cut : /\ DOMAIN cut = Callers \cup States
                   /\ \A x \in (Callers \cup States) \ {c} : cut[x] = mem[x]
                   /\ cut[c] = IF job[c].op = "append" /\ err[c] # "none"
                               THEN SubSeq(mem[c], 1, st[held[c]].base) ELSE mem[c]
                   /\ mem' = cut \/ mem' = [cut EXCEPT ![held[c]] = <<>>]
    BY <1>12, ReleaseCuts
  <2>9. /\ DOMAIN cut = Callers \cup States
        /\ \A x \in Callers \cup States : cut[x] \in Seq(Contents)
    <3>1. CASE cut[c] = mem[c]
      BY <2>8, <3>1 DEF Typed, CallInv, CallShaped
    <3>2. CASE job[c].op = "append" /\ cut[c] = SubSeq(mem[c], 1, st[held[c]].base)
      <4>1. pc[c] # "idle"
        BY <1>12 DEF Release, ReleaseWith
      <4>2. Buffer(c) = mem[c] /\ st[held[c]].base <= Len(mem[c]) /\ st[held[c]].base \in Nat
        BY <2>1, <2>2, <3>2, <4>1, BufferOf DEF Buffer, InCall, Serving, Sized
      <4>3. SubSeq(mem[c], 1, st[held[c]].base) \in Seq(Contents)
        BY <4>2, MemTyped, CutTyped
      <4> QED BY <2>8, <3>2, <4>3 DEF Typed, CallInv, CallShaped
    <3> QED BY <2>8, <3>1, <3>2
  <2>10. Rows
    BY <1>2, <2>8, <2>9
  <2> QED BY <2>7, <2>10
<1> QED BY <1>1, <1>3, <1>4, <1>5, <1>6, <1>7, <1>8, <1>9, <1>10, <1>11, <1>12,
          <1>13
       DEF Next, Step

LEMMA TypedStep ==
  ASSUME CallInv, Typed, \A c \in Callers : Follows(c), [Next]_vars
  PROVE  Typed'
<1>1. CountersTyped' /\ MemoryTyped'
  BY CountersStep, MemoryStep
<1> QED BY <1>1 DEF Typed, CountersTyped, MemoryTyped

-----------------------------------------------------------------------------
(* The steps of a call, and the step of EachCalls each of them is.          *)

OthersRest(c) ==
  \A a \in Callers \ {c} :
    Phase'[a] = Phase[a] /\ NowText'[a] = NowText[a] /\ Owned'[a] = Owned[a]

LEMMA OneCallMoves ==
  ASSUME NEW c \in Callers, OthersRest(c)
  PROVE  /\ \A p : Phase'[c] = p => Phase' = [Phase EXCEPT ![c] = p]
         /\ \A t : NowText'[c] = t => NowText' = [NowText EXCEPT ![c] = t]
         /\ \A b : Owned'[c] = b => Owned' = [Owned EXCEPT ![c] = b]
         /\ Phase'[c] = Phase[c] => Phase' = Phase
         /\ NowText'[c] = NowText[c] => NowText' = NowText
         /\ Owned'[c] = Owned[c] => Owned' = Owned
<1>1. /\ Phase = [a \in Callers |-> Phase[a]] /\ Phase' = [a \in Callers |-> Phase'[a]]
      /\ NowText = [a \in Callers |-> NowText[a]] /\ NowText' = [a \in Callers |-> NowText'[a]]
      /\ Owned = [a \in Callers |-> Owned[a]] /\ Owned' = [a \in Callers |-> Owned'[a]]
  BY DEF Phase, NowText, Owned
<1>2. /\ \A p : Phase'[c] = p => Phase' = [Phase EXCEPT ![c] = p]
      /\ Phase'[c] = Phase[c] => Phase' = Phase
  BY <1>1 DEF OthersRest
<1>3. /\ \A t : NowText'[c] = t => NowText' = [NowText EXCEPT ![c] = t]
      /\ NowText'[c] = NowText[c] => NowText' = NowText
  BY <1>1 DEF OthersRest
<1>4. /\ \A b : Owned'[c] = b => Owned' = [Owned EXCEPT ![c] = b]
      /\ Owned'[c] = Owned[c] => Owned' = Owned
  BY <1>1 DEF OthersRest
<1> QED BY <1>2, <1>3, <1>4

LEMMA UntouchedRest ==
  ASSUME FollowInv, NEW c \in Callers, \A a \in Callers \ {c} : Untouched(a)
  PROVE  OthersRest(c) /\ \A a \in Callers \ {c} : Follows(a)'
  BY UntouchedFollows DEF FollowInv, OthersRest

(* The values of the mapping for a call at work. *)
LEMMA AtWork ==
  ASSUME CallInv, NEW c \in Callers
  PROVE  /\ Phase[c] = CASE pc[c] = "idle" -> "idle"
                         [] pc[c] = "callback" -> "callback"
                         [] pc[c] = "release" /\ err[c] = "callback error" -> "stopped"
                         [] OTHER -> "running"
         /\ pc[c] # "idle" => NowText[c] = Serving(c).nowText
         /\ pc[c] # "idle" /\ job[c].op = "append" =>
              Buffer(c) = mem[c] /\ Owned[c] = SubSeq(Buffer(c), 1, Serving(c).base)
         /\ pc[c] # "idle" /\ job[c].op = "each" => Owned[c] = mem[c]
         /\ pc[c] = "idle" => NowText[c] = NoTime /\ Owned[c] = mem[c]
<1>1. Phase[c] = CASE pc[c] = "idle" -> "idle"
                   [] pc[c] = "callback" -> "callback"
                   [] pc[c] = "release" /\ err[c] = "callback error" -> "stopped"
                   [] OTHER -> "running"
  BY DEF Phase
<1>2. held[c] = NoState <=> pc[c] = "idle"
  BY DEF CallInv, OwnInv, ExclusiveOwnership
<1>3. pc[c] # "idle" => NowText[c] = Serving(c).nowText
  BY <1>2 DEF NowText, Serving
<1>4. pc[c] # "idle" /\ job[c].op = "append" =>
        Buffer(c) = mem[c] /\ Owned[c] = SubSeq(Buffer(c), 1, Serving(c).base)
  BY BufferOf DEF Buffer, Owned, Serving
<1>5. /\ pc[c] # "idle" /\ job[c].op = "each" => Owned[c] = mem[c]
      /\ pc[c] = "idle" => NowText[c] = NoTime /\ Owned[c] = mem[c]
  BY <1>2 DEF Owned, NowText
<1> QED BY <1>1, <1>3, <1>4, <1>5

LEMMA AtWorkNext ==
  ASSUME CallInv', NEW c \in Callers
  PROVE  /\ Phase'[c] = CASE pc'[c] = "idle" -> "idle"
                          [] pc'[c] = "callback" -> "callback"
                          [] pc'[c] = "release" /\ err'[c] = "callback error" -> "stopped"
                          [] OTHER -> "running"
         /\ pc'[c] # "idle" => NowText'[c] = Serving(c)'.nowText
         /\ pc'[c] # "idle" /\ job'[c].op = "append" =>
              Buffer(c)' = mem'[c] /\ Owned'[c] = SubSeq(Buffer(c)', 1, Serving(c)'.base)
         /\ pc'[c] # "idle" /\ job'[c].op = "each" => Owned'[c] = mem'[c]
         /\ pc'[c] = "idle" => NowText'[c] = NoTime /\ Owned'[c] = mem'[c]
<1>1. Phase'[c] = CASE pc'[c] = "idle" -> "idle"
                    [] pc'[c] = "callback" -> "callback"
                    [] pc'[c] = "release" /\ err'[c] = "callback error" -> "stopped"
                    [] OTHER -> "running"
  BY DEF Phase
<1>2. held'[c] = NoState <=> pc'[c] = "idle"
  BY DEF CallInv, OwnInv, ExclusiveOwnership
<1>3. pc'[c] # "idle" => NowText'[c] = Serving(c)'.nowText
  BY <1>2 DEF NowText, Serving
<1>4. pc'[c] # "idle" /\ job'[c].op = "append" =>
        Buffer(c)' = mem'[c] /\ Owned'[c] = SubSeq(Buffer(c)', 1, Serving(c)'.base)
  <2>1. pc'[c] # "idle" => Serving(c)'.out = IF job'[c].op = "append" THEN c ELSE held'[c]
    BY <1>2 DEF CallInv, OwnInv, ExclusiveOwnership, Serving
  <2> QED BY <2>1 DEF Buffer, Owned, Serving
<1>5. /\ pc'[c] # "idle" /\ job'[c].op = "each" => Owned'[c] = mem'[c]
      /\ pc'[c] = "idle" => NowText'[c] = NoTime /\ Owned'[c] = mem'[c]
  BY <1>2 DEF Owned, NowText
<1> QED BY <1>1, <1>3, <1>4, <1>5

LEMMA BegunMakes ==
  ASSUME NEW s, NEW f, NEW c, NEW j, IsState(f)
  PROVE  LET g == Begun(s, f, c, j)
         IN  /\ g.base = IF j.op = "append" THEN Len(mem[c]) ELSE 0
             /\ g.opt = j.opt /\ g.env = NoDoc /\ g.nowText = NoTime
  BY DEF IsState, StateFields, Begun, BegunAt

LEMMA WholeIsItself ==
  ASSUME NEW m \in Seq(Contents)
  PROVE  SubSeq(m, 1, Len(m)) = m
  OBVIOUS

(* Append and Each begin: Start. *)
LEMMA StartFollows ==
  ASSUME FollowInv, CallInv', Typed', NEW c \in Callers, NEW s \in States, NEW j \in Calls!Jobs,
         StartPooled(c, s, j) \/ StartNew(c, s, j)
  PROVE  (\A a \in Callers : Follows(a)') /\ Calls!Start(c, j)
<1>1. CallInv /\ DOMAIN err = Callers /\ Follows(c)
  BY DEF FollowInv, Typed
<1>2. OthersRest(c) /\ \A a \in Callers \ {c} : Follows(a)'
  BY <1>1, StartUntouched, UntouchedRest
<1>3. PICK f : IsState(f) /\ Take(c, s, f, j)
  BY <1>1, NewStateFields DEF StartPooled, GetPooled, StartNew, CallInv, OwnInv, Shaped, IsState
<1>4. /\ pc[c] = "idle" /\ pc'[c] = "parse" /\ job'[c] = j /\ held'[c] = s
      /\ i'[c] = 0 /\ row'[c] = 0 /\ err'[c] = "none" /\ spoilt'[c] = "no"
      /\ shown' = shown /\ Serving(c)' = Begun(s, f, c, j)
  BY <1>1, <1>3 DEF Take, CallInv, CallShaped, OwnInv, Shaped, Serving
<1>5. mem'[c] = mem[c] /\ clock' = clock
  <2>1. c # s /\ c \in DOMAIN mem
    BY <1>1, NamesAssumption DEF CallInv, CallShaped
  <2> QED BY <2>1 DEF StartPooled, GetPooled, StartNew
<1>6. /\ Serving(c)'.base = IF j.op = "append" THEN Len(mem[c]) ELSE 0
      /\ Serving(c)'.opt = j.opt /\ Serving(c)'.env = NoDoc /\ Serving(c)'.nowText = NoTime
  BY <1>3, <1>4, BegunMakes
<1>7. mem[c] \in Seq(Contents) /\ Len(mem[c]) \in Nat
  BY MemTyped DEF FollowInv
<1>8. j.op = "append" => Buffer(c)' = mem[c]
  BY <1>4, <1>5, AtWorkNext
<1>9. Len(Buffer(c)') \in Nat
  <2>1. Serving(c)'.out \in Callers \cup States
    BY <1>4 DEF CallInv, OwnInv, ExclusiveOwnership, Shaped, Serving
  <2>2. Buffer(c)' \in Seq(Contents)
    BY <2>1 DEF Typed, Buffer
  <2> QED BY <2>2
<1>10. j.op \in {"each", "append"}
  BY JobTyped
<1>11. InCall(c)'
  <2>1. Serving(c)'.base <= Len(Buffer(c)')
    <3>1. CASE j.op = "append"
      BY <1>6, <1>7, <1>8, <3>1
    <3>2. CASE j.op = "each"
      BY <1>6, <1>9, <3>2
    <3> QED BY <1>10, <3>1, <3>2
  <2>2. j.op = "each" => Serving(c)'.base = 0
    BY <1>6
  <2> QED BY <1>4, <1>6, <2>1, <2>2 DEF InCall, NoTime
<1>12. Follows(c)'
  <2>1. Begins(c)'
    BY <1>4, <1>6 DEF Begins
  <2>2. shown'[c] = Calls!NoDelivery
    BY <1>1, <1>4 DEF Follows
  <2> QED BY <1>4, <1>11, <2>1, <2>2 DEF Follows
<1>13. Phase[c] = "idle" /\ Phase'[c] = "running"
  BY <1>1, <1>4, AtWork, AtWorkNext
<1>14. NowText'[c] = NowText[c]
  BY <1>1, <1>4, <1>6, AtWork, AtWorkNext
<1>15. Owned'[c] = Owned[c]
  <2>1. Owned[c] = mem[c]
    BY <1>1, <1>4, AtWork
  <2>2. CASE j.op = "append"
    <3>1. Owned'[c] = SubSeq(Buffer(c)', 1, Serving(c)'.base)
      BY <1>4, <2>2, AtWorkNext
    <3> QED BY <1>6, <1>7, <1>8, <2>1, <2>2, <3>1, WholeIsItself
  <2>3. CASE j.op = "each"
    BY <1>4, <1>5, <2>1, <2>3, AtWorkNext
  <2> QED BY <1>10, <2>2, <2>3
<1>16. Phase' = [Phase EXCEPT ![c] = "running"] /\ NowText' = NowText /\ Owned' = Owned
  BY <1>2, <1>13, <1>14, <1>15, OneCallMoves
<1>17. Calls!Start(c, j)
  BY <1>3, <1>4, <1>5, <1>13, <1>16 DEF Take, Calls!Start
<1> QED BY <1>2, <1>12, <1>17

(* parse, and how it can fail, show nothing to the caller. *)
LEMMA ParseFollows ==
  ASSUME FollowInv, CallInv', Typed', NEW c \in Callers, Parse(c)
  PROVE  (\A a \in Callers : Follows(a)') /\ UNCHANGED Calls!vars
<1> DEFINE d == Doc(c)
           exploded == job[c].op = "each" /\ shape[d].batch = "array"
           failure == IF ~shape[d].valid THEN "parse error"
                      ELSE IF job[c].op = "each" /\ shape[d].batch = "other"
                      THEN "ErrExplode" ELSE "none"
<1>1. CallInv /\ DOMAIN err = Callers /\ Follows(c) /\ pc[c] = "parse"
  BY DEF FollowInv, Typed, Parse
<1>2. OthersRest(c) /\ \A a \in Callers \ {c} : Follows(a)'
  BY <1>1, WorksUntouched, UntouchedRest DEF Works
<1>3. /\ held[c] \in States /\ job[c] \in Calls!Jobs
      /\ IsState(Serving(c)) /\ c \in DOMAIN pc
  BY <1>1, BufferOf DEF CallInv, OwnInv, Shaped, IsState, Serving
<1>4. InCall(c) /\ Begins(c) /\ shown[c] = Calls!NoDelivery
  BY <1>1 DEF Follows
<1>5. UNCHANGED <<clock, pool, mem, held, job, i, row, shown, spoilt, result>>
  BY DEF Parse
<1>6. Serving(c)' = [Serving(c) EXCEPT
                       !.rec = IF shape[d].valid THEN d ELSE Serving(c).rec,
                       !.env = IF shape[d].valid /\ exploded THEN d ELSE Serving(c).env]
  BY <1>1, ParseMakes
<1>7. /\ Serving(c)'.opt = Serving(c).opt /\ Serving(c)'.nowText = Serving(c).nowText
      /\ Serving(c)'.base = Serving(c).base /\ Serving(c)'.out = Serving(c).out
      /\ shape[d].valid => Serving(c)'.rec = d
      /\ Serving(c)'.env = IF shape[d].valid /\ exploded THEN d ELSE NoDoc
  BY <1>3, <1>4, <1>6 DEF IsState, StateFields, Begins
<1>8. err'[c] = failure
      /\ pc'[c] = IF failure # "none" \/ Len(shape[d].records) = 0 THEN "release" ELSE "build"
  BY <1>1, <1>3 DEF Parse, Goto, Doc
<1>9. Buffer(c)' = Buffer(c)
  BY <1>5, <1>7 DEF Buffer
<1>10. InCall(c)'
  BY <1>4, <1>5, <1>7, <1>9 DEF InCall
<1>11. Doc(c)' = d /\ d \in Docs /\ d = job[c].doc
  BY <1>3, <1>5, JobTyped DEF Doc
<1>12. /\ shape[d].valid \in BOOLEAN /\ shape[d].batch \in {"absent", "array", "other"}
       /\ Len(shape[d].records) \in Nat
       /\ job[c].op \in {"each", "append"}
       /\ job[c].op = "append" => shape[d].batch = "absent" /\ Len(shape[d].records) = 1
  BY <1>3, <1>11, RecordTyped, JobTyped
<1>13. Calls!Exploded(job[c])' <=> shape[d].valid /\ shape[d].batch # "other"
  BY <1>5, <1>11 DEF Calls!Exploded
<1>14. Calls!Envelope(job[c])' = IF shape[d].batch = "array" THEN d ELSE NoDoc
  BY <1>5, <1>11 DEF Calls!Envelope
<1>15. ASSUME pc'[c] = "build" PROVE Follows(c)'
  <2>1. failure = "none" /\ Len(shape[d].records) # 0
    BY <1>8, <1>15
  <2>2. shape[d].valid /\ shape[d].batch # "other"
    BY <1>12, <2>1
  <2>3. i'[c] < Len(shape[d].records) /\ i'[c] = 0 /\ row'[c] = 0 /\ spoilt'[c] = "no"
    BY <1>4, <1>5, <1>12, <2>1 DEF Begins
  <2>4. Serving(c)'.env = Calls!Envelope(job[c])'
    BY <1>7, <1>12, <1>14, <2>2
  <2>5. AtRecord(c)'
    BY <1>7, <1>8, <1>11, <1>13, <2>1, <2>2, <2>3, <2>4 DEF AtRecord
  <2>6. ToBuild(c)'
    BY <2>3, <2>5 DEF ToBuild
  <2>7. shown'[c] = Calls!NoDelivery
    BY <1>4, <1>5
  <2> QED BY <1>10, <1>15, <2>6, <2>7 DEF Follows
<1>16. ASSUME pc'[c] = "release" PROVE Follows(c)'
  <2>1. EndsEach(c)' \/ EndsAppend(c)'
    <3>1. CASE ~shape[d].valid
      <4>1. err'[c] = "parse error"
        BY <1>8, <3>1
      <4>2. job'[c] = job[c]
        BY <1>5
      <4>3. CASE job[c].op = "each"
        BY <1>11, <1>13, <3>1, <4>1, <4>2, <4>3 DEF EndsEach
      <4>4. CASE job[c].op = "append"
        BY <1>11, <3>1, <4>1, <4>2, <4>4 DEF EndsAppend
      <4> QED BY <1>12, <4>3, <4>4
    <3>2. CASE shape[d].valid /\ failure # "none"
      <4>1. job[c].op = "each" /\ shape[d].batch = "other" /\ err'[c] = "ErrExplode"
        BY <1>8, <3>2
      <4> QED BY <1>5, <1>11, <1>13, <3>2, <4>1 DEF EndsEach
    <3>3. CASE shape[d].valid /\ failure = "none"
      <4>1. Len(shape[d].records) = 0 /\ job[c].op = "each" /\ shape[d].batch # "other"
        BY <1>8, <1>12, <1>16, <3>3
      <4>2. i'[c] = 0 /\ err'[c] = "none"
        BY <1>4, <1>5, <1>8, <3>3 DEF Begins
      <4> QED BY <1>5, <1>11, <1>13, <3>3, <4>1, <4>2 DEF EndsEach
    <3> QED BY <1>12, <3>1, <3>2, <3>3
  <2>2. shown'[c] = Calls!NoDelivery
    BY <1>4, <1>5
  <2> QED BY <1>10, <1>16, <2>1, <2>2 DEF Follows
<1>17. Follows(c)' /\ pc'[c] \in {"build", "release"}
  BY <1>8, <1>15, <1>16
<1>18. Phase'[c] = "running" /\ Phase[c] = "running"
  <2>1. err'[c] # "callback error"
    BY <1>8
  <2> QED BY <1>1, <1>17, <2>1, AtWork, AtWorkNext
<1>19. NowText'[c] = NowText[c]
  BY <1>1, <1>7, <1>17, AtWork, AtWorkNext
<1>20. Owned'[c] = Owned[c]
  <2>1. mem'[c] = mem[c] /\ job'[c] = job[c]
    BY <1>5
  <2>2. CASE job[c].op = "append"
    <3>1. Owned[c] = SubSeq(Buffer(c), 1, Serving(c).base)
      BY <1>1, <2>2, AtWork
    <3>2. Owned'[c] = SubSeq(Buffer(c)', 1, Serving(c)'.base)
      BY <1>17, <2>1, <2>2, AtWorkNext
    <3> QED BY <1>7, <1>9, <3>1, <3>2
  <2>3. CASE job[c].op = "each"
    BY <1>1, <1>17, <2>1, <2>3, AtWork, AtWorkNext
  <2> QED BY <1>12, <2>2, <2>3
<1>21. Phase' = Phase /\ NowText' = NowText /\ Owned' = Owned
  BY <1>2, <1>18, <1>19, <1>20, OneCallMoves
<1> QED BY <1>2, <1>5, <1>17, <1>21 DEF Calls!vars

LEMMA RowsAfterCut ==
  ASSUME NEW m \in Seq(Contents), NEW b \in Nat, b <= Len(m), NEW rows \in Seq(Contents)
  PROVE  LET all == SubSeq(m, 1, b) \o rows
         IN  /\ all \in Seq(Contents) /\ Len(all) = b + Len(rows)
             /\ SubSeq(all, 1, b) = SubSeq(m, 1, b)
             /\ b = 0 => all = rows
             /\ Len(rows) = 1 => all = Append(SubSeq(m, 1, b), rows[1])
<1> DEFINE cut == SubSeq(m, 1, b)
           all == cut \o rows
<1>1. cut \in Seq(Contents) /\ Len(cut) = b
  BY CutTyped
<1> HIDE DEF cut
<1>2. all \in Seq(Contents) /\ Len(all) = b + Len(rows)
  BY <1>1
<1>3. SubSeq(all, 1, b) = cut
  BY <1>1
<1>4. b = 0 => all = rows
  BY <1>1
<1>5. Len(rows) = 1 => all = Append(cut, rows[1])
  <2> SUFFICES ASSUME Len(rows) = 1 PROVE all = Append(cut, rows[1])
    OBVIOUS
  <2>1. rows[1] \in Contents
    BY ElementOfSeq
  <2>2. rows = <<rows[1]>>
    <3>1. <<rows[1]>> \in Seq(Contents) /\ Len(<<rows[1]>>) = 1
      BY <2>1
    <3> QED BY <3>1, SeqEqual
  <2> QED BY <1>1, <2>1, <2>2, AppendIsConcat
<1> QED BY <1>2, <1>3, <1>4, <1>5 DEF cut

(* build, seen by the caller: "$now" is read, if the record is the first to *)
(* need it.                                                                 *)
LEMMA BuildShows ==
  ASSUME FollowInv, CallInv', Typed', NEW c \in Callers, Build(c)
  PROVE  /\ InCall(c)'
         /\ Serving(c)'.base = Serving(c).base
         /\ SubSeq(Buffer(c)', 1, Serving(c)'.base) = SubSeq(Buffer(c), 1, Serving(c).base)
         /\ job[c].op = "each" => mem'[c] = mem[c] /\ Shows(c)' /\ pc'[c] = "deliver"
         /\ job[c].op = "append" => EndsAppend(c)' /\ pc'[c] = "release" /\ err'[c] = ErrorOf(Current(c))
         /\ \/ Serving(c)'.nowText = Serving(c).nowText
            \/ /\ Serving(c).nowText = NoTime
               /\ Serving(c)'.nowText = IF job[c].opt.now # NoTime THEN job[c].opt.now ELSE clock
<1> DEFINE d == Doc(c)
           r == Current(c)
           n == i[c]
           f == Serving(c)
           g == Serving(c)'
           rows == RowsBuilt(g, n)
<1>1. CallInv /\ Typed /\ Follows(c) /\ pc[c] = "build"
  BY DEF FollowInv, Build
<1>2. /\ IsState(f) /\ Sized(f) /\ f.rec = d /\ d \in Docs
      /\ f.env = Calls!Envelope(job[c]) /\ f.env \in Docs \cup {NoDoc}
      /\ f.opt = job[c].opt /\ f.opt \in Options /\ f.nowText \in Nat
      /\ n \in Nat /\ n < Len(shape[d].records)
      /\ r \in SourceRecord /\ r = RecordAt(d, n)
      /\ ToBuild(c) /\ InCall(c)
  BY <1>1, BuildFacts DEF Current
<1>3. /\ g = Built(f, n, clock) /\ g.nowText \in Nat
      /\ mem' = [mem EXCEPT ![f.out] = SubSeq(Buffer(c), 1, f.base) \o rows]
      /\ rows \in Seq(Contents) /\ Sized(g)
      /\ UNCHANGED <<clock, pool, held, job, i, row, shown, spoilt, result>>
  BY <1>1, BuildMakes
<1>4. /\ g.rec = d /\ g.env = f.env /\ g.opt = f.opt /\ g.base = f.base /\ g.out = f.out
      /\ g.err = ErrorOf(r)
      /\ g.rows = IF r.err \in {"ErrRootNotContainer", "ErrRequired"} THEN 0 ELSE r.rows
      /\ g.fields = IF r.err = "ErrRootNotContainer" THEN NoDoc ELSE FieldsOf(d, n, f.env)
      /\ r.err # "ErrRootNotContainer" => g.derived = NameOf(d, n, f.opt)
      /\ g.nowText = IF r.err # "ErrRootNotContainer" /\ r.readsNow /\ f.nowText = NoTime
                     THEN IF f.opt.now # NoTime THEN f.opt.now ELSE clock
                     ELSE f.nowText
  BY <1>2, <1>3, BuiltMakes
<1>5. /\ r.err = "none" => Len(rows) = r.rows
      /\ r.err = "none" => \A k \in Nat : k < r.rows =>
           rows[k + 1] = RowOf(d, n, k, g.env, g.opt, g.nowText)
  BY <1>2, <1>3, <1>4, RowsBuiltTyped
<1>6. /\ r.rows \in Nat /\ r.readsNow \in BOOLEAN
      /\ r.err \in {"none", "ErrRootNotContainer", "ErrRequired", "ErrRow"}
  BY <1>2 DEF SourceRecord
<1>7. /\ ErrorOf(r) = "none" => r.err = "none" /\ r.rows # 0
      /\ Deliveries(d, n) = IF ErrorOf(r) # "none" THEN 1 ELSE r.rows
  BY <1>2 DEF ErrorOf, Deliveries
<1>8. /\ held[c] \in States /\ f.out = (IF job[c].op = "append" THEN c ELSE held[c])
      /\ job[c] \in Calls!Jobs
  BY <1>1, BufferOf
<1>9. f.out \in Callers \cup States /\ f.base \in Nat /\ f.base <= Len(Buffer(c))
      /\ Buffer(c) \in Seq(Contents) /\ (job[c].op = "each" => f.base = 0)
  <2>1. f.out \in Callers \cup States
    BY <1>8
  <2>2. Buffer(c) \in Seq(Contents)
    BY <1>1, <2>1, MemTyped DEF Buffer
  <2> QED BY <1>2, <2>1, <2>2 DEF InCall, Sized
<1>10. Buffer(c)' = SubSeq(Buffer(c), 1, f.base) \o rows
  BY <1>1, <1>3, <1>4, <1>9 DEF Buffer, CallInv, CallShaped
<1>11. /\ Len(Buffer(c)') = f.base + Len(rows)
       /\ SubSeq(Buffer(c)', 1, f.base) = SubSeq(Buffer(c), 1, f.base)
       /\ f.base = 0 => Buffer(c)' = rows
       /\ Len(rows) = 1 => Buffer(c)' = Append(SubSeq(Buffer(c), 1, f.base), rows[1])
  <2> DEFINE m == Buffer(c)
             b == f.base
  <2>1. m \in Seq(Contents) /\ b \in Nat /\ b <= Len(m) /\ rows \in Seq(Contents)
    BY <1>3, <1>9
  <2>2. Buffer(c)' = SubSeq(m, 1, b) \o rows
    BY <1>10
  <2> HIDE DEF m, b, rows
  <2>3. /\ Len(Buffer(c)') = b + Len(rows)
        /\ SubSeq(Buffer(c)', 1, b) = SubSeq(m, 1, b)
        /\ b = 0 => Buffer(c)' = rows
        /\ Len(rows) = 1 => Buffer(c)' = Append(SubSeq(m, 1, b), rows[1])
    BY <2>1, <2>2, RowsAfterCut
  <2> QED BY <2>3 DEF m, b
<1>12. Len(rows) \in Nat
  BY <1>3
<1>13. InCall(c)'
  BY <1>2, <1>3, <1>4, <1>9, <1>11, <1>12 DEF InCall
<1>14. ErrorOf(r) = "none" => (r.readsNow => g.nowText # NoTime)
  <2>1. clock # NoTime
    BY <1>1, SizesAssumption DEF Typed, Times, NoTime
  <2> QED BY <1>4, <1>7, <2>1
<1>15. /\ Doc(c)' = d /\ Current(c)' = r
       /\ Calls!Exploded(job[c])' = Calls!Exploded(job[c])
       /\ Calls!Envelope(job[c])' = Calls!Envelope(job[c])
  BY <1>3 DEF Doc, Current, Calls!Exploded, Calls!Envelope
<1> HIDE DEF rows, g, f, d, r, n
<1>16. ASSUME job[c].op = "each" PROVE mem'[c] = mem[c] /\ Shows(c)' /\ pc'[c] = "deliver"
  <2>1. mem'[c] = mem[c]
    BY <1>3, <1>8, <1>16, NamesAssumption
  <2>2. pc'[c] = "deliver" /\ err' = err
    BY <1>1, <1>16 DEF Build, Goto, CallInv, OwnInv, Shaped
  <2>3. AtRecord(c) /\ row[c] = 0 /\ spoilt[c] = "no"
    BY <1>2 DEF ToBuild
  <2>4. AtRecord(c)'
    BY <1>2, <1>3, <1>4, <1>15, <2>2, <2>3 DEF AtRecord, d, f, g, n
  <2>5. 0 < Deliveries(d, n)
    BY <1>6, <1>7
  <2>6. Buffer(c)' = rows
    BY <1>9, <1>11, <1>16
  <2>7. ErrorOf(r) = "none" =>
          /\ g.rows = r.rows /\ Len(Buffer(c)') = r.rows
          /\ g.derived = NameOf(d, n, g.opt)
    BY <1>4, <1>5, <1>7, <2>6
  <2>8. ErrorOf(r) = "none" => RowsFrom(c, 0)'
    BY <1>3, <1>5, <1>7, <1>15, <2>3, <2>6 DEF RowsFrom, d, r, n, g
  <2>9. ErrorOf(r) = "none" => NowIsRead(c, Current(c))'
    BY <1>14, <1>15 DEF NowIsRead, g, r
  <2>10. g.fields = IF r.err = "ErrRootNotContainer" THEN NoDoc ELSE FieldsOf(d, n, g.env)
    BY <1>4
  <2>11. /\ job'[c].op = "each" /\ row'[c] = 0 /\ spoilt'[c] = "no" /\ i'[c] = n
         /\ pc'[c] # "callback"
    BY <1>3, <1>16, <2>2, <2>3 DEF n
  <2>12. Shows(c)'
    BY <1>4, <1>15, <2>4, <2>5, <2>7, <2>8, <2>9, <2>10, <2>11 DEF Shows, g, r, d
  <2> QED BY <2>1, <2>2, <2>12
<1>17. ASSUME job[c].op = "append"
       PROVE  EndsAppend(c)' /\ pc'[c] = "release" /\ err'[c] = ErrorOf(r)
  <2>1. pc'[c] = "release" /\ err'[c] = Built(st[held[c]], i[c], clock).err
    BY <1>1, <1>17 DEF Build, Goto, CallInv, OwnInv, Shaped, FollowInv, Typed
  <2>2. err'[c] = ErrorOf(r)
    BY <1>3, <1>4, <2>1 DEF Serving, f, g, n
  <2>3. n = 0 /\ shape[d].valid
    BY <1>2, <1>17 DEF ToBuild, AtRecord, Calls!Exploded, n, d, Doc
  <2>4. g.env = NoDoc /\ g.opt = NoOptions /\ RecordAt(d, 0) = r
    BY <1>2, <1>4, <1>8, <1>17, <2>3, JobTyped
  <2>5. r.rows <= 1
    BY <1>2, <1>8, <1>17, <2>4, JobTyped, RecordTyped DEF d, Doc
  <2>6. ErrorOf(r) = "none" => Len(rows) = 1 /\ rows[1] = RowOf(d, 0, 0, NoDoc, NoOptions, g.nowText)
    <3>1. ErrorOf(r) = "none" => r.err = "none" /\ r.rows = 1
      BY <1>6, <1>7, <2>5
    <3>2. ErrorOf(r) = "none" => rows[0 + 1] = RowOf(d, n, 0, g.env, g.opt, g.nowText)
      BY <1>5, <3>1
    <3>3. ErrorOf(r) = "none" => Len(rows) = 1
      BY <1>5, <3>1
    <3>4. 0 + 1 = 1
      OBVIOUS
    <3>5. ErrorOf(r) = "none" => rows[1] = RowOf(d, n, 0, g.env, g.opt, g.nowText)
      BY <3>2, <3>4
    <3> QED BY <2>3, <2>4, <3>3, <3>5
  <2>7. ErrorOf(r) = "none" =>
          Buffer(c)' = Append(SubSeq(Buffer(c)', 1, g.base),
                              RowOf(d, 0, 0, NoDoc, NoOptions, g.nowText))
    BY <1>4, <1>11, <2>6
  <2>8. ErrorOf(r) = "none" => NowIsRead(c, RecordAt(Doc(c), 0))'
    BY <1>14, <1>15, <2>4 DEF NowIsRead, g
  <2>9. job'[c].op = "append"
    BY <1>3, <1>17
  <2> QED BY <1>15, <2>1, <2>2, <2>3, <2>4, <2>7, <2>8, <2>9 DEF EndsAppend, g
<1>18. \/ g.nowText = f.nowText
       \/ /\ f.nowText = NoTime
          /\ g.nowText = IF job[c].opt.now # NoTime THEN job[c].opt.now ELSE clock
  BY <1>2, <1>4
<1>19. g.base = f.base /\ SubSeq(Buffer(c)', 1, g.base) = SubSeq(Buffer(c), 1, f.base)
  BY <1>4, <1>11
<1> QED BY <1>13, <1>16, <1>17, <1>18, <1>19 DEF f, g, r

LEMMA BuildFollows ==
  ASSUME FollowInv, CallInv', Typed', NEW c \in Callers, Build(c)
  PROVE  (\A a \in Callers : Follows(a)') /\ (UNCHANGED Calls!vars \/ Calls!ReadClock(c))
<1>1. CallInv /\ DOMAIN err = Callers /\ Follows(c) /\ pc[c] = "build"
  BY DEF FollowInv, Typed, Build
<1>2. OthersRest(c) /\ \A a \in Callers \ {c} : Follows(a)'
  BY <1>1, WorksUntouched, UntouchedRest DEF Works
<1>3. UNCHANGED <<clock, pool, held, job, i, row, shown, spoilt, result>>
  BY DEF Build
<1>4. /\ InCall(c)'
      /\ Serving(c)'.base = Serving(c).base
      /\ SubSeq(Buffer(c)', 1, Serving(c)'.base) = SubSeq(Buffer(c), 1, Serving(c).base)
      /\ job[c].op = "each" => mem'[c] = mem[c] /\ Shows(c)' /\ pc'[c] = "deliver"
      /\ job[c].op = "append" => EndsAppend(c)' /\ pc'[c] = "release" /\ err'[c] = ErrorOf(Current(c))
      /\ \/ Serving(c)'.nowText = Serving(c).nowText
         \/ /\ Serving(c).nowText = NoTime
            /\ Serving(c)'.nowText = IF job[c].opt.now # NoTime THEN job[c].opt.now ELSE clock
  BY BuildShows
<1>5. job[c].op \in {"each", "append"}
  BY <1>1, BufferOf, JobTyped
<1>6. shown'[c] = Calls!NoDelivery
  BY <1>1, <1>3 DEF Follows
<1>7. Follows(c)' /\ pc'[c] \in {"deliver", "release"}
  <2>1. CASE job[c].op = "each"
    BY <1>4, <1>6, <2>1 DEF Follows
  <2>2. CASE job[c].op = "append"
    BY <1>4, <1>6, <2>2 DEF Follows
  <2> QED BY <1>5, <2>1, <2>2
<1>8. Phase[c] = "running" /\ Phase'[c] = "running"
  <2>1. CASE job[c].op = "each"
    BY <1>1, <1>4, <2>1, AtWork, AtWorkNext
  <2>2. CASE job[c].op = "append"
    <3>1. err'[c] # "callback error"
      <4>1. Current(c).err \in {"none", "ErrRootNotContainer", "ErrRequired", "ErrRow"}
        BY <1>1, BuildFacts DEF SourceRecord, FollowInv
      <4> QED BY <1>4, <2>2, <4>1 DEF ErrorOf
    <3> QED BY <1>1, <1>4, <2>2, <3>1, AtWork, AtWorkNext
  <2> QED BY <1>5, <2>1, <2>2
<1>9. Owned'[c] = Owned[c]
  <2>1. CASE job[c].op = "each"
    BY <1>1, <1>3, <1>4, <2>1, AtWork, AtWorkNext
  <2>2. CASE job[c].op = "append"
    <3>1. job'[c].op = "append" /\ pc'[c] # "idle"
      BY <1>3, <1>7, <2>2
    <3>2. Owned[c] = SubSeq(Buffer(c), 1, Serving(c).base)
      BY <1>1, <2>2, AtWork
    <3>3. Owned'[c] = SubSeq(Buffer(c)', 1, Serving(c)'.base)
      BY <3>1, AtWorkNext
    <3> QED BY <1>4, <3>2, <3>3
  <2> QED BY <1>5, <2>1, <2>2
<1>10. NowText[c] = Serving(c).nowText /\ NowText'[c] = Serving(c)'.nowText
  BY <1>1, <1>7, AtWork, AtWorkNext
<1>11. Phase' = Phase /\ Owned' = Owned
  BY <1>2, <1>8, <1>9, OneCallMoves
<1>12. CASE Serving(c)'.nowText = Serving(c).nowText
  <2>1. NowText' = NowText
    BY <1>2, <1>10, <1>12, OneCallMoves
  <2> QED BY <1>2, <1>3, <1>7, <1>11, <2>1 DEF Calls!vars
<1>13. CASE /\ Serving(c).nowText = NoTime
            /\ Serving(c)'.nowText = IF job[c].opt.now # NoTime THEN job[c].opt.now ELSE clock
  <2>1. NowText' = [NowText EXCEPT ![c] = IF job[c].opt.now # NoTime THEN job[c].opt.now ELSE clock]
    BY <1>2, <1>10, <1>13, OneCallMoves
  <2>2. Calls!ReadClock(c)
    BY <1>3, <1>8, <1>10, <1>11, <1>13, <2>1, SameDocuments DEF Calls!ReadClock
  <2> QED BY <1>2, <1>7, <2>2
<1> QED BY <1>4, <1>12, <1>13

(* deliver: what fn is shown is what the position says. *)
LEMMA ViewIsDelivery ==
  ASSUME FollowInv, NEW c \in Callers, pc[c] = "deliver"
  PROVE  /\ View(c) = Calls!Delivery(job[c], i[c], row[c], NowText[c], spoilt[c])
         /\ Shows(c) /\ InCall(c)
<1> DEFINE d == Doc(c)
           r == Current(c)
           f == Serving(c)
           env == Calls!Envelope(job[c])
<1>1. CallInv /\ Typed /\ Follows(c) /\ pc[c] # "idle"
  BY DEF FollowInv
<1>2. Shows(c) /\ InCall(c) /\ AtRecord(c)
  BY <1>1 DEF Follows, Shows
<1>3. /\ held[c] \in States /\ f.out = (IF job[c].op = "append" THEN c ELSE held[c])
      /\ job[c] \in Calls!Jobs /\ NowText[c] = f.nowText
  BY <1>1, BufferOf, AtWork
<1>4. /\ f.opt = job[c].opt /\ f.env = env /\ f.base = 0 /\ f.err = ErrorOf(r)
      /\ row[c] \in Nat /\ i[c] \in Nat /\ row[c] < Deliveries(d, i[c])
      /\ d \in Docs /\ i[c] < Len(shape[d].records)
      /\ spoilt[c] \in {"no", "own", "past"}
  BY <1>1, <1>2, <1>3, JobTyped DEF Shows, AtRecord, InCall, Typed, Doc
<1>5. r \in SourceRecord /\ r = RecordAt(d, i[c])
  BY <1>4, RecordTyped DEF Current
<1>6. r.rows \in Nat /\ (ErrorOf(r) = "none" => Deliveries(d, i[c]) = r.rows)
      /\ (r.err = "ErrRootNotContainer" => ErrorOf(r) # "none")
  BY <1>5 DEF SourceRecord, Deliveries, ErrorOf
<1>7. f.out # NoBuf /\ f.out \in Callers \cup States
  BY <1>3, NamesAssumption
<1>8. Buffer(c) \in Seq(Contents)
  BY <1>1, <1>7, MemTyped DEF Buffer
<1>9. ASSUME ErrorOf(r) = "none"
      PROVE  RowAt(f, row[c]) = IF spoilt[c] = "past" THEN Junk
                                ELSE RowOf(d, i[c], row[c], env, job[c].opt, f.nowText)
  <2>1. row[c] < r.rows /\ Len(Buffer(c)) = r.rows
    BY <1>2, <1>4, <1>6, <1>9 DEF Shows
  <2>2. row[c] + 1 \in DOMAIN Buffer(c)
    BY <1>4, <1>6, <1>8, <2>1
  <2>3. f.base + row[c] + 1 = row[c] + 1
    BY <1>4
  <2>4. RowAt(f, row[c]) = Buffer(c)[row[c] + 1]
    BY <1>7, <2>2, <2>3 DEF RowAt, Buffer
  <2>5. RowsFrom(c, row[c])
    BY <1>2, <1>4, <1>9 DEF Shows
  <2> QED BY <1>4, <2>1, <2>4, <2>5 DEF RowsFrom
<1>10. ErrorOf(r) = "none" =>
         f.derived = IF spoilt[c] = "no" THEN NameOf(d, i[c], job[c].opt) ELSE Junk
  BY <1>2, <1>4 DEF Shows
<1>11. f.fields = IF r.err = "ErrRootNotContainer" THEN NoDoc
                  ELSE IF spoilt[c] # "no" THEN Junk ELSE FieldsOf(d, i[c], env)
  BY <1>2, <1>4 DEF Shows
<1>12. View(c) = [index |-> i[c], err |-> f.err,
                  json |-> IF f.err # "none" THEN NoDoc ELSE RowAt(f, row[c]),
                  name |-> IF f.err # "none" \/ Naming = "none" THEN NoDoc
                           ELSE IF Naming = "literal" THEN "literal" ELSE f.derived,
                  fields |-> f.fields]
  BY DEF View, Serving
<1>13. Calls!Delivery(job[c], i[c], row[c], NowText[c], spoilt[c]) =
         [index |-> i[c], err |-> ErrorOf(r),
          json |-> IF ErrorOf(r) # "none" THEN NoDoc
                   ELSE IF spoilt[c] = "past" THEN Junk
                   ELSE RowOf(d, i[c], row[c], env, job[c].opt, f.nowText),
          name |-> IF ErrorOf(r) # "none" \/ Naming = "none" THEN NoDoc
                   ELSE IF Naming = "literal" THEN "literal"
                   ELSE IF spoilt[c] # "no" THEN Junk ELSE NameOf(d, i[c], job[c].opt),
          fields |-> IF r.err = "ErrRootNotContainer" THEN NoDoc
                     ELSE IF spoilt[c] # "no" THEN Junk ELSE FieldsOf(d, i[c], env)]
  BY <1>3, <1>5, SameDocuments DEF Calls!Delivery, Doc
<1> HIDE DEF d, r, f, env
<1>14. View(c) = Calls!Delivery(job[c], i[c], row[c], NowText[c], spoilt[c])
  BY <1>4, <1>9, <1>10, <1>11, <1>12, <1>13
<1> QED BY <1>2, <1>14

LEMMA DeliverFollows ==
  ASSUME FollowInv, CallInv', Typed', NEW c \in Callers, Deliver(c)
  PROVE  (\A a \in Callers : Follows(a)') /\ Calls!Deliver(c)
<1>1. CallInv /\ DOMAIN err = Callers /\ Follows(c) /\ pc[c] = "deliver"
  BY DEF FollowInv, Typed, Deliver, ShowRecord
<1>2. OthersRest(c) /\ \A a \in Callers \ {c} : Follows(a)'
  BY <1>1, WorksUntouched, UntouchedRest DEF Works
<1>3. UNCHANGED <<clock, pool, mem, held, job, i, row, err, spoilt, result>>
  BY DEF Deliver, ShowRecord
<1>20. \A field \in StateFields \ {"record"} : Serving(c)'[field] = Serving(c)[field]
  BY <1>1, <1>3, DeliverEffect DEF CallInv, Serving
<1>21. /\ Serving(c)'.out = Serving(c).out /\ Serving(c)'.base = Serving(c).base
       /\ Serving(c)'.rec = Serving(c).rec /\ Serving(c)'.env = Serving(c).env
       /\ Serving(c)'.opt = Serving(c).opt /\ Serving(c)'.nowText = Serving(c).nowText
       /\ Serving(c)'.fields = Serving(c).fields /\ Serving(c)'.derived = Serving(c).derived
       /\ Serving(c)'.rows = Serving(c).rows /\ Serving(c)'.err = Serving(c).err
  BY <1>20 DEF StateFields
<1>4. /\ View(c) = Calls!Delivery(job[c], i[c], row[c], NowText[c], spoilt[c])
      /\ Shows(c) /\ InCall(c)
  BY <1>1, ViewIsDelivery
<1>5. pc'[c] = "callback" /\ shown' = [shown EXCEPT ![c] = View(c)]
  BY <1>1 DEF Deliver, ShowRecord, Goto, CallInv, OwnInv, Shaped
<1>6. /\ Buffer(c)' = Buffer(c) /\ Doc(c)' = Doc(c)
      /\ Current(c)' = Current(c)
      /\ Calls!Exploded(job[c])' = Calls!Exploded(job[c])
      /\ Calls!Envelope(job[c])' = Calls!Envelope(job[c])
  BY <1>3, <1>21 DEF Buffer, Doc, Current, Calls!Exploded, Calls!Envelope
<1>7. InCall(c)'
  BY <1>3, <1>4, <1>6, <1>21 DEF InCall
<1>8. AtRecord(c)'
  BY <1>3, <1>4, <1>6, <1>21 DEF AtRecord, Shows
<1>9. ASSUME RowsFrom(c, row[c]) PROVE RowsFrom(c, row[c] + 1)'
  <2>1. row[c] \in Nat
    BY DEF FollowInv, Typed
  <2>2. ASSUME NEW k \in Nat, row'[c] + 1 <= k, k < Current(c).rows
        PROVE  Buffer(c)[k + 1] = IF spoilt[c] = "past" THEN Junk
                                  ELSE RowOf(Doc(c), i[c], k, Serving(c).env, Serving(c).opt,
                                             Serving(c).nowText)
    <3>1. row[c] <= k
      BY <1>3, <2>1, <2>2
    <3> QED BY <1>9, <2>2, <3>1 DEF RowsFrom
  <2> QED BY <1>3, <1>6, <1>21, <2>2 DEF RowsFrom
<1>10. NowIsRead(c, Current(c)) => NowIsRead(c, Current(c))'
  BY <1>6, <1>21 DEF NowIsRead
<1>11. Shows(c)'
  <2>1. /\ job'[c].op = "each" /\ row'[c] = row[c] /\ i'[c] = i[c] /\ spoilt'[c] = spoilt[c]
        /\ Serving(c)'.err = ErrorOf(Current(c)') /\ row'[c] < Deliveries(Doc(c)', i'[c])
    BY <1>3, <1>4, <1>6, <1>21 DEF Shows
  <2>2. pc[c] # "callback"
    BY <1>1
  <2>3. Serving(c).err = "none" =>
          /\ Serving(c).rows = Current(c).rows /\ Len(Buffer(c)) = Current(c).rows
          /\ NowIsRead(c, Current(c))
          /\ Serving(c).derived = IF spoilt[c] = "no" THEN NameOf(Doc(c), i[c], Serving(c).opt)
                                  ELSE Junk
          /\ RowsFrom(c, row[c])
    BY <1>4, <2>2 DEF Shows
  <2>4. Serving(c)'.err = "none" =>
          /\ Serving(c)'.rows = Current(c)'.rows /\ Len(Buffer(c)') = Current(c)'.rows
          /\ NowIsRead(c, Current(c))'
          /\ Serving(c)'.derived = IF spoilt'[c] = "no" THEN NameOf(Doc(c)', i'[c], Serving(c)'.opt)
                                   ELSE Junk
    BY <1>3, <1>6, <1>10, <1>21, <2>1, <2>3
  <2>5. Serving(c)'.err = "none" => RowsFrom(c, row[c] + 1)'
    BY <1>9, <1>21, <2>3
  <2>6. RowsFrom(c, row[c] + 1)' =>
          RowsFrom(c, IF pc[c] = "callback" THEN row[c] + 1 ELSE row[c])'
    BY <1>5
  <2>7. Serving(c)'.fields = IF Current(c)'.err = "ErrRootNotContainer" THEN NoDoc
                             ELSE IF spoilt'[c] # "no" THEN Junk
                             ELSE FieldsOf(Doc(c)', i'[c], Serving(c)'.env)
    BY <1>4, <1>6, <1>21, <2>1 DEF Shows
  <2> QED BY <1>8, <2>1, <2>4, <2>5, <2>6, <2>7 DEF Shows
<1>12. Follows(c)'
  BY <1>5, <1>7, <1>11 DEF Follows
<1>13. Phase[c] = "running" /\ Phase'[c] = "callback"
  <2>1. Phase[c] = "running"
    BY <1>1, AtWork
  <2> QED BY <1>5, <2>1, AtWorkNext
<1>14. NowText[c] = Serving(c).nowText /\ NowText'[c] = NowText[c]
  <2>1. NowText[c] = Serving(c).nowText
    BY <1>1, AtWork
  <2>2. NowText'[c] = Serving(c)'.nowText
    BY <1>5, AtWorkNext
  <2> QED BY <1>21, <2>1, <2>2
<1>15. Owned'[c] = Owned[c]
  <2>1. job[c].op = "each" /\ job'[c].op = "each"
    BY <1>3, <1>4 DEF Shows
  <2>2. Owned[c] = mem[c]
    BY <1>1, <2>1, AtWork
  <2>3. Owned'[c] = mem'[c]
    BY <1>5, <2>1, AtWorkNext
  <2> QED BY <1>3, <2>2, <2>3
<1>16. Phase' = [Phase EXCEPT ![c] = "callback"] /\ NowText' = NowText /\ Owned' = Owned
  BY <1>2, <1>13, <1>14, <1>15, OneCallMoves
<1>17. /\ job[c].op = "each" /\ Calls!Exploded(job[c])
       /\ i[c] < Len(shape[job[c].doc].records)
       /\ RecordAt(job[c].doc, i[c]).readsNow /\ ErrorOf(RecordAt(job[c].doc, i[c])) = "none" =>
            NowText[c] # NoTime
  BY <1>4, <1>14 DEF Shows, AtRecord, Doc, Current, NowIsRead
<1>18. Calls!Deliver(c)
  BY <1>3, <1>4, <1>5, <1>13, <1>16, <1>17, SameDocuments DEF Calls!Deliver
<1> QED BY <1>2, <1>12, <1>18

(* The call whose callback runs. *)
LEMMA CallbackFacts ==
  ASSUME FollowInv, NEW c \in Callers, pc[c] = "callback"
  PROVE  /\ CallInv /\ Typed /\ DOMAIN err = Callers
         /\ Serving(c).err = "none" => RowsFrom(c, row[c] + 1)
         /\ Shows(c) /\ InCall(c) /\ AtRecord(c)
         /\ held[c] \in States /\ IsState(Serving(c)) /\ Serving(c).out = held[c]
         /\ Serving(c).base = 0 /\ Serving(c).nowText \in Nat
         /\ Doc(c) \in Docs /\ i[c] \in Nat /\ row[c] \in Nat
         /\ spoilt[c] \in {"no", "own", "past"}
         /\ Calls!Envelope(job[c]) \in Docs \cup {NoDoc}
         /\ Current(c) \in SourceRecord
         /\ Buffer(c) \in Seq(Contents)
         /\ job[c].op = "each"
<1>1. CallInv /\ Typed /\ DOMAIN err = Callers /\ Follows(c) /\ pc[c] # "idle"
  BY DEF FollowInv, Typed
<1>2. Shows(c) /\ InCall(c) /\ AtRecord(c) /\ job[c].op = "each"
  BY <1>1 DEF Follows, Shows
<1>3. Serving(c).err = "none" => RowsFrom(c, row[c] + 1)
  BY <1>2 DEF Shows
<1>4. held[c] \in States /\ Serving(c).out = held[c] /\ job[c] \in Calls!Jobs
  BY <1>1, <1>2, BufferOf
<1>5. IsState(Serving(c))
  BY <1>1, <1>4 DEF Serving, IsState, CallInv, OwnInv, Shaped
<1>6. Doc(c) \in Docs /\ Calls!Envelope(job[c]) \in Docs \cup {NoDoc}
  BY <1>4, JobTyped DEF Doc
<1>7. i[c] \in Nat /\ row[c] \in Nat /\ spoilt[c] \in {"no", "own", "past"}
  BY <1>1 DEF Typed
<1>8. Current(c) \in SourceRecord
  BY <1>2, <1>6, <1>7, RecordTyped DEF Current, AtRecord
<1>9. Buffer(c) \in Seq(Contents)
  BY <1>1, <1>4, MemTyped DEF Buffer
<1>10. Serving(c).base = 0 /\ Serving(c).nowText \in Nat
  BY <1>2 DEF InCall
<1> QED BY <1>1, <1>2, <1>3, <1>4, <1>5, <1>6, <1>7, <1>8, <1>9, <1>10

(* The rows after the shown one: as they were, or all written over. *)
LEMMA OverwrittenRows ==
  ASSUME FollowInv, NEW c \in Callers, pc[c] = "callback", NEW how \in {"own", "past"},
         Serving(c).err = "none"
  PROVE  /\ Len(Overwritten(c, how)) = Current(c).rows
         /\ \A k \in Nat : row[c] + 1 <= k /\ k < Current(c).rows =>
              Overwritten(c, how)[k + 1] = IF how = "past" THEN Junk ELSE Buffer(c)[k + 1]
<1> DEFINE m == Buffer(c)
           n == row[c]
           rows == Current(c).rows
           over == Overwritten(c, how)
<1>1. m \in Seq(Contents) /\ n \in Nat /\ Len(m) = rows /\ rows \in Nat
  BY CallbackFacts DEF Shows, SourceRecord
<1>2. over = [k \in DOMAIN m |->
                IF k \in n + 1 .. (IF how = "past" THEN Len(m) ELSE n + 1) THEN Junk ELSE m[k]]
  <2>1. Serving(c).base + n + 1 = n + 1
    BY <1>1, CallbackFacts
  <2> QED BY <2>1 DEF Overwritten
<1> HIDE DEF m, n, rows, over
<1>3. DOMAIN m = 1 .. rows
  BY <1>1
<1>4. Len(over) = rows
  BY <1>1, <1>2, <1>3
<1>5. ASSUME NEW k \in Nat, n + 1 <= k, k < rows
      PROVE  over[k + 1] = IF how = "past" THEN Junk ELSE m[k + 1]
  <2>1. k + 1 \in 1 .. rows /\ k + 1 # n + 1 /\ n + 1 <= k + 1 /\ k + 1 <= Len(m)
    BY <1>1, <1>5
  <2> QED BY <1>1, <1>2, <1>3, <2>1
<1> QED BY <1>4, <1>5 DEF m, n, rows, over

(* A callback writes over what it is shown: Scribble. *)
LEMMA ScribbleFollows ==
  ASSUME FollowInv, CallInv', Typed', NEW c \in Callers, NEW how \in {"own", "past"},
         Scribble(c, how)
  PROVE  (\A a \in Callers : Follows(a)') /\ Calls!Scribble(c, how)
<1> DEFINE f == Serving(c)
           r == Current(c)
<1>1. pc[c] = "callback" /\ UNCHANGED <<clock, pool, pc, held, job, i, row, err, shown, result>>
  BY DEF Scribble
<1>2. CallInv /\ Typed /\ DOMAIN err = Callers /\ Shows(c) /\ InCall(c) /\ AtRecord(c)
      /\ held[c] \in States /\ IsState(f) /\ f.out = held[c] /\ job[c].op = "each"
      /\ spoilt[c] \in {"no", "own", "past"}
  BY <1>1, CallbackFacts
<1>3. OthersRest(c) /\ \A a \in Callers \ {c} : Follows(a)'
  BY <1>2, WorksUntouched, UntouchedRest DEF Works
<1>4. Serving(c)' = Scribbled(f)
  BY <1>1, <1>2 DEF Scribble, Serving, CallInv, OwnInv, Shaped
<1>5. /\ Serving(c)'.out = f.out /\ Serving(c)'.base = f.base /\ Serving(c)'.rec = f.rec
      /\ Serving(c)'.env = f.env /\ Serving(c)'.opt = f.opt /\ Serving(c)'.nowText = f.nowText
      /\ Serving(c)'.rows = f.rows /\ Serving(c)'.err = f.err
      /\ Serving(c)'.fields = IF f.fields = NoDoc THEN NoDoc ELSE Junk
      /\ f.err = "none" => Serving(c)'.derived = Junk
  BY <1>2, <1>4 DEF IsState, StateFields, Scribbled
<1>6. Buffer(c)' = IF f.err # "none" THEN Buffer(c) ELSE Overwritten(c, how)
  <2>1. held[c] \in DOMAIN mem
    BY <1>2 DEF CallInv, CallShaped
  <2>2. CASE f.err # "none"
    BY <1>5, <2>2, ScribbleMakes DEF Buffer
  <2>3. CASE f.err = "none"
    BY <1>2, <1>5, <2>1, <2>3, ScribbleMakes DEF Buffer
  <2> QED BY <2>2, <2>3
<1>7. mem'[c] = mem[c]
  <2>1. c # held[c]
    BY <1>2, NamesAssumption
  <2>2. mem' = mem \/ \E b : mem' = [mem EXCEPT ![held[c]] = b]
    BY <1>2, ScribbleMakes
  <2> QED BY <1>2, <2>1, <2>2 DEF CallInv, CallShaped
<1>8. spoilt' = [spoilt EXCEPT ![c] = IF @ = "past" THEN @ ELSE how]
  BY DEF Scribble
<1>9. spoilt'[c] = (IF spoilt[c] = "past" THEN "past" ELSE how) /\ spoilt'[c] # "no"
  BY <1>2, <1>8 DEF CallInv, CallShaped
<1>10. /\ Doc(c)' = Doc(c) /\ Current(c)' = r
       /\ Calls!Exploded(job[c])' = Calls!Exploded(job[c])
       /\ Calls!Envelope(job[c])' = Calls!Envelope(job[c])
  BY <1>1 DEF Doc, Current, Calls!Exploded, Calls!Envelope
<1>11. AtRecord(c)'
  BY <1>1, <1>2, <1>5, <1>10 DEF AtRecord
<1>12. InCall(c)'
  <2>1. Len(Buffer(c)') \in Nat
    <3>1. Serving(c)'.out \in Callers \cup States
      BY <1>2, <1>5
    <3>2. Buffer(c)' \in Seq(Contents)
      BY <3>1 DEF Typed, Buffer
    <3> QED BY <3>2
  <2>2. f.base = 0
    BY <1>1, CallbackFacts
  <2> QED BY <1>1, <1>2, <1>5, <2>1, <2>2 DEF InCall
<1>13. Serving(c)'.fields = IF r.err = "ErrRootNotContainer" THEN NoDoc ELSE Junk
  <2>1. f.env = Calls!Envelope(job[c]) /\ f.env \in Docs \cup {NoDoc}
    BY <1>1, <1>2, CallbackFacts DEF AtRecord
  <2>2. FieldsOf(Doc(c), i[c], f.env) # NoDoc
    <3>1. FieldsOf(Doc(c), i[c], f.env)
          \in [doc : Docs, index : Nat, env : Docs \cup {NoDoc}]
      BY <1>1, <2>1, CallbackFacts DEF FieldsOf
    <3> QED BY <3>1, DocumentsAssumption
  <2>3. f.fields = IF r.err = "ErrRootNotContainer" THEN NoDoc
                   ELSE IF spoilt[c] # "no" THEN Junk ELSE FieldsOf(Doc(c), i[c], f.env)
    BY <1>2 DEF Shows
  <2> QED BY <1>5, <2>2, <2>3
<1>14. ASSUME f.err = "none"
       PROVE  /\ Serving(c)'.rows = r.rows /\ Len(Buffer(c)') = r.rows
              /\ NowIsRead(c, r)
              /\ RowsFrom(c, row[c] + 1)'
  <2>1. f.rows = r.rows /\ NowIsRead(c, r) /\ RowsFrom(c, row[c] + 1)
    BY <1>1, <1>2, <1>14 DEF Shows
  <2>2. Buffer(c)' = Overwritten(c, how)
    BY <1>6, <1>14
  <2>3. Len(Buffer(c)') = r.rows
    BY <1>1, <1>14, <2>2, OverwrittenRows
  <2>4. ASSUME NEW k \in Nat, row[c] + 1 <= k, k < r.rows
        PROVE  Buffer(c)'[k + 1] = IF spoilt'[c] = "past" THEN Junk
                                   ELSE RowOf(Doc(c), i[c], k, f.env, f.opt, f.nowText)
    <3>1. Buffer(c)'[k + 1] = IF how = "past" THEN Junk ELSE Buffer(c)[k + 1]
      BY <1>1, <1>14, <2>2, <2>4, OverwrittenRows
    <3>2. Buffer(c)[k + 1] = IF spoilt[c] = "past" THEN Junk
                             ELSE RowOf(Doc(c), i[c], k, f.env, f.opt, f.nowText)
      BY <2>1, <2>4 DEF RowsFrom
    <3> QED BY <1>9, <3>1, <3>2
  <2>5. RowsFrom(c, row[c] + 1)'
    BY <1>1, <1>5, <1>10, <2>4 DEF RowsFrom
  <2> QED BY <1>5, <2>1, <2>3, <2>5
<1>15. Shows(c)'
  <2>1. /\ job'[c].op = "each" /\ row'[c] = row[c] /\ i'[c] = i[c]
        /\ Serving(c)'.err = ErrorOf(Current(c)') /\ row'[c] < Deliveries(Doc(c)', i'[c])
    BY <1>1, <1>2, <1>5, <1>10 DEF Shows
  <2>2. Serving(c)'.err = "none" => NowIsRead(c, Current(c))'
    BY <1>5, <1>10, <1>14 DEF NowIsRead
  <2>3. Serving(c)'.err = "none" =>
          RowsFrom(c, IF pc[c] = "callback" THEN row[c] + 1 ELSE row[c])'
    BY <1>1, <1>5, <1>14
  <2> HIDE DEF f, r
  <2>4. Serving(c)'.err = "none" =>
          /\ Serving(c)'.rows = Current(c)'.rows /\ Len(Buffer(c)') = Current(c)'.rows
          /\ Serving(c)'.derived = Junk
    BY <1>5, <1>10, <1>14
  <2>5. Serving(c)'.fields = IF Current(c)'.err = "ErrRootNotContainer" THEN NoDoc ELSE Junk
    BY <1>10, <1>13
  <2> QED BY <1>9, <1>11, <2>1, <2>2, <2>3, <2>4, <2>5 DEF Shows
<1>16. Follows(c)'
  BY <1>1, <1>12, <1>15 DEF Follows
<1>17. Phase[c] = "callback" /\ Phase'[c] = "callback"
  <2>1. Phase[c] = "callback"
    BY <1>1, <1>2, AtWork
  <2> QED BY <1>1, <2>1, AtWorkNext
<1>18. NowText'[c] = NowText[c]
  <2>1. NowText[c] = f.nowText
    BY <1>1, <1>2, AtWork
  <2>2. NowText'[c] = Serving(c)'.nowText
    BY <1>1, AtWorkNext
  <2> QED BY <1>5, <2>1, <2>2
<1>19. Owned'[c] = Owned[c]
  <2>1. Owned[c] = mem[c]
    BY <1>1, <1>2, AtWork
  <2>2. Owned'[c] = mem'[c]
    BY <1>1, <1>2, AtWorkNext
  <2> QED BY <1>7, <2>1, <2>2
<1>20. Phase' = Phase /\ NowText' = NowText /\ Owned' = Owned
  BY <1>3, <1>17, <1>18, <1>19, OneCallMoves
<1>21. Calls!Scribble(c, how)
  BY <1>1, <1>8, <1>17, <1>20 DEF Calls!Scribble
<1> QED BY <1>3, <1>16, <1>21

(* After a row comes the next delivery of EachCalls. *)
LEMMA MoreToDeliver ==
  ASSUME FollowInv, NEW c \in Callers, pc[c] = "callback"
  PROVE  (Serving(c).err = "none" /\ row[c] + 1 < Serving(c).rows)
           <=> row[c] + 1 < Deliveries(Doc(c), i[c])
<1> DEFINE d == Deliveries(Doc(c), i[c])
<1>1. /\ Serving(c).err = ErrorOf(Current(c)) /\ row[c] < d /\ row[c] \in Nat
      /\ Serving(c).err = "none" => Serving(c).rows = Current(c).rows
  BY CallbackFacts DEF Shows
<1>2. d = IF Serving(c).err # "none" THEN 1 ELSE Current(c).rows
  BY <1>1 DEF Deliveries, Current
<1> QED BY <1>1, <1>2

(* What the return of a callback leaves of its call. *)
LEMMA AfterCallback ==
  ASSUME FollowInv, NEW c \in Callers, pc[c] = "callback",
         UNCHANGED <<clock, pool, st, mem, held, job, result>>
  PROVE  /\ Serving(c)' = Serving(c) /\ Buffer(c)' = Buffer(c) /\ Doc(c)' = Doc(c)
         /\ Calls!Exploded(job[c])' = Calls!Exploded(job[c])
         /\ Calls!Envelope(job[c])' = Calls!Envelope(job[c])
         /\ InCall(c)'
<1>1. Serving(c)' = Serving(c) /\ Doc(c)' = Doc(c)
  BY DEF Serving, Doc
<1>2. Buffer(c)' = Buffer(c)
  BY <1>1 DEF Buffer
<1>3. /\ Calls!Exploded(job[c])' = Calls!Exploded(job[c])
      /\ Calls!Envelope(job[c])' = Calls!Envelope(job[c])
  BY DEF Calls!Exploded, Calls!Envelope
<1>4. InCall(c)'
  BY <1>1, <1>2, CallbackFacts DEF InCall
<1> QED BY <1>1, <1>2, <1>3, <1>4

LEMMA CallbackIsOver ==
  ASSUME FollowInv, CallInv', NEW c \in Callers, pc[c] = "callback", OthersRest(c),
         UNCHANGED <<clock, pool, st, mem, held, job, result>>, pc'[c] # "idle"
  PROVE  Phase[c] = "callback" /\ NowText' = NowText /\ Owned' = Owned
<1>1. CallInv /\ job[c].op = "each"
  BY CallbackFacts
<1>2. Phase[c] = "callback" /\ NowText[c] = Serving(c).nowText /\ Owned[c] = mem[c]
  BY <1>1, AtWork
<1>3. NowText'[c] = Serving(c)'.nowText /\ Owned'[c] = mem'[c]
  BY <1>1, AtWorkNext
<1>4. NowText'[c] = NowText[c] /\ Owned'[c] = Owned[c]
  BY <1>2, <1>3, AfterCallback
<1> QED BY <1>2, <1>4, OneCallMoves

(* fn returns nil: Return. *)
LEMMA ReturnFollows ==
  ASSUME FollowInv, CallInv', Typed', NEW c \in Callers, Return(c)
  PROVE  (\A a \in Callers : Follows(a)') /\ Calls!Return(c)
<1> DEFINE more == row[c] + 1 < Deliveries(Doc(c), i[c])
           len == Len(shape[Doc(c)].records)
<1>1. pc[c] = "callback" /\ UNCHANGED <<clock, pool, st, mem, held, job, err, result>>
      /\ shown' = [shown EXCEPT ![c] = Calls!NoDelivery]
  BY DEF Return, GoOn, Forget
<1>2. /\ CallInv /\ Typed /\ DOMAIN err = Callers
      /\ Shows(c) /\ InCall(c) /\ AtRecord(c) /\ job[c].op = "each"
      /\ Serving(c).rec = Doc(c) /\ i[c] \in Nat /\ row[c] \in Nat /\ Doc(c) \in Docs
      /\ i[c] < len /\ len \in Nat /\ err[c] = "none"
      /\ Serving(c).err = "none" => RowsFrom(c, row[c] + 1)
  BY <1>1, CallbackFacts, RecordTyped DEF AtRecord
<1>3. OthersRest(c) /\ \A a \in Callers \ {c} : Follows(a)'
  BY <1>2, WorksUntouched, UntouchedRest DEF Works
<1>4. /\ c \in DOMAIN pc /\ c \in DOMAIN i /\ c \in DOMAIN row /\ c \in DOMAIN spoilt
      /\ c \in DOMAIN shown
  BY <1>2 DEF CallInv, CallShaped, OwnInv, Shaped
<1>5. /\ Serving(c)' = Serving(c) /\ Buffer(c)' = Buffer(c) /\ Doc(c)' = Doc(c)
      /\ Calls!Exploded(job[c])' = Calls!Exploded(job[c])
      /\ Calls!Envelope(job[c])' = Calls!Envelope(job[c])
      /\ InCall(c)'
  BY <1>1, AfterCallback
<1>6. shown'[c] = Calls!NoDelivery /\ job'[c] = job[c] /\ err'[c] = "none"
  BY <1>1, <1>2, <1>4
<1>7. (Serving(c).err = "none" /\ row[c] + 1 < Serving(c).rows) <=> more
  BY <1>1, MoreToDeliver
<1>8. \/ /\ more
         /\ row' = [row EXCEPT ![c] = @ + 1] /\ UNCHANGED <<i, spoilt>>
         /\ pc'[c] = "deliver"
      \/ /\ ~more
         /\ row' = [row EXCEPT ![c] = 0] /\ i' = [i EXCEPT ![c] = @ + 1]
         /\ spoilt' = [spoilt EXCEPT ![c] = "no"]
         /\ pc'[c] = IF i[c] + 1 < len THEN "build" ELSE "release"
  BY <1>2, <1>4, <1>7 DEF Return, GoOn, Goto, Serving
<1>9. Follows(c)' /\ pc'[c] \in {"deliver", "build", "release"}
  <2>1. CASE more
    <3>1. /\ row'[c] = row[c] + 1 /\ i'[c] = i[c] /\ spoilt'[c] = spoilt[c]
          /\ pc'[c] = "deliver"
      BY <1>4, <1>8, <2>1
    <3>2. Current(c)' = Current(c)
      BY <1>5, <3>1 DEF Current
    <3>3. AtRecord(c)'
      BY <1>2, <1>5, <1>6, <3>1 DEF AtRecord
    <3>4. Serving(c).err = "none" /\ NowIsRead(c, Current(c))
      BY <1>2, <1>7, <2>1 DEF Shows
    <3>5. NowIsRead(c, Current(c))'
      BY <1>5, <3>2, <3>4 DEF NowIsRead
    <3>6. RowsFrom(c, row[c])'
      BY <1>2, <1>5, <3>1, <3>2, <3>4 DEF RowsFrom
    <3>7. RowsFrom(c, IF pc[c] = "callback" THEN row[c] + 1 ELSE row[c])'
      BY <3>1, <3>6
    <3>8. /\ Serving(c)'.err = ErrorOf(Current(c)') /\ row'[c] < Deliveries(Doc(c)', i'[c])
          /\ job'[c].op = "each"
      BY <1>2, <1>5, <1>6, <2>1, <3>1, <3>2 DEF Shows
    <3>9. /\ Serving(c)'.rows = Current(c)'.rows /\ Len(Buffer(c)') = Current(c)'.rows
          /\ Serving(c)'.derived = IF spoilt'[c] = "no" THEN NameOf(Doc(c)', i'[c], Serving(c)'.opt)
                                   ELSE Junk
          /\ Serving(c)'.fields = IF Current(c)'.err = "ErrRootNotContainer" THEN NoDoc
                                  ELSE IF spoilt'[c] # "no" THEN Junk
                                  ELSE FieldsOf(Doc(c)', i'[c], Serving(c)'.env)
      BY <1>2, <1>5, <3>1, <3>2, <3>4 DEF Shows
    <3>10. Shows(c)'
      BY <3>3, <3>5, <3>7, <3>8, <3>9 DEF Shows
    <3> QED BY <1>5, <1>6, <3>1, <3>10 DEF Follows
  <2>2. CASE ~more
    <3>1. /\ row'[c] = 0 /\ i'[c] = i[c] + 1 /\ spoilt'[c] = "no"
          /\ pc'[c] = IF i[c] + 1 < len THEN "build" ELSE "release"
      BY <1>4, <1>8, <2>2
    <3>2. CASE i[c] + 1 < len
      <4>1. AtRecord(c)'
        BY <1>2, <1>5, <1>6, <3>1, <3>2 DEF AtRecord
      <4>2. ToBuild(c)'
        BY <1>2, <1>6, <3>1, <4>1 DEF ToBuild
      <4> QED BY <1>5, <1>6, <3>1, <3>2, <4>2 DEF Follows
    <3>3. CASE ~(i[c] + 1 < len)
      <4>1. i'[c] = len
        BY <1>2, <3>1, <3>3
      <4>2. EndsEach(c)'
        BY <1>2, <1>5, <1>6, <4>1 DEF EndsEach, AtRecord
      <4> QED BY <1>5, <1>6, <3>1, <3>3, <4>2 DEF Follows
    <3> QED BY <3>2, <3>3
  <2> QED BY <2>1, <2>2
<1>10. Phase'[c] = "running"
  BY <1>6, <1>9, AtWorkNext
<1>11. /\ Phase[c] = "callback" /\ Phase' = [Phase EXCEPT ![c] = "running"]
       /\ NowText' = NowText /\ Owned' = Owned
  <2>1. pc'[c] # "idle"
    BY <1>9
  <2> QED BY <1>1, <1>3, <1>10, <2>1, CallbackIsOver, OneCallMoves
<1>12. Calls!Advance(c)
  <2>1. more <=> row[c] + 1 < Calls!Deliveries(job[c].doc, i[c])
    BY SameDocuments DEF Doc
  <2> QED BY <1>8, <2>1 DEF Calls!Advance
<1>13. Calls!Return(c)
  BY <1>1, <1>11, <1>12 DEF Calls!Return
<1> QED BY <1>3, <1>9, <1>13

(* fn returns an error: ReturnError. *)
LEMMA ReturnErrorFollows ==
  ASSUME FollowInv, CallInv', Typed', NEW c \in Callers, ReturnError(c)
  PROVE  (\A a \in Callers : Follows(a)') /\ Calls!ReturnError(c)
<1>1. pc[c] = "callback" /\ UNCHANGED <<clock, pool, st, mem, held, job, i, row, spoilt, result>>
      /\ shown' = [shown EXCEPT ![c] = Calls!NoDelivery]
  BY DEF ReturnError, Forget
<1>2. CallInv /\ DOMAIN err = Callers /\ job[c].op = "each"
  BY <1>1, CallbackFacts
<1>3. OthersRest(c) /\ \A a \in Callers \ {c} : Follows(a)'
  BY <1>2, WorksUntouched, UntouchedRest DEF Works
<1>4. pc'[c] = "release" /\ err'[c] = "callback error" /\ shown'[c] = Calls!NoDelivery
  BY <1>1, <1>2 DEF ReturnError, Goto, CallInv, CallShaped, OwnInv, Shaped
<1>5. InCall(c)'
  BY <1>1, AfterCallback
<1>6. EndsEach(c)'
  BY <1>1, <1>2, <1>4 DEF EndsEach
<1>7. Follows(c)'
  BY <1>4, <1>5, <1>6 DEF Follows
<1>8. Phase'[c] = "stopped"
  BY <1>4, AtWorkNext
<1>9. /\ Phase[c] = "callback" /\ Phase' = [Phase EXCEPT ![c] = "stopped"]
      /\ NowText' = NowText /\ Owned' = Owned
  BY <1>1, <1>3, <1>4, <1>8, CallbackIsOver, OneCallMoves
<1>10. Calls!ReturnError(c)
  BY <1>1, <1>9 DEF Calls!ReturnError
<1> QED BY <1>3, <1>7, <1>10

-----------------------------------------------------------------------------
(* The end of a call.                                                       *)

LEMMA LeaveFinishes ==
  ASSUME FollowInv, CallInv', Typed', NEW c \in Callers, pc[c] # "idle", NEW outcome,
         Leave(c, outcome), clock' = clock, OthersRest(c),
         shown' = [shown EXCEPT ![c] = Calls!NoDelivery]
  PROVE  Follows(c)' /\ Calls!Finish(c, outcome) /\ Owned'[c] = mem'[c]
<1>1. pc'[c] = "idle" /\ shown'[c] = Calls!NoDelivery
  BY DEF Leave, Goto, FollowInv, CallInv, CallShaped, OwnInv, Shaped
<1>2. Phase'[c] = "idle" /\ NowText'[c] = NoTime /\ Owned'[c] = mem'[c]
  BY <1>1, AtWorkNext
<1>3. Phase' = [Phase EXCEPT ![c] = "idle"] /\ NowText' = [NowText EXCEPT ![c] = NoTime]
  BY <1>2, OneCallMoves
<1>4. Calls!Finish(c, outcome)
  BY <1>3, SameDocuments DEF Leave, Calls!Finish
<1> QED BY <1>1, <1>2, <1>4 DEF Follows

(* fn panics: Panic. *)
LEMMA PanicFollows ==
  ASSUME FollowInv, CallInv', Typed', NEW c \in Callers, Panic(c)
  PROVE  (\A a \in Callers : Follows(a)') /\ Calls!Panic(c)
<1>1. pc[c] = "callback" /\ pc[c] # "idle" /\ clock' = clock /\ Leave(c, "panic")
      /\ shown' = [shown EXCEPT ![c] = Calls!NoDelivery]
      /\ mem' = [mem EXCEPT ![held[c]] = <<>>]
  BY DEF Panic, Forget
<1>2. CallInv /\ DOMAIN err = Callers /\ job[c].op = "each" /\ held[c] \in States
  BY <1>1, CallbackFacts
<1>3. OthersRest(c) /\ \A a \in Callers \ {c} : Follows(a)'
  BY <1>2, EndUntouched, UntouchedRest
<1>4. Follows(c)' /\ Calls!Finish(c, "panic") /\ Owned'[c] = mem'[c]
  BY <1>1, <1>3, LeaveFinishes
<1>5. Phase[c] = "callback" /\ Owned[c] = mem[c]
  BY <1>1, <1>2, AtWork
<1>6. mem'[c] = mem[c]
  BY <1>1, <1>2, NamesAssumption DEF CallInv, CallShaped
<1>7. Owned' = Owned
  <2>1. Owned'[c] = Owned[c]
    BY <1>4, <1>5, <1>6
  <2> QED BY <1>3, <2>1, OneCallMoves
<1>8. Calls!Panic(c)
  BY <1>4, <1>5, <1>7 DEF Calls!Panic
<1> QED BY <1>3, <1>4, <1>8

(* The end of Each: EndEach. *)
LEMMA EachEnds ==
  ASSUME FollowInv, NEW c \in Callers, Release(c), EndsEach(c),
         Calls!Finish(c, IF err[c] = "none" THEN "ok" ELSE err[c]), Owned' = Owned
  PROVE  Calls!EndEach(c)
<1>1. pc[c] = "release" /\ CallInv
  BY DEF Release, ReleaseWith, FollowInv
<1>2. Phase[c] = IF err[c] = "callback error" THEN "stopped" ELSE "running"
  BY <1>1, AtWork
<1>3. CASE err[c] = "callback error"
  BY <1>2, <1>3 DEF EndsEach, Calls!EndEach
<1>4. CASE /\ ~Calls!Exploded(job[c])
           /\ err[c] = IF shape[Doc(c)].valid THEN "ErrExplode" ELSE "parse error"
  BY <1>2, <1>4 DEF EndsEach, Calls!EndEach, Doc
<1>5. CASE Calls!Exploded(job[c]) /\ err[c] = "none" /\ i[c] = Len(shape[Doc(c)].records)
  BY <1>2, <1>5 DEF EndsEach, Calls!EndEach, Doc
<1> QED BY <1>3, <1>4, <1>5 DEF EndsEach

(* The end of Append: EndAppend. *)
LEMMA AppendEnds ==
  ASSUME FollowInv, NEW c \in Callers, Release(c), EndsAppend(c), OthersRest(c),
         Calls!Finish(c, IF err[c] = "none" THEN "ok" ELSE err[c]), Owned'[c] = mem'[c]
  PROVE  Calls!EndAppend(c)
<1> DEFINE d == job[c].doc
           e == IF shape[d].valid THEN ErrorOf(RecordAt(d, 0)) ELSE "parse error"
<1>1. pc[c] = "release" /\ pc[c] # "idle" /\ CallInv /\ Typed /\ Follows(c)
  BY DEF Release, ReleaseWith, FollowInv
<1>2. job[c].op = "append" /\ err[c] = e
  BY DEF EndsAppend, Doc
<1>3. d \in Docs /\ Simple
  BY <1>1, <1>2, BufferOf, JobTyped
<1>4. e # "callback error"
  <2>1. Len(shape[d].records) = 1 /\ RecordAt(d, 0) \in SourceRecord
    BY <1>3, RecordTyped
  <2>2. RecordAt(d, 0).err \in {"none", "ErrRootNotContainer", "ErrRequired", "ErrRow"}
    BY <2>1 DEF SourceRecord
  <2> QED BY <2>2 DEF ErrorOf
<1> HIDE DEF e
<1>5. Phase[c] = "running"
  BY <1>1, <1>2, <1>4, AtWork
<1>6. Buffer(c) = mem[c] /\ Owned[c] = SubSeq(mem[c], 1, Serving(c).base)
      /\ NowText[c] = Serving(c).nowText
  <2>1. Buffer(c) = mem[c] /\ Owned[c] = SubSeq(Buffer(c), 1, Serving(c).base)
    BY <1>1, <1>2, AtWork
  <2>2. NowText[c] = Serving(c).nowText
    BY <1>1, AtWork
  <2> QED BY <2>1, <2>2
<1>7. e = "none" => (RecordAt(d, 0).readsNow => NowText[c] # NoTime)
  BY <1>2, <1>6 DEF EndsAppend, NowIsRead, Doc
<1>8. ASSUME e = "none"
      PROVE  Owned' = [Owned EXCEPT ![c] = Append(@, RowOf(d, 0, 0, NoDoc, NoOptions, NowText[c]))]
  <2>1. mem'[c] = mem[c]
    BY <1>1, <1>2, <1>8, ReleaseLeavesMem
  <2>2. mem[c] = Append(Owned[c], RowOf(d, 0, 0, NoDoc, NoOptions, NowText[c]))
    BY <1>2, <1>6, <1>8 DEF EndsAppend, Doc
  <2>3. Owned' = [Owned EXCEPT ![c] = Append(Owned[c], RowOf(d, 0, 0, NoDoc, NoOptions, NowText[c]))]
    BY <2>1, <2>2, OneCallMoves
  <2> QED BY <2>3
<1>9. ASSUME e # "none" PROVE Owned' = Owned
  <2>1. Owned'[c] = Owned[c]
    BY <1>1, <1>2, <1>6, <1>9, ReleaseLeavesMem
  <2> QED BY <2>1, OneCallMoves
<1>10. e = IF Calls!RecordAt(d, 0) = RecordAt(d, 0) /\ shape[d].valid
           THEN Calls!ErrorOf(Calls!RecordAt(d, 0)) ELSE "parse error"
  BY SameDocuments DEF e
<1>11. Calls!EndAppend(c)
  BY <1>2, <1>5, <1>7, <1>8, <1>9, <1>10, SameDocuments DEF Calls!EndAppend
<1> QED BY <1>11

LEMMA ReleaseFollows ==
  ASSUME FollowInv, CallInv', Typed', NEW c \in Callers, Release(c)
  PROVE  (\A a \in Callers : Follows(a)') /\ (Calls!EndEach(c) \/ Calls!EndAppend(c))
<1> DEFINE outcome == IF err[c] = "none" THEN "ok" ELSE err[c]
<1>1. /\ pc[c] = "release" /\ pc[c] # "idle" /\ Leave(c, outcome) /\ UNCHANGED <<clock, shown>>
      /\ CallInv /\ Typed /\ Follows(c) /\ DOMAIN err = Callers
  BY DEF Release, ReleaseWith, FollowInv, Typed
<1> HIDE DEF outcome
<1>2. OthersRest(c) /\ \A a \in Callers \ {c} : Follows(a)'
  BY <1>1, EndUntouched, UntouchedRest
<1>3. shown' = [shown EXCEPT ![c] = Calls!NoDelivery]
  <2>1. shown[c] = Calls!NoDelivery /\ shown' = shown
    BY <1>1 DEF Follows
  <2>2. shown = [a \in Callers |-> shown[a]]
    BY <1>1 DEF Typed
  <2> QED BY <2>1, <2>2
<1>4. Follows(c)' /\ Calls!Finish(c, outcome) /\ Owned'[c] = mem'[c]
  BY <1>1, <1>2, <1>3, LeaveFinishes
<1>5. EndsEach(c) \/ EndsAppend(c)
  BY <1>1 DEF Follows
<1>6. CASE EndsEach(c)
  <2>1. Owned[c] = mem[c] /\ mem'[c] = mem[c]
    <3>1. job[c].op = "each"
      BY <1>6 DEF EndsEach
    <3>2. Owned[c] = mem[c]
      BY <1>1, <3>1, AtWork
    <3> QED BY <1>1, <3>1, <3>2, ReleaseLeavesMem
  <2>2. Owned' = Owned
    BY <1>2, <1>4, <2>1, OneCallMoves
  <2> QED BY <1>2, <1>4, <1>6, <2>2, EachEnds DEF outcome
<1>7. CASE EndsAppend(c)
  BY <1>2, <1>4, <1>7, AppendEnds DEF outcome
<1> QED BY <1>5, <1>6, <1>7

-----------------------------------------------------------------------------
(* The steps that belong to no call at work.                                *)

LEMMA AllRest ==
  ASSUME FollowInv, \A a \in Callers : Untouched(a)
  PROVE  /\ \A a \in Callers : Follows(a)'
         /\ Phase' = Phase /\ NowText' = NowText /\ Owned' = Owned
<1>1. \A a \in Callers :
        Follows(a)' /\ Phase'[a] = Phase[a] /\ NowText'[a] = NowText[a] /\ Owned'[a] = Owned[a]
  BY UntouchedFollows DEF FollowInv
<1>2. /\ Phase = [a \in Callers |-> Phase[a]] /\ Phase' = [a \in Callers |-> Phase'[a]]
      /\ NowText = [a \in Callers |-> NowText[a]] /\ NowText' = [a \in Callers |-> NowText'[a]]
      /\ Owned = [a \in Callers |-> Owned[a]] /\ Owned' = [a \in Callers |-> Owned'[a]]
  BY DEF Phase, NowText, Owned
<1>3. Phase' = Phase
  BY <1>1, <1>2
<1>4. NowText' = NowText
  BY <1>1, <1>2
<1>5. Owned' = Owned
  BY <1>1, <1>2
<1> QED BY <1>1, <1>3, <1>4, <1>5

LEMMA TickFollows ==
  ASSUME FollowInv, Tick
  PROVE  (\A a \in Callers : Follows(a)') /\ Calls!Tick
<1>1. /\ \A a \in Callers : Follows(a)'
      /\ Phase' = Phase /\ NowText' = NowText /\ Owned' = Owned
  BY IdleUntouched, AllRest DEF FollowInv
<1>2. clock' = clock + 1 /\ clock + 1 \in Times
  BY SizesAssumption DEF Tick, Times, FollowInv, Typed
<1> QED BY <1>1, <1>2 DEF Tick, callVars, Calls!Tick

LEMMA NotSimpleFollows ==
  ASSUME FollowInv, NEW c \in Callers, NotSimple(c)
  PROVE  (\A a \in Callers : Follows(a)') /\ Calls!NotSimple(c)
<1>1. /\ \A a \in Callers : Follows(a)'
      /\ Phase' = Phase /\ NowText' = NowText /\ Owned' = Owned
  BY IdleUntouched, AllRest DEF FollowInv
<1>2. Phase[c] = "idle"
  BY DEF NotSimple, Phase
<1> QED BY <1>1, <1>2 DEF NotSimple, Calls!NotSimple

LEMMA QuietFollows ==
  ASSUME FollowInv, UNCHANGED vars \/ \E s \in States : Collect(s)
  PROVE  (\A a \in Callers : Follows(a)') /\ UNCHANGED Calls!vars
<1>1. /\ \A a \in Callers : Follows(a)'
      /\ Phase' = Phase /\ NowText' = NowText /\ Owned' = Owned
  BY IdleUntouched, AllRest DEF FollowInv
<1>2. UNCHANGED <<clock, callVars>>
  BY DEF Collect, vars, callVars
<1> QED BY <1>1, <1>2 DEF callVars, Calls!vars

LEMMA RecycleFollows ==
  ASSUME FollowInv, CallInv', NEW c \in Callers, Recycle(c)
  PROVE  (\A a \in Callers : Follows(a)') /\ Calls!Recycle(c)
<1>1. OthersRest(c) /\ \A a \in Callers \ {c} : Follows(a)'
  BY IdleUntouched, UntouchedRest DEF FollowInv
<1>2. /\ pc[c] = "idle" /\ mem' = [mem EXCEPT ![c] = <<>>] /\ CallInv /\ Follows(c)
      /\ UNCHANGED <<clock, pool, st, pc, held, callVars>>
  BY DEF Recycle, FollowInv
<1>3. Follows(c)'
  BY <1>2 DEF callVars, Follows
<1>4. /\ Phase[c] = "idle" /\ Phase'[c] = "idle" /\ NowText'[c] = NowText[c]
      /\ Owned'[c] = <<>>
  <2>1. Phase[c] = "idle" /\ NowText[c] = NoTime
    BY <1>2, AtWork
  <2>2. Phase'[c] = "idle" /\ NowText'[c] = NoTime /\ Owned'[c] = mem'[c]
    BY <1>2, AtWorkNext
  <2>3. mem'[c] = <<>>
    BY <1>2 DEF CallInv, CallShaped
  <2> QED BY <2>1, <2>2, <2>3
<1>5. Phase' = Phase /\ NowText' = NowText /\ Owned' = [Owned EXCEPT ![c] = <<>>]
  BY <1>1, <1>4, OneCallMoves
<1>6. Calls!Recycle(c)
  BY <1>2, <1>4, <1>5 DEF callVars, Calls!Recycle
<1> QED BY <1>1, <1>3, <1>6

-----------------------------------------------------------------------------
(* Every step.                                                              *)

LEMMA InitFollows == Init => Typed /\ (\A c \in Callers : Follows(c)) /\ Calls!Init
<1> SUFFICES ASSUME Init PROVE Typed /\ (\A c \in Callers : Follows(c)) /\ Calls!Init
  OBVIOUS
<1>1. Typed
  <2>1. clock \in Times /\ \A b \in Callers \cup States : mem[b] \in Seq(Contents)
    BY SizesAssumption DEF Init, Times
  <2>2. \A s \in States : Sized(st[s])
    BY NewStateSized DEF Init
  <2> QED BY <2>1, <2>2 DEF Init, Typed
<1>2. \A c \in Callers : Follows(c)
  BY DEF Init, Follows
<1>3. Phase = [c \in Callers |-> "idle"]
  BY DEF Init, Phase
<1>4. NowText = [c \in Callers |-> NoTime]
  BY DEF Init, NowText
<1>5. Owned = [c \in Callers |-> <<>>]
  BY DEF Init, Owned
<1>6. Calls!Init
  BY <1>3, <1>4, <1>5, SameDocuments DEF Init, Calls!Init
<1> QED BY <1>1, <1>2, <1>6

LEMMA StepFollows ==
  ASSUME FollowInv, CallInv', [Next]_vars
  PROVE  Typed' /\ (\A c \in Callers : Follows(c)') /\ [Calls!Next]_(Calls!vars)
<1> DEFINE Fine == (\A c \in Callers : Follows(c)') /\ [Calls!Next]_(Calls!vars)
<1>1. Typed'
  BY TypedStep DEF FollowInv
<1>2. ASSUME Tick PROVE Fine
  BY <1>2, TickFollows DEF Calls!Next
<1>3. ASSUME UNCHANGED vars \/ \E s \in States : Collect(s) PROVE Fine
  BY <1>3, QuietFollows
<1>4. ASSUME NEW c \in Callers, Recycle(c) \/ NotSimple(c) PROVE Fine
  BY <1>4, RecycleFollows, NotSimpleFollows DEF Calls!Next
<1>5. ASSUME NEW c \in Callers, NEW s \in States, NEW j \in Calls!Jobs,
             StartPooled(c, s, j) \/ StartNew(c, s, j)
      PROVE  Fine
  BY <1>1, <1>5, StartFollows DEF Calls!Next
<1>6. ASSUME NEW c \in Callers, NEW how \in {"own", "past"}, Scribble(c, how) PROVE Fine
  BY <1>1, <1>6, ScribbleFollows DEF Calls!Next
<1>7. ASSUME NEW c \in Callers, Parse(c) PROVE Fine
  BY <1>1, <1>7, ParseFollows
<1>8. ASSUME NEW c \in Callers, Build(c) PROVE Fine
  BY <1>1, <1>8, BuildFollows DEF Calls!Next
<1>9. ASSUME NEW c \in Callers, Deliver(c) PROVE Fine
  BY <1>1, <1>9, DeliverFollows DEF Calls!Next
<1>10. ASSUME NEW c \in Callers, Return(c) PROVE Fine
  BY <1>1, <1>10, ReturnFollows DEF Calls!Next
<1>11. ASSUME NEW c \in Callers, ReturnError(c) PROVE Fine
  BY <1>1, <1>11, ReturnErrorFollows DEF Calls!Next
<1>12. ASSUME NEW c \in Callers, Panic(c) PROVE Fine
  BY <1>1, <1>12, PanicFollows DEF Calls!Next
<1>13. ASSUME NEW c \in Callers, Release(c) PROVE Fine
  BY <1>1, <1>13, ReleaseFollows DEF Calls!Next
<1>14. ASSUME NEW c \in Callers, Step(c) PROVE Fine
  BY <1>7, <1>8, <1>9, <1>10, <1>11, <1>12, <1>13, <1>14 DEF Step
<1> HIDE DEF Fine
<1>15. Fine
  BY <1>2, <1>3, <1>4, <1>5, <1>6, <1>14 DEF Next
<1> QED BY <1>1, <1>15 DEF Fine

LEMMA FollowInvInvariant == Spec => []FollowInv
<1> DEFINE Follow == Typed /\ \A c \in Callers : Follows(c)
<1>1. Init => Follow
  BY InitFollows
<1>2. CallInv /\ CallInv' /\ Follow /\ [Next]_vars => Follow'
  BY StepFollows DEF FollowInv
<1>3. FollowInv <=> CallInv /\ Follow
  BY DEF FollowInv
<1> HIDE DEF Follow
<1> QED BY <1>1, <1>2, <1>3, CallInvInvariant, PTL DEF Spec

(* Calls that share a pool, and states that are used again and again, behave *)
(* as calls that share nothing: what each shows its callback, appends and    *)
(* returns is what EachCalls makes of its own document, Options and "$now"   *)
(* (Append, Each, build, deliver, release), for any number of callers,       *)
(* states and documents.                                                     *)
THEOREM TransformerImplementsEachCalls == Spec => ImplementsEachCalls
<1>1. Init => Calls!Init
  BY InitFollows
<1>2. FollowInv /\ CallInv' /\ [Next]_vars => [Calls!Next]_(Calls!vars)
  BY StepFollows
<1>3. FollowInv => CallInv
  BY DEF FollowInv
<1> QED BY <1>1, <1>2, <1>3, FollowInvInvariant, PTL DEF Spec, ImplementsEachCalls, Calls!Spec

(* The variables of the engine keep their types (New, Each, Append).         *)
THEOREM TransformerTypeCorrect == Spec => []TypeOK
<1>1. FollowInv => TypeOK
  <2> SUFFICES ASSUME FollowInv PROVE TypeOK
    OBVIOUS
  <2>1. CallInv /\ Typed
    BY DEF FollowInv
  <2>2. \A s \in States :
          /\ DOMAIN st[s] = StateFields
          /\ st[s].out \in Callers \cup States \cup {NoBuf}
          /\ st[s].buf \in Callers \cup States \cup {NoBuf}
          /\ st[s].base \in Nat /\ st[s].rows \in Nat
          /\ st[s].peak \in Nat /\ st[s].small \in Nat
    BY <2>1 DEF Typed, Sized, CallInv, CallShaped, Weighs, OwnInv, Shaped, ExclusiveOwnership
  <2>3. pool \subseteq States /\ DOMAIN st = States
        /\ pc \in [Callers -> {"idle", "parse", "build", "deliver", "callback", "release"}]
        /\ held \in [Callers -> States \cup {NoState}] /\ DOMAIN job = Callers
    BY <2>1 DEF CallInv, OwnInv, Shaped
  <2>4. DOMAIN mem = Callers \cup States /\ DOMAIN shown = Callers
    BY <2>1 DEF CallInv, CallShaped
  <2> QED BY <2>1, <2>2, <2>3, <2>4 DEF Typed, TypeOK
<1> QED BY <1>1, FollowInvInvariant, PTL

=============================================================================
